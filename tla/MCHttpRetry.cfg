\* A budget for up to three retries, slow requests, late wake-ups.
CONSTANTS
    Codes <- MCCodes
    RetryTimeout = 60
    RequestTimeout = 2
    MaxOversleep = 2
SPECIFICATION HttpSpec
INVARIANTS DurationBounded LastOutcomeReturned OkMeansApplied
PROPERTIES Returns ImplementsHttpSend
