\* Configuration strings, their parameters taken in every order, and setters.
CONSTANTS
    Confs <- MCConfs
    Calls <- MCCalls
    MaxGiven = 4
SPECIFICATION Spec
INVARIANTS OrderFree HoldsWhatWasAsked AuthAsDocumented RootsAsAsked
CHECK_DEADLOCK FALSE
