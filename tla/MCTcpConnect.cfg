\* Challenges of two bytes at most, handshakes of two pieces; without a
\* timeout, one wait longer than all may be with one of 2.
CONSTANTS
    Builders <- MCBuilders
    HsLen = 2
    Challenges <- MCChallenges
    MaxTicks = 13
SPECIFICATION Spec
INVARIANTS AllOrNothing KeysGuarded SignsTheChallenge WaitBounded
PROPERTIES ConnectEnds
