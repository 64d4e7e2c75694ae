\* Five tests, eight command lines, two faults.
CONSTANTS
    Tests <- MCTests
    Options <- MCOptions
    MaxFaults = 2
SPECIFICATION Spec
INVARIANTS EveryLeafOnce ReportsHold ExitTells
