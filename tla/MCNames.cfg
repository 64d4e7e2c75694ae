\* All names of at most four characters and all values of at most four bytes.
CONSTANTS
    MaxName = 4
    MaxText = 4
SPECIFICATION Spec
INVARIANTS AcceptsExactly RoomIsExact ReadsBack
