SPECIFICATION FairSpec
CONSTANTS
    MaxSize = 3
    Calls <- MCCalls
    MaxCalls = 3
    MaxMessages = 3
    MaxChanges = 4
INVARIANT ReadsOnePiece
INVARIANT LossIsTold
INVARIANT WritesAreWhole
PROPERTY ReadEnds
CHECK_DEADLOCK FALSE
