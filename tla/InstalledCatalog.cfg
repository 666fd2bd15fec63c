SPECIFICATION FairSpec
CONSTANTS
    a = a
    b = b
    c = c
    d = d
    Apps <- MCApps
    WithIcon <- MCWithIcon
    Untitled <- MCUntitled
    Lists <- MCLists
    Batch = 2
    MaxCount = 8
    MaxFaults = 3
INVARIANT FilesAreWhole
INVARIANT NothingMissingSilently
INVARIANT ServedIsCurrent
PROPERTY GenerateEnds
