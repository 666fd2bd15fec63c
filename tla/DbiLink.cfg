SPECIFICATION Spec
CONSTANTS
    FileA = FileA
    FileB = FileB
    Files <- MCFiles
    Ranges <- MCRanges
    Sizes = {0, 3}
    Chunk = 2
    Capacity = 2
    None = None
    Torn = Torn
    MaxRequests = 3
    MaxServers = 2
    MaxChanges = 1
CHECK_DEADLOCK FALSE
INVARIANTS
    InStep
    SummaryIsRight
PROPERTIES
    AnswersAreRight
    RequestEnds
