SPECIFICATION Spec
CONSTANTS
    root = root
    inbox = inbox
    staging = staging
    kept = kept
    folder = folder
    inner = inner
    package = package
    save = save
    slot = slot
    sd = sd
    safeInbox = safeInbox
    install = install
    saves = saves
    NoPath = NoPath
    Staging = staging
    Paths <- MCPaths
    Up <- MCUp
    Disk <- MCDisk
    Storages <- MCStorages
    Storage <- MCStorage
    Seeds <- MCSeeds
    Sendable <- MCSendable
    MaxHandle = 5
    Frozen <- MCFrozen
    EditSizes = {2}
    MaxEdits = 1
    FailingCalls <- MCFallible
    UIntSpan = 8
    BufferSize = 2
    HeaderSize = 1
INVARIANT HandleMeansOneObject
INVARIANT ObjectsFormTrees
 
 
INVARIANT ReadsAreWhole
PROPERTY OnlySentOrEdited
