SPECIFICATION Spec
CONSTANTS
    a = a
    b = b
    m1 = m1
    m2 = m2
    k1 = k1
    k2 = k2
    s1 = s1
    nsp = nsp
    collection = collection
    broken = broken
    resized = resized
    unpaired = unpaired
    short = short
    foreign = foreign
    dlc = dlc
    torn = torn
    NoMeta = NoMeta
    NoPackage = NoPackage
    ContentId <- MCContentId
    CnmtId <- MCCnmtId
    Keys <- MCKeys
    Stems <- MCStems
    Package <- MCPackage
    Cnmt <- MCCnmt
    NcaHeaderSize = 1
    MaxSidecar = 1
    MaxCnmt = 2
    Packages = {collection, broken}
    FailingCalls <- MCRollbackWorks
    CanCrash = FALSE
INVARIANT FailedCollectionLeavesNoRecord
