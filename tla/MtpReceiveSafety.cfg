SPECIFICATION FairSpec
CONSTANTS
    i0 = i0
    i3 = i3
    p1 = p1
    p2 = p2
    u3 = u3
    NoObject = NoObject
    Scrap = Scrap
    Objects <- MCObjects
    Object <- MCObject
    Hosts <- MCOneStorageHosts
    WireCapacity = 2
    MaxRequests = 4
    FailingCalls <- MCFallibleCalls
INVARIANT ConfirmedMeansStored
INVARIANT StoredIsOwn
INVARIANT DatabaseAgrees
INVARIANT StagingIsEmpty
INVARIANT DrainedIsAligned
INVARIANT SizedRejectionIsReported
PROPERTY SendObjectEnds
PROPERTY StopReturns
