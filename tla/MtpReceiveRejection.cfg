SPECIFICATION Spec
CONSTANTS
    i0 = i0
    i3 = i3
    p1 = p1
    p2 = p2
    u3 = u3
    NoObject = NoObject
    Scrap = Scrap
    Objects <- MCObjects
    Object <- MCObject
    Hosts <- MCInstallHost
    WireCapacity = 2
    MaxRequests = 3
    FailingCalls <- MCSinkWriteFails
INVARIANT RejectionIsReported
