\* Every kind of request and of fault against one track and one rowid: two
\* futures for one job, and rowids given again, are all there.
SPECIFICATION Spec
CONSTANTS
    t1 = t1
    t2 = t2
    w1 = w1
    w2 = w2
    m1 = m1
    NoTrack = NoTrack
    Tracks <- OneTrack
    Workers <- TwoWorkers
    Matchers <- OneMatcher
    MaxJobId = 1
    Requests <- RequestKinds
    Faults <- FaultKinds
SYMMETRY PoolSymmetry
INVARIANTS
    TypeOK
    DownloadingHasFuture
PROPERTIES
    DownloadedIsKept
