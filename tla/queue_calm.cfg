\* The orderly requests on two tracks, with crashes: the queue implements its
\* abstract description, and drains.
SPECIFICATION FairSpec
CONSTANTS
    t1 = t1
    t2 = t2
    w1 = w1
    w2 = w2
    m1 = m1
    NoTrack = NoTrack
    Tracks <- TwoTracks
    Workers <- TwoWorkers
    Matchers <- OneMatcher
    MaxJobId = 2
    Requests <- CalmRequests
    Faults = {"crash"}
INVARIANTS
    OneFuturePerTrack
    FutureOwnsItsJob
    TrackFollowsJob
PROPERTIES
    ImplementsJobQueue
