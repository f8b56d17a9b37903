SPECIFICATION Spec
CONSTANTS
    t1 = t1
    t2 = t2
    j1 = j1
    m1 = m1
    NoTrack = NoTrack
    Tracks <- OneTrack
    Num <- First
    Disc <- First
    Formats = {"opus", "flac"}
    Delivered <- Upgrade
    Jobs = {j1}
    Matches = {m1}
    MaxEvents = 2
    Requests = {"userDelete", "userMove", "delete", "reverify", "import",
                "maintenance", "lockedDb", "crash"}
INVARIANTS TypeOK DiskFollows
PROPERTY DeletionNoticed
