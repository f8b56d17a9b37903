SPECIFICATION Spec
CONSTANTS
    t1 = t1
    t2 = t2
    j1 = j1
    m1 = m1
    NoTrack = NoTrack
    Tracks <- TwoTracks
    Num <- SameNumber
    Disc <- TwoDiscs
    Formats = {"opus", "flac"}
    Delivered <- OneFormat
    Jobs = {j1}
    Matches = {}
    MaxEvents = 2
    Requests = {}
PROPERTY CleanupKeepsOthers
