\* A downloaded track is deleted, then its album is queued.
SPECIFICATION Spec
CONSTANTS
    NoTrack = NoTrack
    Tracks = {t1}
    Workers = {w1}
    Matchers = {m1}
    MaxJobId = 1
    Requests = {"queue", "deleteTrack"}
    Faults = {}
INVARIANTS
    MissingCanBeQueued
