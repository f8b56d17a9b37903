\* The process restarts while a manual match downloads.
SPECIFICATION Spec
CONSTANTS
    NoTrack = NoTrack
    Tracks = {t1}
    Workers = {w1}
    Matchers = {m1}
    MaxJobId = 1
    Requests = {"queue", "match"}
    Faults = {"crash"}
PROPERTIES
    InterruptedIsRequeued
