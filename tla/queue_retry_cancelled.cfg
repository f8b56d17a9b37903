\* A job that failed, or was cancelled, is asked for again.
SPECIFICATION IntentSpec
CONSTANTS
    NoTrack = NoTrack
    Tracks = {t1}
    Workers = {w1}
    Matchers = {m1}
    MaxJobId = 1
    Requests = {"queue", "cancel", "retry"}
    Faults = {}
PROPERTIES
    OnlyCancelledOnRequest
