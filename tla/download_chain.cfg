SPECIFICATION Spec
CONSTANTS
    j1 = j1
    j2 = j2
    SpotiFLAC = SpotiFLAC
    YtDlp = YtDlp
    None = None
    Jobs <- MCJobs
    Twins <- MCTwins
    Enabled <- MCEnabled
    URLs = {"search"}
    Audio <- MCAudio
    Heard <- MCHeard
    CheckDuration = TRUE
    RejectMismatches = TRUE
    Tries <- MCTries
    MaxCool = 2
    MaxStarts = 2
INVARIANTS TypeOK UnflaggedIsVouched LeftoverMeansCut AllHeard DecidesOnEvidence OutageSpared
PROPERTY JobEnds
CHECK_DEADLOCK FALSE
