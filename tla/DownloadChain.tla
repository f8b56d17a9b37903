---------------------------- MODULE DownloadChain ----------------------------
(***************************************************************************)
(* How a track gets its file: the run of a download job from its work      *)
(* directory to the row it writes, the provider chain of                   *)
(* services/download_service.py, the two bundled downloaders with the      *)
(* circuit breaker of SpotiFLAC, the verdict of                            *)
(* services/verification_service.py and the manual match.                  *)
(*                                                                         *)
(* A downloader starts a command line program that writes into the work    *)
(* directory of the job.  Its own timeout kills the program; the timeout   *)
(* of the plugin manager only gives the call up, and the program goes on.  *)
(***************************************************************************)
EXTENDS Integers, FiniteSets, Sequences

CONSTANTS
    Jobs,           \* each for a track of its own
    Twins,          \* pairs of jobs whose tracks are one recording
    SpotiFLAC, YtDlp,   \* the providers, in the order of their priorities
    None,
    Enabled,        \* sets of providers that can be enabled at a time
    URLs,           \* kinds of URLs that users give a manual match
    Audio,          \* the files a provider can produce
    Heard,          \* what the fingerprint providers may say of a file
    CheckDuration,  \* enable_duration_check, and the track has a duration
    RejectMismatches,   \* the setting reject_mismatches
    Tries,          \* attempts of SpotiFLAC, candidates of yt-dlp
    MaxCool,        \* longest cool-down, in steps of thirty seconds
    MaxStarts       \* bound: runs of jobs

Providers == {SpotiFLAC, YtDlp}
Tags == {"right", "variant", "other", "none", "corrupt"}
Evidence == {"agrees", "contradicts", "weak", "weak_other", "error"}
Verdicts == {"verified", "mismatch", "uncertain", "provider_error", "copied", "matched", "kept"}

ASSUME ChainJobs == IsFiniteSet(Jobs)
ASSUME ChainNames ==
    /\ SpotiFLAC # YtDlp
    /\ None \notin Jobs /\ None \notin Providers /\ None \notin Audio /\ None \notin Verdicts
ASSUME ChainEnabled == Enabled \subseteq SUBSET Providers
ASSUME ChainURLs == URLs \subseteq {"spotify", "youtube", "search"}
ASSUME ChainTwins == Twins \subseteq Jobs \X Jobs
ASSUME ChainAudio == Audio \subseteq [tags : Tags, fits : BOOLEAN]
ASSUME ChainHeard == Heard \in [Audio -> SUBSET SUBSET Evidence]
ASSUME ChainFlags == CheckDuration \in BOOLEAN /\ RejectMismatches \in BOOLEAN
ASSUME ChainBounds == Tries \in [Providers -> Nat \ {0}] /\ MaxCool \in Nat \ {0} /\ MaxStarts \in Nat

VARIABLES
    job,        \* the run of each job
    dir,        \* its work directory
    stray,      \* programs of calls that were given up and still run
    holder,     \* who has _spotiflac_lock
    breaker,    \* the circuit breaker: cool-down left, consecutive 429s and, as
                \* history, the attempts it must still let pass
    track,      \* the row, with how its file was judged
    starts      \* runs started so far

vars == <<job, dir, stray, holder, breaker, track, starts>>

\* The audio files of a work directory, by who wrote them, and the latest.
Directory == [files : [Providers -> Audio \cup {None}], newest : Providers \cup {None}]
\* What became of a provider: "over" when it was limited, unable, failed or
\* rejected; history but for "unable".
Fates == {"untried", "unable", "cut", "over", "given"}

Idle == [pc |-> "idle"]
Run == [pc : {"begin", "gate", "lock", "cli", "inspect", "judge", "finish"},
        manual : BOOLEAN, plan : Seq(Providers), i : Nat \ {0}, try : Nat,
        file : Providers \cup {None}, seen : Audio \cup {None},
        verdict : Verdicts \cup {None}, fate : [Providers -> Fates]]
\* A row: its file and caution, and as history how the file was judged and
\* whether it may have changed since.
NoFile == [what |-> None, caution |-> FALSE, verdict |-> None, judged |-> None, cut |-> FALSE]
Row == [what : Audio \cup {None}, caution : BOOLEAN, verdict : Verdicts \cup {None},
        judged : Audio \cup {None}, cut : BOOLEAN]

-----------------------------------------------------------------------------
\* The work directory

Empty == [files |-> [p \in Providers |-> None], newest |-> None]
Content(d, p) == d.files[p]

Write(d, p, a) == [files |-> [d.files EXCEPT ![p] = a], newest |-> p]

\* A directory has two files at most: what is left is the newest.
Deleted(d, p) ==
    LET left == {q \in Providers \ {p} : Content(d, q) # None}
    IN  [files |-> [d.files EXCEPT ![p] = None],
         newest |-> IF left = {} THEN None ELSE CHOOSE q \in left : TRUE]

\* The audio file with the latest modification time, whoever wrote it.
Latest(d) == d.newest

-----------------------------------------------------------------------------
\* Verification

\* verify_audio_file: tags that are there must fit, and so must the length.
Plausible(a, check) == a.tags \in {"right", "none"} /\ (check => a.fits)

\* VerificationService._decide, on the evidence of the file and of the
\* fingerprint providers.  A title inside a longer one matches, so the tags
\* of a variant (live, cover, remix) do.
Contrary(a, check) == a.tags = "other" \/ (check /\ a.tags # "corrupt" /\ ~a.fits)
Confirming(a, check) == a.tags \in {"right", "variant"} /\ (check => a.fits)

DecideErrorFirst(a, check, fp) ==
    IF "error" \in fp THEN "provider_error"
    ELSE IF "agrees" \in fp \/ Confirming(a, check) THEN "verified"
    ELSE "uncertain"

Decide(a, check, fp) ==
    CASE "agrees" \in fp -> "verified"
      [] "contradicts" \in fp /\ "agrees" \notin fp -> "mismatch"
      [] fp \cap {"agrees", "contradicts"} = {} ->
            CASE "weak" \in fp -> "verified"
              [] "weak" \notin fp /\ Contrary(a, check) -> "mismatch"
              [] "weak" \notin fp /\ Confirming(a, check) -> "verified"
              [] OTHER -> IF "error" \in fp /\ a.tags = "corrupt"
                          THEN "provider_error" ELSE "uncertain"

\* A timed-out or failing fingerprint provider returns None through
\* invoke_provider, which is no evidence.
Delivered(fp) == fp \ {"error"}

Verdict(a, fp) == Decide(a, CheckDuration, Delivered(fp))

-----------------------------------------------------------------------------
\* The circuit breaker

Open == [cool |-> 0, strikes |-> 0, spare |-> 0]

\* The back-off stops growing at MaxCool steps, and so does the count here.
StruckUncapped(b, left) ==
    [cool |-> b.strikes + 1, strikes |-> b.strikes + 1,
     spare |-> IF b.cool = 0 THEN left ELSE b.spare]

Struck(b, left) ==
    LET n == IF b.strikes < MaxCool THEN b.strikes + 1 ELSE MaxCool
    IN  [cool |-> n, strikes |-> n, spare |-> IF b.cool = 0 THEN left ELSE b.spare]

LimitedLate(p) == p = SpotiFLAC /\ breaker.cool > 1

Limited(p) == p = SpotiFLAC /\ breaker.cool > 0

-----------------------------------------------------------------------------
\* The chain

Provider(j) == job[j].plan[job[j].i]

\* The program of SpotiFLAC is started under the lock.
Starting(p) == IF p = SpotiFLAC THEN "lock" ELSE "cli"

\* The current provider came to the given end.
Ended(r, fate) == [r.fate EXCEPT ![r.plan[r.i]] = fate]

PassedStops(r, fate) ==
    [r EXCEPT !.pc = "finish", !.try = 0, !.file = None, !.fate = Ended(r, fate)]

\* The next provider.
Passed(r, fate) ==
    [r EXCEPT !.pc = "gate", !.i = @ + 1, !.try = 0, !.file = None,
              !.fate = Ended(r, fate)]

\* The downloader hands its file over.
Given(r, p) ==
    [r EXCEPT !.pc = "inspect", !.file = p, !.fate = Ended(r, "given")]

\* After an attempt without a file: the next one, or the next provider.  A
\* provider one of whose programs was killed may have left a piece of a file.
AgainUncounted(r, cut) ==
    IF cut THEN [r EXCEPT !.pc = Starting(r.plan[r.i]), !.fate = Ended(r, "cut")]
    ELSE IF r.try < Tries[r.plan[r.i]]
    THEN [r EXCEPT !.pc = Starting(r.plan[r.i]), !.try = @ + 1]
    ELSE Passed(r, "over")

Again(r, cut) ==
    LET p == r.plan[r.i]
        fate == IF cut \/ r.fate[p] = "cut" THEN "cut" ELSE r.fate[p]
    IN  IF r.try < Tries[p]
        THEN [r EXCEPT !.pc = Starting(p), !.try = @ + 1, !.fate = Ended(r, fate)]
        ELSE Passed(r, IF fate = "cut" THEN "cut" ELSE "over")

\* History: the attempts, by job and number, that the calls of SpotiFLAC past
\* the gate have not begun.
Pending ==
    {a \in Jobs \X (1..Tries[SpotiFLAC]) :
        LET r == job[a[1]] IN
        \/ r.pc = "lock" /\ r.try <= a[2]
        \/ r.pc = "cli" /\ Provider(a[1]) = SpotiFLAC /\ r.try < a[2]}

Released(j) == IF holder = j THEN None ELSE holder

StartedRun(manual, plan, pc) ==
    [pc |-> pc, manual |-> manual, plan |-> plan, i |-> 1, try |-> 0,
     file |-> None, seen |-> None, verdict |-> None,
     fate |-> [p \in Providers |-> "untried"]]

\* The worker loop starts a job, which makes its work directory.
Begin(j) ==
    /\ job[j].pc = "idle" /\ starts < MaxStarts
    /\ starts' = starts + 1
    /\ job' = [job EXCEPT ![j] = StartedRun(FALSE, <<>>, "begin")]
    /\ dir' = [dir EXCEPT ![j] = Empty]
    /\ UNCHANGED <<stray, holder, breaker, track>>

\* A manual match tries the provider its URL is for and then the other one;
\* for a search only yt-dlp can handle the request.
MatchPlan(url) ==
    CASE url = "spotify" -> <<SpotiFLAC, YtDlp>>
      [] url = "youtube" -> <<YtDlp, SpotiFLAC>>
      [] url = "search" -> <<YtDlp>>

Match(j, url) ==
    /\ job[j].pc = "idle" /\ starts < MaxStarts
    /\ starts' = starts + 1
    /\ job' = [job EXCEPT ![j] = StartedRun(TRUE, MatchPlan(url), "gate")]
    /\ dir' = [dir EXCEPT ![j] = Empty]
    /\ UNCHANGED <<stray, holder, breaker, track>>

\* Another track of the same recording that has its file: it is copied into
\* the place of this one, and nothing is verified.
Twin(j, k) == k # j /\ <<j, k>> \in Twins /\ track[k].what # None

Reuse(j) ==
    /\ job[j].pc = "begin"
    /\ \E k \in Jobs :
        /\ Twin(j, k)
        /\ job' = [job EXCEPT ![j] = [@ EXCEPT !.pc = "finish", !.seen = track[k].what,
                                               !.verdict = "copied"]]
    /\ UNCHANGED <<dir, stray, holder, breaker, track, starts>>

\* The list of providers is read once: those that are enabled now, and
\* SpotiFLAC can handle the request only if a Spotify link was found.  With
\* no provider the run goes to its end.
Plan(on) == (IF SpotiFLAC \in on THEN <<SpotiFLAC>> ELSE <<>>)
            \o (IF YtDlp \in on THEN <<YtDlp>> ELSE <<>>)

Resolve(j, on, link) ==
    /\ job[j].pc = "begin"
    /\ ~\E k \in Jobs : Twin(j, k)
    /\ LET r == job[j]
           fate == [r.fate EXCEPT ![SpotiFLAC] = IF link THEN "untried" ELSE "unable"]
       IN  job' = [job EXCEPT ![j] =
            IF on = {} THEN [r EXCEPT !.pc = "finish"]
            ELSE [r EXCEPT !.pc = "gate", !.plan = Plan(on), !.fate = fate]]
    /\ UNCHANGED <<dir, stray, holder, breaker, track, starts>>

\* A run that finds a cancellation before the chain goes to its end.  The
\* requests themselves are in DownloadQueue; a run sees one or does not.
Abandon(j) ==
    /\ job[j].pc = "begin"
    /\ job' = [job EXCEPT ![j] = [@ EXCEPT !.pc = "finish"]]
    /\ UNCHANGED <<dir, stray, holder, breaker, track, starts>>

\* The gates before a call, or the end of the list.
Gate(j) ==
    /\ job[j].pc = "gate"
    /\ LET r == job[j] IN
       job' = [job EXCEPT ![j] =
          IF r.i > Len(r.plan) THEN [r EXCEPT !.pc = "finish"]
          ELSE LET p == r.plan[r.i] IN
               CASE Limited(p) -> Passed(r, "over")
                 [] ~Limited(p) /\ r.fate[p] = "unable" -> Passed(r, "over")
                 [] OTHER -> [r EXCEPT !.pc = Starting(p), !.try = 1]]
    /\ UNCHANGED <<dir, stray, holder, breaker, track, starts>>

\* The lock is taken.  The cool-down is looked at and logged as waited for,
\* yet nothing waits: a call already past the gate goes on.
Acquire(j) ==
    /\ job[j].pc = "lock" /\ holder = None
    /\ holder' = j
    /\ job' = [job EXCEPT ![j] = [@ EXCEPT !.pc = "cli"]]
    /\ breaker' = IF breaker.cool > 0 THEN [breaker EXCEPT !.spare = @ - 1] ELSE breaker
    /\ UNCHANGED <<dir, stray, track, starts>>

\* The program of SpotiFLAC ends, with or without a file, and its output may
\* show a 429.  Any audio file in the directory is a success.
SpotiFLACEnds(j, limited) ==
    /\ job[j].pc = "cli" /\ Provider(j) = SpotiFLAC
    /\ \E d \in {dir[j]} \cup {Write(dir[j], SpotiFLAC, a) : a \in Audio} :
        /\ dir' = [dir EXCEPT ![j] = d]
        /\ IF Latest(d) # None
           THEN /\ breaker' = Open
                /\ job' = [job EXCEPT ![j] = Given(@, Latest(d))]
           ELSE /\ breaker' = IF limited THEN Struck(breaker, Cardinality(Pending)) ELSE breaker
                /\ job' = [job EXCEPT ![j] = Again(@, FALSE)]
    /\ holder' = Released(j)
    /\ UNCHANGED <<stray, track, starts>>

\* yt-dlp ends for a candidate.  The latest file is checked; a wrong one is
\* deleted unless the fingerprint says it is the track after all.  The manual
\* match switches the check of the duration off.
YtDlpEnds(j) ==
    /\ job[j].pc = "cli" /\ Provider(j) = YtDlp
    /\ \E d \in {dir[j]} \cup {Write(dir[j], YtDlp, a) : a \in Audio} :
        IF Latest(d) = None
        THEN /\ dir' = [dir EXCEPT ![j] = d]
             /\ job' = [job EXCEPT ![j] = Again(@, FALSE)]
        ELSE LET p == Latest(d)
                 a == Content(d, p)
                 fits == Plausible(a, CheckDuration /\ ~job[j].manual)
             IN  \/ /\ fits \/ \E fp \in Heard[a] : "agrees" \in fp
                    /\ dir' = [dir EXCEPT ![j] = d]
                    /\ job' = [job EXCEPT ![j] = Given(@, p)]
                 \/ /\ ~fits
                    /\ dir' = [dir EXCEPT ![j] = Deleted(d, p)]
                    /\ job' = [job EXCEPT ![j] = Again(@, FALSE)]
    /\ UNCHANGED <<stray, holder, breaker, track, starts>>

\* The downloader's own timeout kills the program and looks at no file; what
\* was written stays, and is seldom the whole track.
CliTimesOut(j) ==
    /\ job[j].pc = "cli"
    /\ \E d \in {dir[j]} \cup
            {Write(dir[j], Provider(j), a) : a \in {b \in Audio : ~b.fits}} :
        dir' = [dir EXCEPT ![j] = d]
    /\ job' = [job EXCEPT ![j] = Again(@, TRUE)]
    /\ holder' = Released(j)
    /\ UNCHANGED <<stray, breaker, track, starts>>

\* invoke_provider's timeout raises out of the call, which leaves the lock;
\* nobody kills the program.
HookTimesOut(j) ==
    /\ job[j].pc \in {"lock", "cli"}
    /\ stray' = IF job[j].pc = "cli"
                THEN [stray EXCEPT ![j] = @ \cup {Provider(j)}] ELSE stray
    /\ job' = [job EXCEPT ![j] = Passed(@, "cut")]
    /\ holder' = Released(j)
    /\ UNCHANGED <<dir, breaker, track, starts>>

\* A program nobody waits for writes its file and ends, or ends without.
StrayEnds(j, p) ==
    /\ p \in stray[j]
    /\ stray' = [stray EXCEPT ![j] = @ \ {p}]
    /\ \E d \in {dir[j]} \cup {Write(dir[j], p, a) : a \in Audio} :
        dir' = [dir EXCEPT ![j] = d]
    /\ UNCHANGED <<job, holder, breaker, track, starts>>

\* The manual match looks at the file once, without fingerprints, and has no
\* further provider to turn to.
InspectMatch(j) ==
    /\ job[j].pc = "inspect" /\ job[j].manual
    /\ LET a == Content(dir[j], job[j].file) IN
       job' = [job EXCEPT ![j] =
            IF Plausible(a, CheckDuration)
            THEN [@ EXCEPT !.pc = "finish", !.seen = a, !.verdict = "matched"]
            ELSE [@ EXCEPT !.pc = "finish", !.file = None]]
    /\ UNCHANGED <<dir, stray, holder, breaker, track, starts>>

\* The tags and the length are read, then the fingerprint providers asked.
Inspect(j) ==
    /\ job[j].pc = "inspect" /\ ~job[j].manual
    /\ LET seen == Content(dir[j], job[j].file)
       IN  job' = [job EXCEPT ![j] = [@ EXCEPT !.pc = "judge", !.seen = seen]]
    /\ UNCHANGED <<dir, stray, holder, breaker, track, starts>>

JudgeKeeps(j) ==
    /\ job[j].pc = "judge"
    /\ \E fp \in Heard[Content(dir[j], job[j].file)] :
        LET verdict == Verdict(job[j].seen, fp) IN
        job' = [job EXCEPT ![j] = IF verdict \in {"verified", "mismatch"}
            THEN [@ EXCEPT !.pc = "finish", !.verdict = verdict]
            ELSE Passed([@ EXCEPT !.seen = None], "over")]
    /\ UNCHANGED <<dir, stray, holder, breaker, track, starts>>

\* A verified file and one that is another song end the chain; the caution
\* goes with the latter.  Any other file is rejected.
Judge(j) ==
    /\ job[j].pc = "judge"
    /\ \E fp \in Heard[Content(dir[j], job[j].file)] :
        LET verdict == Verdict(job[j].seen, fp) IN
        IF verdict \in {"verified", "mismatch"}
        THEN /\ job' = [job EXCEPT ![j] = [@ EXCEPT !.pc = "finish", !.verdict = verdict]]
             /\ UNCHANGED dir
        ELSE /\ dir' = IF RejectMismatches
                       THEN [dir EXCEPT ![j] = Deleted(@, job[j].file)] ELSE dir
             /\ job' = [job EXCEPT ![j] = Passed([@ EXCEPT !.seen = None], "over")]
    /\ UNCHANGED <<stray, holder, breaker, track, starts>>

\* What the run has to show: a file, and whether the row is to warn of it.
Produced(j) == job[j].verdict # None
CautionedFirst(j) == job[j].verdict = "mismatch" /\ job[j].i = 1
Cautioned(j) == job[j].verdict = "mismatch"

\* The run ends: a cancelled job writes no file, a run with a file writes the
\* row, which keeps a caution it had, and the work directory is removed.  A
\* manual match does not look at cancellations.
Finish(j, cancelled) ==
    /\ job[j].pc = "finish" /\ (cancelled => ~job[j].manual)
    /\ LET r == job[j]
           audio == IF r.verdict = "copied" THEN r.seen ELSE Content(dir[j], r.file)
       IN  track' =
            IF cancelled \/ ~Produced(j) THEN track
            ELSE [track EXCEPT ![j] =
                    [what |-> audio, caution |-> @.caution \/ Cautioned(j),
                     verdict |-> r.verdict, judged |-> r.seen,
                     cut |-> r.seen # audio /\ \E p \in Providers : r.fate[p] = "cut"]]
    /\ job' = [job EXCEPT ![j] = Idle]
    /\ dir' = [dir EXCEPT ![j] = Empty]
    /\ stray' = [stray EXCEPT ![j] = {}]
    /\ UNCHANGED <<holder, breaker, starts>>

-----------------------------------------------------------------------------
\* The surroundings

\* The user keeps a cautioned file, or has it deleted.
KeepCautioned(j) ==
    /\ track[j].caution
    /\ track' = [track EXCEPT ![j].caution = FALSE, ![j].verdict = "kept"]
    /\ UNCHANGED <<job, dir, stray, holder, breaker, starts>>

\* "Identify this file": the user takes a candidate of the fingerprint
\* providers, whatever the caution said.
Identify(j) ==
    /\ track[j].what # None
    /\ track' = [track EXCEPT ![j].caution = FALSE, ![j].verdict = "kept"]
    /\ UNCHANGED <<job, dir, stray, holder, breaker, starts>>

DeleteCautioned(j) ==
    /\ track[j].caution
    /\ track' = [track EXCEPT ![j] = NoFile]
    /\ UNCHANGED <<job, dir, stray, holder, breaker, starts>>

\* Half a minute of the cool-down passes.
Cool ==
    /\ breaker.cool > 0
    /\ breaker' = [breaker EXCEPT !.cool = @ - 1,
                                  !.spare = IF breaker.cool = 1 THEN 0 ELSE @]
    /\ UNCHANGED <<job, dir, stray, holder, track, starts>>

\* network.route_changed: a fresh address closes the circuit.
RouteChanged ==
    /\ breaker.strikes > 0
    /\ breaker' = Open
    /\ UNCHANGED <<job, dir, stray, holder, track, starts>>

\* A crash ends the programs too; the boot purges the work directories.
Restart ==
    /\ \E j \in Jobs : job[j].pc # "idle"
    /\ job' = [j \in Jobs |-> Idle]
    /\ dir' = [j \in Jobs |-> Empty]
    /\ stray' = [j \in Jobs |-> {}]
    /\ holder' = None
    /\ breaker' = Open
    /\ UNCHANGED <<track, starts>>

Init ==
    /\ job = [j \in Jobs |-> Idle]
    /\ dir = [j \in Jobs |-> Empty]
    /\ stray = [j \in Jobs |-> {}]
    /\ holder = None
    /\ breaker = Open
    /\ track = [j \in Jobs |-> NoFile]
    /\ starts = 0

\* What a run does by itself, and what ends a program that hangs.
Proceed(j) ==
    \/ Reuse(j) \/ Abandon(j) \/ Gate(j) \/ Acquire(j)
    \/ \E on \in Enabled, link \in BOOLEAN : Resolve(j, on, link)
    \/ Inspect(j) \/ InspectMatch(j) \/ Judge(j)
    \/ \E cancelled \in BOOLEAN : Finish(j, cancelled)
TimesOut(j) == CliTimesOut(j) \/ HookTimesOut(j)

Next ==
    \/ \E j \in Jobs :
        \/ Proceed(j) \/ TimesOut(j)
        \/ Begin(j) \/ KeepCautioned(j) \/ Identify(j) \/ DeleteCautioned(j)
        \/ \E url \in URLs : Match(j, url)
        \/ \E limited \in BOOLEAN : SpotiFLACEnds(j, limited)
        \/ YtDlpEnds(j)
        \/ \E p \in Providers : StrayEnds(j, p)
    \/ Cool \/ RouteChanged \/ Restart

\* No program has to end; a timeout ends the wait for it.
Fairness == \A j \in Jobs : WF_vars(Proceed(j) \/ TimesOut(j))

Spec == Init /\ [][Next]_vars /\ Fairness

-----------------------------------------------------------------------------
\* Properties

\* Every variable has its type.
TypeOK ==
    /\ job \in [Jobs -> {Idle} \cup Run]
    /\ dir \in [Jobs -> Directory]
    /\ stray \in [Jobs -> SUBSET Providers]
    /\ holder \in Jobs \cup {None}
    /\ breaker \in [cool : 0..MaxCool, strikes : 0..MaxCool, spare : Int]
    /\ breaker.cool <= breaker.strikes
    /\ track \in [Jobs -> Row]
    /\ starts \in 0..MaxStarts

\* A row without a caution has a file that was verified, copied from another
\* track, matched by hand or kept by the user, and it is the file as it was
\* judged unless a call that was given up may have written it again.
\* (_verify_or_rescue, the finalization of both kinds of runs.)
UnflaggedIsVouched ==
    \A j \in Jobs : (track[j].what # None /\ ~track[j].caution) =>
        /\ track[j].verdict \in {"verified", "copied", "matched", "kept"}
        /\ track[j].verdict = "matched" => Plausible(track[j].judged, CheckDuration)
        /\ track[j].what = track[j].judged \/ track[j].cut

\* The file a provider hands over as its own is its own, except for the piece
\* that a provider before it left when a timeout cut it off: a file that was
\* rejected cannot come back as the success of the next provider, which would
\* also close the circuit breaker.
LeftoverMeansCut ==
    \A j \in Jobs :
        (job[j].pc \in {"inspect", "judge", "finish"} /\ job[j].file # None) =>
            job[j].file = Provider(j) \/ job[j].fate[job[j].file] = "cut"

\* The chain comes to its end without a file only after every provider of its
\* list had its say, and to a file only after those before its provider had.
AllHeard ==
    \A j \in Jobs : (job[j].pc = "finish" /\ ~job[j].manual) =>
        \A n \in DOMAIN job[j].plan :
            (job[j].verdict = None \/ n < job[j].i) =>
                job[j].fate[job[j].plan[n]] \notin {"untried", "given"}

\* Whatever file is under judgement and whatever the fingerprint providers say
\* of it: it is called another song only on evidence against it, never because
\* a fingerprint provider was silent, absent or in error; it is called verified
\* only on evidence for it; and an error changes neither verdict.
\* (The semantics at the top of verification_service.py.)
DecidesOnEvidence ==
    (\E j \in Jobs : job[j].pc = "judge") =>
        \A a \in [tags : Tags, fits : BOOLEAN], fp \in SUBSET Evidence :
            LET verdict == Decide(a, CheckDuration, fp)
                unerring == Decide(a, CheckDuration, fp \ {"error"}) IN
            /\ verdict = "mismatch" => "contradicts" \in fp \/ Contrary(a, CheckDuration)
            /\ verdict = "verified" => \/ fp \cap {"agrees", "weak"} # {}
                                       \/ Confirming(a, CheckDuration) /\ "contradicts" \notin fp
            /\ verdict = unerring \/ {verdict, unerring} \subseteq {"uncertain", "provider_error"}

\* During a cool-down the upstream sees no more programs than the calls that
\* were past the gate when it began still had attempts.
OutageSpared == breaker.spare >= 0

\* Every run comes to its end, although a program may hang for ever and the
\* lock may be held by one that does.
JobEnds == \A j \in Jobs : job[j].pc # "idle" ~> job[j].pc = "idle"
=============================================================================
