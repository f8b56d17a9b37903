------------------------ MODULE DownloadChain_proofs ------------------------
(***************************************************************************)
(* That the invariants of DownloadChain hold in every reachable state, for *)
(* every set of jobs, of kinds of files and of evidence.                   *)
(***************************************************************************)
EXTENDS DownloadChain, FiniteSetTheorems, SequenceTheorems, TLAPS
-----------------------------------------------------------------------------
\* The inductive invariant

Called(r) == r.pc \notin {"begin", "gate"}
Gone == {"cut", "over"}

\* The list of a run and how far it is; it names a provider once.  The
\* providers before the current one had their say.
Listed(r) ==
    /\ Len(r.plan) <= 2
    /\ \A m, n \in DOMAIN r.plan : r.plan[m] = r.plan[n] => m = n
    /\ r.i <= Len(r.plan) + 1
    /\ r.pc \in {"lock", "cli", "inspect", "judge"} => r.i <= Len(r.plan)
    /\ r.pc \in {"lock", "cli"} => r.try \in 1..Tries[r.plan[r.i]]
    /\ r.pc = "lock" => r.plan[r.i] = SpotiFLAC
    /\ \A n \in DOMAIN r.plan : n < r.i => r.fate[r.plan[n]] \in Gone
    /\ r.pc = "begin" => r.plan = <<>>

\* The newest file of a directory is there, if any file is.
Kept(d) ==
    IF d.newest = None THEN \A p \in Providers : d.files[p] = None
    ELSE d.files[d.newest] # None

\* The provider of the call, and those whose call is over.
Current(r, p) == r.i <= Len(r.plan) /\ r.plan[r.i] = p
Behind(r, p) == \E m \in DOMAIN r.plan : m < r.i /\ r.plan[m] = p

\* Who may have a file in the work directory, and who a program.
Traces(r, d, s) ==
    /\ \A p \in Providers : d.files[p] # None =>
        \/ Behind(r, p) /\ (RejectMismatches => r.fate[p] = "cut" \/ r.i > Len(r.plan))
        \/ Current(r, p) /\ Called(r) /\ (r.pc \in {"lock", "cli"} => r.fate[p] = "cut")
    /\ \A p \in s : Behind(r, p) /\ r.fate[p] = "cut"

\* The file that was handed over, how it was judged, and how the chain ends.
Shown(r, d) ==
    /\ r.pc \in {"begin", "gate", "lock", "cli"} => r.file = None
    /\ r.pc \in {"inspect", "judge"} => r.file # None
    /\ r.file # None =>
        /\ d.files[r.file] # None
        /\ r.i <= Len(r.plan)
        /\ RejectMismatches => r.file = r.plan[r.i] \/ r.fate[r.file] = "cut"
    /\ r.pc = "judge" => r.seen # None
    /\ (r.pc = "judge" \/ r.verdict \in {"verified", "mismatch", "matched"}) =>
        /\ r.file # None /\ r.seen # None
        /\ d.files[r.file] = r.seen \/ r.fate[r.file] = "cut"
    /\ r.pc # "finish" => r.verdict = None
    /\ r.verdict \in {None, "verified", "mismatch", "matched", "copied"}
    /\ r.verdict = "matched" => Plausible(r.seen, CheckDuration)
    /\ r.verdict = "copied" => r.seen # None /\ r.plan = <<>>
    /\ (r.pc = "finish" /\ ~r.manual /\ r.verdict = None) => r.i > Len(r.plan)

RunSound(r, d, s) ==
    IF r = Idle THEN s = {} /\ d = Empty
    ELSE Listed(r) /\ Traces(r, d, s) /\ Shown(r, d)

RowSound(t) ==
    t.what # None =>
        /\ t.verdict \in {"verified", "copied", "matched", "kept"} \/ t.caution
        /\ t.verdict = "matched" => Plausible(t.judged, CheckDuration)
        /\ t.what = t.judged \/ t.cut

Locked ==
    \A j \in Jobs : holder = j <=> job[j].pc = "cli" /\ Provider(j) = SpotiFLAC

Spared ==
    /\ breaker.cool > 0 => Cardinality(Pending) <= breaker.spare
    /\ breaker.spare >= 0

ChainInv ==
    /\ TypeOK
    /\ \A j \in Jobs : RunSound(job[j], dir[j], stray[j]) /\ Kept(dir[j]) /\ RowSound(track[j])
    /\ Locked
    /\ Spared

-----------------------------------------------------------------------------
\* Runs, as values

LEMMA PassedRun ==
    ASSUME NEW r \in Run, r.i <= Len(r.plan), NEW f \in Fates, NEW x, x = Passed(r, f)
    PROVE  /\ x \in Run
           /\ x.pc = "gate" /\ x.i = r.i + 1 /\ x.file = None
           /\ x.manual = r.manual /\ x.plan = r.plan /\ x.seen = r.seen /\ x.verdict = r.verdict
           /\ x.fate[r.plan[r.i]] = f
           /\ \A p \in Providers : p # r.plan[r.i] => x.fate[p] = r.fate[p]
<1> DEFINE fates == Ended(r, f)
<1>1. r.plan[r.i] \in Providers
  BY DEF Run
<1>2. x = [r EXCEPT !.pc = "gate", !.i = r.i + 1, !.try = 0, !.file = None, !.fate = fates]
  BY DEF Passed, Run
<1>3. fates \in [Providers -> Fates]
  BY <1>1 DEF Run, Ended
<1>4. /\ fates[r.plan[r.i]] = f
      /\ \A p \in Providers : p # r.plan[r.i] => fates[p] = r.fate[p]
  BY <1>1 DEF Run, Ended
<1> HIDE DEF fates
<1>5. /\ x.pc = "gate" /\ x.i = r.i + 1 /\ x.file = None /\ x.try = 0 /\ x.fate = fates
      /\ x.manual = r.manual /\ x.plan = r.plan /\ x.seen = r.seen /\ x.verdict = r.verdict
  BY <1>2 DEF Run
<1>6. x = [pc |-> "gate", manual |-> r.manual, plan |-> r.plan, i |-> r.i + 1, try |-> 0,
           file |-> None, seen |-> r.seen, verdict |-> r.verdict, fate |-> fates]
  BY <1>2 DEF Run
<1>7. x \in Run
  BY <1>6, <1>3 DEF Run
<1> QED
  BY <1>4, <1>5, <1>7

LEMMA GivenRun ==
    ASSUME NEW r \in Run, r.i <= Len(r.plan), NEW p \in Providers, NEW x, x = Given(r, p)
    PROVE  /\ x \in Run
           /\ x.pc = "inspect" /\ x.file = p
           /\ x.i = r.i /\ x.try = r.try /\ x.manual = r.manual /\ x.plan = r.plan
           /\ x.seen = r.seen /\ x.verdict = r.verdict
           /\ \A q \in Providers : q # r.plan[r.i] => x.fate[q] = r.fate[q]
<1> DEFINE fates == Ended(r, "given")
<1>1. r.plan[r.i] \in Providers
  BY DEF Run
<1>2. x = [r EXCEPT !.pc = "inspect", !.file = p, !.fate = fates]
  BY DEF Given
<1>3. fates \in [Providers -> Fates]
  BY <1>1 DEF Run, Ended, Fates
<1>4. \A q \in Providers : q # r.plan[r.i] => fates[q] = r.fate[q]
  BY <1>1 DEF Run, Ended
<1> HIDE DEF fates
<1>5. /\ x.pc = "inspect" /\ x.file = p
      /\ x.i = r.i /\ x.try = r.try /\ x.manual = r.manual /\ x.plan = r.plan
      /\ x.seen = r.seen /\ x.verdict = r.verdict /\ x.fate = fates
  BY <1>2 DEF Run
<1>6. x = [pc |-> "inspect", manual |-> r.manual, plan |-> r.plan, i |-> r.i, try |-> r.try,
           file |-> p, seen |-> r.seen, verdict |-> r.verdict, fate |-> fates]
  BY <1>2 DEF Run
<1>7. x \in Run
  BY <1>6, <1>3 DEF Run
<1> QED
  BY <1>4, <1>5, <1>7

Tried(r, f) ==
    [r EXCEPT !.pc = Starting(r.plan[r.i]), !.try = @ + 1, !.fate = Ended(r, f)]

LEMMA TriedRun ==
    ASSUME NEW r \in Run, r.i <= Len(r.plan), NEW f \in Fates, NEW x, x = Tried(r, f)
    PROVE  /\ x \in Run
           /\ x.pc = Starting(r.plan[r.i]) /\ x.try = r.try + 1
           /\ x.i = r.i /\ x.manual = r.manual /\ x.plan = r.plan
           /\ x.file = r.file /\ x.seen = r.seen /\ x.verdict = r.verdict
           /\ x.fate[r.plan[r.i]] = f
           /\ \A q \in Providers : q # r.plan[r.i] => x.fate[q] = r.fate[q]
<1> DEFINE fates == Ended(r, f)
           pc == Starting(r.plan[r.i])
<1>1. r.plan[r.i] \in Providers
  BY DEF Run
<1>2. x = [r EXCEPT !.pc = pc, !.try = @ + 1, !.fate = fates]
  BY DEF Tried
<1>3. fates \in [Providers -> Fates]
  BY <1>1 DEF Run, Ended
<1>4. /\ fates[r.plan[r.i]] = f
      /\ \A q \in Providers : q # r.plan[r.i] => fates[q] = r.fate[q]
  BY <1>1 DEF Run, Ended
<1>5. pc \in {"lock", "cli"}
  BY DEF Starting
<1> HIDE DEF fates, pc
<1>6. /\ x.pc = pc /\ x.try = r.try + 1
      /\ x.i = r.i /\ x.manual = r.manual /\ x.plan = r.plan
      /\ x.file = r.file /\ x.seen = r.seen /\ x.verdict = r.verdict /\ x.fate = fates
  BY <1>2 DEF Run
<1>7. x = [pc |-> pc, manual |-> r.manual, plan |-> r.plan, i |-> r.i, try |-> r.try + 1,
           file |-> r.file, seen |-> r.seen, verdict |-> r.verdict, fate |-> fates]
  BY <1>2 DEF Run
<1>8. x \in Run
  BY <1>7, <1>3, <1>5 DEF Run
<1> QED
  BY <1>4, <1>6, <1>8 DEF pc

AgainCut(r) == Again(r, TRUE)
AgainMissed(r) == Again(r, FALSE)

LEMMA AgainRun ==
    ASSUME NEW r \in Run, r.i <= Len(r.plan), r.file = None, NEW x,
           x = AgainCut(r) \/ x = AgainMissed(r)
    PROVE  /\ x \in Run
           /\ \/ /\ r.try < Tries[r.plan[r.i]]
                 /\ x.pc = Starting(r.plan[r.i]) /\ x.i = r.i /\ x.try = r.try + 1
              \/ /\ x.pc = "gate" /\ x.i = r.i + 1
                 /\ x.fate[r.plan[r.i]] \in Gone
           /\ x.manual = r.manual /\ x.plan = r.plan
           /\ x.file = None /\ x.seen = r.seen /\ x.verdict = r.verdict
           /\ x = AgainCut(r) \/ r.fate[r.plan[r.i]] = "cut" => x.fate[r.plan[r.i]] = "cut"
           /\ \A q \in Providers : q # r.plan[r.i] => x.fate[q] = r.fate[q]
<1> DEFINE p == r.plan[r.i]
<1>1. p \in Providers /\ r.fate[p] \in Fates
  BY DEF Run
<1>2. PICK f \in Fates :
        /\ x = IF r.try < Tries[p] THEN Tried(r, f)
               ELSE Passed(r, IF f = "cut" THEN "cut" ELSE "over")
        /\ x = AgainCut(r) \/ r.fate[p] = "cut" => f = "cut"
  <2>1. CASE x = AgainCut(r)
    <3> DEFINE f == IF TRUE \/ r.fate[p] = "cut" THEN "cut" ELSE r.fate[p]
    <3>1. x = IF r.try < Tries[p] THEN Tried(r, f)
              ELSE Passed(r, IF f = "cut" THEN "cut" ELSE "over")
      BY <2>1, Zenon DEF AgainCut, Again, Tried
    <3>2. f \in Fates /\ f = "cut"
      BY DEF Fates
    <3> HIDE DEF f
    <3> QED BY <3>1, <3>2, Zenon
  <2>2. CASE x = AgainMissed(r) /\ x # AgainCut(r)
    <3> DEFINE f == IF FALSE \/ r.fate[p] = "cut" THEN "cut" ELSE r.fate[p]
    <3>1. x = IF r.try < Tries[p] THEN Tried(r, f)
              ELSE Passed(r, IF f = "cut" THEN "cut" ELSE "over")
      BY <2>2, Zenon DEF AgainMissed, Again, Tried
    <3>2. f \in Fates /\ (r.fate[p] = "cut" => f = "cut")
      BY <1>1
    <3> HIDE DEF f
    <3> QED BY <2>2, <3>1, <3>2, Zenon
  <2> QED BY <2>1, <2>2
<1>3. x = AgainCut(r) \/ r.fate[p] = "cut" => f = "cut"
  BY <1>2
<1>4. CASE r.try < Tries[p]
  <2>1. x = Tried(r, f)
    BY <1>2, <1>4
  <2>2. /\ x \in Run
        /\ x.pc = Starting(r.plan[r.i]) /\ x.try = r.try + 1
        /\ x.i = r.i /\ x.manual = r.manual /\ x.plan = r.plan
        /\ x.file = r.file /\ x.seen = r.seen /\ x.verdict = r.verdict
        /\ x.fate[r.plan[r.i]] = f
        /\ \A q \in Providers : q # r.plan[r.i] => x.fate[q] = r.fate[q]
    BY <2>1, TriedRun
  <2> QED BY <1>3, <1>4, <2>2
<1>5. CASE ~(r.try < Tries[p])
  <2> DEFINE end == IF f = "cut" THEN "cut" ELSE "over"
  <2>1. x = Passed(r, end)
    BY <1>2, <1>5
  <2>2. end \in Fates /\ end \in Gone /\ (f = "cut" => end = "cut")
    BY DEF Fates, Gone
  <2> HIDE DEF end
  <2>3. /\ x \in Run
        /\ x.pc = "gate" /\ x.i = r.i + 1 /\ x.file = None
        /\ x.manual = r.manual /\ x.plan = r.plan /\ x.seen = r.seen /\ x.verdict = r.verdict
        /\ x.fate[r.plan[r.i]] = end
        /\ \A q \in Providers : q # r.plan[r.i] => x.fate[q] = r.fate[q]
    BY <2>1, <2>2, PassedRun
  <2> QED BY <1>3, <2>2, <2>3
<1> QED BY <1>4, <1>5

\* The next provider: the one that was current is behind.
LEMMA PassedSound ==
    ASSUME NEW r \in Run, Listed(r), r.i <= Len(r.plan), r.verdict = None,
           NEW d \in Directory, NEW s \in SUBSET Providers,
           NEW x \in Run, x.pc = "gate", x.i = r.i + 1, x.file = None,
           x.manual = r.manual, x.plan = r.plan, x.verdict = r.verdict,
           x.fate[r.plan[r.i]] \in Gone,
           \A p \in Providers : p # r.plan[r.i] => x.fate[p] = r.fate[p],
           \A p \in Providers : d.files[p] # None =>
              \/ Behind(r, p) /\ (RejectMismatches => r.fate[p] = "cut")
              \/ Current(r, p) /\ (RejectMismatches => x.fate[p] = "cut" \/ r.i = Len(r.plan)),
           \A p \in s : \/ Behind(r, p) /\ r.fate[p] = "cut"
                        \/ Current(r, p) /\ x.fate[p] = "cut"
    PROVE  RunSound(x, d, s)
<1>1. \A p \in Providers : Behind(r, p) => Behind(x, p) /\ x.fate[p] = r.fate[p]
  BY DEF Behind, Listed, Run
<1>2. \A p \in Providers : Current(r, p) => Behind(x, p)
  BY DEF Behind, Current, Run
<1>3. Listed(x)
  <2>1. \A n \in DOMAIN x.plan : n < x.i => x.fate[x.plan[n]] \in Gone
    <3> SUFFICES ASSUME NEW n \in DOMAIN x.plan, n < x.i
                 PROVE  x.fate[x.plan[n]] \in Gone
      OBVIOUS
    <3>1. CASE n = r.i
      BY <3>1
    <3>2. CASE n # r.i
      BY <3>2 DEF Listed, Run
    <3> QED BY <3>1, <3>2
  <2> QED BY <2>1 DEF Listed, Run
<1>4. Traces(x, d, s)
  <2>1. \A p \in Providers : d.files[p] # None =>
           Behind(x, p) /\ (RejectMismatches => x.fate[p] = "cut" \/ x.i > Len(x.plan))
    BY <1>1, <1>2 DEF Run
  <2>2. \A p \in s : Behind(x, p) /\ x.fate[p] = "cut"
    BY <1>1, <1>2
  <2> QED BY <2>1, <2>2 DEF Traces
<1>5. Shown(x, d)
  BY ChainNames DEF Shown, Verdicts
<1>6. x # Idle
  BY DEF Run, Idle
<1> QED BY <1>3, <1>4, <1>5, <1>6 DEF RunSound

\* A downloader hands over the newest file.
LEMMA GivenSound ==
    ASSUME NEW r \in Run, Listed(r), r.i <= Len(r.plan), r.verdict = None,
           NEW d \in Directory, NEW s \in SUBSET Providers,
           NEW x, NEW q \in Providers, x = Given(r, q), d.files[q] # None,
           \A p \in Providers : d.files[p] # None =>
              \/ Behind(r, p) /\ (RejectMismatches => r.fate[p] = "cut")
              \/ Current(r, p),
           \A p \in s : Behind(r, p) /\ r.fate[p] = "cut"
    PROVE  x \in Run /\ x.pc = "inspect" /\ RunSound(x, d, s)
<1>1. /\ x \in Run
      /\ x.pc = "inspect" /\ x.file = q
      /\ x.i = r.i /\ x.try = r.try /\ x.manual = r.manual /\ x.plan = r.plan
      /\ x.seen = r.seen /\ x.verdict = r.verdict
      /\ \A p \in Providers : p # r.plan[r.i] => x.fate[p] = r.fate[p]
  BY GivenRun
<1>2. \A p \in Providers : Behind(r, p) => Behind(x, p) /\ x.fate[p] = r.fate[p]
  BY <1>1 DEF Behind, Listed, Run
<1>3. \A p \in Providers : Current(r, p) => Current(x, p)
  BY <1>1 DEF Current
<1>4. Listed(x)
  BY <1>1 DEF Listed, Run
<1>5. Called(x)
  BY <1>1 DEF Called
<1>6. Traces(x, d, s)
  BY <1>1, <1>2, <1>3, <1>5 DEF Traces
<1>7. RejectMismatches => q = x.plan[x.i] \/ x.fate[q] = "cut"
  BY <1>1, <1>2, <1>3 DEF Current
<1>8. Shown(x, d)
  BY <1>1, <1>7, ChainNames DEF Shown, Verdicts
<1>9. x # Idle
  BY <1>1 DEF Idle
<1> QED BY <1>1, <1>4, <1>6, <1>8, <1>9 DEF RunSound

\* What an attempt still to come is for a run.
Waits(r, n) ==
    \/ r.pc = "lock" /\ r.try <= n
    \/ r.pc = "cli" /\ r.plan[r.i] = SpotiFLAC /\ r.try < n
Holds(r) == r.pc = "cli" /\ r.plan[r.i] = SpotiFLAC

\* After an attempt without a file.
LEMMA AgainSound ==
    ASSUME NEW r \in Run, Listed(r), r.pc = "cli", r.file = None, r.verdict = None,
           NEW d \in Directory, NEW s \in SUBSET Providers,
           NEW x, x = AgainCut(r) \/ x = AgainMissed(r),
           \A p \in Providers : d.files[p] # None =>
              \/ Behind(r, p) /\ (RejectMismatches => r.fate[p] = "cut")
              \/ Current(r, p) /\ (x = AgainCut(r) \/ r.fate[p] = "cut"),
           \A p \in s : Behind(r, p) /\ r.fate[p] = "cut"
    PROVE  /\ x \in Run /\ RunSound(x, d, s)
           /\ ~Holds(x)
           /\ \A n \in 1..Tries[SpotiFLAC] : Waits(x, n) => Waits(r, n)
<1> DEFINE p == r.plan[r.i]
<1>1. r.i <= Len(r.plan) /\ r.try \in 1..Tries[p] /\ p \in Providers /\ r.i \in Nat
  BY DEF Listed, Run
<1>2. /\ x \in Run
      /\ \/ r.try < Tries[p] /\ x.pc = Starting(p) /\ x.i = r.i /\ x.try = r.try + 1
         \/ x.pc = "gate" /\ x.i = r.i + 1 /\ x.fate[p] \in Gone
      /\ x.manual = r.manual /\ x.plan = r.plan
      /\ x.file = None /\ x.seen = r.seen /\ x.verdict = r.verdict
      /\ x = AgainCut(r) \/ r.fate[p] = "cut" => x.fate[p] = "cut"
      /\ \A q \in Providers : q # p => x.fate[q] = r.fate[q]
  BY <1>1, AgainRun
<1>3. \A q \in Providers : Current(r, q) => q = p
  BY DEF Current
<1>4. CASE r.try < Tries[p] /\ x.pc = Starting(p) /\ x.i = r.i /\ x.try = r.try + 1
  <2>1. \A q \in Providers : Behind(r, q) => Behind(x, q) /\ x.fate[q] = r.fate[q]
    BY <1>2, <1>4 DEF Behind, Listed, Run
  <2>2. \A q \in Providers : Current(r, q) => Current(x, q)
    BY <1>2, <1>4 DEF Current
  <2>3. Tries[p] \in Nat
    BY <1>1, ChainBounds
  <2>4. (x.pc = "lock" /\ p = SpotiFLAC) \/ (x.pc = "cli" /\ p # SpotiFLAC)
    BY <1>4 DEF Starting
  <2>5. Listed(x)
    BY <1>1, <1>2, <1>4, <2>3, <2>4 DEF Listed, Run
  <2>6. Called(x)
    BY <2>4 DEF Called
  <2>7. Traces(x, d, s)
    BY <1>2, <1>3, <2>1, <2>2, <2>6 DEF Traces
  <2>8. Shown(x, d)
    BY <1>2, <2>4, ChainNames DEF Shown, Verdicts
  <2>9. x # Idle
    BY <2>4 DEF Idle
  <2>10. ~Holds(x)
    BY <1>2, <1>4, <2>4 DEF Holds
  <2>11. \A n \in 1..Tries[SpotiFLAC] : Waits(x, n) => Waits(r, n)
    BY <1>1, <1>2, <1>4, <2>4 DEF Waits
  <2> QED BY <1>2, <2>5, <2>7, <2>8, <2>9, <2>10, <2>11 DEF RunSound
<1>5. CASE x.pc = "gate" /\ x.i = r.i + 1 /\ x.fate[p] \in Gone
  <2>1. RunSound(x, d, s)
    BY <1>1, <1>2, <1>3, <1>5, PassedSound
  <2>2. ~Holds(x) /\ \A n \in 1..Tries[SpotiFLAC] : ~Waits(x, n)
    BY <1>5 DEF Holds, Waits
  <2> QED BY <1>2, <2>1, <2>2
<1> QED BY <1>2, <1>4, <1>5

LEMMA MissedSound ==
    ASSUME NEW r \in Run, Listed(r), r.pc = "cli", r.file = None, r.verdict = None,
           NEW d \in Directory, NEW s \in SUBSET Providers, NEW x, x = AgainMissed(r),
           \A p \in Providers : d.files[p] # None =>
              \/ Behind(r, p) /\ (RejectMismatches => r.fate[p] = "cut")
              \/ Current(r, p) /\ r.fate[p] = "cut",
           \A p \in s : Behind(r, p) /\ r.fate[p] = "cut"
    PROVE  /\ x \in Run /\ RunSound(x, d, s)
           /\ ~Holds(x)
           /\ \A n \in 1..Tries[SpotiFLAC] : Waits(x, n) => Waits(r, n)
BY AgainSound

LEMMA CutSound ==
    ASSUME NEW r \in Run, Listed(r), r.pc = "cli", r.file = None, r.verdict = None,
           NEW d \in Directory, NEW s \in SUBSET Providers, NEW x, x = AgainCut(r),
           \A p \in Providers : d.files[p] # None =>
              \/ Behind(r, p) /\ (RejectMismatches => r.fate[p] = "cut")
              \/ Current(r, p),
           \A p \in s : Behind(r, p) /\ r.fate[p] = "cut"
    PROVE  /\ x \in Run /\ RunSound(x, d, s)
           /\ ~Holds(x)
           /\ \A n \in 1..Tries[SpotiFLAC] : Waits(x, n) => Waits(r, n)
BY AgainSound

-----------------------------------------------------------------------------
\* The state

LEMMA PendingFinite == IsFiniteSet(Pending) /\ IsFiniteSet(Pending')
<1>1. Tries[SpotiFLAC] \in Nat
  BY ChainBounds DEF Providers
<1>2. IsFiniteSet(Jobs \X (1..Tries[SpotiFLAC]))
  <2>1. IsFiniteSet(1..Tries[SpotiFLAC])
    BY <1>1, FS_Interval
  <2> QED BY <2>1, ChainJobs, FS_Product
<1>3. Pending \subseteq Jobs \X (1..Tries[SpotiFLAC])
  BY DEF Pending
<1>4. Pending' \subseteq Jobs \X (1..Tries[SpotiFLAC])
  BY DEF Pending
<1> QED BY <1>2, <1>3, <1>4, FS_Subset

LEMMA PendingWaits ==
    /\ Pending = {a \in Jobs \X (1..Tries[SpotiFLAC]) : Waits(job[a[1]], a[2])}
    /\ Pending' = {a \in Jobs \X (1..Tries[SpotiFLAC]) : Waits(job'[a[1]], a[2])}
BY DEF Pending, Waits, Provider

\* A step that keeps what is said of each job keeps the invariant.
LEMMA StepOfRun ==
    ASSUME ChainInv, NEW j \in Jobs,
           NEW x \in Run \cup {Idle}, job' = [job EXCEPT ![j] = x],
           NEW d \in Directory, dir' = [dir EXCEPT ![j] = d],
           NEW s \in SUBSET Providers, stray' = [stray EXCEPT ![j] = s],
           NEW t \in Row, track' = [track EXCEPT ![j] = t],
           RunSound(x, d, s), Kept(d), RowSound(t),
           holder' \in Jobs \cup {None}, Locked',
           breaker' \in [cool : 0..MaxCool, strikes : 0..MaxCool, spare : Int],
           breaker'.cool <= breaker'.strikes, Spared',
           starts' \in 0..MaxStarts
    PROVE  ChainInv'
<1>1. TypeOK'
  BY DEF ChainInv, TypeOK
<1>2. ASSUME NEW k \in Jobs
      PROVE  RunSound(job[k], dir[k], stray[k])' /\ Kept(dir[k])' /\ RowSound(track[k])'
  <2>1. CASE k = j
    <3>1. job'[k] = x /\ dir'[k] = d /\ stray'[k] = s /\ track'[k] = t
      BY <2>1 DEF ChainInv, TypeOK
    <3> QED BY <3>1
  <2>2. CASE k # j
    <3>1. job'[k] = job[k] /\ dir'[k] = dir[k] /\ stray'[k] = stray[k] /\ track'[k] = track[k]
      BY <2>2 DEF ChainInv, TypeOK
    <3>2. RunSound(job[k], dir[k], stray[k]) /\ Kept(dir[k]) /\ RowSound(track[k])
      BY DEF ChainInv
    <3> QED BY <3>1, <3>2
  <2> QED BY <2>1, <2>2
<1> QED BY <1>1, <1>2 DEF ChainInv

\* A run that has no hold of the lock afterwards.
LEMMA LetGo ==
    ASSUME TypeOK, Locked, NEW j \in Jobs,
           NEW x, ~Holds(x), job' = [job EXCEPT ![j] = x],
           holder' = Released(j)
    PROVE  Locked' /\ holder' \in Jobs \cup {None}
<1>1. job \in [Jobs -> {Idle} \cup Run] /\ holder \in Jobs \cup {None}
  BY DEF TypeOK
<1>2. holder' = IF holder = j THEN None ELSE holder
  BY DEF Released
<1>3. job'[j] = x /\ \A k \in Jobs : k # j => job'[k] = job[k]
  BY <1>1
<1>4. \A k \in Jobs : holder = k <=> Holds(job[k])
  BY DEF Locked, Holds, Provider
<1>5. \A k \in Jobs : holder' = k <=> Holds(job'[k])
  BY <1>1, <1>2, <1>3, <1>4, ChainNames
<1>6. Locked'
  BY <1>5 DEF Locked, Holds, Provider
<1> QED BY <1>1, <1>2, <1>6

LEMMA NotHeld ==
    ASSUME Locked, NEW j \in Jobs, ~Holds(job[j])
    PROVE  holder = Released(j)
BY DEF Locked, Holds, Provider, Released

LEMMA PendingKept ==
    ASSUME TypeOK, NEW j \in Jobs, NEW x, job' = [job EXCEPT ![j] = x],
           \A n \in 1..Tries[SpotiFLAC] : Waits(x, n) => Waits(job[j], n)
    PROVE  Pending' \subseteq Pending
<1>1. job'[j] = x /\ \A k \in Jobs : k # j => job'[k] = job[k]
  BY DEF TypeOK
<1> QED BY <1>1, PendingWaits

LEMMA SparedKept ==
    ASSUME TypeOK, Spared, breaker' = breaker, Pending' \subseteq Pending
    PROVE  /\ Spared'
           /\ breaker' \in [cool : 0..MaxCool, strikes : 0..MaxCool, spare : Int]
           /\ breaker'.cool <= breaker'.strikes
<1>1. /\ Cardinality(Pending') <= Cardinality(Pending)
      /\ Cardinality(Pending') \in Nat /\ Cardinality(Pending) \in Nat
  BY PendingFinite, FS_Subset, FS_CardinalityType
<1>2. breaker' \in [cool : 0..MaxCool, strikes : 0..MaxCool, spare : Int]
      /\ breaker'.cool <= breaker'.strikes
  BY DEF TypeOK
<1>3. Spared'
  BY <1>1, <1>2 DEF Spared
<1> QED BY <1>2, <1>3

\* Most steps of a run leave the circuit breaker alone and no hold of the lock.
LEMMA PlainStep ==
    ASSUME ChainInv, NEW j \in Jobs,
           NEW x \in Run \cup {Idle}, job' = [job EXCEPT ![j] = x],
           NEW d \in Directory, dir' = [dir EXCEPT ![j] = d],
           NEW s \in SUBSET Providers, stray' = [stray EXCEPT ![j] = s],
           NEW t \in Row, track' = [track EXCEPT ![j] = t],
           RunSound(x, d, s), Kept(d), RowSound(t),
           ~Holds(x), holder' = Released(j), breaker' = breaker,
           \A n \in 1..Tries[SpotiFLAC] : Waits(x, n) => Waits(job[j], n),
           starts' \in 0..MaxStarts
    PROVE  ChainInv'
<1>1. TypeOK /\ Locked /\ Spared
  BY DEF ChainInv
<1>2. Locked' /\ holder' \in Jobs \cup {None}
  BY <1>1, LetGo
<1>3. Pending' \subseteq Pending
  BY <1>1, PendingKept
<1>4. /\ Spared'
      /\ breaker' \in [cool : 0..MaxCool, strikes : 0..MaxCool, spare : Int]
      /\ breaker'.cool <= breaker'.strikes
  BY <1>1, <1>3, SparedKept
<1> QED BY <1>2, <1>4, StepOfRun

\* The same when the run was no call before and is none afterwards.
LEMMA QuietStep ==
    ASSUME ChainInv, NEW j \in Jobs, job[j].pc \notin {"lock", "cli"},
           NEW x \in Run \cup {Idle}, x.pc \notin {"lock", "cli"},
           job' = [job EXCEPT ![j] = x],
           NEW d \in Directory, dir' = [dir EXCEPT ![j] = d],
           RunSound(x, d, stray[j]), Kept(d),
           UNCHANGED <<stray, holder, breaker, track>>, starts' \in 0..MaxStarts
    PROVE  ChainInv'
<1>1. TypeOK /\ Locked /\ RowSound(track[j])
  BY DEF ChainInv
<1>2. stray' = [stray EXCEPT ![j] = stray[j]] /\ stray[j] \in SUBSET Providers
  BY <1>1 DEF TypeOK
<1>3. track' = [track EXCEPT ![j] = track[j]] /\ track[j] \in Row
  BY <1>1 DEF TypeOK
<1>4. ~Holds(x) /\ ~Holds(job[j]) /\ \A n \in 1..Tries[SpotiFLAC] : ~Waits(x, n)
  BY DEF Holds, Waits
<1>5. holder' = Released(j) /\ breaker' = breaker
  BY <1>1, <1>4, NotHeld
<1> QED BY <1>1, <1>2, <1>3, <1>4, <1>5, PlainStep

LEMMA JobFacts ==
    ASSUME ChainInv, NEW j \in Jobs
    PROVE  /\ job[j] \in Run \cup {Idle}
           /\ dir[j] \in Directory /\ Kept(dir[j])
           /\ stray[j] \in SUBSET Providers
           /\ track[j] \in Row /\ RowSound(track[j])
           /\ starts \in 0..MaxStarts
           /\ job[j].pc = "idle" => job[j] = Idle /\ stray[j] = {}
           /\ job[j].pc # "idle" => /\ job[j] \in Run
                                    /\ Listed(job[j])
                                    /\ Traces(job[j], dir[j], stray[j])
                                    /\ Shown(job[j], dir[j])
           /\ dir = [dir EXCEPT ![j] = dir[j]]
           /\ stray = [stray EXCEPT ![j] = stray[j]]
           /\ track = [track EXCEPT ![j] = track[j]]
<1>1. /\ job[j] \in Run \cup {Idle} /\ dir[j] \in Directory /\ stray[j] \in SUBSET Providers
      /\ track[j] \in Row /\ starts \in 0..MaxStarts
      /\ dir = [dir EXCEPT ![j] = dir[j]]
      /\ stray = [stray EXCEPT ![j] = stray[j]]
      /\ track = [track EXCEPT ![j] = track[j]]
  BY DEF ChainInv, TypeOK
<1>2. RunSound(job[j], dir[j], stray[j]) /\ Kept(dir[j]) /\ RowSound(track[j])
  BY DEF ChainInv
<1>3. Idle.pc = "idle" /\ \A r \in Run : r.pc # "idle"
  BY DEF Idle, Run
<1> QED BY <1>1, <1>2, <1>3 DEF RunSound

-----------------------------------------------------------------------------
\* The start of a run

LEMMA EmptyDirectory == Empty \in Directory /\ Kept(Empty) /\ \A p \in Providers : Empty.files[p] = None
BY DEF Empty, Directory, Kept

LEMMA Started ==
    ASSUME NEW plan \in Seq(Providers), Len(plan) <= 2,
           \A m, n \in DOMAIN plan : plan[m] = plan[n] => m = n,
           NEW pc, pc = "gate" \/ (pc = "begin" /\ plan = <<>>),
           NEW x, x = StartedRun(TRUE, plan, pc) \/ x = StartedRun(FALSE, plan, pc)
    PROVE  x \in Run /\ x.pc = pc /\ RunSound(x, Empty, {})
<1> DEFINE fates == [p \in Providers |-> "untried"]
<1>1. PICK manual \in BOOLEAN :
      x = [pc |-> pc, manual |-> manual, plan |-> plan, i |-> 1, try |-> 0,
           file |-> None, seen |-> None, verdict |-> None, fate |-> fates]
  BY DEF StartedRun
<1>2. fates \in [Providers -> Fates]
  BY DEF Fates
<1> HIDE DEF fates
<1>3. x \in Run
  BY <1>1, <1>2 DEF Run
<1>4. /\ x.pc = pc /\ x.plan = plan /\ x.i = 1 /\ x.file = None /\ x.seen = None
      /\ x.verdict = None
  BY <1>1
<1>5. Listed(x)
  BY <1>4 DEF Listed
<1>6. Traces(x, Empty, {})
  BY EmptyDirectory DEF Traces
<1>7. Shown(x, Empty)
  BY <1>4, ChainNames DEF Shown, Verdicts
<1>8. x # Idle
  BY <1>4 DEF Idle
<1> QED BY <1>3, <1>4, <1>5, <1>6, <1>7, <1>8 DEF RunSound

LEMMA BeginKeeps ==
    ASSUME ChainInv, NEW j \in Jobs, Begin(j)
    PROVE  ChainInv'
<1> DEFINE x == StartedRun(FALSE, <<>>, "begin")
<1>1. /\ job[j].pc = "idle" /\ job' = [job EXCEPT ![j] = x] /\ dir' = [dir EXCEPT ![j] = Empty]
      /\ UNCHANGED <<stray, holder, breaker, track>>
      /\ starts < MaxStarts /\ starts' = starts + 1
  BY DEF Begin
<1>2. x \in Run /\ x.pc = "begin" /\ RunSound(x, Empty, {})
  <2> DEFINE plan == <<>>
  <2>1. /\ plan \in Seq(Providers) /\ Len(plan) <= 2 /\ plan = <<>>
        /\ \A m, n \in DOMAIN plan : plan[m] = plan[n] => m = n
    OBVIOUS
  <2>2. x = StartedRun(FALSE, plan, "begin")
    BY Zenon
  <2> HIDE DEF plan, x
  <2> QED BY <2>1, <2>2, Started
<1> HIDE DEF x
<1>3. stray[j] = {} /\ starts' \in 0..MaxStarts
  BY <1>1, JobFacts, ChainBounds
<1> QED BY <1>1, <1>2, <1>3, EmptyDirectory, QuietStep

LEMMA MatchKeeps ==
    ASSUME ChainInv, NEW j \in Jobs, NEW url \in URLs, Match(j, url)
    PROVE  ChainInv'
<1> DEFINE plan == MatchPlan(url)
           x == StartedRun(TRUE, plan, "gate")
<1>1. /\ job[j].pc = "idle" /\ job' = [job EXCEPT ![j] = x] /\ dir' = [dir EXCEPT ![j] = Empty]
      /\ UNCHANGED <<stray, holder, breaker, track>>
      /\ starts < MaxStarts /\ starts' = starts + 1
  BY DEF Match
<1>2. plan \in {<<SpotiFLAC, YtDlp>>, <<YtDlp, SpotiFLAC>>, <<YtDlp>>}
  BY ChainURLs DEF MatchPlan
<1> HIDE DEF plan
<1>3. /\ plan \in Seq(Providers) /\ Len(plan) <= 2
      /\ \A m, n \in DOMAIN plan : plan[m] = plan[n] => m = n
  <2>1. SpotiFLAC \in Providers /\ YtDlp \in Providers
    BY DEF Providers
  <2>2. CASE plan = <<SpotiFLAC, YtDlp>>
    BY <2>1, <2>2, ChainNames
  <2>3. CASE plan = <<YtDlp, SpotiFLAC>>
    BY <2>1, <2>3, ChainNames
  <2>4. CASE plan = <<YtDlp>>
    BY <2>1, <2>4
  <2> QED BY <1>2, <2>2, <2>3, <2>4
<1>4. x \in Run /\ x.pc = "gate" /\ RunSound(x, Empty, {})
  BY <1>3, Started
<1> HIDE DEF x
<1>5. stray[j] = {} /\ starts' \in 0..MaxStarts
  BY <1>1, JobFacts, ChainBounds
<1> QED BY <1>1, <1>4, <1>5, EmptyDirectory, QuietStep

\* A run that has made no call goes to its end.
LEMMA EndsEarly ==
    ASSUME NEW r \in Run, NEW d \in Directory, NEW s \in SUBSET Providers,
           r.pc = "begin", Listed(r), Traces(r, d, s), Shown(r, d),
           NEW x \in Run, x.pc = "finish", x.i = r.i, x.plan = r.plan, x.file = r.file,
           \/ x.verdict = None
           \/ x.verdict = "copied" /\ x.seen # None
    PROVE  RunSound(x, d, s)
<1>1. r.plan = <<>> /\ r.file = None /\ r.i \in Nat \ {0} /\ r.verdict = None
  BY DEF Listed, Shown, Run
<1>2. \A p \in Providers : ~Behind(r, p) /\ ~Behind(x, p)
  BY <1>1 DEF Behind
<1>3. (\A p \in Providers : d.files[p] = None) /\ s = {}
  BY <1>2 DEF Traces, Called
<1>4. Traces(x, d, s)
  BY <1>3 DEF Traces
<1>5. Listed(x)
  BY <1>1 DEF Listed
<1>6. Shown(x, d)
  BY <1>1, ChainNames DEF Shown, Verdicts
<1>7. x # Idle
  BY DEF Idle
<1> QED BY <1>4, <1>5, <1>6, <1>7 DEF RunSound

LEMMA AbandonKeeps ==
    ASSUME ChainInv, NEW j \in Jobs, Abandon(j)
    PROVE  ChainInv'
<1> DEFINE r == job[j]
           x == [r EXCEPT !.pc = "finish"]
<1>1. /\ r.pc = "begin" /\ job' = [job EXCEPT ![j] = x]
      /\ UNCHANGED <<dir, stray, holder, breaker, track, starts>>
  BY DEF Abandon
<1>2. /\ r \in Run /\ Listed(r) /\ Traces(r, dir[j], stray[j]) /\ Shown(r, dir[j])
      /\ dir[j] \in Directory /\ stray[j] \in SUBSET Providers /\ Kept(dir[j])
      /\ starts' \in 0..MaxStarts /\ dir' = [dir EXCEPT ![j] = dir[j]]
  BY <1>1, JobFacts
<1> HIDE DEF r
<1>3. /\ x \in Run /\ x.pc = "finish" /\ x.i = r.i /\ x.plan = r.plan /\ x.file = r.file
      /\ x.verdict = r.verdict
  BY <1>2 DEF Run
<1>4. r.verdict = None
  BY <1>1, <1>2 DEF Shown
<1> HIDE DEF x
<1>5. RunSound(x, dir[j], stray[j])
  BY <1>1, <1>2, <1>3, <1>4, EndsEarly
<1>6. job[j].pc \notin {"lock", "cli"} /\ x.pc \notin {"lock", "cli"}
  BY <1>1, <1>3 DEF r
<1> QED BY <1>1, <1>2, <1>3, <1>5, <1>6, QuietStep

LEMMA ReuseKeeps ==
    ASSUME ChainInv, NEW j \in Jobs, Reuse(j)
    PROVE  ChainInv'
<1>1. PICK k \in Jobs :
        /\ Twin(j, k)
        /\ job' = [job EXCEPT ![j] = [@ EXCEPT !.pc = "finish", !.seen = track[k].what,
                                               !.verdict = "copied"]]
  BY DEF Reuse
<1> DEFINE r == job[j]
           a == track[k].what
           x == [r EXCEPT !.pc = "finish", !.seen = a, !.verdict = "copied"]
<1>2. /\ r.pc = "begin" /\ job' = [job EXCEPT ![j] = x]
      /\ UNCHANGED <<dir, stray, holder, breaker, track, starts>>
  BY <1>1 DEF Reuse
<1>3. /\ r \in Run /\ Listed(r) /\ Traces(r, dir[j], stray[j]) /\ Shown(r, dir[j])
      /\ dir[j] \in Directory /\ stray[j] \in SUBSET Providers /\ Kept(dir[j])
      /\ starts' \in 0..MaxStarts /\ dir' = [dir EXCEPT ![j] = dir[j]]
  BY <1>2, JobFacts
<1>4. a # None /\ a \in Audio \cup {None}
  BY <1>1, JobFacts DEF Twin, Row
<1> HIDE DEF r, a
<1>5. x \in Run
  BY <1>3, <1>4 DEF Run, Verdicts
<1>6. /\ x.pc = "finish" /\ x.i = r.i /\ x.plan = r.plan /\ x.file = r.file
      /\ x.verdict = "copied" /\ x.seen = a
  BY <1>3 DEF Run
<1> HIDE DEF x
<1>7. RunSound(x, dir[j], stray[j])
  BY <1>2, <1>3, <1>4, <1>5, <1>6, EndsEarly
<1>8. job[j].pc \notin {"lock", "cli"} /\ x.pc \notin {"lock", "cli"}
  BY <1>2, <1>6 DEF r
<1> QED BY <1>2, <1>3, <1>5, <1>7, <1>8, QuietStep

LEMMA PlanNames ==
    ASSUME NEW on
    PROVE  /\ Plan(on) \in Seq(Providers) /\ Len(Plan(on)) <= 2
           /\ \A m, n \in DOMAIN Plan(on) : Plan(on)[m] = Plan(on)[n] => m = n
<1> DEFINE plan == Plan(on)
<1>1. SpotiFLAC \in Providers /\ YtDlp \in Providers
  BY DEF Providers
<1>2. plan \in {<<>>, <<SpotiFLAC>>, <<YtDlp>>, <<SpotiFLAC, YtDlp>>}
  <2>1. CASE SpotiFLAC \in on /\ YtDlp \in on
    <3> DEFINE one == <<SpotiFLAC>>
               other == <<YtDlp>>
               both == <<SpotiFLAC, YtDlp>>
    <3>1. plan = one \o other
      BY <2>1 DEF Plan
    <3>2. one \in Seq(Providers) /\ other \in Seq(Providers) /\ both \in Seq(Providers)
      BY <1>1
    <3>3. Len(one) = 1 /\ Len(other) = 1 /\ Len(both) = 2
          /\ one[1] = SpotiFLAC /\ other[1] = YtDlp /\ both[1] = SpotiFLAC /\ both[2] = YtDlp
      OBVIOUS
    <3> HIDE DEF one, other, both
    <3>4. /\ one \o other \in Seq(Providers) /\ Len(one \o other) = 2
          /\ (one \o other)[1] = one[1] /\ (one \o other)[2] = other[1]
      BY <3>2, <3>3, ConcatProperties
    <3>5. one \o other = both
      BY <3>2, <3>3, <3>4, SeqEqual
    <3> QED BY <3>1, <3>5 DEF both
  <2>2. CASE SpotiFLAC \in on /\ YtDlp \notin on
    BY <2>2 DEF Plan
  <2>3. CASE SpotiFLAC \notin on /\ YtDlp \in on
    BY <2>3 DEF Plan
  <2>4. CASE SpotiFLAC \notin on /\ YtDlp \notin on
    BY <2>4 DEF Plan
  <2> QED BY <2>1, <2>2, <2>3, <2>4
<1> HIDE DEF plan
<1>3. /\ plan \in Seq(Providers) /\ Len(plan) <= 2
      /\ \A m, n \in DOMAIN plan : plan[m] = plan[n] => m = n
  <2>1. CASE plan = <<>>
    BY <2>1
  <2>2. CASE plan = <<SpotiFLAC>>
    BY <1>1, <2>2
  <2>3. CASE plan = <<YtDlp>>
    BY <1>1, <2>3
  <2>4. CASE plan = <<SpotiFLAC, YtDlp>>
    BY <1>1, <2>4, ChainNames
  <2> QED BY <1>2, <2>1, <2>2, <2>3, <2>4
<1> QED BY <1>3 DEF plan

LEMMA ResolveKeeps ==
    ASSUME ChainInv, NEW j \in Jobs, NEW on \in Enabled, NEW link \in BOOLEAN,
           Resolve(j, on, link)
    PROVE  ChainInv'
<1> DEFINE r == job[j]
           fate == [r.fate EXCEPT ![SpotiFLAC] = IF link THEN "untried" ELSE "unable"]
           plan == Plan(on)
           x == IF on = {} THEN [r EXCEPT !.pc = "finish"]
                ELSE [r EXCEPT !.pc = "gate", !.plan = plan, !.fate = fate]
<1>1. /\ r.pc = "begin" /\ job' = [job EXCEPT ![j] = x]
      /\ UNCHANGED <<dir, stray, holder, breaker, track, starts>>
  BY DEF Resolve
<1>2. /\ r \in Run /\ Listed(r) /\ Traces(r, dir[j], stray[j]) /\ Shown(r, dir[j])
      /\ dir[j] \in Directory /\ stray[j] \in SUBSET Providers /\ Kept(dir[j])
      /\ starts' \in 0..MaxStarts /\ dir' = [dir EXCEPT ![j] = dir[j]]
  BY <1>1, JobFacts
<1>3. r.plan = <<>> /\ r.file = None /\ r.verdict = None /\ r.i = 1
  BY <1>1, <1>2 DEF Listed, Shown, Run
<1>4. fate \in [Providers -> Fates]
  <2>1. (IF link THEN "untried" ELSE "unable") \in Fates
    BY DEF Fates
  <2> QED BY <1>2, <2>1 DEF Run
<1>5. /\ plan \in Seq(Providers) /\ Len(plan) <= 2
      /\ \A m, n \in DOMAIN plan : plan[m] = plan[n] => m = n
  BY PlanNames
<1> HIDE DEF r, plan, fate
<1>6. x \in Run /\ x.pc \notin {"lock", "cli"} /\ RunSound(x, dir[j], stray[j])
  <2>1. CASE on = {}
    <3> DEFINE y == [r EXCEPT !.pc = "finish"]
    <3>1. x = y
      BY <2>1
    <3>2. /\ y \in Run /\ y.pc = "finish" /\ y.i = r.i /\ y.plan = r.plan /\ y.file = r.file
          /\ y.verdict = r.verdict
      BY <1>2 DEF Run
    <3> HIDE DEF x, y
    <3>3. RunSound(y, dir[j], stray[j])
      BY <1>1, <1>2, <1>3, <3>2, EndsEarly
    <3> QED BY <3>1, <3>2, <3>3
  <2>2. CASE on # {}
    <3> DEFINE y == [r EXCEPT !.pc = "gate", !.plan = plan, !.fate = fate]
    <3>1. x = y
      BY <2>2
    <3>2. y \in Run
      BY <1>2, <1>4, <1>5 DEF Run
    <3>3. /\ y.pc = "gate" /\ y.plan = plan /\ y.i = 1 /\ y.file = None
          /\ y.verdict = None
      BY <1>2, <1>3 DEF Run
    <3> HIDE DEF x, y
    <3>4. \A p \in Providers : ~Behind(r, p)
      BY <1>3 DEF Behind
    <3>5. (\A p \in Providers : dir[j].files[p] = None) /\ stray[j] = {}
      BY <1>1, <1>2, <3>4 DEF Traces, Called
    <3>6. Listed(y)
      BY <1>5, <3>3 DEF Listed
    <3>7. Traces(y, dir[j], stray[j])
      BY <3>5 DEF Traces
    <3>8. Shown(y, dir[j])
      BY <3>3, ChainNames DEF Shown, Verdicts
    <3>9. y # Idle
      BY <3>3 DEF Idle
    <3> QED BY <3>1, <3>2, <3>3, <3>6, <3>7, <3>8, <3>9 DEF RunSound
  <2> QED BY <2>1, <2>2
<1> HIDE DEF x
<1>7. job[j].pc \notin {"lock", "cli"}
  BY <1>1 DEF r
<1> QED BY <1>1, <1>2, <1>6, <1>7, QuietStep

-----------------------------------------------------------------------------
\* The gate and the lock

LEMMA GateKeeps ==
    ASSUME ChainInv, NEW j \in Jobs, Gate(j)
    PROVE  ChainInv'
<1> DEFINE r == job[j]
           x == job'[j]
<1>1. /\ r.pc = "gate" /\ UNCHANGED <<dir, stray, holder, breaker, track, starts>>
  BY DEF Gate
<1>2. /\ r \in Run /\ Listed(r) /\ Traces(r, dir[j], stray[j]) /\ Shown(r, dir[j])
      /\ dir[j] \in Directory /\ stray[j] \in SUBSET Providers /\ Kept(dir[j])
      /\ track[j] \in Row /\ RowSound(track[j])
      /\ starts' \in 0..MaxStarts /\ dir' = [dir EXCEPT ![j] = dir[j]]
      /\ stray' = [stray EXCEPT ![j] = stray[j]] /\ track' = [track EXCEPT ![j] = track[j]]
  BY <1>1, JobFacts
<1>3. r.file = None /\ r.verdict = None /\ r.i \in Nat \ {0} /\ r.plan \in Seq(Providers)
  BY <1>1, <1>2 DEF Shown, Run
<1>4. TypeOK /\ Locked /\ Spared
  BY DEF ChainInv
<1>5. \/ r.i > Len(r.plan) /\ job' = [job EXCEPT ![j] = [r EXCEPT !.pc = "finish"]]
      \/ r.i <= Len(r.plan) /\ job' = [job EXCEPT ![j] = Passed(r, "over")]
      \/ /\ r.i <= Len(r.plan) /\ ~Limited(r.plan[r.i])
         /\ job' = [job EXCEPT ![j] = [r EXCEPT !.pc = Starting(r.plan[r.i]), !.try = 1]]
  <2> DEFINE p == r.plan[r.i]
             done == [r EXCEPT !.pc = "finish"]
             over == Passed(r, "over")
             tried == [r EXCEPT !.pc = Starting(r.plan[r.i]), !.try = 1]
             y == IF r.i > Len(r.plan) THEN done
                  ELSE CASE Limited(p) -> over
                         [] ~Limited(p) /\ r.fate[p] = "unable" -> over
                         [] OTHER -> tried
  <2>1. job' = [job EXCEPT ![j] = y]
    BY DEF Gate
  <2> SUFFICES \/ r.i > Len(r.plan) /\ job' = [job EXCEPT ![j] = done]
               \/ r.i <= Len(r.plan) /\ job' = [job EXCEPT ![j] = over]
               \/ /\ r.i <= Len(r.plan) /\ ~Limited(p)
                  /\ job' = [job EXCEPT ![j] = tried]
    BY Zenon
  <2> HIDE DEF done, over, tried, r
  <2>2. CASE r.i > Len(r.plan)
    <3>1. y = done
      BY <2>2
    <3> QED BY <2>1, <2>2, <3>1
  <2>3. CASE ~(r.i > Len(r.plan)) /\ (Limited(p) \/ r.fate[p] = "unable")
    <3>1. y = over
      <4>1. CASE Limited(p)
        BY <2>3, <4>1
      <4>2. CASE ~Limited(p)
        BY <2>3, <4>2
      <4> QED BY <4>1, <4>2
    <3>2. r.i <= Len(r.plan)
      BY <1>3, <2>3
    <3> QED BY <2>1, <3>1, <3>2
  <2>4. CASE ~(r.i > Len(r.plan)) /\ ~Limited(p) /\ r.fate[p] # "unable"
    <3>1. y = tried
      BY <2>4
    <3>2. r.i <= Len(r.plan)
      BY <1>3, <2>4
    <3> QED BY <2>1, <2>4, <3>1, <3>2
  <2> QED BY <2>2, <2>3, <2>4
<1>6. CASE r.i > Len(r.plan) /\ job' = [job EXCEPT ![j] = [r EXCEPT !.pc = "finish"]]
  <2> DEFINE y == [r EXCEPT !.pc = "finish"]
  <2>1. job' = [job EXCEPT ![j] = y]
    BY <1>6
  <2> HIDE DEF r
  <2>2. /\ y \in Run /\ y.pc = "finish" /\ y.i = r.i /\ y.plan = r.plan /\ y.file = None
        /\ y.verdict = None /\ y.fate = r.fate
    BY <1>2, <1>3 DEF Run
  <2> HIDE DEF y
  <2>3. Listed(y)
    BY <1>2, <2>2 DEF Listed
  <2>4. \A p \in Providers : (Behind(r, p) => Behind(y, p)) /\ ~Current(r, p)
    BY <1>2, <1>3, <1>6, <2>2 DEF Behind, Current
  <2>5. Traces(y, dir[j], stray[j])
    BY <1>2, <1>6, <2>2, <2>4 DEF Traces
  <2>6. Shown(y, dir[j])
    BY <1>6, <2>2, ChainNames DEF Shown, Verdicts
  <2>7. y # Idle
    BY <2>2 DEF Idle
  <2>8. RunSound(y, dir[j], stray[j])
    BY <2>3, <2>5, <2>6, <2>7 DEF RunSound
  <2>9. job[j].pc \notin {"lock", "cli"} /\ y.pc \notin {"lock", "cli"}
    BY <1>1, <2>2 DEF r
  <2> QED BY <1>1, <1>2, <2>1, <2>2, <2>8, <2>9, QuietStep
<1>7. CASE r.i <= Len(r.plan) /\ job' = [job EXCEPT ![j] = Passed(r, "over")]
  <2> DEFINE y == Passed(r, "over")
  <2>1. job' = [job EXCEPT ![j] = y]
    BY <1>7
  <2>2. "over" \in Fates /\ "over" \in Gone
    BY DEF Fates, Gone
  <2> HIDE DEF r
  <2>3. /\ y \in Run
        /\ y.pc = "gate" /\ y.i = r.i + 1 /\ y.file = None
        /\ y.manual = r.manual /\ y.plan = r.plan /\ y.seen = r.seen /\ y.verdict = r.verdict
        /\ y.fate[r.plan[r.i]] = "over"
        /\ \A p \in Providers : p # r.plan[r.i] => y.fate[p] = r.fate[p]
    BY <1>2, <1>7, <2>2, PassedRun
  <2> HIDE DEF y
  <2>4. /\ \A p \in Providers : dir[j].files[p] # None =>
              Behind(r, p) /\ (RejectMismatches => r.fate[p] = "cut")
        /\ \A p \in stray[j] : Behind(r, p) /\ r.fate[p] = "cut"
    BY <1>1, <1>2, <1>3, <1>7 DEF Traces, Called
  <2>5. RunSound(y, dir[j], stray[j])
    BY <1>2, <1>3, <1>7, <2>2, <2>3, <2>4, PassedSound
  <2>6. job[j].pc \notin {"lock", "cli"} /\ y.pc \notin {"lock", "cli"}
    BY <1>1, <2>3 DEF r
  <2> QED BY <1>1, <1>2, <2>1, <2>3, <2>5, <2>6, QuietStep
<1>8. CASE /\ r.i <= Len(r.plan) /\ ~Limited(r.plan[r.i])
           /\ job' = [job EXCEPT ![j] = [r EXCEPT !.pc = Starting(r.plan[r.i]), !.try = 1]]
  <2> DEFINE p == r.plan[r.i]
             pc == Starting(p)
             y == [r EXCEPT !.pc = pc, !.try = 1]
  <2>1. job' = [job EXCEPT ![j] = y]
    BY <1>8
  <2>2. p \in Providers /\ Tries[p] \in Nat \ {0}
    BY <1>2, <1>8, ChainBounds DEF Run
  <2>3. (pc = "lock" /\ p = SpotiFLAC) \/ (pc = "cli" /\ p # SpotiFLAC)
    BY DEF Starting
  <2> HIDE DEF r, p, pc
  <2>4. y \in Run
    BY <1>2, <2>3 DEF Run
  <2>5. /\ y.pc = pc /\ y.try = 1 /\ y.i = r.i /\ y.plan = r.plan /\ y.file = None
        /\ y.verdict = None /\ y.fate = r.fate
    BY <1>2, <1>3 DEF Run
  <2> HIDE DEF y
  <2>6. y.plan[y.i] = p
    BY <2>5 DEF p
  <2>7. Listed(y)
    BY <1>2, <1>8, <2>2, <2>3, <2>5, <2>6 DEF Listed
  <2>8. \A q \in Providers : (Behind(r, q) => Behind(y, q))
    BY <2>5 DEF Behind
  <2>9. Traces(y, dir[j], stray[j])
    BY <1>1, <1>2, <2>5, <2>8 DEF Traces, Called
  <2>10. Shown(y, dir[j])
    BY <2>3, <2>5, ChainNames DEF Shown, Verdicts
  <2>11. y # Idle
    BY <2>3, <2>5 DEF Idle
  <2>12. RunSound(y, dir[j], stray[j])
    BY <2>7, <2>9, <2>10, <2>11 DEF RunSound
  <2>13. ~Holds(y) /\ ~Holds(job[j])
    BY <1>1, <2>3, <2>5, <2>6 DEF Holds, r
  <2>14. holder' = Released(j)
    BY <1>1, <1>4, <2>13, NotHeld
  <2>15. Locked' /\ holder' \in Jobs \cup {None}
    BY <1>4, <2>1, <2>13, <2>14, LetGo
  <2>16. CASE p = SpotiFLAC
    <3>1. breaker.cool = 0 /\ breaker' = breaker
      BY <1>1, <1>4, <1>8, <2>16 DEF Limited, TypeOK, p
    <3>2. Spared' /\ breaker' \in [cool : 0..MaxCool, strikes : 0..MaxCool, spare : Int]
          /\ breaker'.cool <= breaker'.strikes
      BY <1>4, <3>1 DEF Spared, TypeOK
    <3> QED BY <1>2, <2>1, <2>4, <2>12, <2>15, <3>2, StepOfRun
  <2>17. CASE p # SpotiFLAC
    <3>1. \A n \in 1..Tries[SpotiFLAC] : ~Waits(y, n)
      BY <2>3, <2>5, <2>6, <2>17 DEF Waits
    <3> QED BY <1>1, <1>2, <2>1, <2>4, <2>12, <2>13, <2>14, <3>1, PlainStep
  <2> QED BY <2>16, <2>17
<1> QED BY <1>5, <1>6, <1>7, <1>8

LEMMA AcquireKeeps ==
    ASSUME ChainInv, NEW j \in Jobs, Acquire(j)
    PROVE  ChainInv'
<1> DEFINE r == job[j]
           x == [r EXCEPT !.pc = "cli"]
<1>1. /\ r.pc = "lock" /\ holder = None /\ holder' = j /\ job' = [job EXCEPT ![j] = x]
      /\ UNCHANGED <<dir, stray, track, starts>>
  BY DEF Acquire
<1>2. breaker' = IF breaker.cool > 0 THEN [breaker EXCEPT !.spare = @ - 1] ELSE breaker
  BY DEF Acquire
<1>3. /\ r \in Run /\ Listed(r) /\ Traces(r, dir[j], stray[j]) /\ Shown(r, dir[j])
      /\ dir[j] \in Directory /\ stray[j] \in SUBSET Providers /\ Kept(dir[j])
      /\ track[j] \in Row /\ RowSound(track[j])
      /\ starts' \in 0..MaxStarts /\ dir' = [dir EXCEPT ![j] = dir[j]]
      /\ stray' = [stray EXCEPT ![j] = stray[j]] /\ track' = [track EXCEPT ![j] = track[j]]
  BY <1>1, JobFacts
<1>4. TypeOK /\ Locked /\ Spared /\ job \in [Jobs -> {Idle} \cup Run]
  BY DEF ChainInv, TypeOK
<1>5. /\ r.i \in Nat \ {0} /\ r.i <= Len(r.plan) /\ r.plan[r.i] = SpotiFLAC
      /\ r.try \in 1..Tries[SpotiFLAC] /\ Tries[SpotiFLAC] \in Nat
  BY <1>1, <1>3, ChainBounds DEF Listed, Run, Providers
<1>6. x \in Run /\ RunSound(x, dir[j], stray[j])
      /\ x.pc = "cli" /\ x.plan = r.plan /\ x.i = r.i /\ x.try = r.try
  <2> HIDE DEF r
  <2>1. x \in Run
    BY <1>3 DEF Run
  <2>2. /\ x.pc = "cli" /\ x.plan = r.plan /\ x.i = r.i /\ x.try = r.try /\ x.fate = r.fate
        /\ x.file = r.file /\ x.verdict = r.verdict
    BY <1>3 DEF Run
  <2> HIDE DEF x
  <2>3. Listed(x)
    BY <1>1, <1>3, <2>2 DEF Listed
  <2>4. \A q \in Providers : (Behind(r, q) => Behind(x, q)) /\ (Current(r, q) => Current(x, q))
    BY <2>2 DEF Behind, Current
  <2>5. Traces(x, dir[j], stray[j])
    BY <1>1, <1>3, <2>2, <2>4 DEF Traces, Called
  <2>6. r.file = None /\ r.verdict = None
    BY <1>1, <1>3 DEF Shown
  <2>7. Shown(x, dir[j])
    BY <2>2, <2>6, ChainNames DEF Shown, Verdicts
  <2>8. x # Idle
    BY <2>2 DEF Idle
  <2> QED BY <2>1, <2>2, <2>3, <2>5, <2>7, <2>8 DEF RunSound
<1>7. job'[j] = x /\ \A k \in Jobs : k # j => job'[k] = job[k]
  BY <1>1, <1>4
<1>8. \A k \in Jobs : holder' = k <=> Holds(job'[k])
  <2>1. \A k \in Jobs : ~Holds(job[k])
    BY <1>1, <1>4, ChainNames DEF Locked, Holds, Provider
  <2>2. Holds(x)
    BY <1>5, <1>6 DEF Holds
  <2> QED BY <1>1, <1>7, <2>1, <2>2
<1>9. Locked' /\ holder' \in Jobs \cup {None}
  BY <1>1, <1>8 DEF Locked, Holds, Provider
<1> DEFINE a == <<j, r.try>>
<1>10. a \in Pending /\ Pending' = Pending \ {a}
  <2>1. /\ \A n \in 1..Tries[SpotiFLAC] : Waits(r, n) <=> r.try <= n
        /\ \A n \in 1..Tries[SpotiFLAC] : Waits(x, n) <=> r.try < n
    BY <1>1, <1>5, <1>6 DEF Waits
  <2> HIDE DEF x
  <2>2. a \in Pending
    BY <1>5, <2>1, PendingWaits
  <2>3. ASSUME NEW k \in Jobs, NEW n \in 1..Tries[SpotiFLAC]
        PROVE  Waits(job'[k], n) <=> Waits(job[k], n) /\ <<k, n>> # a
    <3>1. CASE k = j
      BY <1>5, <1>7, <2>1, <3>1
    <3>2. CASE k # j
      BY <1>7, <3>2
    <3> QED BY <3>1, <3>2
  <2> HIDE DEF a
  <2>4. \A b \in Jobs \X (1..Tries[SpotiFLAC]) :
            Waits(job'[b[1]], b[2]) <=> Waits(job[b[1]], b[2]) /\ b # a
    <3> TAKE b \in Jobs \X (1..Tries[SpotiFLAC])
    <3>1. b = <<b[1], b[2]>> /\ b[1] \in Jobs /\ b[2] \in 1..Tries[SpotiFLAC]
      OBVIOUS
    <3> QED BY <2>3, <3>1
  <2> QED BY <2>2, <2>4, PendingWaits
<1> HIDE DEF a
<1>11. /\ Cardinality(Pending') = Cardinality(Pending) - 1
       /\ Cardinality(Pending') \in Nat /\ Cardinality(Pending) \in Nat
  BY <1>10, PendingFinite, FS_RemoveElement, FS_CardinalityType
<1>12. breaker \in [cool : 0..MaxCool, strikes : 0..MaxCool, spare : Int]
       /\ breaker.cool <= breaker.strikes
  BY <1>4 DEF TypeOK
<1>13. /\ Spared'
       /\ breaker' \in [cool : 0..MaxCool, strikes : 0..MaxCool, spare : Int]
       /\ breaker'.cool <= breaker'.strikes
  <2>1. CASE breaker.cool > 0
    <3>1. /\ breaker' \in [cool : 0..MaxCool, strikes : 0..MaxCool, spare : Int]
          /\ breaker'.cool = breaker.cool /\ breaker'.strikes = breaker.strikes
          /\ breaker'.spare = breaker.spare - 1
      BY <1>2, <1>12, <2>1
    <3> QED BY <1>4, <1>11, <1>12, <2>1, <3>1 DEF Spared
  <2>2. CASE ~(breaker.cool > 0)
    BY <1>2, <1>4, <1>12, <2>2 DEF Spared
  <2> QED BY <2>1, <2>2
<1> HIDE DEF x
<1> QED BY <1>1, <1>3, <1>6, <1>9, <1>13, StepOfRun

-----------------------------------------------------------------------------
\* The work directory

LEMMA Written ==
    ASSUME NEW d \in Directory, NEW p \in Providers, NEW a \in Audio, NEW e, e = Write(d, p, a)
    PROVE  /\ e \in Directory /\ Kept(e) /\ e.newest = p /\ e.files[p] = a
           /\ \A q \in Providers : q # p => e.files[q] = d.files[q]
<1> DEFINE files == [d.files EXCEPT ![p] = a]
<1>1. /\ files \in [Providers -> Audio \cup {None}] /\ files[p] = a
      /\ \A q \in Providers : q # p => files[q] = d.files[q]
  BY DEF Directory
<1>2. e = [files |-> files, newest |-> p]
  BY DEF Write
<1> HIDE DEF files
<1>3. e \in Directory /\ e.files = files /\ e.newest = p
  BY <1>1, <1>2 DEF Directory
<1> QED BY <1>1, <1>3, ChainNames DEF Kept

LEMMA DeletedFile ==
    ASSUME NEW d \in Directory, NEW p \in Providers, NEW e, e = Deleted(d, p)
    PROVE  /\ e \in Directory /\ Kept(e) /\ e.files[p] = None
           /\ \A q \in Providers : q # p => e.files[q] = d.files[q]
<1> DEFINE files == [d.files EXCEPT ![p] = None]
           left == {q \in Providers \ {p} : Content(d, q) # None}
           newest == IF left = {} THEN None ELSE CHOOSE q \in left : TRUE
<1>1. /\ files \in [Providers -> Audio \cup {None}] /\ files[p] = None
      /\ \A q \in Providers : q # p => files[q] = d.files[q]
  BY DEF Directory
<1>2. e = [files |-> files, newest |-> newest]
  BY DEF Deleted
<1>3. (left = {} /\ newest = None) \/ newest \in left
  OBVIOUS
<1>4. \A q \in Providers : q \in left <=> q # p /\ d.files[q] # None
  BY DEF Content
<1>5. left \subseteq Providers
  OBVIOUS
<1> HIDE DEF files, left, newest
<1>6. newest \in Providers \cup {None}
  BY <1>3, <1>5
<1>7. e \in Directory /\ e.files = files /\ e.newest = newest
  BY <1>1, <1>2, <1>6 DEF Directory
<1>8. Kept(e)
  <2>1. CASE left = {} /\ newest = None
    BY <1>1, <1>4, <1>7, <2>1 DEF Kept
  <2>2. CASE newest \in left
    BY <1>1, <1>4, <1>5, <1>7, <2>2, ChainNames DEF Kept
  <2> QED BY <1>3, <2>1, <2>2
<1> QED BY <1>1, <1>7, <1>8

\* What a program may leave: the directory as it was, or with a file of its own.
LEMMA Outcome ==
    ASSUME NEW d \in Directory, Kept(d), NEW p \in Providers,
           NEW e, e = d \/ \E a \in Audio : e = Write(d, p, a)
    PROVE  /\ e \in Directory /\ Kept(e)
           /\ \A q \in Providers : q # p => e.files[q] = d.files[q]
           /\ e = d \/ e.newest = p
           /\ e.files[p] # None \/ e.files[p] = d.files[p]
           /\ \A q \in Providers : d.files[q] # None => e.files[q] # None
           /\ e.newest # None => e.newest \in Providers /\ e.files[e.newest] # None
<1>1. CASE e = d
  BY <1>1 DEF Kept, Directory
<1>2. CASE e # d
  <2>1. PICK a \in Audio : e = Write(d, p, a)
    BY <1>2
  <2>2. /\ e \in Directory /\ Kept(e) /\ e.newest = p /\ e.files[p] = a
        /\ \A q \in Providers : q # p => e.files[q] = d.files[q]
    BY <2>1, Written
  <2> QED BY <2>2, ChainNames
<1> QED BY <1>1, <1>2

-----------------------------------------------------------------------------
\* The end of a call

LEMMA CallFacts ==
    ASSUME ChainInv, NEW j \in Jobs, NEW r, r = job[j], r.pc = "cli" \/ r.pc = "lock"
    PROVE  /\ r \in Run /\ Listed(r) /\ r.i \in Nat \ {0} /\ r.i <= Len(r.plan)
           /\ r.file = None /\ r.verdict = None /\ r.plan[r.i] \in Providers
           /\ \A p \in Providers : dir[j].files[p] # None =>
                 \/ Behind(r, p) /\ (RejectMismatches => r.fate[p] = "cut")
                 \/ Current(r, p) /\ r.fate[p] = "cut"
           /\ \A p \in stray[j] : Behind(r, p) /\ r.fate[p] = "cut"
           /\ dir[j] \in Directory /\ Kept(dir[j]) /\ stray[j] \in SUBSET Providers
           /\ track[j] \in Row /\ RowSound(track[j]) /\ starts \in 0..MaxStarts
           /\ dir = [dir EXCEPT ![j] = dir[j]]
           /\ stray = [stray EXCEPT ![j] = stray[j]]
           /\ track = [track EXCEPT ![j] = track[j]]
<1>1. /\ r \in Run /\ Listed(r) /\ Traces(r, dir[j], stray[j]) /\ Shown(r, dir[j])
      /\ dir[j] \in Directory /\ Kept(dir[j]) /\ stray[j] \in SUBSET Providers
      /\ track[j] \in Row /\ RowSound(track[j]) /\ starts \in 0..MaxStarts
      /\ dir = [dir EXCEPT ![j] = dir[j]]
      /\ stray = [stray EXCEPT ![j] = stray[j]]
      /\ track = [track EXCEPT ![j] = track[j]]
  BY JobFacts
<1>2. r.i \in Nat \ {0} /\ r.i <= Len(r.plan) /\ r.plan[r.i] \in Providers
  BY <1>1 DEF Listed, Run
<1>3. r.file = None /\ r.verdict = None
  BY <1>1 DEF Shown
<1>4. /\ \A p \in Providers : dir[j].files[p] # None =>
            \/ Behind(r, p) /\ (RejectMismatches => r.fate[p] = "cut")
            \/ Current(r, p) /\ r.fate[p] = "cut"
      /\ \A p \in stray[j] : Behind(r, p) /\ r.fate[p] = "cut"
  BY <1>1, <1>2 DEF Traces, Run
<1> QED BY <1>1, <1>2, <1>3, <1>4

LEMMA StruckBreaker ==
    ASSUME TypeOK, Spared, breaker' = Struck(breaker, Cardinality(Pending)),
           Pending' \subseteq Pending
    PROVE  /\ Spared'
           /\ breaker' \in [cool : 0..MaxCool, strikes : 0..MaxCool, spare : Int]
           /\ breaker'.cool <= breaker'.strikes
<1> DEFINE left == Cardinality(Pending)
           n == IF breaker.strikes < MaxCool THEN breaker.strikes + 1 ELSE MaxCool
<1>1. Cardinality(Pending') <= left /\ Cardinality(Pending') \in Nat /\ left \in Nat
  BY PendingFinite, FS_Subset, FS_CardinalityType
<1>2. /\ breaker.cool \in 0..MaxCool /\ breaker.strikes \in 0..MaxCool
      /\ breaker.spare \in Int /\ MaxCool \in Nat \ {0}
  BY ChainBounds DEF TypeOK
<1>3. n \in 1..MaxCool
  BY <1>2
<1>4. breaker' = [cool |-> n, strikes |-> n,
                  spare |-> IF breaker.cool = 0 THEN left ELSE breaker.spare]
  BY DEF Struck
<1> HIDE DEF n, left
<1>5. /\ breaker'.cool = n /\ breaker'.strikes = n
      /\ breaker'.spare = IF breaker.cool = 0 THEN left ELSE breaker.spare
  BY <1>4
<1>6. breaker' \in [cool : 0..MaxCool, strikes : 0..MaxCool, spare : Int]
  BY <1>1, <1>2, <1>3, <1>4
<1>7. Spared'
  <2>1. CASE breaker.cool = 0
    BY <1>1, <1>5, <2>1 DEF Spared
  <2>2. CASE breaker.cool # 0
    <3>1. left <= breaker.spare /\ breaker.spare >= 0
      BY <1>2, <2>2 DEF Spared, left
    <3> QED BY <1>1, <1>2, <1>5, <2>2, <3>1 DEF Spared
  <2> QED BY <2>1, <2>2
<1> QED BY <1>3, <1>5, <1>6, <1>7

LEMMA OpenBreaker ==
    ASSUME breaker' = Open
    PROVE  /\ Spared'
           /\ breaker' \in [cool : 0..MaxCool, strikes : 0..MaxCool, spare : Int]
           /\ breaker'.cool <= breaker'.strikes
<1>1. breaker'.cool = 0 /\ breaker'.spare = 0 /\ breaker'.strikes = 0
  BY DEF Open
<1>2. 0 \in 0..MaxCool
  BY ChainBounds
<1> QED BY <1>1, <1>2 DEF Spared, Open

LEMMA SpotiFLACEndsKeeps ==
    ASSUME ChainInv, NEW j \in Jobs, NEW limited \in BOOLEAN, SpotiFLACEnds(j, limited)
    PROVE  ChainInv'
<1> DEFINE r == job[j]
<1>1. PICK d \in {dir[j]} \cup {Write(dir[j], SpotiFLAC, a) : a \in Audio} :
        /\ dir' = [dir EXCEPT ![j] = d]
        /\ IF Latest(d) # None
           THEN /\ breaker' = Open
                /\ job' = [job EXCEPT ![j] = Given(@, Latest(d))]
           ELSE /\ breaker' = IF limited THEN Struck(breaker, Cardinality(Pending)) ELSE breaker
                /\ job' = [job EXCEPT ![j] = Again(@, FALSE)]
  BY DEF SpotiFLACEnds
<1>2. /\ r.pc = "cli" /\ r.plan[r.i] = SpotiFLAC /\ holder' = Released(j)
      /\ UNCHANGED <<stray, track, starts>>
  BY DEF SpotiFLACEnds, Provider
<1>3. /\ r \in Run /\ Listed(r) /\ r.i \in Nat \ {0} /\ r.i <= Len(r.plan)
      /\ r.file = None /\ r.verdict = None
      /\ \A p \in Providers : dir[j].files[p] # None =>
            \/ Behind(r, p) /\ (RejectMismatches => r.fate[p] = "cut")
            \/ Current(r, p) /\ r.fate[p] = "cut"
      /\ \A p \in stray[j] : Behind(r, p) /\ r.fate[p] = "cut"
      /\ dir[j] \in Directory /\ Kept(dir[j]) /\ stray[j] \in SUBSET Providers
      /\ track[j] \in Row /\ RowSound(track[j]) /\ starts' \in 0..MaxStarts
      /\ stray' = [stray EXCEPT ![j] = stray[j]]
      /\ track' = [track EXCEPT ![j] = track[j]]
  BY <1>2, CallFacts
<1>4. TypeOK /\ Locked /\ Spared
  BY DEF ChainInv
<1>5. SpotiFLAC \in Providers /\ Current(r, SpotiFLAC)
  BY <1>2, <1>3 DEF Providers, Current
<1>6. /\ d \in Directory /\ Kept(d)
      /\ \A q \in Providers : q # SpotiFLAC => d.files[q] = dir[j].files[q]
      /\ d = dir[j] \/ d.newest = SpotiFLAC
      /\ d.newest # None => d.newest \in Providers /\ d.files[d.newest] # None
  BY <1>1, <1>3, <1>5, Outcome
<1>7. CASE d.newest # None
  <2> DEFINE x == Given(r, d.newest)
  <2>1. breaker' = Open /\ job' = [job EXCEPT ![j] = x]
    BY <1>1, <1>7 DEF Latest
  <2> HIDE DEF r
  <2>2. \A p \in Providers : d.files[p] # None =>
           \/ Behind(r, p) /\ (RejectMismatches => r.fate[p] = "cut")
           \/ Current(r, p)
    BY <1>3, <1>5, <1>6
  <2>3. x \in Run /\ x.pc = "inspect" /\ RunSound(x, d, stray[j])
    BY <1>3, <1>6, <1>7, <2>2, GivenSound
  <2> HIDE DEF x
  <2>4. ~Holds(x)
    BY <2>3 DEF Holds
  <2>5. Locked' /\ holder' \in Jobs \cup {None}
    BY <1>2, <1>4, <2>1, <2>4, LetGo
  <2>6. /\ Spared'
        /\ breaker' \in [cool : 0..MaxCool, strikes : 0..MaxCool, spare : Int]
        /\ breaker'.cool <= breaker'.strikes
    BY <2>1, OpenBreaker
  <2> QED BY <1>1, <1>3, <1>6, <2>1, <2>3, <2>5, <2>6, StepOfRun
<1>8. CASE d.newest = None
  <2> DEFINE x == AgainMissed(r)
  <2>1. /\ breaker' = IF limited THEN Struck(breaker, Cardinality(Pending)) ELSE breaker
        /\ job' = [job EXCEPT ![j] = x]
    BY <1>1, <1>8 DEF Latest, AgainMissed
  <2> HIDE DEF r
  <2>2. d = dir[j]
    BY <1>6, <1>8, ChainNames DEF Providers
  <2>7. x = AgainMissed(r)
    OBVIOUS
  <2> HIDE DEF x
  <2>8. \A p \in Providers : d.files[p] # None =>
           \/ Behind(r, p) /\ (RejectMismatches => r.fate[p] = "cut")
           \/ Current(r, p) /\ r.fate[p] = "cut"
    BY <1>3, <2>2
  <2>3. /\ x \in Run /\ RunSound(x, d, stray[j])
        /\ ~Holds(x)
        /\ \A n \in 1..Tries[SpotiFLAC] : Waits(x, n) => Waits(r, n)
    <3>1. /\ r \in Run /\ Listed(r) /\ r.pc = "cli" /\ r.file = None /\ r.verdict = None
          /\ d \in Directory /\ stray[j] \in SUBSET Providers
          /\ \A p \in stray[j] : Behind(r, p) /\ r.fate[p] = "cut"
      BY <1>2, <1>3, <1>6
    <3> QED BY <2>7, <2>8, <3>1, MissedSound
  <2>4. Locked' /\ holder' \in Jobs \cup {None}
    BY <1>2, <1>4, <2>1, <2>3, LetGo
  <2>5. Pending' \subseteq Pending
    BY <1>4, <2>1, <2>3, PendingKept DEF r
  <2>6. /\ Spared'
        /\ breaker' \in [cool : 0..MaxCool, strikes : 0..MaxCool, spare : Int]
        /\ breaker'.cool <= breaker'.strikes
    <3>1. CASE limited
      BY <1>4, <2>1, <2>5, <3>1, StruckBreaker
    <3>2. CASE ~limited
      BY <1>4, <2>1, <2>5, <3>2, SparedKept
    <3> QED BY <3>1, <3>2
  <2> QED BY <1>1, <1>3, <1>6, <2>1, <2>3, <2>4, <2>6, StepOfRun
<1> QED BY <1>7, <1>8

LEMMA YtDlpEndsKeeps ==
    ASSUME ChainInv, NEW j \in Jobs, YtDlpEnds(j)
    PROVE  ChainInv'
<1> DEFINE r == job[j]
<1>1. PICK d \in {dir[j]} \cup {Write(dir[j], YtDlp, a) : a \in Audio} :
        \/ /\ Latest(d) = None
           /\ dir' = [dir EXCEPT ![j] = d]
           /\ job' = [job EXCEPT ![j] = Again(@, FALSE)]
        \/ /\ Latest(d) # None
           /\ dir' = [dir EXCEPT ![j] = d]
           /\ job' = [job EXCEPT ![j] = Given(@, Latest(d))]
        \/ /\ Latest(d) # None
           /\ dir' = [dir EXCEPT ![j] = Deleted(d, Latest(d))]
           /\ job' = [job EXCEPT ![j] = Again(@, FALSE)]
  BY Zenon DEF YtDlpEnds
<1>2. /\ r.pc = "cli" /\ r.plan[r.i] = YtDlp
      /\ UNCHANGED <<stray, holder, breaker, track, starts>>
  BY DEF YtDlpEnds, Provider
<1>3. /\ r \in Run /\ Listed(r) /\ r.i \in Nat \ {0} /\ r.i <= Len(r.plan)
      /\ r.file = None /\ r.verdict = None
      /\ \A p \in Providers : dir[j].files[p] # None =>
            \/ Behind(r, p) /\ (RejectMismatches => r.fate[p] = "cut")
            \/ Current(r, p) /\ r.fate[p] = "cut"
      /\ \A p \in stray[j] : Behind(r, p) /\ r.fate[p] = "cut"
      /\ dir[j] \in Directory /\ Kept(dir[j]) /\ stray[j] \in SUBSET Providers
      /\ track[j] \in Row /\ RowSound(track[j]) /\ starts' \in 0..MaxStarts
      /\ stray' = [stray EXCEPT ![j] = stray[j]]
      /\ track' = [track EXCEPT ![j] = track[j]]
  BY <1>2, CallFacts
<1>4. Locked
  BY DEF ChainInv
<1>5. YtDlp \in Providers /\ Current(r, YtDlp)
  BY <1>2, <1>3 DEF Providers, Current
<1>6. /\ d \in Directory /\ Kept(d)
      /\ \A q \in Providers : q # YtDlp => d.files[q] = dir[j].files[q]
      /\ d = dir[j] \/ d.newest = YtDlp
      /\ d.newest # None => d.newest \in Providers /\ d.files[d.newest] # None
  BY <1>1, <1>3, <1>5, Outcome
<1>7. holder' = Released(j) /\ breaker' = breaker
  <2>1. ~Holds(r)
    BY <1>2, ChainNames DEF Holds
  <2> QED BY <1>2, <1>4, <2>1, NotHeld
<1>8. CASE /\ d.newest # None
           /\ dir' = [dir EXCEPT ![j] = d]
           /\ job' = [job EXCEPT ![j] = Given(r, d.newest)]
  <2> DEFINE x == Given(r, d.newest)
  <2>1. job' = [job EXCEPT ![j] = x]
    BY <1>8
  <2> HIDE DEF r
  <2>2. \A p \in Providers : d.files[p] # None =>
           \/ Behind(r, p) /\ (RejectMismatches => r.fate[p] = "cut")
           \/ Current(r, p)
    BY <1>3, <1>5, <1>6
  <2>3. x \in Run /\ x.pc = "inspect" /\ RunSound(x, d, stray[j])
    BY <1>3, <1>6, <1>8, <2>2, GivenSound
  <2> HIDE DEF x
  <2>4. ~Holds(x) /\ \A n \in 1..Tries[SpotiFLAC] : ~Waits(x, n)
    BY <2>3 DEF Holds, Waits
  <2> QED BY <1>3, <1>6, <1>7, <1>8, <2>1, <2>3, <2>4, PlainStep
<1>9. ASSUME NEW e \in Directory, Kept(e), dir' = [dir EXCEPT ![j] = e],
             job' = [job EXCEPT ![j] = AgainMissed(r)],
             \A p \in Providers : e.files[p] # None =>
                \/ Behind(r, p) /\ (RejectMismatches => r.fate[p] = "cut")
                \/ Current(r, p) /\ r.fate[p] = "cut"
      PROVE  ChainInv'
  <2> DEFINE x == AgainMissed(r)
  <2>1. job' = [job EXCEPT ![j] = x] /\ x = AgainMissed(r)
    BY <1>9
  <2> HIDE DEF r, x
  <2>2. /\ x \in Run /\ RunSound(x, e, stray[j])
        /\ ~Holds(x)
        /\ \A n \in 1..Tries[SpotiFLAC] : Waits(x, n) => Waits(r, n)
    <3>1. /\ r \in Run /\ Listed(r) /\ r.pc = "cli" /\ r.file = None /\ r.verdict = None
          /\ e \in Directory /\ stray[j] \in SUBSET Providers
          /\ \A p \in stray[j] : Behind(r, p) /\ r.fate[p] = "cut"
      BY <1>2, <1>3
    <3>2. \A p \in Providers : e.files[p] # None =>
             \/ Behind(r, p) /\ (RejectMismatches => r.fate[p] = "cut")
             \/ Current(r, p) /\ r.fate[p] = "cut"
      BY <1>9
    <3> QED BY <2>1, <3>1, <3>2, MissedSound
  <2>3. \A n \in 1..Tries[SpotiFLAC] : Waits(x, n) => Waits(job[j], n)
    BY <2>2 DEF r
  <2> QED BY <1>3, <1>7, <1>9, <2>1, <2>2, <2>3, PlainStep
<1>10. CASE /\ d.newest = None
            /\ dir' = [dir EXCEPT ![j] = d]
            /\ job' = [job EXCEPT ![j] = AgainMissed(r)]
  <2>1. d = dir[j]
    BY <1>5, <1>6, <1>10, ChainNames
  <2> QED BY <1>3, <1>6, <1>9, <1>10, <2>1
<1>11. CASE /\ d.newest # None
            /\ dir' = [dir EXCEPT ![j] = Deleted(d, d.newest)]
            /\ job' = [job EXCEPT ![j] = AgainMissed(r)]
  <2> DEFINE e == Deleted(d, d.newest)
  <2>1. d.newest \in Providers
    BY <1>6, <1>11
  <2>2. /\ e \in Directory /\ Kept(e) /\ e.files[d.newest] = None
        /\ \A q \in Providers : q # d.newest => e.files[q] = d.files[q]
    BY <1>6, <2>1, DeletedFile
  <2>3. dir' = [dir EXCEPT ![j] = e]
    BY <1>11
  <2> HIDE DEF e, r
  <2>4. \A p \in Providers : e.files[p] # None => dir[j].files[p] # None
    BY <1>6, <2>2
  <2> QED BY <1>3, <1>9, <1>11, <2>2, <2>3, <2>4
<1>12. \/ /\ d.newest # None
          /\ dir' = [dir EXCEPT ![j] = d]
          /\ job' = [job EXCEPT ![j] = Given(r, d.newest)]
       \/ /\ d.newest = None
          /\ dir' = [dir EXCEPT ![j] = d]
          /\ job' = [job EXCEPT ![j] = AgainMissed(r)]
       \/ /\ d.newest # None
          /\ dir' = [dir EXCEPT ![j] = Deleted(d, d.newest)]
          /\ job' = [job EXCEPT ![j] = AgainMissed(r)]
  BY <1>1 DEF Latest, AgainMissed
<1> QED BY <1>8, <1>10, <1>11, <1>12

LEMMA CliTimesOutKeeps ==
    ASSUME ChainInv, NEW j \in Jobs, CliTimesOut(j)
    PROVE  ChainInv'
<1> DEFINE r == job[j]
           p == r.plan[r.i]
           x == AgainCut(r)
<1>1. PICK d \in {dir[j]} \cup {Write(dir[j], p, a) : a \in {b \in Audio : ~b.fits}} :
        dir' = [dir EXCEPT ![j] = d]
  BY DEF CliTimesOut, Provider
<1>2. /\ r.pc = "cli" /\ job' = [job EXCEPT ![j] = x] /\ holder' = Released(j)
      /\ UNCHANGED <<stray, breaker, track, starts>>
  BY DEF CliTimesOut, AgainCut
<1>3. /\ r \in Run /\ Listed(r) /\ r.i \in Nat \ {0} /\ r.i <= Len(r.plan)
      /\ r.file = None /\ r.verdict = None /\ p \in Providers
      /\ \A q \in Providers : dir[j].files[q] # None =>
            \/ Behind(r, q) /\ (RejectMismatches => r.fate[q] = "cut")
            \/ Current(r, q) /\ r.fate[q] = "cut"
      /\ \A q \in stray[j] : Behind(r, q) /\ r.fate[q] = "cut"
      /\ dir[j] \in Directory /\ Kept(dir[j]) /\ stray[j] \in SUBSET Providers
      /\ track[j] \in Row /\ RowSound(track[j]) /\ starts' \in 0..MaxStarts
      /\ stray' = [stray EXCEPT ![j] = stray[j]]
      /\ track' = [track EXCEPT ![j] = track[j]]
  BY <1>2, CallFacts
<1>4. Current(r, p)
  BY <1>3 DEF Current
<1>5. d = dir[j] \/ \E a \in Audio : d = Write(dir[j], p, a)
  BY <1>1
<1>6. /\ d \in Directory /\ Kept(d)
      /\ \A q \in Providers : q # p => d.files[q] = dir[j].files[q]
  BY <1>3, <1>5, Outcome
<1>7. x = AgainCut(r)
  OBVIOUS
<1> HIDE DEF r, p, x
<1>8. /\ x \in Run /\ RunSound(x, d, stray[j])
      /\ ~Holds(x)
      /\ \A n \in 1..Tries[SpotiFLAC] : Waits(x, n) => Waits(r, n)
  <2>1. /\ r \in Run /\ Listed(r) /\ r.pc = "cli" /\ r.file = None /\ r.verdict = None
        /\ d \in Directory /\ stray[j] \in SUBSET Providers
        /\ \A q \in stray[j] : Behind(r, q) /\ r.fate[q] = "cut"
    BY <1>2, <1>3, <1>6
  <2>2. \A q \in Providers : d.files[q] # None =>
           \/ Behind(r, q) /\ (RejectMismatches => r.fate[q] = "cut")
           \/ Current(r, q)
    BY <1>3, <1>4, <1>6
  <2> QED BY <1>7, <2>1, <2>2, CutSound
<1>9. \A n \in 1..Tries[SpotiFLAC] : Waits(x, n) => Waits(job[j], n)
  BY <1>8 DEF r
<1> QED BY <1>1, <1>2, <1>3, <1>6, <1>8, <1>9, PlainStep

LEMMA HookTimesOutKeeps ==
    ASSUME ChainInv, NEW j \in Jobs, HookTimesOut(j)
    PROVE  ChainInv'
<1> DEFINE r == job[j]
           p == r.plan[r.i]
           x == Passed(r, "cut")
           s == IF r.pc = "cli" THEN stray[j] \cup {p} ELSE stray[j]
<1>1. /\ r.pc = "lock" \/ r.pc = "cli"
      /\ job' = [job EXCEPT ![j] = x] /\ holder' = Released(j)
      /\ UNCHANGED <<dir, breaker, track, starts>>
  BY DEF HookTimesOut
<1>2. /\ r \in Run /\ Listed(r) /\ r.i \in Nat \ {0} /\ r.i <= Len(r.plan)
      /\ r.file = None /\ r.verdict = None /\ p \in Providers
      /\ \A q \in Providers : dir[j].files[q] # None =>
            \/ Behind(r, q) /\ (RejectMismatches => r.fate[q] = "cut")
            \/ Current(r, q) /\ r.fate[q] = "cut"
      /\ \A q \in stray[j] : Behind(r, q) /\ r.fate[q] = "cut"
      /\ dir[j] \in Directory /\ Kept(dir[j]) /\ stray[j] \in SUBSET Providers
      /\ track[j] \in Row /\ RowSound(track[j]) /\ starts' \in 0..MaxStarts
      /\ dir' = [dir EXCEPT ![j] = dir[j]]
      /\ stray = [stray EXCEPT ![j] = stray[j]]
      /\ track' = [track EXCEPT ![j] = track[j]]
  BY <1>1, CallFacts
<1>3. stray' = [stray EXCEPT ![j] = s] /\ s \in SUBSET Providers
  <2>1. CASE r.pc = "cli"
    BY <1>2, <2>1 DEF HookTimesOut, Provider
  <2>2. CASE r.pc # "cli"
    BY <1>2, <2>2 DEF HookTimesOut
  <2> QED BY <2>1, <2>2
<1>4. "cut" \in Fates /\ "cut" \in Gone
  BY DEF Fates, Gone
<1>5. Current(r, p) /\ \A q \in Providers : Current(r, q) => q = p
  BY <1>2 DEF Current
<1>6. \A q \in s : q \in stray[j] \/ q = p
  OBVIOUS
<1> HIDE DEF r, s
<1>7. /\ x \in Run
      /\ x.pc = "gate" /\ x.i = r.i + 1 /\ x.file = None
      /\ x.manual = r.manual /\ x.plan = r.plan /\ x.seen = r.seen /\ x.verdict = r.verdict
      /\ x.fate[r.plan[r.i]] = "cut"
      /\ \A q \in Providers : q # r.plan[r.i] => x.fate[q] = r.fate[q]
  BY <1>2, <1>4, PassedRun
<1> HIDE DEF x
<1>8. RunSound(x, dir[j], s)
  <2>1. \A q \in Providers : dir[j].files[q] # None =>
           \/ Behind(r, q) /\ (RejectMismatches => r.fate[q] = "cut")
           \/ Current(r, q) /\ (RejectMismatches => x.fate[q] = "cut" \/ r.i = Len(r.plan))
    BY <1>2, <1>5, <1>7
  <2>2. \A q \in s : \/ Behind(r, q) /\ r.fate[q] = "cut"
                     \/ Current(r, q) /\ x.fate[q] = "cut"
    BY <1>2, <1>5, <1>6, <1>7
  <2> HIDE DEF p
  <2> QED BY <1>2, <1>3, <1>4, <1>7, <2>1, <2>2, PassedSound
<1>9. ~Holds(x) /\ \A n \in 1..Tries[SpotiFLAC] : ~Waits(x, n)
  BY <1>7 DEF Holds, Waits
<1> QED BY <1>1, <1>2, <1>3, <1>7, <1>8, <1>9, PlainStep

LEMMA StrayEndsKeeps ==
    ASSUME ChainInv, NEW j \in Jobs, NEW p \in Providers, StrayEnds(j, p)
    PROVE  ChainInv'
<1> DEFINE r == job[j]
           s == stray[j] \ {p}
<1>1. /\ p \in stray[j] /\ stray' = [stray EXCEPT ![j] = s]
      /\ UNCHANGED <<job, holder, breaker, track, starts>>
  BY DEF StrayEnds
<1>2. PICK d \in {dir[j]} \cup {Write(dir[j], p, a) : a \in Audio} :
        dir' = [dir EXCEPT ![j] = d]
  BY DEF StrayEnds
<1>3. /\ r \in Run /\ Listed(r) /\ Traces(r, dir[j], stray[j]) /\ Shown(r, dir[j])
      /\ dir[j] \in Directory /\ stray[j] \in SUBSET Providers /\ Kept(dir[j])
      /\ track[j] \in Row /\ RowSound(track[j]) /\ starts' \in 0..MaxStarts
      /\ track' = [track EXCEPT ![j] = track[j]]
  BY <1>1, JobFacts
<1>4. /\ d \in Directory /\ Kept(d)
      /\ \A q \in Providers : q # p => d.files[q] = dir[j].files[q]
      /\ \A q \in Providers : dir[j].files[q] # None => d.files[q] # None
  BY <1>2, <1>3, Outcome
<1>5. Behind(r, p) /\ r.fate[p] = "cut"
  BY <1>1, <1>3 DEF Traces
<1>6. TypeOK /\ Locked /\ Spared /\ job' = [job EXCEPT ![j] = r]
  BY <1>1 DEF ChainInv, TypeOK
<1>7. r # Idle
  BY <1>3 DEF Idle, Run
<1> HIDE DEF r
<1>8. Traces(r, d, s)
  BY <1>3, <1>4, <1>5 DEF Traces
<1>9. r.file # None => r.file \in Providers
  BY <1>3 DEF Run
<1>10. Shown(r, d)
  BY <1>3, <1>4, <1>5, <1>9 DEF Shown
<1>11. RunSound(r, d, s)
  BY <1>3, <1>7, <1>8, <1>10 DEF RunSound
<1>12. Locked' /\ holder' \in Jobs \cup {None}
  BY <1>1, <1>6 DEF Locked, Provider, TypeOK
<1>13. Pending' = Pending
  BY <1>1 DEF Pending, Provider
<1>14. /\ Spared'
       /\ breaker' \in [cool : 0..MaxCool, strikes : 0..MaxCool, spare : Int]
       /\ breaker'.cool <= breaker'.strikes
  BY <1>1, <1>6, <1>13, SparedKept
<1> QED BY <1>1, <1>2, <1>3, <1>4, <1>6, <1>11, <1>12, <1>14, StepOfRun

-----------------------------------------------------------------------------
\* The judgement of a file

LEMMA FileFacts ==
    ASSUME ChainInv, NEW j \in Jobs, NEW r, r = job[j], r.pc \in {"inspect", "judge", "finish"}
    PROVE  /\ r \in Run /\ Listed(r) /\ Traces(r, dir[j], stray[j]) /\ Shown(r, dir[j])
           /\ r.i \in Nat \ {0} /\ r.plan \in Seq(Providers)
           /\ r.file # None => r.file \in Providers /\ dir[j].files[r.file] \in Audio
           /\ dir[j] \in Directory /\ Kept(dir[j]) /\ stray[j] \in SUBSET Providers
           /\ track[j] \in Row /\ RowSound(track[j]) /\ starts \in 0..MaxStarts
           /\ dir = [dir EXCEPT ![j] = dir[j]]
<1>1. r.pc # "idle"
  OBVIOUS
<1>2. /\ r \in Run /\ Listed(r) /\ Traces(r, dir[j], stray[j]) /\ Shown(r, dir[j])
      /\ dir[j] \in Directory /\ Kept(dir[j]) /\ stray[j] \in SUBSET Providers
      /\ track[j] \in Row /\ RowSound(track[j]) /\ starts \in 0..MaxStarts
      /\ dir = [dir EXCEPT ![j] = dir[j]]
  BY <1>1, JobFacts
<1>3. r.i \in Nat \ {0} /\ r.plan \in Seq(Providers) /\ (r.file # None => r.file \in Providers)
  BY <1>2 DEF Run
<1>4. r.file # None => dir[j].files[r.file] \in Audio
  BY <1>2, <1>3 DEF Shown, Directory
<1> QED BY <1>2, <1>3, <1>4

LEMMA SameTraces ==
    ASSUME NEW r \in Run, NEW x \in Run, NEW d \in Directory, NEW s \in SUBSET Providers,
           Listed(r), Traces(r, d, s), Called(r), r.pc \notin {"lock", "cli"},
           x.plan = r.plan, x.i = r.i, x.fate = r.fate, x.pc \in {"judge", "finish"},
           x.pc = "judge" => r.i <= Len(r.plan)
    PROVE  Listed(x) /\ Traces(x, d, s) /\ x # Idle
<1>1. Listed(x)
  BY DEF Listed
<1>2. \A p \in Providers : (Behind(r, p) => Behind(x, p)) /\ (Current(r, p) => Current(x, p))
  BY DEF Behind, Current
<1>3. Traces(x, d, s)
  BY <1>2 DEF Traces, Called
<1>4. x # Idle
  BY DEF Idle
<1> QED BY <1>1, <1>3, <1>4

LEMMA InspectMatchKeeps ==
    ASSUME ChainInv, NEW j \in Jobs, InspectMatch(j)
    PROVE  ChainInv'
<1> DEFINE r == job[j]
           a == Content(dir[j], r.file)
           taken == [r EXCEPT !.pc = "finish", !.seen = a, !.verdict = "matched"]
           refused == [r EXCEPT !.pc = "finish", !.file = None]
           x == IF Plausible(a, CheckDuration) THEN taken ELSE refused
<1>1. /\ r.pc = "inspect" /\ r.manual /\ job' = [job EXCEPT ![j] = x]
      /\ UNCHANGED <<dir, stray, holder, breaker, track, starts>>
  BY DEF InspectMatch
<1>2. /\ r \in Run /\ Listed(r) /\ Traces(r, dir[j], stray[j]) /\ Shown(r, dir[j])
      /\ r.file # None => r.file \in Providers /\ dir[j].files[r.file] \in Audio
      /\ dir[j] \in Directory /\ Kept(dir[j]) /\ stray[j] \in SUBSET Providers
      /\ starts' \in 0..MaxStarts
      /\ dir' = [dir EXCEPT ![j] = dir[j]]
  BY <1>1, FileFacts
<1>3. r.file # None /\ r.verdict = None /\ r.i <= Len(r.plan)
  BY <1>1, <1>2 DEF Shown, Listed
<1>4. a \in Audio /\ a # None /\ a = dir[j].files[r.file]
  BY <1>2, <1>3, ChainNames DEF Content
<1>5. Called(r) /\ r.pc \notin {"lock", "cli"}
  BY <1>1 DEF Called
<1> HIDE DEF r, a
<1>6. CASE Plausible(a, CheckDuration)
  <2>1. job' = [job EXCEPT ![j] = taken]
    BY <1>1, <1>6
  <2>2. taken \in Run
    BY <1>2, <1>4 DEF Run, Verdicts
  <2>3. /\ taken.pc = "finish" /\ taken.seen = a /\ taken.verdict = "matched"
        /\ taken.file = r.file /\ taken.plan = r.plan /\ taken.i = r.i /\ taken.fate = r.fate
        /\ taken.manual = r.manual
    BY <1>2 DEF Run
  <2> HIDE DEF taken, x
  <2>4. Listed(taken) /\ Traces(taken, dir[j], stray[j]) /\ taken # Idle
    BY <1>2, <1>5, <2>2, <2>3, SameTraces
  <2>5. Shown(taken, dir[j])
    BY <1>1, <1>2, <1>3, <1>4, <1>6, <2>3, ChainNames DEF Shown, Verdicts
  <2>6. RunSound(taken, dir[j], stray[j])
    BY <2>4, <2>5 DEF RunSound
  <2>7. job[j].pc \notin {"lock", "cli"} /\ taken.pc \notin {"lock", "cli"}
    BY <1>5, <2>3 DEF r
  <2> QED BY <1>1, <1>2, <2>1, <2>2, <2>6, <2>7, QuietStep
<1>7. CASE ~Plausible(a, CheckDuration)
  <2>1. job' = [job EXCEPT ![j] = refused]
    BY <1>1, <1>7
  <2>2. refused \in Run
    BY <1>2 DEF Run
  <2>3. /\ refused.pc = "finish" /\ refused.verdict = r.verdict /\ refused.file = None
        /\ refused.plan = r.plan /\ refused.i = r.i /\ refused.fate = r.fate
        /\ refused.manual = r.manual
    BY <1>2 DEF Run
  <2> HIDE DEF refused, x
  <2>4. Listed(refused) /\ Traces(refused, dir[j], stray[j]) /\ refused # Idle
    BY <1>2, <1>5, <2>2, <2>3, SameTraces
  <2>5. Shown(refused, dir[j])
    BY <1>1, <1>3, <2>3, ChainNames DEF Shown, Verdicts
  <2>6. RunSound(refused, dir[j], stray[j])
    BY <2>4, <2>5 DEF RunSound
  <2>7. job[j].pc \notin {"lock", "cli"} /\ refused.pc \notin {"lock", "cli"}
    BY <1>5, <2>3 DEF r
  <2> QED BY <1>1, <1>2, <2>1, <2>2, <2>6, <2>7, QuietStep
<1> QED BY <1>6, <1>7

LEMMA InspectKeeps ==
    ASSUME ChainInv, NEW j \in Jobs, Inspect(j)
    PROVE  ChainInv'
<1> DEFINE r == job[j]
           a == Content(dir[j], r.file)
           x == [r EXCEPT !.pc = "judge", !.seen = a]
<1>1. /\ r.pc = "inspect" /\ job' = [job EXCEPT ![j] = x]
      /\ UNCHANGED <<dir, stray, holder, breaker, track, starts>>
  BY DEF Inspect
<1>2. /\ r \in Run /\ Listed(r) /\ Traces(r, dir[j], stray[j]) /\ Shown(r, dir[j])
      /\ r.file # None => r.file \in Providers /\ dir[j].files[r.file] \in Audio
      /\ dir[j] \in Directory /\ Kept(dir[j]) /\ stray[j] \in SUBSET Providers
      /\ starts' \in 0..MaxStarts
      /\ dir' = [dir EXCEPT ![j] = dir[j]]
  BY <1>1, FileFacts
<1>3. r.file # None /\ r.verdict = None /\ r.i <= Len(r.plan)
  BY <1>1, <1>2 DEF Shown, Listed
<1>4. a \in Audio /\ a # None /\ a = dir[j].files[r.file]
  BY <1>2, <1>3, ChainNames DEF Content
<1>5. Called(r) /\ r.pc \notin {"lock", "cli"}
  BY <1>1 DEF Called
<1> HIDE DEF r, a
<1>6. x \in Run
  BY <1>2, <1>4 DEF Run
<1>7. /\ x.pc = "judge" /\ x.seen = a /\ x.verdict = r.verdict
      /\ x.file = r.file /\ x.plan = r.plan /\ x.i = r.i /\ x.fate = r.fate
  BY <1>2 DEF Run
<1> HIDE DEF x
<1>8. Listed(x) /\ Traces(x, dir[j], stray[j]) /\ x # Idle
  BY <1>2, <1>3, <1>5, <1>6, <1>7, SameTraces
<1>9. Shown(x, dir[j])
  BY <1>2, <1>3, <1>4, <1>7, ChainNames DEF Shown, Verdicts
<1>10. RunSound(x, dir[j], stray[j])
  BY <1>8, <1>9 DEF RunSound
<1>11. job[j].pc \notin {"lock", "cli"} /\ x.pc \notin {"lock", "cli"}
  BY <1>5, <1>7 DEF r
<1> QED BY <1>1, <1>2, <1>6, <1>10, <1>11, QuietStep

LEMMA JudgedKeeps ==
    ASSUME ChainInv, NEW j \in Jobs, Judge(j)
    PROVE  ChainInv'
<1> DEFINE r == job[j]
<1>1. PICK verdict :
        IF verdict \in {"verified", "mismatch"}
        THEN /\ job' = [job EXCEPT ![j] = [@ EXCEPT !.pc = "finish", !.verdict = verdict]]
             /\ UNCHANGED dir
        ELSE /\ dir' = IF RejectMismatches
                       THEN [dir EXCEPT ![j] = Deleted(@, job[j].file)] ELSE dir
             /\ job' = [job EXCEPT ![j] = Passed([@ EXCEPT !.seen = None], "over")]
  BY Zenon DEF Judge
<1>2. r.pc = "judge" /\ UNCHANGED <<stray, holder, breaker, track, starts>>
  BY DEF Judge
<1>3. /\ r \in Run /\ Listed(r) /\ Traces(r, dir[j], stray[j]) /\ Shown(r, dir[j])
      /\ r.i \in Nat \ {0} /\ r.plan \in Seq(Providers)
      /\ r.file # None => r.file \in Providers /\ dir[j].files[r.file] \in Audio
      /\ dir[j] \in Directory /\ Kept(dir[j]) /\ stray[j] \in SUBSET Providers
      /\ starts' \in 0..MaxStarts
      /\ dir = [dir EXCEPT ![j] = dir[j]]
  BY <1>2, FileFacts
<1>4. /\ r.file # None /\ r.seen # None /\ r.verdict = None /\ r.i <= Len(r.plan)
      /\ dir[j].files[r.file] = r.seen \/ r.fate[r.file] = "cut"
  BY <1>2, <1>3 DEF Shown
<1>5. Called(r) /\ r.pc \notin {"lock", "cli"}
  BY <1>2 DEF Called
<1>6. CASE verdict \in {"verified", "mismatch"}
  <2> DEFINE x == [r EXCEPT !.pc = "finish", !.verdict = verdict]
  <2>1. job' = [job EXCEPT ![j] = x] /\ dir' = dir
    BY <1>1, <1>6
  <2> HIDE DEF r
  <2>2. x \in Run
    BY <1>3, <1>6 DEF Run, Verdicts
  <2>3. /\ x.pc = "finish" /\ x.seen = r.seen /\ x.verdict = verdict
        /\ x.file = r.file /\ x.plan = r.plan /\ x.i = r.i /\ x.fate = r.fate
    BY <1>3 DEF Run
  <2> HIDE DEF x
  <2>4. Listed(x) /\ Traces(x, dir[j], stray[j]) /\ x # Idle
    BY <1>3, <1>5, <2>2, <2>3, SameTraces
  <2>5. verdict # None
    BY <1>6, ChainNames DEF Verdicts
  <2>6. Shown(x, dir[j])
    BY <1>3, <1>4, <1>6, <2>3, <2>5 DEF Shown
  <2>7. RunSound(x, dir[j], stray[j])
    BY <2>4, <2>6 DEF RunSound
  <2>8. job[j].pc \notin {"lock", "cli"} /\ x.pc \notin {"lock", "cli"}
    BY <1>5, <2>3 DEF r
  <2> QED BY <1>2, <1>3, <2>1, <2>2, <2>7, <2>8, QuietStep
<1>7. CASE verdict \notin {"verified", "mismatch"}
  <2> DEFINE q == [r EXCEPT !.seen = None]
             x == Passed(q, "over")
             e == Deleted(dir[j], r.file)
             d == IF RejectMismatches THEN e ELSE dir[j]
  <2>1. job' = [job EXCEPT ![j] = x]
    BY <1>1, <1>7
  <2>2. dir' = [dir EXCEPT ![j] = d]
    BY <1>1, <1>3, <1>7
  <2>3. /\ e \in Directory /\ Kept(e) /\ e.files[r.file] = None
        /\ \A p \in Providers : p # r.file => e.files[p] = dir[j].files[p]
    BY <1>3, <1>4, DeletedFile
  <2>4. /\ d \in Directory /\ Kept(d)
        /\ RejectMismatches => d.files[r.file] = None
        /\ \A p \in Providers : d.files[p] # None => dir[j].files[p] # None
    BY <1>3, <2>3
  <2>5. "over" \in Fates /\ "over" \in Gone
    BY DEF Fates, Gone
  <2> HIDE DEF r, e, d
  <2>6. q \in Run
    BY <1>3 DEF Run
  <2>7. /\ q.pc = r.pc /\ q.plan = r.plan /\ q.i = r.i /\ q.fate = r.fate /\ q.file = r.file
        /\ q.verdict = r.verdict /\ q.try = r.try
    BY <1>3 DEF Run
  <2> HIDE DEF q
  <2>8. /\ x \in Run
        /\ x.pc = "gate" /\ x.i = q.i + 1 /\ x.file = None
        /\ x.manual = q.manual /\ x.plan = q.plan /\ x.seen = q.seen /\ x.verdict = q.verdict
        /\ x.fate[q.plan[q.i]] = "over"
        /\ \A p \in Providers : p # q.plan[q.i] => x.fate[p] = q.fate[p]
    BY <1>4, <2>5, <2>6, <2>7, PassedRun
  <2> HIDE DEF x
  <2>9. Listed(q) /\ q.i <= Len(q.plan) /\ q.verdict = None
    BY <1>3, <1>4, <2>7 DEF Listed
  <2>10. \A p \in Providers : (Behind(r, p) => Behind(q, p)) /\ (Current(r, p) => Current(q, p))
    BY <2>7 DEF Behind, Current
  <2>11. ASSUME NEW p \in Providers, d.files[p] # None
         PROVE  \/ Behind(q, p) /\ (RejectMismatches => q.fate[p] = "cut")
                \/ Current(q, p) /\ (RejectMismatches => x.fate[p] = "cut" \/ q.i = Len(q.plan))
    <3>1. \/ Behind(r, p) /\ (RejectMismatches => r.fate[p] = "cut")
          \/ Current(r, p)
      BY <1>3, <1>4, <2>4, <2>11 DEF Traces
    <3>2. CASE Behind(r, p) /\ (RejectMismatches => r.fate[p] = "cut")
      BY <2>7, <2>10, <3>2
    <3>3. CASE Current(r, p) /\ (RejectMismatches => r.i = Len(r.plan))
      BY <2>7, <2>10, <3>3
    <3>4. CASE Current(r, p) /\ RejectMismatches /\ r.i # Len(r.plan)
      <4>1. r.i = 1
        BY <1>3, <1>4, <3>4 DEF Listed
      <4>2. ~Behind(r, r.file)
        BY <1>3, <4>1 DEF Behind
      <4>3. Current(r, r.file)
        <5>1. r.file \in Providers /\ dir[j].files[r.file] # None
          BY <1>3, <1>4, ChainNames
        <5> QED BY <1>3, <4>2, <5>1 DEF Traces
      <4>4. p = r.file
        BY <3>4, <4>3 DEF Current
      <4> QED BY <2>4, <2>11, <3>4, <4>4
    <3> QED BY <3>1, <3>2, <3>3, <3>4
  <2>12. \A p \in stray[j] : Behind(q, p) /\ q.fate[p] = "cut"
    BY <1>3, <2>7, <2>10 DEF Traces
  <2>13. RunSound(x, d, stray[j])
    <3>1. x.fate[q.plan[q.i]] \in Gone
      BY <2>5, <2>8
    <3> QED BY <1>3, <2>4, <2>6, <2>8, <2>9, <2>11, <2>12, <3>1, PassedSound
  <2>14. job[j].pc \notin {"lock", "cli"} /\ x.pc \notin {"lock", "cli"}
    BY <1>5, <2>8 DEF r
  <2> QED BY <1>2, <1>3, <2>1, <2>2, <2>4, <2>8, <2>13, <2>14, QuietStep
<1> QED BY <1>6, <1>7

-----------------------------------------------------------------------------
\* The end of a run, and the row

LEMMA ShownRow ==
    ASSUME ChainInv, NEW j \in Jobs, NEW r, r = job[j], r.pc = "finish", r.verdict # None,
           NEW audio, audio = IF r.verdict = "copied" THEN r.seen ELSE Content(dir[j], r.file),
           NEW caution \in BOOLEAN, r.verdict = "mismatch" => caution,
           NEW t, t = [what |-> audio, caution |-> caution, verdict |-> r.verdict,
                       judged |-> r.seen,
                       cut |-> r.seen # audio /\ \E p \in Providers : r.fate[p] = "cut"]
    PROVE  t \in Row /\ RowSound(t)
<1> DEFINE cut == r.seen # audio /\ \E p \in Providers : r.fate[p] = "cut"
<1>1. /\ r \in Run /\ Shown(r, dir[j])
      /\ r.file # None => r.file \in Providers /\ dir[j].files[r.file] \in Audio
  BY FileFacts
<1>2. /\ r.verdict \in {"verified", "mismatch", "matched", "copied"}
      /\ r.verdict \in Verdicts
      /\ r.seen \in Audio \cup {None}
      /\ r.verdict = "matched" => Plausible(r.seen, CheckDuration)
  BY <1>1 DEF Shown, Verdicts, Run
<1>3. /\ r.verdict = "copied" => audio = r.seen
      /\ r.verdict # "copied" => /\ r.file \in Providers /\ audio \in Audio
                                 /\ audio = r.seen \/ r.fate[r.file] = "cut"
  <2>1. CASE r.verdict = "copied"
    BY <2>1
  <2>2. CASE r.verdict # "copied"
    BY <1>1, <1>2, <2>2 DEF Shown, Content
  <2> QED BY <2>1, <2>2
<1>4. audio \in Audio \cup {None} /\ (audio = r.seen \/ cut)
  BY <1>2, <1>3
<1>5. cut \in BOOLEAN
  OBVIOUS
<1>6. t = [what |-> audio, caution |-> caution, verdict |-> r.verdict,
           judged |-> r.seen, cut |-> cut]
  OBVIOUS
<1> HIDE DEF cut
<1>7. t \in Row
  BY <1>2, <1>4, <1>5, <1>6 DEF Row
<1>8. /\ t.what = audio /\ t.verdict = r.verdict /\ t.judged = r.seen
      /\ t.caution = caution /\ t.cut = cut
  BY <1>6
<1>9. RowSound(t)
  <2>1. t.verdict \in {"verified", "copied", "matched", "kept"} \/ t.caution
    BY <1>2, <1>8
  <2>2. t.verdict = "matched" => Plausible(t.judged, CheckDuration)
    BY <1>2, <1>8
  <2>3. t.what = t.judged \/ t.cut
    BY <1>4, <1>8
  <2> QED BY <2>1, <2>2, <2>3 DEF RowSound
<1> QED BY <1>7, <1>9

LEMMA FinishKeeps ==
    ASSUME ChainInv, NEW j \in Jobs, NEW cancelled \in BOOLEAN, Finish(j, cancelled)
    PROVE  ChainInv'
<1> DEFINE r == job[j]
           audio == IF r.verdict = "copied" THEN r.seen ELSE Content(dir[j], r.file)
           caution == track[j].caution \/ Cautioned(j)
           row == [what |-> audio, caution |-> caution, verdict |-> r.verdict,
                   judged |-> r.seen,
                   cut |-> r.seen # audio /\ \E p \in Providers : r.fate[p] = "cut"]
           t == IF cancelled \/ ~Produced(j) THEN track[j] ELSE row
<1>1. /\ r.pc = "finish" /\ job' = [job EXCEPT ![j] = Idle] /\ dir' = [dir EXCEPT ![j] = Empty]
      /\ stray' = [stray EXCEPT ![j] = {}]
      /\ UNCHANGED <<holder, breaker, starts>>
  BY DEF Finish
<1>2. /\ track[j] \in Row /\ RowSound(track[j]) /\ starts' \in 0..MaxStarts
      /\ track = [track EXCEPT ![j] = track[j]]
  BY <1>1, JobFacts
<1>3. track' = [track EXCEPT ![j] = t]
  <2>1. CASE cancelled \/ ~Produced(j)
    <3>1. track' = track
      BY <2>1 DEF Finish
    <3> QED BY <1>2, <2>1, <3>1
  <2>2. CASE ~(cancelled \/ ~Produced(j))
    BY <2>2 DEF Finish
  <2> QED BY <2>1, <2>2
<1>4. t \in Row /\ RowSound(t)
  <2>1. CASE cancelled \/ ~Produced(j)
    BY <1>2, <2>1
  <2>2. CASE ~(cancelled \/ ~Produced(j))
    <3>1. t = row
      BY <2>2
    <3>2. r.verdict # None
      BY <2>2 DEF Produced
    <3>3. caution \in BOOLEAN
      OBVIOUS
    <3>4. r.verdict = "mismatch" => caution
      BY DEF Cautioned
    <3> HIDE DEF caution, t
    <3>5. row \in Row /\ RowSound(row)
      BY <1>1, <3>2, <3>3, <3>4, ShownRow
    <3> QED BY <3>1, <3>5
  <2> QED BY <2>1, <2>2
<1> HIDE DEF t
<1>5. RunSound(Idle, Empty, {})
  BY DEF RunSound
<1>6. ~Holds(Idle) /\ ~Holds(r) /\ \A n \in 1..Tries[SpotiFLAC] : ~Waits(Idle, n)
  BY <1>1 DEF Holds, Waits, Idle
<1>7. holder' = Released(j) /\ breaker' = breaker
  BY <1>1, <1>6, NotHeld DEF ChainInv
<1> QED BY <1>1, <1>2, <1>3, <1>4, <1>5, <1>6, <1>7, EmptyDirectory, PlainStep

LEMMA RowStep ==
    ASSUME ChainInv, NEW j \in Jobs, NEW t \in Row, RowSound(t),
           track' = [track EXCEPT ![j] = t],
           UNCHANGED <<job, dir, stray, holder, breaker, starts>>
    PROVE  ChainInv'
<1>1. /\ dir[j] \in Directory /\ Kept(dir[j]) /\ stray[j] \in SUBSET Providers
      /\ job[j] \in Run \cup {Idle} /\ starts' \in 0..MaxStarts
      /\ dir' = [dir EXCEPT ![j] = dir[j]] /\ stray' = [stray EXCEPT ![j] = stray[j]]
  BY JobFacts
<1>2. /\ RunSound(job[j], dir[j], stray[j]) /\ job' = [job EXCEPT ![j] = job[j]]
      /\ TypeOK /\ Locked /\ Spared
  BY DEF ChainInv, TypeOK
<1>3. Locked' /\ holder' \in Jobs \cup {None}
  BY <1>2 DEF Locked, Provider, TypeOK
<1>4. Pending' = Pending
  BY DEF Pending, Provider
<1>5. /\ Spared'
      /\ breaker' \in [cool : 0..MaxCool, strikes : 0..MaxCool, spare : Int]
      /\ breaker'.cool <= breaker'.strikes
  BY <1>2, <1>4, SparedKept
<1> QED BY <1>1, <1>2, <1>3, <1>5, StepOfRun

LEMMA KeptRow ==
    ASSUME NEW t \in Row, NEW u, u = [t EXCEPT !.caution = FALSE, !.verdict = "kept"]
    PROVE  u \in Row /\ (RowSound(t) => RowSound(u))
<1>1. u \in Row
  BY DEF Row, Verdicts
<1>2. u.what = t.what /\ u.verdict = "kept" /\ u.judged = t.judged /\ u.cut = t.cut
  BY DEF Row
<1> QED BY <1>1, <1>2 DEF RowSound

LEMMA UserKeeps ==
    ASSUME ChainInv, NEW j \in Jobs,
           KeepCautioned(j) \/ Identify(j) \/ DeleteCautioned(j)
    PROVE  ChainInv'
<1> DEFINE u == [track[j] EXCEPT !.caution = FALSE, !.verdict = "kept"]
<1>1. track[j] \in Row /\ RowSound(track[j])
  BY JobFacts
<1>2. UNCHANGED <<job, dir, stray, holder, breaker, starts>>
  BY DEF KeepCautioned, Identify, DeleteCautioned
<1>3. CASE KeepCautioned(j) \/ Identify(j)
  <2>1. track' = [track EXCEPT ![j] = u]
    BY <1>3 DEF KeepCautioned, Identify
  <2>2. u \in Row /\ RowSound(u)
    BY <1>1, KeptRow
  <2> HIDE DEF u
  <2> QED BY <1>2, <2>1, <2>2, RowStep
<1>4. CASE DeleteCautioned(j)
  <2>1. track' = [track EXCEPT ![j] = NoFile]
    BY <1>4 DEF DeleteCautioned
  <2>2. NoFile \in Row /\ RowSound(NoFile)
    BY DEF NoFile, Row, RowSound
  <2> QED BY <1>2, <2>1, <2>2, RowStep
<1> QED BY <1>3, <1>4

-----------------------------------------------------------------------------
\* The surroundings

LEMMA BreakerStep ==
    ASSUME ChainInv, UNCHANGED <<job, dir, stray, holder, track, starts>>,
           breaker' \in [cool : 0..MaxCool, strikes : 0..MaxCool, spare : Int],
           breaker'.cool <= breaker'.strikes, Spared'
    PROVE  ChainInv'
<1>1. TypeOK'
  BY DEF ChainInv, TypeOK
<1>2. \A j \in Jobs :
        RunSound(job[j], dir[j], stray[j])' /\ Kept(dir[j])' /\ RowSound(track[j])'
  BY DEF ChainInv
<1>3. Locked'
  BY DEF ChainInv, Locked, Provider
<1> QED BY <1>1, <1>2, <1>3 DEF ChainInv

LEMMA CoolKeeps ==
    ASSUME ChainInv, Cool
    PROVE  ChainInv'
<1>1. /\ breaker.cool > 0
      /\ breaker' = [breaker EXCEPT !.cool = @ - 1,
                                    !.spare = IF breaker.cool = 1 THEN 0 ELSE @]
      /\ UNCHANGED <<job, dir, stray, holder, track, starts>>
  BY DEF Cool
<1>2. /\ breaker \in [cool : 0..MaxCool, strikes : 0..MaxCool, spare : Int]
      /\ breaker.cool <= breaker.strikes /\ Spared /\ MaxCool \in Nat
  BY ChainBounds DEF ChainInv, TypeOK
<1>3. /\ breaker'.cool = breaker.cool - 1 /\ breaker'.strikes = breaker.strikes
      /\ breaker'.spare = IF breaker.cool = 1 THEN 0 ELSE breaker.spare
  BY <1>1, <1>2
<1>4. breaker' \in [cool : 0..MaxCool, strikes : 0..MaxCool, spare : Int]
  <2> DEFINE c == breaker.cool - 1
             n == IF breaker.cool = 1 THEN 0 ELSE breaker.spare
  <2>1. breaker' = [breaker EXCEPT !.cool = c, !.spare = n]
    BY <1>1
  <2>2. c \in 0..MaxCool /\ n \in Int
    BY <1>1, <1>2
  <2> HIDE DEF c, n
  <2> QED BY <1>2, <2>1, <2>2
<1>5. Pending' = Pending
  BY <1>1 DEF Pending, Provider
<1>6. Spared'
  BY <1>1, <1>2, <1>3, <1>5 DEF Spared
<1>7. breaker'.cool <= breaker'.strikes
  BY <1>1, <1>2, <1>3
<1> QED BY <1>1, <1>4, <1>6, <1>7, BreakerStep

LEMMA RouteChangedKeeps ==
    ASSUME ChainInv, RouteChanged
    PROVE  ChainInv'
<1>1. breaker' = Open /\ UNCHANGED <<job, dir, stray, holder, track, starts>>
  BY DEF RouteChanged
<1> QED BY <1>1, OpenBreaker, BreakerStep

\* Nothing runs at the start, and after a restart.
LEMMA AtRest ==
    ASSUME job' = [j \in Jobs |-> Idle], dir' = [j \in Jobs |-> Empty],
           stray' = [j \in Jobs |-> {}], holder' = None, breaker' = Open,
           track' \in [Jobs -> Row], \A j \in Jobs : RowSound(track'[j]),
           starts' \in 0..MaxStarts
    PROVE  ChainInv'
<1>1. /\ Spared'
      /\ breaker' \in [cool : 0..MaxCool, strikes : 0..MaxCool, spare : Int]
      /\ breaker'.cool <= breaker'.strikes
  BY OpenBreaker
<1>2. TypeOK'
  BY <1>1, EmptyDirectory DEF TypeOK
<1>3. \A j \in Jobs :
        RunSound(job[j], dir[j], stray[j])' /\ Kept(dir[j])' /\ RowSound(track[j])'
  <2> TAKE j \in Jobs
  <2>1. job'[j] = Idle /\ dir'[j] = Empty /\ stray'[j] = {}
    OBVIOUS
  <2>2. RunSound(job[j], dir[j], stray[j])'
    BY <2>1 DEF RunSound
  <2> QED BY <2>1, <2>2, EmptyDirectory
<1>4. Locked'
  BY ChainNames DEF Locked, Idle
<1> QED BY <1>1, <1>2, <1>3, <1>4 DEF ChainInv

LEMMA RestartKeeps ==
    ASSUME ChainInv, Restart
    PROVE  ChainInv'
<1>1. track' = track /\ starts' = starts
  BY DEF Restart
<1>2. track' \in [Jobs -> Row] /\ (\A j \in Jobs : RowSound(track'[j])) /\ starts' \in 0..MaxStarts
  BY <1>1 DEF ChainInv, TypeOK
<1> QED BY <1>2, AtRest DEF Restart

LEMMA InitSound ==
    ASSUME Init
    PROVE  ChainInv
<1>1. /\ job = [j \in Jobs |-> Idle] /\ dir = [j \in Jobs |-> Empty]
      /\ stray = [j \in Jobs |-> {}] /\ holder = None /\ breaker = Open
      /\ track = [j \in Jobs |-> NoFile] /\ starts = 0
  BY DEF Init
<1>2. NoFile \in Row /\ RowSound(NoFile)
  BY DEF NoFile, Row, RowSound
<1>3. /\ breaker.cool = 0 /\ breaker.strikes = 0 /\ breaker.spare = 0
      /\ breaker \in [cool : 0..MaxCool, strikes : 0..MaxCool, spare : Int]
  BY <1>1, ChainBounds DEF Open
<1>4. TypeOK
  BY <1>1, <1>2, <1>3, EmptyDirectory, ChainBounds DEF TypeOK
<1>5. \A j \in Jobs : RunSound(job[j], dir[j], stray[j]) /\ Kept(dir[j]) /\ RowSound(track[j])
  BY <1>1, <1>2, EmptyDirectory DEF RunSound
<1>6. Locked
  BY <1>1, ChainNames DEF Locked, Idle
<1>7. Spared
  BY <1>3 DEF Spared
<1> QED BY <1>4, <1>5, <1>6, <1>7 DEF ChainInv

LEMMA StepSound ==
    ASSUME ChainInv, [Next]_vars
    PROVE  ChainInv'
<1>1. CASE UNCHANGED vars
  <2>1. UNCHANGED <<job, dir, stray, holder, breaker, track, starts>>
    BY <1>1 DEF vars
  <2>2. Pending' = Pending
    BY <2>1 DEF Pending, Provider
  <2>3. /\ Spared'
        /\ breaker' \in [cool : 0..MaxCool, strikes : 0..MaxCool, spare : Int]
        /\ breaker'.cool <= breaker'.strikes
    BY <2>1, <2>2, SparedKept DEF ChainInv
  <2> QED BY <2>1, <2>3, BreakerStep
<1>2. ASSUME NEW j \in Jobs, Proceed(j)
      PROVE  ChainInv'
  BY <1>2, ReuseKeeps, AbandonKeeps, GateKeeps, AcquireKeeps, ResolveKeeps, InspectKeeps,
     InspectMatchKeeps, JudgedKeeps, FinishKeeps DEF Proceed
<1>3. ASSUME NEW j \in Jobs, TimesOut(j)
      PROVE  ChainInv'
  BY <1>3, CliTimesOutKeeps, HookTimesOutKeeps DEF TimesOut
<1>4. ASSUME NEW j \in Jobs, \/ Begin(j)
                            \/ \E url \in URLs : Match(j, url)
      PROVE  ChainInv'
  BY <1>4, BeginKeeps, MatchKeeps
<1>5. ASSUME NEW j \in Jobs, KeepCautioned(j) \/ Identify(j) \/ DeleteCautioned(j)
      PROVE  ChainInv'
  BY <1>5, UserKeeps
<1>6. ASSUME NEW j \in Jobs, \/ \E limited \in BOOLEAN : SpotiFLACEnds(j, limited)
                            \/ YtDlpEnds(j)
                            \/ \E p \in Providers : StrayEnds(j, p)
      PROVE  ChainInv'
  BY <1>6, SpotiFLACEndsKeeps, YtDlpEndsKeeps, StrayEndsKeeps
<1>7. CASE Cool \/ RouteChanged \/ Restart
  BY <1>7, CoolKeeps, RouteChangedKeeps, RestartKeeps
<1> QED BY <1>1, <1>2, <1>3, <1>4, <1>5, <1>6, <1>7 DEF Next

\* The invariant of the provider chain: types, how far each run is in its list
\* of providers, who may have a file in its work directory, what its file was
\* judged to be, what the rows say, who has the lock of SpotiFLAC, and the
\* attempts still to come while the circuit is open.
THEOREM ChainSound == Spec => []ChainInv
BY InitSound, StepSound, PTL DEF Spec

-----------------------------------------------------------------------------
\* The properties the runs check

\* Every variable of the provider chain keeps its type.
THEOREM ChainTyped == Spec => []TypeOK
<1>1. ChainInv => TypeOK
  BY DEF ChainInv
<1> QED BY <1>1, ChainSound, PTL

\* A row that warns of nothing has a file somebody or something vouched for,
\* and it is the file as it was judged unless a call was cut off.
\* (_verify_or_rescue, the finalization of both kinds of runs.)
THEOREM RowsAreVouched == Spec => []UnflaggedIsVouched
<1>1. ChainInv => UnflaggedIsVouched
  BY DEF ChainInv, RowSound, UnflaggedIsVouched
<1> QED BY <1>1, ChainSound, PTL

\* As long as rejected files are deleted, which is the default of the setting
\* reject_mismatches, a provider hands over a file of its own or the piece of
\* one whose call was cut off, never a file that was rejected.
THEOREM RejectedStayAway == ASSUME RejectMismatches PROVE Spec => []LeftoverMeansCut
<1>1. ChainInv => LeftoverMeansCut
  <2> SUFFICES ASSUME ChainInv, NEW j \in Jobs,
                      job[j].pc \in {"inspect", "judge", "finish"}, job[j].file # None
               PROVE  job[j].file = Provider(j) \/ job[j].fate[job[j].file] = "cut"
    BY DEF LeftoverMeansCut
  <2>1. Shown(job[j], dir[j])
    BY FileFacts
  <2> QED BY <2>1 DEF Shown, Provider
<1> QED BY <1>1, ChainSound, PTL

\* The chain of a job ends without a file only after every provider of its
\* list had its say.
THEOREM NobodyIsSkipped == Spec => []AllHeard
<1>1. ChainInv => AllHeard
  <2> SUFFICES ASSUME ChainInv, NEW j \in Jobs, job[j].pc = "finish", ~job[j].manual,
                      NEW n \in DOMAIN job[j].plan, job[j].verdict = None \/ n < job[j].i
               PROVE  job[j].fate[job[j].plan[n]] \notin {"untried", "given"}
    BY DEF AllHeard
  <2> DEFINE r == job[j]
  <2>1. Listed(r) /\ Shown(r, dir[j]) /\ r.i \in Nat \ {0} /\ r.plan \in Seq(Providers)
    BY FileFacts
  <2>2. n < r.i
    BY <2>1 DEF Shown
  <2> QED BY <2>1, <2>2 DEF Listed, Gone
<1> QED BY <1>1, ChainSound, PTL

\* While SpotiFLAC cools down, the upstream sees no more programs than the
\* calls past the gate still had attempts.
THEOREM OutagesAreSpared == Spec => []OutageSpared
<1>1. ChainInv => OutageSpared
  BY DEF ChainInv, Spared, OutageSpared
<1> QED BY <1>1, ChainSound, PTL

\* What VerificationService._decide answers.
LEMMA DecideAnswers ==
    ASSUME NEW a, NEW check, NEW fp, NEW v, v = Decide(a, check, fp)
    PROVE  /\ "agrees" \in fp => v = "verified"
           /\ ("agrees" \notin fp /\ "contradicts" \in fp) => v = "mismatch"
           /\ ("agrees" \notin fp /\ "contradicts" \notin fp) =>
                /\ "weak" \in fp => v = "verified"
                /\ ("weak" \notin fp /\ Contrary(a, check)) => v = "mismatch"
                /\ ("weak" \notin fp /\ ~Contrary(a, check) /\ Confirming(a, check)) =>
                      v = "verified"
                /\ ("weak" \notin fp /\ ~Contrary(a, check) /\ ~Confirming(a, check)) =>
                      v = IF "error" \in fp /\ a.tags = "corrupt"
                          THEN "provider_error" ELSE "uncertain"
<1>1. fp \cap {"agrees", "contradicts"} = {} <=> "agrees" \notin fp /\ "contradicts" \notin fp
  OBVIOUS
<1>2. ~(Contrary(a, check) /\ Confirming(a, check))
  BY DEF Contrary, Confirming
<1>3. CASE "agrees" \in fp
  BY <1>1, <1>3 DEF Decide
<1>4. CASE "agrees" \notin fp /\ "contradicts" \in fp
  BY <1>1, <1>4 DEF Decide
<1>5. CASE "agrees" \notin fp /\ "contradicts" \notin fp
  BY <1>1, <1>2, <1>5 DEF Decide
<1> QED BY <1>3, <1>4, <1>5

\* A file is called another song only on evidence against it and verified only
\* on evidence for it, and an error of a fingerprint provider changes neither
\* verdict, whatever the files and whether or not their length counts.
\* (The semantics at the top of verification_service.py.)
THEOREM EvidenceDecides == Spec => []DecidesOnEvidence
<1>1. ASSUME NEW a \in [tags : Tags, fits : BOOLEAN], NEW fp \in SUBSET Evidence,
             NEW verdict, verdict = Decide(a, CheckDuration, fp),
             NEW unerring, unerring = Decide(a, CheckDuration, fp \ {"error"})
      PROVE  /\ verdict = "mismatch" => "contradicts" \in fp \/ Contrary(a, CheckDuration)
             /\ verdict = "verified" => \/ fp \cap {"agrees", "weak"} # {}
                                        \/ Confirming(a, CheckDuration) /\ "contradicts" \notin fp
             /\ verdict = unerring \/ {verdict, unerring} \subseteq {"uncertain", "provider_error"}
  <2> DEFINE rest == fp \ {"error"}
  <2>1. /\ "agrees" \in rest <=> "agrees" \in fp
        /\ "contradicts" \in rest <=> "contradicts" \in fp
        /\ "weak" \in rest <=> "weak" \in fp
    OBVIOUS
  <2>2. unerring = Decide(a, CheckDuration, rest)
    BY <1>1
  <2> HIDE DEF rest
  <2>3. /\ "agrees" \in fp => verdict = "verified"
        /\ ("agrees" \notin fp /\ "contradicts" \in fp) => verdict = "mismatch"
        /\ ("agrees" \notin fp /\ "contradicts" \notin fp) =>
             /\ "weak" \in fp => verdict = "verified"
             /\ ("weak" \notin fp /\ Contrary(a, CheckDuration)) => verdict = "mismatch"
             /\ ("weak" \notin fp /\ ~Contrary(a, CheckDuration)
                                  /\ Confirming(a, CheckDuration)) => verdict = "verified"
             /\ ("weak" \notin fp /\ ~Contrary(a, CheckDuration)
                                  /\ ~Confirming(a, CheckDuration)) =>
                   verdict \in {"uncertain", "provider_error"}
    BY <1>1, DecideAnswers
  <2>4. /\ "agrees" \in rest => unerring = "verified"
        /\ ("agrees" \notin rest /\ "contradicts" \in rest) => unerring = "mismatch"
        /\ ("agrees" \notin rest /\ "contradicts" \notin rest) =>
             /\ "weak" \in rest => unerring = "verified"
             /\ ("weak" \notin rest /\ Contrary(a, CheckDuration)) => unerring = "mismatch"
             /\ ("weak" \notin rest /\ ~Contrary(a, CheckDuration)
                                    /\ Confirming(a, CheckDuration)) => unerring = "verified"
             /\ ("weak" \notin rest /\ ~Contrary(a, CheckDuration)
                                    /\ ~Confirming(a, CheckDuration)) =>
                   unerring \in {"uncertain", "provider_error"}
    BY <2>2, DecideAnswers
  <2>5. verdict = unerring \/ {verdict, unerring} \subseteq {"uncertain", "provider_error"}
    BY <2>1, <2>3, <2>4
  <2>6. verdict = "mismatch" => "contradicts" \in fp \/ Contrary(a, CheckDuration)
    BY <2>3
  <2>7. verdict = "verified" => \/ fp \cap {"agrees", "weak"} # {}
                                \/ Confirming(a, CheckDuration) /\ "contradicts" \notin fp
    BY <2>3
  <2> QED BY <2>5, <2>6, <2>7
<1>2. DecidesOnEvidence
  BY <1>1 DEF DecidesOnEvidence
<1> QED BY <1>2, PTL
=============================================================================
