-------------------------------- MODULE Rq1 --------------------------------
(***************************************************************************)
(* The go/no-go analysis (eval/rq1.py with eval/metrics.py and the readers *)
(* of eval/harness.py) over the directory the workers of Harness fill: it  *)
(* may be started at any time, reads the files of two arms again and again *)
(* and compares the episodes both have.  Making an arm's directory and     *)
(* opening the first file in it are one step here.  An arm's files may be  *)
(* of several fault configurations or methods; where two are of one        *)
(* episode, the one met last in the directory walk counts, in a walk that  *)
(* is the same as long as the directory is.  Rates are exact fractions     *)
(* here; the bootstrap interval is any interval, of which only the side of *)
(* zero it lies on is told.                                                *)
(***************************************************************************)
EXTENDS Harness, Integers

CONSTANTS
  Anchor,       \* the tag of the arm the others are compared with
  Levels,       \* the tags of the other arms, in the order they are looked at
  Outcomes,     \* what the episodes may come to: functions of Jobs
  Walks         \* the orders the files may be met in: how far from the end each is

ASSUME WalksAssumption ==
  \A order \in Walks :
    /\ order \in [Paths -> Nat]
    /\ \A p, q \in Paths : order[p] = order[q] => p = q

VARIABLES
  outcome,      \* outcome[job]: the faults its turns record (call -> family),
                \* whether one fired, and success; drawn when the analysis
                \* begins, nobody looks at it before
  walk,         \* the order of the directory walk, drawn with it
  step,         \* where analyze() is
  base,         \* the anchor's episodes, by id
  left,         \* the positions of the levels found at the start and not yet compared
  verdict,
  grounds,      \* history: the pairs of records a GO was concluded from
  quiet         \* history: no file has changed since the analysis began

analysisVars == <<outcome, walk, step, base, left, verdict, grounds>>
vars == <<harnessVars, analysisVars, quiet>>

FilesOf(tag) == {p \in Paths : p.tag = tag /\ Exists(p)}
FilesWith(tag, e) == {p \in FilesOf(tag) : p.episode = e}
RecordIn(p) == CHOOSE job \in Jobs : file[p].of = {job}

\* json.loads raises on the first file that does not parse.
Loads(tag) == \A p \in FilesOf(tag) : Readable(p)

LastOf(files, order) == CHOOSE p \in files : \A q \in files : order[p] <= order[q]

\* {e.episode_id: e}: one record for each id, the last that is met.
ById(tag, order) ==
  [e \in {p.episode : p \in FilesOf(tag)} |-> RecordIn(LastOf(FilesWith(tag, e), order))]

FaultsIn(p) == outcome[RecordIn(p)].faults

\* Mutant: the first family recorded for a coordinate is kept.
FamilyAtFirst(tag, e, call) ==
  LET faulted == {p \in FilesWith(tag, e) : call \in DOMAIN FaultsIn(p)}
      first   == CHOOSE p \in faulted : \A q \in faulted : walk[q] <= walk[p]
  IN  FaultsIn(first)[call]

\* _load_fault_decisions: the family recorded for a coordinate, by the last of the
\* arm's records that has one there.
FamilyAt(tag, e, call) ==
  FaultsIn(LastOf({p \in FilesWith(tag, e) : call \in DOMAIN FaultsIn(p)}, walk))[call]

\* assert_paired: the two arms agree on every coordinate faulted in both.
Paired(tag) ==
  \A p \in FilesOf(Anchor), q \in FilesOf(tag) : p.episode = q.episode =>
    \A call \in DOMAIN FaultsIn(p) \cap DOMAIN FaultsIn(q) :
      FamilyAt(Anchor, p.episode, call) = FamilyAt(tag, p.episode, call)

-----------------------------------------------------------------------------
FaultFree(jobs) == {job \in jobs : ~outcome[job].fired}
Struck(jobs) == jobs \ FaultFree(jobs)
Successes(jobs) == Cardinality({job \in jobs : outcome[job].success})

\* Where one of the four rates has no episode, the gap is not a number.
Defined(b, c) ==
  /\ FaultFree(b) # {} /\ Struck(b) # {}
  /\ FaultFree(c) # {} /\ Struck(c) # {}

\* The difference of the arms' success rates, times both their sizes.
Drop(b, c) == Successes(b) * Cardinality(c) - Successes(c) * Cardinality(b)
Weight(b, c) == Cardinality(b) * Cardinality(c)

\* rcg() in percent, times GapWeight: the drop in recovery less the nominal one.
GapWeight(b, c) == Weight(FaultFree(b), FaultFree(c)) * Weight(Struck(b), Struck(c))
Gap(b, c) ==
  100 * (Drop(Struck(b), Struck(c)) * Weight(FaultFree(b), FaultFree(c))
         - Drop(FaultFree(b), FaultFree(c)) * Weight(Struck(b), Struck(c)))

Sides == {"below", "across", "above"}

IsGo(b, c, side) ==
  Defined(b, c) /\ Gap(b, c) > 3 * GapWeight(b, c) /\ side = "above"

IsSuspect(b, c, side) == Defined(b, c) /\ Gap(b, c) < 0 /\ side = "below"

-----------------------------------------------------------------------------
\* The levels are compared in their order.
NextLevel == CHOOSE i \in left : \A j \in left : i <= j
Level == Levels[NextLevel]

\* What a process held ends with it.
Fail ==
  /\ step' = "raised" /\ outcome' = <<>> /\ walk' = <<>> /\ base' = <<>>
  /\ left' = {} /\ verdict' = "none" /\ grounds' = {}

\* The arms are looked for once, then the anchor is read.
LoadAnchor ==
  /\ step = "start"
  /\ FilesOf(Anchor) # {}
  /\ quiet' = TRUE
  /\ IF Loads(Anchor)
     THEN /\ outcome' \in Outcomes
          /\ \E order \in Walks : walk' = order /\ base' = ById(Anchor, order)
          /\ left' = {i \in DOMAIN Levels : FilesOf(Levels[i]) # {}}
          /\ step' = "levels"
          /\ UNCHANGED <<verdict, grounds>>
     ELSE Fail

\* Both arms are read, the anchor once more.
AssertPaired ==
  /\ step = "levels" /\ left # {}
  /\ IF Loads(Anchor) /\ Loads(Level) /\ Paired(Level)
     THEN step' = "compare" /\ UNCHANGED <<outcome, walk, base, left, verdict, grounds>>
     ELSE Fail
  /\ UNCHANGED quiet

\* paired_rcg_ci over the ids of the anchor as first read and of the level now.
Conclude(comp) ==
  LET ids == DOMAIN base \cap DOMAIN comp
      b   == {base[e] : e \in ids}
      c   == {comp[e] : e \in ids}
  IN  IF ids = {} THEN Fail
      ELSE \E side \in Sides :
             /\ verdict' = IF IsGo(b, c, side) THEN "GO"
                           ELSE IF IsSuspect(b, c, side) /\ verdict # "GO" THEN "SUSPECT"
                           ELSE verdict
             /\ grounds' = IF IsGo(b, c, side)
                           THEN grounds \cup {<<base[e], comp[e]>> : e \in ids}
                           ELSE grounds
             /\ left' = left \ {NextLevel}
             /\ step' = "levels"
             /\ UNCHANGED <<outcome, walk, base>>

CompareLevel ==
  /\ step = "compare"
  /\ IF Loads(Level) THEN Conclude(ById(Level, walk)) ELSE Fail
  /\ UNCHANGED quiet

Report ==
  /\ step = "levels" /\ left = {}
  /\ step' = "reported" /\ base' = <<>>
  /\ UNCHANGED <<outcome, walk, left, verdict, grounds, quiet>>

Init ==
  /\ HarnessInit
  /\ outcome = <<>> /\ walk = <<>>
  /\ step = "start" /\ base = <<>> /\ left = {} /\ verdict = "REFRAME" /\ grounds = {}
  /\ quiet = FALSE

Analyze == LoadAnchor \/ AssertPaired \/ CompareLevel \/ Report

\* The analysis stands still while a worker takes a step.
Meanwhile ==
  /\ quiet' = IF file' = file THEN quiet ELSE FALSE
  /\ UNCHANGED analysisVars

Next ==
  \/ HarnessNext /\ Meanwhile
  \/ Analyze /\ UNCHANGED harnessVars

Spec == Init /\ [][Next]_vars /\ \A w \in Workers : WF_harnessVars(Step(w))

TypeOK ==
  /\ HarnessTypeOK
  /\ step \in {"start", "levels", "compare", "reported", "raised"}
  /\ base \in UNION {[es -> Jobs] : es \in SUBSET {job.episode : job \in Jobs}}
  /\ left \subseteq DOMAIN Levels
  /\ verdict \in {"none", "REFRAME", "GO", "SUSPECT"}
  /\ grounds \subseteq Jobs \X Jobs
  /\ quiet \in BOOLEAN

\* What a GO rests on has been checked (rq1.py: "a single mismatch discards the
\* pair"): the records compared, one of each id as the dictionaries happen to keep
\* them, agree on every call both record a fault of, also when an arm holds the
\* same id under several fault configurations, although assert_paired never looks
\* at the compared records themselves but loads both arms on its own.  It takes a
\* directory nobody writes to meanwhile: a record added between the check and the
\* comparison is compared unchecked.
GoRestsOnCheckedPairs ==
  quiet => \A g \in grounds :
    \A call \in DOMAIN outcome[g[1]].faults \cap DOMAIN outcome[g[2]].faults :
      outcome[g[1]].faults[call] = outcome[g[2]].faults[call]
=============================================================================
