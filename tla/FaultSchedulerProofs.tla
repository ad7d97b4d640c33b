------------------------ MODULE FaultSchedulerProofs ------------------------
(***************************************************************************)
(* What decide() and reset_episode() do, for every configuration: the      *)
(* forms a decision can take, what it leaves behind, and the types the     *)
(* bookkeeping keeps.                                                      *)
(***************************************************************************)
EXTENDS FaultScheduler, FiniteSetTheorems, TLAPS

-----------------------------------------------------------------------------
\* A nonempty set of naturals has a least element; the sets 1 .. i are finite and
\* inclusion of finite sets is well founded.
LEMMA LeastNatural ==
  ASSUME NEW S \in SUBSET Nat, S # {}
  PROVE  \E i \in S : \A j \in S : i <= j
<1> DEFINE T == {1 .. i : i \in S}
<1>1. T \subseteq FiniteSubsetsOf(Nat)
  BY FS_Interval DEF FiniteSubsetsOf
<1>2. PICK x \in T : \A y \in T : <<y, x>> \notin StrictSubsetOrdering(Nat)
  <2> HIDE DEF T
  <2>1. T # {}
    BY DEF T
  <2> QED
    BY <1>1, <2>1, FS_StrictSubsetOrderingWellFounded, WFMin
<1>3. PICK i \in S : x = 1 .. i
  OBVIOUS
<1>4. ASSUME NEW j \in S, j < i
      PROVE  FALSE
  <2>1. 1 .. j \subseteq 1 .. i /\ i \in 1 .. i /\ i \notin 1 .. j
    BY <1>4
  <2>2. <<1 .. j, 1 .. i>> \in StrictSubsetOrdering(Nat)
    BY <2>1, 1 .. j \in SUBSET Nat, 1 .. i \in SUBSET Nat DEF StrictSubsetOrdering
  <2> QED
    BY <1>2, <1>3, <2>2, 1 .. j \in T
<1> QED
  BY <1>4

\* The first of some configured families is one of them, and none of them comes
\* before it: the loops over cfg.families stop at a definite family.
LEMMA FirstHit ==
  ASSUME NEW hits \in SUBSET DOMAIN Families, hits # {}
  PROVE  \E i \in hits : FirstOf(hits) = Families[i]
<1>1. DOMAIN Families \subseteq Nat
  BY ConfigAssumption
<1>2. \E i \in hits : \A j \in hits : i <= j
  BY <1>1, LeastNatural
<1> QED
  BY <1>2 DEF FirstOf

-----------------------------------------------------------------------------
\* A lasting fault: the latch of f makes it fire on this call.
Lasts(ep, tool, f) ==
  /\ PersistenceOf(f) = "persistent"
  /\ IsLatched(ep, f)
  /\ f \in ToolScoped => latched[<<ep, f>>].tool = tool
  /\ Applicable(f, tool)

\* The three things decide() can do on a call: fire nothing, for no fault lasts;
\* fire the lasting fault f; or, when none lasts and the cap allows it, fire the
\* drawn fault f.
FiresNothing(ep, turn, tool, draw) ==
  /\ Decision(ep, turn, tool, draw) = {}
  /\ \A f \in Configured : ~Lasts(ep, tool, f)

FiresLasting(ep, turn, tool, draw, f) ==
  /\ Lasts(ep, tool, f)
  /\ Decision(ep, turn, tool, draw)
       = {EventOf(turn, tool, f, FALSE, latched[<<ep, f>>].turn)}

FiresFresh(ep, turn, tool, draw, f) ==
  /\ f \in draw
  /\ \A g \in Configured : ~Lasts(ep, tool, g)
  /\ counts[ep] < MaxFaults
  /\ Decision(ep, turn, tool, draw) = {EventOf(turn, tool, f, TRUE, turn)}

\* Every decision is of one of these forms, whatever families are configured and
\* in whatever order.
LEMMA DecisionForms ==
  ASSUME NEW ep, NEW turn, NEW tool, NEW draw
  PROVE  \/ FiresNothing(ep, turn, tool, draw)
         \/ \E f \in Configured : FiresLasting(ep, turn, tool, draw, f)
         \/ \E f \in Configured : FiresFresh(ep, turn, tool, draw, f)
<1> DEFINE LH == LatchedHits(ep, tool)
           FH == FreshHits(tool, draw)
<1>1. \A i \in DOMAIN Families : i \in LH <=> Lasts(ep, tool, Families[i])
  BY DEF LatchedHits, Lasts
<1>2. LH \subseteq DOMAIN Families /\ FH \subseteq DOMAIN Families
  BY DEF LatchedHits, FreshHits
<1>3. CASE LH # {}
  <2>1. PICK i \in LH : FirstOf(LH) = Families[i]
    BY <1>2, <1>3, FirstHit
  <2>2. Families[i] \in Configured /\ Lasts(ep, tool, Families[i])
    BY <1>1, <1>2, <2>1 DEF Configured
  <2> QED
    BY <1>3, <2>1, <2>2 DEF Decision, FiresLasting
<1>4. CASE LH = {}
  <2>1. \A f \in Configured : ~Lasts(ep, tool, f)
    BY <1>1, <1>4 DEF Configured
  <2>2. CASE counts[ep] < MaxFaults /\ FH # {}
    <3>1. PICK i \in FH : FirstOf(FH) = Families[i]
      BY <1>2, <2>2, FirstHit
    <3>2. Families[i] \in Configured \cap draw
      BY <1>2, <3>1 DEF Configured, FreshHits
    <3> QED
      BY <1>4, <2>1, <2>2, <3>1, <3>2 DEF Decision, FiresFresh
  <2>3. CASE ~(counts[ep] < MaxFaults /\ FH # {})
    BY <1>4, <2>1, <2>3 DEF Decision, FiresNothing
  <2> QED
    BY <2>2, <2>3
<1> QED
  BY <1>3, <1>4

-----------------------------------------------------------------------------
\* A fault that starts is counted, and latched if it persists.
Starts(ep, turn, tool, f) ==
  /\ counts'  = [counts EXCEPT ![ep] = @ + 1]
  /\ latched' = IF PersistenceOf(f) = "persistent"
                THEN [latched EXCEPT ![<<ep, f>>] = [turn |-> turn, tool |-> tool]]
                ELSE latched

\* A call that fires nothing, or a lasting fault, changes no bookkeeping.
LEMMA DecideWithoutStart ==
  ASSUME SchedTypeOK, NEW ep, NEW turn, NEW tool, NEW draw,
         Decide(ep, turn, tool, draw),
         \A e \in Decision(ep, turn, tool, draw) : ~e.fresh
  PROVE  latched' = latched /\ counts' = counts
<1>1. latched = [k \in DOMAIN latched |-> latched[k]]
  BY DEF SchedTypeOK
<1> QED
  BY <1>1 DEF Decide

\* A call that fires a fresh fault starts it.
LEMMA DecideStarts ==
  ASSUME SchedTypeOK, NEW ep \in Episodes, NEW turn, NEW tool, NEW draw,
         NEW f \in Configured,
         Decide(ep, turn, tool, draw),
         Decision(ep, turn, tool, draw) = {EventOf(turn, tool, f, TRUE, turn)}
  PROVE  Starts(ep, turn, tool, f)
<1> DEFINE started == {e \in Decision(ep, turn, tool, draw) : e.fresh}
           here    == [turn |-> turn, tool |-> tool]
           Hit(k)  == /\ k[1] = ep
                      /\ \E e \in started : /\ e.family = k[2]
                                            /\ PersistenceOf(e.family) = "persistent"
<1>1. /\ latched \in [Episodes \X Configured -> Latch \cup {NoLatch}]
      /\ latched' = [k \in DOMAIN latched |-> IF Hit(k) THEN here ELSE latched[k]]
  BY DEF Decide, SchedTypeOK
<1>2. started = {EventOf(turn, tool, f, TRUE, turn)}
  BY DEF EventOf
<1>3. counts' = [counts EXCEPT ![ep] = @ + 1]
  <2>1. started # {}
    BY <1>2
  <2> QED
    BY <2>1 DEF Decide
<1>4. ASSUME NEW k \in Episodes \X Configured
      PROVE  Hit(k) <=> (k = <<ep, f>> /\ PersistenceOf(f) = "persistent")
  <2>1. k = <<ep, f>> <=> k[1] = ep /\ k[2] = f
    OBVIOUS
  <2>2. EventOf(turn, tool, f, TRUE, turn).family = f
    BY DEF EventOf
  <2>3. \A e : e \in started <=> e = EventOf(turn, tool, f, TRUE, turn)
    BY <1>2
  <2> HIDE DEF started
  <2>4. CASE k[2] = f
    BY <2>1, <2>2, <2>3, <2>4
  <2>5. CASE k[2] # f
    BY <2>1, <2>2, <2>3, <2>5
  <2> QED
    BY <2>4, <2>5
<1> HIDE DEF Hit
<1>5. CASE PersistenceOf(f) = "persistent"
  <2>1. latched' = [k \in Episodes \X Configured |->
                      IF k = <<ep, f>> THEN here ELSE latched[k]]
    BY <1>1, <1>4, <1>5
  <2> QED
    BY <1>1, <1>3, <1>5, <2>1 DEF Starts
<1>6. CASE PersistenceOf(f) # "persistent"
  <2>1. latched' = [k \in Episodes \X Configured |-> latched[k]]
    BY <1>1, <1>4, <1>6
  <2> QED
    BY <1>1, <1>3, <1>6, <2>1 DEF Starts
<1> QED
  BY <1>5, <1>6

\* What decide() changes, by the form of its decision.
LEMMA DecideForms ==
  ASSUME SchedTypeOK, NEW ep \in Episodes, NEW turn, NEW tool, NEW draw,
         Decide(ep, turn, tool, draw)
  PROVE  \/ FiresNothing(ep, turn, tool, draw) /\ UNCHANGED schedVars
         \/ \E f \in Configured :
              FiresLasting(ep, turn, tool, draw, f) /\ UNCHANGED schedVars
         \/ \E f \in Configured :
              FiresFresh(ep, turn, tool, draw, f) /\ Starts(ep, turn, tool, f)
<1>1. ASSUME FiresNothing(ep, turn, tool, draw)
      PROVE  UNCHANGED schedVars
  BY <1>1, DecideWithoutStart DEF FiresNothing, schedVars
<1>2. ASSUME NEW f \in Configured, FiresLasting(ep, turn, tool, draw, f)
      PROVE  UNCHANGED schedVars
  <2>1. \A e \in Decision(ep, turn, tool, draw) : ~e.fresh
    BY <1>2 DEF FiresLasting, EventOf
  <2> QED
    BY <2>1, DecideWithoutStart DEF schedVars
<1>3. ASSUME NEW f \in Configured, FiresFresh(ep, turn, tool, draw, f)
      PROVE  Starts(ep, turn, tool, f)
  BY <1>3, DecideStarts DEF FiresFresh
<1> QED
  BY <1>1, <1>2, <1>3, DecisionForms

\* decide() reports events of the right shape, and keeps the bookkeeping's type:
\* in particular the cap bounds the faults counted.
LEMMA DecideType ==
  ASSUME SchedTypeOK, NEW ep \in Episodes, NEW turn \in TurnKeys, NEW tool \in Tools,
         NEW draw, Decide(ep, turn, tool, draw)
  PROVE  Decision(ep, turn, tool, draw) \subseteq Event /\ SchedTypeOK'
<1>1. CASE FiresNothing(ep, turn, tool, draw) /\ UNCHANGED schedVars
  BY <1>1 DEF FiresNothing, schedVars, SchedTypeOK
<1>2. ASSUME NEW f \in Configured,
             FiresLasting(ep, turn, tool, draw, f), UNCHANGED schedVars
      PROVE  Decision(ep, turn, tool, draw) \subseteq Event /\ SchedTypeOK'
  <2>1. latched[<<ep, f>>] \in Latch
    BY <1>2 DEF SchedTypeOK, FiresLasting, Lasts, IsLatched
  <2>2. EventOf(turn, tool, f, FALSE, latched[<<ep, f>>].turn) \in Event
    BY <2>1 DEF EventOf, Event, Latch
  <2> QED
    BY <1>2, <2>2 DEF FiresLasting, schedVars, SchedTypeOK
<1>3. ASSUME NEW f \in Configured,
             FiresFresh(ep, turn, tool, draw, f), Starts(ep, turn, tool, f)
      PROVE  Decision(ep, turn, tool, draw) \subseteq Event /\ SchedTypeOK'
  <2>1. EventOf(turn, tool, f, TRUE, turn) \in Event
    BY DEF EventOf, Event
  <2>2. counts[ep] + 1 \in 0 .. MaxFaults
    BY <1>3, ConfigAssumption DEF FiresFresh, SchedTypeOK
  <2>3. [turn |-> turn, tool |-> tool] \in Latch
    BY DEF Latch
  <2> QED
    BY <1>3, <2>1, <2>2, <2>3 DEF FiresFresh, Starts, SchedTypeOK
<1> QED
  BY <1>1, <1>2, <1>3, DecideForms

\* reset_episode() leaves nothing of the episode, and nothing else changed.
LEMMA ResetForms ==
  ASSUME SchedTypeOK, NEW ep \in Episodes, ResetEpisode(ep)
  PROVE  /\ SchedTypeOK'
         /\ counts' = [counts EXCEPT ![ep] = 0]
         /\ \A other \in Episodes, f \in Configured :
              latched'[<<other, f>>] = IF other = ep THEN NoLatch
                                       ELSE latched[<<other, f>>]
<1>1. 0 \in 0 .. MaxFaults
  BY ConfigAssumption
<1> QED
  BY <1>1 DEF ResetEpisode, SchedTypeOK

\* A scheduler starts with its bookkeeping typed.
LEMMA SchedInitType == SchedInit => SchedTypeOK
<1>1. 0 \in 0 .. MaxFaults
  BY ConfigAssumption
<1> QED
  BY <1>1 DEF SchedInit, SchedTypeOK

=============================================================================
