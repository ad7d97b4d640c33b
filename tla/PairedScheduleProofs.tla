------------------------ MODULE PairedScheduleProofs ------------------------
(***************************************************************************)
(* The properties of PairedSchedule, proved for every set of episodes and  *)
(* tools, every list of families in every order, every cap, every          *)
(* persistence override, and any number of calls and arms.                 *)
(***************************************************************************)
EXTENDS PairedSchedule, FaultSchedulerProofs, SequenceTheorems

\* The record a call of the arm in progress adds to the trace.
RecordOf(ep, tool, draw) ==
  [tool   |-> tool,
   events |-> Decision(ep, NextTurn(ep), tool, draw),
   left   |-> Bookkeeping(ep)']

\* A call, for the families its coordinate draws.
CallDrawing(ep, tool, draw) ==
  /\ NextTurn(ep) < ArmCalls[ep]
  /\ draw \in Draws(<<ep, NextTurn(ep), tool>>)
  /\ prf' = [prf EXCEPT ![<<ep, NextTurn(ep), tool>>] = {draw}]
  /\ Decide(ep, NextTurn(ep), tool, draw)
  /\ trace' = [trace EXCEPT ![ep] = Append(@, RecordOf(ep, tool, draw))]
  /\ UNCHANGED <<first, arms>>

\* Every step is a call, the end of an arm, or a stutter.
LEMMA Steps ==
  ASSUME [Next]_vars
  PROVE  \/ \E ep \in Episodes, tool \in Tools : \E draw : CallDrawing(ep, tool, draw)
         \/ \E ep \in Episodes : NextArm(ep)
         \/ UNCHANGED vars
<1>1. ASSUME NEW ep \in Episodes, NEW tool \in Tools, Call(ep, tool)
      PROVE  \E draw : CallDrawing(ep, tool, draw)
  BY <1>1 DEF Call, CallDrawing, RecordOf
<1> QED
  BY <1>1 DEF Next

\* What a call does to the trace of its episode, and to those of the others.
LEMMA CallExtendsTrace ==
  ASSUME TypeOK, NEW ep \in Episodes, NEW tool \in Tools, NEW draw,
         CallDrawing(ep, tool, draw), RecordOf(ep, tool, draw) \in CallRecord
  PROVE  /\ trace' \in [Episodes -> Seq(CallRecord)]
         /\ \A other \in Episodes : other # ep => trace'[other] = trace[other]
         /\ Len(trace'[ep]) = Len(trace[ep]) + 1
         /\ \A k \in DOMAIN trace[ep] : trace'[ep][k] = trace[ep][k]
         /\ trace'[ep][Len(trace[ep]) + 1] = RecordOf(ep, tool, draw)
<1> DEFINE new == RecordOf(ep, tool, draw)
<1>1. trace[ep] \in Seq(CallRecord) /\ new \in CallRecord
  BY DEF TypeOK
<1>2. trace' = [trace EXCEPT ![ep] = Append(trace[ep], new)]
  BY DEF CallDrawing
<1> HIDE DEF new
<1>3. /\ Append(trace[ep], new) \in Seq(CallRecord)
      /\ Len(Append(trace[ep], new)) = Len(trace[ep]) + 1
      /\ \A k \in 1 .. Len(trace[ep]) : Append(trace[ep], new)[k] = trace[ep][k]
      /\ Append(trace[ep], new)[Len(trace[ep]) + 1] = new
  BY <1>1, AppendProperties
<1>4. DOMAIN trace[ep] = 1 .. Len(trace[ep])
  BY <1>1
<1> QED
  BY <1>2, <1>3, <1>4 DEF TypeOK, new

\* A call's turn is a PRF turn key, what it drew is a set of configured families,
\* its record has the type of one, and the scheduler keeps its own.
LEMMA CallType ==
  ASSUME TypeOK, NEW ep \in Episodes, NEW tool \in Tools, NEW draw,
         CallDrawing(ep, tool, draw)
  PROVE  /\ NextTurn(ep) \in TurnKeys
         /\ draw \in SUBSET Configured
         /\ RecordOf(ep, tool, draw) \in CallRecord
         /\ SchedTypeOK'
<1>1. NextTurn(ep) \in TurnKeys
  <2>1. NextTurn(ep) \in Nat /\ NextTurn(ep) < ArmCalls[ep]
    BY DEF CallDrawing, NextTurn, TypeOK
  <2>2. ArmCalls[ep] \in 0 .. MaxCalls /\ MaxCalls \in Nat
    BY ConfigAssumption, ArmsAssumption
  <2> QED
    BY <2>1, <2>2 DEF TurnKeys
<1>2. draw \in SUBSET Configured
  <2>1. <<ep, NextTurn(ep), tool>> \in Coordinate
    BY <1>1 DEF Coordinate
  <2> QED
    BY <2>1 DEF CallDrawing, Draws, TypeOK
<1>3. Decision(ep, NextTurn(ep), tool, draw) \subseteq Event /\ SchedTypeOK'
  BY <1>1, DecideType DEF CallDrawing, TypeOK
<1>4. Bookkeeping(ep)' \in [latches : [Configured -> Latch \cup {NoLatch}], count : Nat]
  BY <1>3, ConfigAssumption DEF Bookkeeping, SchedTypeOK
<1> QED
  BY <1>1, <1>2, <1>3, <1>4 DEF RecordOf, CallRecord

-----------------------------------------------------------------------------
\* Every variable keeps its type; the scheduler counts no more than the cap and
\* every event has the shape of the log's.
LEMMA TypeInit == Init => TypeOK
<1> SUFFICES ASSUME Init PROVE TypeOK
  OBVIOUS
<1>1. <<>> \in Seq(CallRecord) /\ 0 \in 0 .. MaxArms
  BY ArmsAssumption
<1> QED
  BY <1>1, SchedInitType DEF Init, TypeOK

LEMMA TypeStep == TypeOK /\ [Next]_vars => TypeOK'
<1> SUFFICES ASSUME TypeOK, [Next]_vars PROVE TypeOK'
  OBVIOUS
<1>1. ASSUME NEW ep \in Episodes, NEW tool \in Tools, NEW draw,
             CallDrawing(ep, tool, draw)
      PROVE  TypeOK'
  <2>1. /\ SchedTypeOK'
        /\ trace' \in [Episodes -> Seq(CallRecord)]
    BY <1>1, CallType, CallExtendsTrace
  <2>2. prf' \in [Coordinate -> SUBSET SUBSET Configured]
    <3>1. draw \in SUBSET Configured
      BY <1>1, CallType
    <3> QED
      BY <1>1, <3>1 DEF CallDrawing, TypeOK
  <2> QED
    BY <1>1, <2>1, <2>2 DEF CallDrawing, TypeOK
<1>2. ASSUME NEW ep \in Episodes, NextArm(ep)
      PROVE  TypeOK'
  <2>1. SchedTypeOK'
    BY <1>2, ResetForms DEF NextArm, TypeOK
  <2>2. trace' \in [Episodes -> Seq(CallRecord)] /\ first' \in [Episodes -> Seq(CallRecord)]
    BY <1>2 DEF NextArm, TypeOK
  <2>3. arms' \in 0 .. MaxArms
    BY <1>2, ArmsAssumption DEF NextArm, TypeOK
  <2> QED
    BY <1>2, <2>1, <2>2, <2>3 DEF NextArm, TypeOK
<1>3. CASE UNCHANGED vars
  BY <1>3 DEF vars, TypeOK, SchedTypeOK
<1> QED
  BY <1>1, <1>2, <1>3, Steps

\* The state keeps its types for every configuration: what decide() records for a
\* call is an event of that call, and its count is a number within the cap.
THEOREM TypeCorrect == Spec => []TypeOK
<1> QED
  BY TypeInit, TypeStep, PTL DEF Spec

-----------------------------------------------------------------------------
(***************************************************************************)
(* The cap: the scheduler's count is the number of faults in the log.      *)
(***************************************************************************)

\* The calls at which faults of F started are some of the calls made.
LEMMA StartedFinite ==
  ASSUME TypeOK, NEW ep \in Episodes, NEW F
  PROVE  /\ DOMAIN trace[ep] = 1 .. Len(trace[ep]) /\ Len(trace[ep]) \in Nat
         /\ Started(trace[ep], F) \subseteq 1 .. Len(trace[ep])
         /\ IsFiniteSet(Started(trace[ep], F))
<1>1. trace[ep] \in Seq(CallRecord)
  BY DEF TypeOK
<1>2. DOMAIN trace[ep] = 1 .. Len(trace[ep]) /\ Len(trace[ep]) \in Nat
  BY <1>1
<1>3. Started(trace[ep], F) \subseteq 1 .. Len(trace[ep])
  BY <1>2 DEF Started
<1>4. IsFiniteSet(1 .. Len(trace[ep]))
  BY <1>2, FS_Interval
<1>5. IsFiniteSet(Started(trace[ep], F))
  BY <1>3, <1>4, FS_Subset
<1> QED
  BY <1>2, <1>3, <1>5

\* A call adds itself to them exactly when it fires a fresh fault of F.
LEMMA StartedAfterCall ==
  ASSUME TypeOK, NEW ep \in Episodes, NEW tool \in Tools, NEW draw,
         CallDrawing(ep, tool, draw), NEW F
  PROVE  Started(trace'[ep], F) =
           IF \E e \in Decision(ep, NextTurn(ep), tool, draw) : e.fresh /\ e.family \in F
           THEN Started(trace[ep], F) \cup {Len(trace[ep]) + 1}
           ELSE Started(trace[ep], F)
<1> DEFINE n == Len(trace[ep])
           D == Decision(ep, NextTurn(ep), tool, draw)
<1>1. /\ n \in Nat
      /\ DOMAIN trace[ep] = 1 .. n
  BY StartedFinite
<1>2. /\ trace'[ep] \in Seq(CallRecord)
      /\ Len(trace'[ep]) = n + 1
      /\ \A k \in 1 .. n : trace'[ep][k] = trace[ep][k]
      /\ trace'[ep][n + 1] = RecordOf(ep, tool, draw)
  BY <1>1, CallType, CallExtendsTrace
<1>3. trace'[ep][n + 1].events = D
  BY <1>2 DEF RecordOf
<1>4. DOMAIN trace'[ep] = (1 .. n) \cup {n + 1}
  BY <1>1, <1>2
<1> HIDE DEF n, D
<1>5. \A k : k \in Started(trace'[ep], F) <=>
               \/ k \in Started(trace[ep], F)
               \/ k = n + 1 /\ \E e \in D : e.fresh /\ e.family \in F
  BY <1>1, <1>2, <1>3, <1>4 DEF Started
<1> QED
  BY <1>5 DEF n, D

LEMMA CountInit == Init => CountIsFaultsStarted
<1> SUFFICES ASSUME Init, NEW ep \in Episodes
             PROVE  counts[ep] = Cardinality(Started(trace[ep], Configured))
                    /\ counts[ep] <= MaxFaults
  BY DEF CountIsFaultsStarted
<1>1. trace[ep] = <<>> /\ counts[ep] = 0
  BY DEF Init, SchedInit
<1>2. Started(trace[ep], Configured) = {}
  BY <1>1 DEF Started
<1>3. Cardinality(Started(trace[ep], Configured)) = 0
  BY <1>2, FS_EmptySet, Zenon
<1> QED
  BY <1>1, <1>3, ConfigAssumption

LEMMA CountStep ==
  TypeOK /\ CountIsFaultsStarted /\ [Next]_vars => CountIsFaultsStarted'
<1> SUFFICES ASSUME TypeOK, CountIsFaultsStarted, [Next]_vars,
                    NEW ep \in Episodes
             PROVE  counts'[ep] = Cardinality(Started(trace'[ep], Configured))
  <2>1. TypeOK /\ [Next]_vars => TypeOK'
    BY TypeStep
  <2>2. TypeOK /\ [Next]_vars => \A e \in Episodes : counts'[e] <= MaxFaults
    BY <2>1, ConfigAssumption DEF TypeOK, SchedTypeOK
  <2> QED
    BY <2>2 DEF CountIsFaultsStarted
<1>1. counts[ep] = Cardinality(Started(trace[ep], Configured))
  BY DEF CountIsFaultsStarted
<1>2. ASSUME NEW caller \in Episodes, NEW tool \in Tools, NEW draw,
             CallDrawing(caller, tool, draw)
      PROVE  counts'[ep] = Cardinality(Started(trace'[ep], Configured))
  <2> DEFINE turn == NextTurn(caller)
             n    == Len(trace[caller])
             D    == Decision(caller, turn, tool, draw)
  <2>1. Decide(caller, turn, tool, draw) /\ SchedTypeOK
    BY <1>2 DEF CallDrawing, TypeOK
  <2>2. CASE ep # caller
    <3>1. trace'[ep] = trace[ep]
      BY <1>2, <2>2, CallType, CallExtendsTrace
    <3>2. counts'[ep] = counts[ep]
      BY <2>1, <2>2, DecideForms DEF Starts, schedVars, SchedTypeOK
    <3> QED
      BY <1>1, <3>1, <3>2
  <2>3. ASSUME ep = caller, \A e \in D : ~e.fresh
        PROVE  counts'[ep] = Cardinality(Started(trace'[ep], Configured))
    <3>1. Started(trace'[ep], Configured) = Started(trace[ep], Configured)
      BY <1>2, <2>3, StartedAfterCall
    <3>2. counts' = counts
      BY <2>1, <2>3, DecideWithoutStart
    <3> QED
      BY <1>1, <3>1, <3>2
  <2>4. ASSUME ep = caller, NEW f \in Configured, FiresFresh(ep, turn, tool, draw, f),
               Starts(ep, turn, tool, f)
        PROVE  counts'[ep] = Cardinality(Started(trace'[ep], Configured))
    <3>1. \E e \in D : e.fresh /\ e.family \in Configured
      BY <2>4 DEF FiresFresh, EventOf
    <3>2. Started(trace'[ep], Configured) = Started(trace[ep], Configured) \cup {n + 1}
      BY <1>2, <2>4, <3>1, StartedAfterCall
    <3>3. /\ IsFiniteSet(Started(trace[ep], Configured))
          /\ n + 1 \notin Started(trace[ep], Configured)
      <4>1. /\ n \in Nat
            /\ Started(trace[ep], Configured) \subseteq 1 .. n
            /\ IsFiniteSet(Started(trace[ep], Configured))
        BY <2>4, StartedFinite
      <4> QED
        BY <4>1
    <3>4. Cardinality(Started(trace'[ep], Configured))
            = Cardinality(Started(trace[ep], Configured)) + 1
      BY <3>2, <3>3, FS_AddElement
    <3>5. counts'[ep] = counts[ep] + 1
      BY <2>4 DEF Starts, TypeOK, SchedTypeOK
    <3> QED
      BY <1>1, <3>4, <3>5
  <2>5. ASSUME NEW f \in Configured, FiresLasting(caller, turn, tool, draw, f)
        PROVE  \A e \in D : ~e.fresh
    BY <2>5 DEF FiresLasting, EventOf
  <2>6. ASSUME FiresNothing(caller, turn, tool, draw)
        PROVE  \A e \in D : ~e.fresh
    BY <2>6 DEF FiresNothing
  <2> HIDE DEF turn, n, D
  <2> QED
    BY <2>1, <2>2, <2>3, <2>4, <2>5, <2>6, DecideForms
<1>3. ASSUME NEW ended \in Episodes, NextArm(ended)
      PROVE  counts'[ep] = Cardinality(Started(trace'[ep], Configured))
  <2>1. counts' = [counts EXCEPT ![ended] = 0]
    BY <1>3 DEF NextArm, ResetEpisode
  <2>2. trace' = [trace EXCEPT ![ended] = <<>>]
    BY <1>3 DEF NextArm
  <2>3. Started(<<>>, Configured) = {}
    BY DEF Started
  <2>4. CASE ep = ended
    BY <2>1, <2>2, <2>3, <2>4, FS_EmptySet DEF TypeOK, SchedTypeOK
  <2>5. CASE ep # ended
    BY <1>1, <2>1, <2>2, <2>5 DEF TypeOK, SchedTypeOK
  <2> QED
    BY <2>4, <2>5
<1>4. CASE UNCHANGED vars
  BY <1>1, <1>4 DEF vars
<1> QED
  BY <1>2, <1>3, <1>4, Steps

\* The cap is on faults started, however long they last (injector.py, decide): in
\* every reachable state, the count of an episode is the number of fresh faults in
\* its log and no more than max_faults_per_episode.
THEOREM CapCountsFaultsStarted == Spec => []CountIsFaultsStarted
<1>1. Init => TypeOK /\ CountIsFaultsStarted
  BY TypeInit, CountInit
<1>2. TypeOK /\ CountIsFaultsStarted /\ [Next]_vars => (TypeOK /\ CountIsFaultsStarted)'
  BY TypeStep, CountStep
<1> QED
  BY <1>1, <1>2, PTL DEF Spec

-----------------------------------------------------------------------------
(***************************************************************************)
(* The bookkeeping: a latch is where its family last started.              *)
(***************************************************************************)

\* LatchIsLastStart for one episode and one family.
LatchFollowsLog(ep, f) ==
  LET starts == Started(trace[ep], {f})
  IN  IF PersistenceOf(f) # "persistent" \/ starts = {}
      THEN ~IsLatched(ep, f)
      ELSE \E k \in starts :
             /\ \A j \in starts : j <= k
             /\ latched[<<ep, f>>] = [turn |-> k - 1, tool |-> trace[ep][k].tool]

\* It stays true of a family whose latch and starts a step leaves alone.
LEMMA LatchUndisturbed ==
  ASSUME NEW ep, NEW f, LatchFollowsLog(ep, f),
         latched'[<<ep, f>>] = latched[<<ep, f>>],
         Started(trace'[ep], {f}) = Started(trace[ep], {f}),
         \A k \in Started(trace[ep], {f}) : trace'[ep][k] = trace[ep][k]
  PROVE  LatchFollowsLog(ep, f)'
BY DEF LatchFollowsLog, IsLatched

LEMMA LatchStep ==
  TypeOK /\ LatchIsLastStart /\ [Next]_vars => LatchIsLastStart'
<1> SUFFICES ASSUME TypeOK, LatchIsLastStart, [Next]_vars,
                    NEW ep \in Episodes, NEW f \in Configured
             PROVE  LatchFollowsLog(ep, f)'
  BY DEF LatchIsLastStart, LatchFollowsLog
<1>1. LatchFollowsLog(ep, f)
  BY DEF LatchIsLastStart, LatchFollowsLog
<1>2. ASSUME NEW caller \in Episodes, NEW tool \in Tools, NEW draw,
             CallDrawing(caller, tool, draw)
      PROVE  LatchFollowsLog(ep, f)'
  <2> DEFINE turn == NextTurn(caller)
             n    == Len(trace[caller])
             D    == Decision(caller, turn, tool, draw)
             was  == Started(trace[caller], {f})
             is   == Started(trace'[caller], {f})
  <2>1. Decide(caller, turn, tool, draw) /\ SchedTypeOK /\ turn = n
    BY <1>2 DEF CallDrawing, NextTurn, TypeOK
  <2>2. /\ n \in Nat
        /\ DOMAIN trace[caller] = 1 .. n
        /\ was \subseteq 1 .. n
    BY StartedFinite
  <2>3. /\ \A other \in Episodes : other # caller => trace'[other] = trace[other]
        /\ \A k \in 1 .. n : trace'[caller][k] = trace[caller][k]
        /\ trace'[caller][n + 1].tool = tool
    <3>1. RecordOf(caller, tool, draw).tool = tool
      BY DEF RecordOf
    <3> QED
      BY <1>2, <2>2, <3>1, CallType, CallExtendsTrace
  <2>4. ASSUME latched'[<<ep, f>>] = latched[<<ep, f>>],
               ep = caller => \A e \in D : ~(e.fresh /\ e.family = f)
        PROVE  LatchFollowsLog(ep, f)'
    <3>1. CASE ep = caller
      <4>1. ~ \E e \in D : e.fresh /\ e.family \in {f}
        BY <2>4, <3>1
      <4>2. Started(trace'[ep], {f}) = Started(trace[ep], {f})
        BY <1>2, <3>1, <4>1, StartedAfterCall
      <4> QED
        BY <1>1, <2>2, <2>3, <2>4, <3>1, <4>2, LatchUndisturbed
    <3>2. CASE ep # caller
      BY <1>1, <2>3, <2>4, <3>2, LatchUndisturbed
    <3> QED
      BY <3>1, <3>2
  <2>5. ASSUME UNCHANGED schedVars, \A e \in D : ~e.fresh
        PROVE  LatchFollowsLog(ep, f)'
    BY <2>4, <2>5 DEF schedVars
  <2>6. ASSUME NEW g \in Configured, FiresFresh(caller, turn, tool, draw, g),
               Starts(caller, turn, tool, g)
        PROVE  LatchFollowsLog(ep, f)'
    <3>1. \A e \in D : e.fresh /\ e.family = g
      BY <2>6 DEF FiresFresh, EventOf
    <3>2. CASE ep # caller \/ f # g
      <4>1. latched'[<<ep, f>>] = latched[<<ep, f>>]
        BY <2>1, <2>6, <3>2 DEF Starts, SchedTypeOK
      <4> QED
        BY <2>4, <3>1, <3>2, <4>1
    <3>3. CASE ep = caller /\ f = g
      <4>1. \E e \in D : e.fresh /\ e.family \in {f}
        BY <2>6, <3>3 DEF FiresFresh, EventOf
      <4>2. is = was \cup {n + 1}
        BY <1>2, <3>3, <4>1, StartedAfterCall
      <4> HIDE DEF n, was, is
      <4>3. CASE PersistenceOf(f) = "persistent"
        <5>1. latched'[<<ep, f>>] = [turn |-> n, tool |-> tool]
          BY <2>1, <2>6, <3>3, <4>3 DEF Starts, SchedTypeOK
        <5>2. /\ \A j \in is : j <= n + 1
              /\ n = (n + 1) - 1
              /\ n + 1 \in is
          BY <2>2, <4>2
        <5>3. is = Started(trace'[ep], {f})
          BY <3>3 DEF is
        <5> QED
          BY <2>3, <3>3, <4>3, <5>1, <5>2, <5>3 DEF LatchFollowsLog
      <4>4. CASE PersistenceOf(f) # "persistent"
        <5>1. ~IsLatched(ep, f) /\ latched' = latched
          BY <1>1, <2>6, <3>3, <4>4 DEF LatchFollowsLog, Starts
        <5> QED
          BY <4>4, <5>1 DEF LatchFollowsLog, IsLatched
      <4> QED
        BY <4>3, <4>4
    <3> QED
      BY <3>2, <3>3
  <2>7. ASSUME NEW g \in Configured, FiresLasting(caller, turn, tool, draw, g)
        PROVE  \A e \in D : ~e.fresh
    BY <2>7 DEF FiresLasting, EventOf
  <2>8. ASSUME FiresNothing(caller, turn, tool, draw)
        PROVE  \A e \in D : ~e.fresh
    BY <2>8 DEF FiresNothing
  <2> HIDE DEF turn, n, D
  <2> QED
    BY <2>1, <2>5, <2>6, <2>7, <2>8, DecideForms
<1>3. ASSUME NEW ended \in Episodes, NextArm(ended)
      PROVE  LatchFollowsLog(ep, f)'
  <2>1. latched'[<<ep, f>>] = IF ep = ended THEN NoLatch ELSE latched[<<ep, f>>]
    BY <1>3, ResetForms DEF NextArm, TypeOK
  <2>2. trace'[ep] = IF ep = ended THEN <<>> ELSE trace[ep]
    BY <1>3 DEF NextArm, TypeOK
  <2>3. CASE ep = ended
    <3>1. Started(trace'[ep], {f}) = {} /\ ~IsLatched(ep, f)'
      BY <2>1, <2>2, <2>3 DEF Started, IsLatched
    <3> QED
      BY <3>1 DEF LatchFollowsLog
  <2>4. CASE ep # ended
    BY <1>1, <2>1, <2>2, <2>4, LatchUndisturbed
  <2> QED
    BY <2>3, <2>4
<1>4. CASE UNCHANGED vars
  BY <1>1, <1>4, LatchUndisturbed DEF vars
<1> QED
  BY <1>2, <1>3, <1>4, Steps

\* The bookkeeping can be read off the log (injector.py: "that state is itself
\* reconstructible"): a persistent family is latched where it last started in the
\* episode, and nothing else is latched.
THEOREM LatchReconstructible == Spec => []LatchIsLastStart
<1>1. Init => TypeOK /\ LatchIsLastStart
  <2> SUFFICES ASSUME Init, NEW ep \in Episodes, NEW f \in Configured
               PROVE  LatchFollowsLog(ep, f)
    BY TypeInit DEF LatchIsLastStart, LatchFollowsLog
  <2>1. latched[<<ep, f>>] = NoLatch /\ trace[ep] = <<>>
    BY DEF Init, SchedInit
  <2> QED
    BY <2>1 DEF LatchFollowsLog, IsLatched, Started
<1>2. TypeOK /\ LatchIsLastStart /\ [Next]_vars => (TypeOK /\ LatchIsLastStart)'
  BY TypeStep, LatchStep
<1> QED
  BY <1>1, <1>2, PTL DEF Spec

-----------------------------------------------------------------------------
(***************************************************************************)
(* Persistence: a server-wide fault that was felt is felt ever after.      *)
(***************************************************************************)

\* What makes it so: a persistent family that has fired in an episode, fresh or
\* not, is latched there.
FeltFaultsAreLatched ==
  \A ep \in Episodes : \A i \in DOMAIN trace[ep] : \A e \in trace[ep][i].events :
    PersistenceOf(e.family) = "persistent" => IsLatched(ep, e.family)

\* Events in the log are events of configured families.
LEMMA LoggedEvents ==
  ASSUME TypeOK, NEW ep \in Episodes, NEW i \in DOMAIN trace[ep],
         NEW e \in trace[ep][i].events
  PROVE  e.family \in Configured
<1>1. trace[ep] \in Seq(CallRecord)
  BY DEF TypeOK
<1>2. trace[ep][i] \in CallRecord
  BY <1>1
<1> QED
  BY <1>2 DEF CallRecord, Event

\* A call takes no latch away, and latches what it fires if that persists.
LEMMA CallKeepsLatches ==
  ASSUME TypeOK, NEW caller \in Episodes, NEW tool \in Tools, NEW draw,
         CallDrawing(caller, tool, draw)
  PROVE  /\ \A ep \in Episodes, f \in Configured : IsLatched(ep, f) => IsLatched(ep, f)'
         /\ \A e \in Decision(caller, NextTurn(caller), tool, draw) :
              PersistenceOf(e.family) = "persistent" => IsLatched(caller, e.family)'
<1> DEFINE turn == NextTurn(caller)
           D    == Decision(caller, turn, tool, draw)
           Goal == /\ \A ep \in Episodes, f \in Configured :
                        IsLatched(ep, f) => IsLatched(ep, f)'
                   /\ \A e \in D : PersistenceOf(e.family) = "persistent"
                                     => IsLatched(caller, e.family)'
<1>1. Decide(caller, turn, tool, draw) /\ SchedTypeOK
  BY DEF CallDrawing, TypeOK
<1>2. ASSUME FiresNothing(caller, turn, tool, draw), UNCHANGED schedVars
      PROVE  Goal
  BY <1>2 DEF FiresNothing, schedVars, IsLatched
<1>3. ASSUME NEW f \in Configured, FiresLasting(caller, turn, tool, draw, f),
             UNCHANGED schedVars
      PROVE  Goal
  <2>1. \A e \in D : e.family = f
    BY <1>3 DEF FiresLasting, EventOf
  <2> QED
    BY <1>3, <2>1 DEF FiresLasting, Lasts, schedVars, IsLatched
<1>4. ASSUME NEW f \in Configured, FiresFresh(caller, turn, tool, draw, f),
             Starts(caller, turn, tool, f)
      PROVE  Goal
  <2>1. \A e \in D : e.family = f
    BY <1>4 DEF FiresFresh, EventOf
  <2>2. [turn |-> turn, tool |-> tool] # NoLatch
    BY ConfigAssumption DEF NoLatch
  <2> HIDE DEF turn
  <2>3. \A ep \in Episodes, g \in Configured : IsLatched(ep, g) => IsLatched(ep, g)'
    BY <1>1, <1>4, <2>2 DEF Starts, SchedTypeOK, IsLatched
  <2>4. PersistenceOf(f) = "persistent" => IsLatched(caller, f)'
    BY <1>1, <1>4, <2>2 DEF Starts, SchedTypeOK, IsLatched
  <2> QED
    BY <2>1, <2>3, <2>4
<1> HIDE DEF Goal, turn
<1>5. Goal
  BY <1>1, <1>2, <1>3, <1>4, DecideForms
<1> QED
  BY <1>5 DEF Goal, turn

\* While a server-wide fault lasts, a call it applies to fires a lasting fault.
LEMMA LatchedFaultFires ==
  ASSUME TypeOK, NEW ep \in Episodes, NEW turn, NEW tool \in Tools, NEW draw,
         NEW f \in Configured, Lasts(ep, tool, f)
  PROVE  \E d \in Decision(ep, turn, tool, draw) : ~d.fresh
<1>1. ~FiresNothing(ep, turn, tool, draw)
  BY DEF FiresNothing
<1>2. \A g : ~FiresFresh(ep, turn, tool, draw, g)
  BY DEF FiresFresh
<1>3. PICK g \in Configured : FiresLasting(ep, turn, tool, draw, g)
  BY <1>1, <1>2, DecisionForms
<1> QED
  BY <1>3 DEF FiresLasting, EventOf

LEMMA PersistenceStep ==
  TypeOK /\ FeltFaultsAreLatched /\ ServerWideFaultLasts /\ [Next]_vars
  => FeltFaultsAreLatched' /\ ServerWideFaultLasts'
<1> DEFINE Goal == FeltFaultsAreLatched' /\ ServerWideFaultLasts'
<1> SUFFICES ASSUME TypeOK, FeltFaultsAreLatched, ServerWideFaultLasts, [Next]_vars
             PROVE  Goal
  OBVIOUS
<1>1. ASSUME NEW caller \in Episodes, NEW tool \in Tools, NEW draw,
             CallDrawing(caller, tool, draw)
      PROVE  Goal
  <2> DEFINE turn == NextTurn(caller)
             n    == Len(trace[caller])
             D    == Decision(caller, turn, tool, draw)
  <2>1. n \in Nat /\ DOMAIN trace[caller] = 1 .. n
    BY StartedFinite
  <2>2. /\ trace' \in [Episodes -> Seq(CallRecord)]
        /\ \A other \in Episodes : other # caller => trace'[other] = trace[other]
        /\ Len(trace'[caller]) = n + 1
        /\ \A k \in 1 .. n : trace'[caller][k] = trace[caller][k]
        /\ trace'[caller][n + 1].tool = tool
        /\ trace'[caller][n + 1].events = D
    <3>1. RecordOf(caller, tool, draw).tool = tool /\ RecordOf(caller, tool, draw).events = D
      BY DEF RecordOf
    <3> QED
      BY <1>1, <2>1, <3>1, CallType, CallExtendsTrace
  <2>3. DOMAIN trace'[caller] = (1 .. n) \cup {n + 1}
    BY <2>1, <2>2
  <2>4. /\ \A ep \in Episodes, f \in Configured : IsLatched(ep, f) => IsLatched(ep, f)'
        /\ \A e \in D : PersistenceOf(e.family) = "persistent"
                          => IsLatched(caller, e.family)'
    BY <1>1, CallKeepsLatches
  <2>5. ASSUME NEW f \in Configured, Lasts(caller, tool, f)
        PROVE  \E d \in D : ~d.fresh
    BY <2>5, LatchedFaultFires
  <2> HIDE DEF turn, n, D
  <2>6. FeltFaultsAreLatched'
    <3> SUFFICES ASSUME NEW ep \in Episodes, NEW i \in DOMAIN trace'[ep],
                        NEW e \in trace'[ep][i].events,
                        PersistenceOf(e.family) = "persistent"
                 PROVE  IsLatched(ep, e.family)'
      BY DEF FeltFaultsAreLatched
    <3>1. CASE ep = caller /\ i = n + 1
      BY <2>2, <2>4, <3>1
    <3>2. CASE ~(ep = caller /\ i = n + 1)
      <4>1. i \in DOMAIN trace[ep] /\ e \in trace[ep][i].events
        BY <2>1, <2>2, <2>3, <3>2
      <4>2. IsLatched(ep, e.family)
        BY <4>1 DEF FeltFaultsAreLatched
      <4>3. e.family \in Configured
        BY <4>1, LoggedEvents
      <4> QED
        BY <2>4, <4>2, <4>3
    <3> QED
      BY <3>1, <3>2
  <2>7. ServerWideFaultLasts'
    <3> SUFFICES ASSUME NEW ep \in Episodes, NEW i \in DOMAIN trace'[ep],
                        NEW j \in DOMAIN trace'[ep], i < j,
                        NEW e \in trace'[ep][i].events,
                        PersistenceOf(e.family) = "persistent",
                        e.family \notin ToolScoped,
                        Applicable(e.family, trace'[ep][j].tool)
                 PROVE  \E d \in trace'[ep][j].events : ~d.fresh
      BY DEF ServerWideFaultLasts
    <3>1. CASE ep # caller
      BY <2>2, <3>1 DEF ServerWideFaultLasts
    <3>2. CASE ep = caller
      <4>1. i \in 1 .. n
        BY <2>1, <2>3, <3>2
      <4>2. i \in DOMAIN trace[ep] /\ e \in trace[ep][i].events
        BY <2>1, <2>2, <3>2, <4>1
      <4>3. CASE j = n + 1
        <5>1. e.family \in Configured /\ IsLatched(ep, e.family)
          BY <4>2, LoggedEvents DEF FeltFaultsAreLatched
        <5>2. Lasts(caller, tool, e.family)
          BY <2>2, <3>2, <4>3, <5>1 DEF Lasts
        <5> QED
          BY <2>2, <2>5, <3>2, <4>3, <5>1, <5>2
      <4>4. CASE j \in 1 .. n
        BY <2>1, <2>2, <3>2, <4>2, <4>4 DEF ServerWideFaultLasts
      <4> QED
        BY <2>3, <3>2, <4>3, <4>4
    <3> QED
      BY <3>1, <3>2
  <2> QED
    BY <2>6, <2>7
<1>2. ASSUME NEW ended \in Episodes, NextArm(ended)
      PROVE  Goal
  <2>1. \A ep \in Episodes : trace'[ep] = IF ep = ended THEN <<>> ELSE trace[ep]
    BY <1>2 DEF NextArm, TypeOK
  <2>2. \A ep \in Episodes, f \in Configured :
          ep # ended => latched'[<<ep, f>>] = latched[<<ep, f>>]
    BY <1>2, ResetForms DEF NextArm, TypeOK
  <2>3. FeltFaultsAreLatched'
    <3> SUFFICES ASSUME NEW ep \in Episodes, NEW i \in DOMAIN trace'[ep],
                        NEW e \in trace'[ep][i].events,
                        PersistenceOf(e.family) = "persistent"
                 PROVE  IsLatched(ep, e.family)'
      BY DEF FeltFaultsAreLatched
    <3>1. ep # ended
      BY <2>1
    <3>2. i \in DOMAIN trace[ep] /\ e \in trace[ep][i].events
      BY <2>1, <3>1
    <3>3. e.family \in Configured /\ IsLatched(ep, e.family)
      BY <3>2, LoggedEvents DEF FeltFaultsAreLatched
    <3> QED
      BY <2>2, <3>1, <3>3 DEF IsLatched
  <2>4. ServerWideFaultLasts'
    BY <2>1 DEF ServerWideFaultLasts
  <2> QED
    BY <2>3, <2>4
<1>3. CASE UNCHANGED vars
  BY <1>3 DEF vars, FeltFaultsAreLatched, ServerWideFaultLasts, IsLatched
<1> HIDE DEF Goal
<1> QED
  BY <1>1, <1>2, <1>3, Steps

\* A persistent server-wide fault is felt for the rest of the episode, past the
\* cap (injector.py, decide: "it is ONE fault that lasts, not a new fault per
\* call"): on every call it applies to, whatever the tool, a lasting fault fires.
THEOREM ServerWideFaultsPersist == Spec => []ServerWideFaultLasts
<1>1. Init => TypeOK /\ FeltFaultsAreLatched /\ ServerWideFaultLasts
  BY TypeInit DEF Init, FeltFaultsAreLatched, ServerWideFaultLasts
<1>2. TypeOK /\ FeltFaultsAreLatched /\ ServerWideFaultLasts /\ [Next]_vars
      => (TypeOK /\ FeltFaultsAreLatched /\ ServerWideFaultLasts)'
  BY TypeStep, PersistenceStep
<1> QED
  BY <1>1, <1>2, PTL DEF Spec

-----------------------------------------------------------------------------
(***************************************************************************)
(* Pairing: an episode's schedule can be replayed from the draws and the   *)
(* calls alone.  The replay is a function of the episode's own books, so   *)
(* decide() is first written as one.                                       *)
(***************************************************************************)

Book == [latches : [Configured -> Latch \cup {NoLatch}], count : Nat]
EmptyBook == [latches |-> [f \in Configured |-> NoLatch], count |-> 0]

HitsIn(book, tool) ==
  {i \in DOMAIN Families : LET f == Families[i] IN
     /\ PersistenceOf(f) = "persistent"
     /\ book.latches[f] # NoLatch
     /\ f \in ToolScoped => book.latches[f].tool = tool
     /\ Applicable(f, tool)}

DecisionIn(book, turn, tool, draw) ==
  IF HitsIn(book, tool) # {}
  THEN LET f == FirstOf(HitsIn(book, tool))
       IN  {EventOf(turn, tool, f, FALSE, book.latches[f].turn)}
  ELSE IF book.count < MaxFaults /\ FreshHits(tool, draw) # {}
       THEN {EventOf(turn, tool, FirstOf(FreshHits(tool, draw)), TRUE, turn)}
       ELSE {}

BookAfter(book, turn, tool, draw) ==
  LET started == {e \in DecisionIn(book, turn, tool, draw) : e.fresh}
  IN  [latches |-> [f \in Configured |->
                      IF \E e \in started : /\ e.family = f
                                            /\ PersistenceOf(e.family) = "persistent"
                      THEN [turn |-> turn, tool |-> tool] ELSE book.latches[f]],
       count   |-> IF started = {} THEN book.count ELSE book.count + 1]

\* decide() looks at nothing but the episode's own books and the call's draw.
LEMMA DecisionFromBook ==
  ASSUME NEW ep \in Episodes, NEW turn, NEW tool, NEW draw
  PROVE  Decision(ep, turn, tool, draw) = DecisionIn(Bookkeeping(ep), turn, tool, draw)
<1> DEFINE book == Bookkeeping(ep)
           LH   == LatchedHits(ep, tool)
<1>1. book.count = counts[ep] /\ \A f \in Configured : book.latches[f] = latched[<<ep, f>>]
  BY DEF Bookkeeping
<1>2. \A i \in DOMAIN Families : Families[i] \in Configured
  BY DEF Configured
<1> HIDE DEF book
<1>3. HitsIn(book, tool) = LH
  BY <1>1, <1>2 DEF HitsIn, LatchedHits, IsLatched
<1>4. ASSUME LH # {}
      PROVE  FirstOf(LH) \in Configured
  <2>1. LH \in SUBSET DOMAIN Families
    BY DEF LatchedHits
  <2> QED
    BY <1>2, <1>4, <2>1, FirstHit
<1> HIDE DEF LH
<1>5. CASE LH # {}
  <2>1. book.latches[FirstOf(LH)] = latched[<<ep, FirstOf(LH)>>]
    BY <1>1, <1>4, <1>5
  <2>2. Decision(ep, turn, tool, draw)
          = {EventOf(turn, tool, FirstOf(LH), FALSE, latched[<<ep, FirstOf(LH)>>].turn)}
    BY <1>5 DEF Decision, LH
  <2>3. DecisionIn(book, turn, tool, draw)
          = {EventOf(turn, tool, FirstOf(LH), FALSE, book.latches[FirstOf(LH)].turn)}
    BY <1>3, <1>5, Zenon DEF DecisionIn
  <2> QED
    BY <2>1, <2>2, <2>3 DEF book
<1>6. CASE LH = {}
  <2>1. HitsIn(book, tool) = {}
    BY <1>3, <1>6
  <2> QED
    BY <1>1, <1>6, <2>1 DEF Decision, DecisionIn, book, LH
<1> QED
  BY <1>5, <1>6

\* And what it leaves there is a function of the same, the other episodes' books
\* being left alone.
LEMMA DecideFromBook ==
  ASSUME SchedTypeOK, NEW ep \in Episodes, NEW turn, NEW tool, NEW draw,
         Decide(ep, turn, tool, draw)
  PROVE  /\ Bookkeeping(ep)' = BookAfter(Bookkeeping(ep), turn, tool, draw)
         /\ \A other \in Episodes : other # ep => Bookkeeping(other)' = Bookkeeping(other)
<1> DEFINE D       == Decision(ep, turn, tool, draw)
           started == {e \in D : e.fresh}
           here    == [turn |-> turn, tool |-> tool]
           New(k)  == /\ k[1] = ep
                      /\ \E e \in started : /\ e.family = k[2]
                                            /\ PersistenceOf(e.family) = "persistent"
<1>1. /\ counts' = IF started = {} THEN counts ELSE [counts EXCEPT ![ep] = @ + 1]
      /\ latched' = [k \in DOMAIN latched |-> IF New(k) THEN here ELSE latched[k]]
  BY DEF Decide
<1>2. DOMAIN latched = Episodes \X Configured /\ DOMAIN counts = Episodes
  BY DEF SchedTypeOK
<1>3. D = DecisionIn(Bookkeeping(ep), turn, tool, draw)
  BY DecisionFromBook
<1> HIDE DEF D
<1>4. \A other \in Episodes, f \in Configured :
        latched'[<<other, f>>] = IF New(<<other, f>>) THEN here ELSE latched[<<other, f>>]
  BY <1>1, <1>2
<1>5. \A other \in Episodes :
        counts'[other] = IF other = ep /\ started # {} THEN counts[other] + 1
                         ELSE counts[other]
  BY <1>1, <1>2
<1>6. Bookkeeping(ep)' = BookAfter(Bookkeeping(ep), turn, tool, draw)
  <2>1. \A f \in Configured :
          New(<<ep, f>>) <=> \E e \in started : /\ e.family = f
                                                /\ PersistenceOf(e.family) = "persistent"
    OBVIOUS
  <2>2. [f \in Configured |-> latched'[<<ep, f>>]]
          = [f \in Configured |->
               IF \E e \in started : e.family = f /\ PersistenceOf(e.family) = "persistent"
               THEN here ELSE latched[<<ep, f>>]]
    BY <1>4, <2>1
  <2>3. counts'[ep] = IF started = {} THEN counts[ep] ELSE counts[ep] + 1
    BY <1>5
  <2> HIDE DEF New
  <2> QED
    BY <1>3, <2>2, <2>3 DEF Bookkeeping, BookAfter
<1>7. ASSUME NEW other \in Episodes, other # ep
      PROVE  Bookkeeping(other)' = Bookkeeping(other)
  <2>1. [f \in Configured |-> latched'[<<other, f>>]]
          = [f \in Configured |-> latched[<<other, f>>]]
    BY <1>4, <1>7
  <2> QED
    BY <1>5, <1>7, <2>1 DEF Bookkeeping
<1> QED
  BY <1>6, <1>7

\* The books before the k-th call of a log, and the record that call must leave.
Before(calls, k) == IF k = 1 THEN EmptyBook ELSE calls[k - 1].left

Outcome(book, turn, tool, draw) ==
  [tool   |-> tool,
   events |-> DecisionIn(book, turn, tool, draw),
   left   |-> BookAfter(book, turn, tool, draw)]

\* A log is a replay: each call left what its coordinate's draw and the books
\* before it say, and the draw is on record.
Replays(ep, calls) ==
  \A k \in DOMAIN calls : \E draw :
    /\ prf[<<ep, k - 1, calls[k].tool>>] = {draw}
    /\ calls[k] = Outcome(Before(calls, k), k - 1, calls[k].tool, draw)

Replayable ==
  \A ep \in Episodes :
    /\ Len(trace[ep]) <= MaxCalls /\ Len(first[ep]) <= MaxCalls
    /\ Replays(ep, trace[ep]) /\ Replays(ep, first[ep])
    /\ Bookkeeping(ep) = Before(trace[ep], Len(trace[ep]) + 1)

\* A coordinate answers as it has answered before.
LEMMA DrawsAreKept ==
  ASSUME TypeOK, NEW ep \in Episodes, NEW tool \in Tools, NEW draw,
         CallDrawing(ep, tool, draw),
         NEW c \in Coordinate, NEW d, prf[c] = {d}
  PROVE  prf'[c] = {d}
<1> DEFINE here == <<ep, NextTurn(ep), tool>>
<1>1. prf' = [prf EXCEPT ![here] = {draw}] /\ draw \in Draws(here)
  BY DEF CallDrawing
<1>2. DOMAIN prf = Coordinate
  BY DEF TypeOK
<1> HIDE DEF here
<1>3. CASE c = here
  <2>1. draw = d
    BY <1>1, <1>3 DEF Draws
  <2> QED
    BY <1>1, <1>2, <1>3, <2>1
<1>4. CASE c # here
  BY <1>1, <1>2, <1>4
<1> QED
  BY <1>3, <1>4

\* So a replay stays one.
LEMMA ReplaysAreKept ==
  ASSUME TypeOK, NEW caller \in Episodes, NEW tool \in Tools, NEW draw,
         CallDrawing(caller, tool, draw),
         NEW ep \in Episodes, NEW calls \in Seq(CallRecord), Len(calls) <= MaxCalls,
         Replays(ep, calls), NEW k \in DOMAIN calls
  PROVE  \E d : /\ prf'[<<ep, k - 1, calls[k].tool>>] = {d}
                /\ calls[k] = Outcome(Before(calls, k), k - 1, calls[k].tool, d)
<1> DEFINE c == <<ep, k - 1, calls[k].tool>>
<1>1. PICK d : /\ prf[c] = {d}
               /\ calls[k] = Outcome(Before(calls, k), k - 1, calls[k].tool, d)
  BY DEF Replays
<1>2. c \in Coordinate
  <2>1. calls[k] \in CallRecord /\ k - 1 \in TurnKeys
    BY ConfigAssumption DEF TurnKeys
  <2>2. calls[k].tool \in Tools
    BY <2>1 DEF CallRecord
  <2> QED
    BY <2>1, <2>2 DEF Coordinate
<1> HIDE DEF c
<1>3. prf'[c] = {d}
  BY <1>1, <1>2, DrawsAreKept
<1> QED
  BY <1>1, <1>3 DEF c

\* A call's record is what the replay says of the books before it.
LEMMA RecordIsOutcome ==
  ASSUME TypeOK, Replayable, NEW ep \in Episodes, NEW tool \in Tools, NEW draw,
         CallDrawing(ep, tool, draw)
  PROVE  RecordOf(ep, tool, draw)
           = Outcome(Before(trace[ep], Len(trace[ep]) + 1), Len(trace[ep]), tool, draw)
<1> DEFINE n    == Len(trace[ep])
           book == Bookkeeping(ep)
<1>1. book = Before(trace[ep], n + 1)
  BY DEF Replayable
<1>2. NextTurn(ep) = n /\ Decide(ep, n, tool, draw) /\ SchedTypeOK
  BY DEF CallDrawing, NextTurn, TypeOK
<1> HIDE DEF n
<1>3. Decision(ep, n, tool, draw) = DecisionIn(book, n, tool, draw)
  BY DecisionFromBook
<1>4. Bookkeeping(ep)' = BookAfter(book, n, tool, draw)
  BY <1>2, DecideFromBook
<1> HIDE DEF book
<1>5. RecordOf(ep, tool, draw) = Outcome(book, n, tool, draw)
  BY <1>2, <1>3, <1>4, Zenon DEF RecordOf, Outcome
<1> QED
  BY <1>1, <1>5 DEF n

\* What a call does to its own log: the old records keep the books before them,
\* and the new one is the outcome of the books the old ones left.
LEMMA CallReplays ==
  ASSUME TypeOK, Replayable, NEW ep \in Episodes, NEW tool \in Tools, NEW draw,
         CallDrawing(ep, tool, draw)
  PROVE  LET n == Len(trace[ep]) IN
         /\ n \in Nat /\ n < MaxCalls
         /\ DOMAIN trace[ep] = 1 .. n
         /\ Len(trace'[ep]) = n + 1
         /\ DOMAIN trace'[ep] = 1 .. n + 1
         /\ \A k \in 1 .. n : trace'[ep][k] = trace[ep][k]
         /\ \A k \in 1 .. n + 1 : Before(trace'[ep], k) = Before(trace[ep], k)
         /\ trace'[ep][n + 1] = Outcome(Before(trace[ep], n + 1), n, tool, draw)
         /\ trace'[ep][n + 1].tool = tool
         /\ Bookkeeping(ep)' = Before(trace'[ep], n + 2)
         /\ prf'[<<ep, n, tool>>] = {draw}
<1> DEFINE n == Len(trace[ep])
<1>1. n \in Nat /\ DOMAIN trace[ep] = 1 .. n
  BY StartedFinite
<1>2. /\ trace'[ep] \in Seq(CallRecord)
      /\ Len(trace'[ep]) = n + 1
      /\ \A k \in 1 .. n : trace'[ep][k] = trace[ep][k]
      /\ trace'[ep][n + 1] = RecordOf(ep, tool, draw)
  BY <1>1, CallType, CallExtendsTrace
<1>3. RecordOf(ep, tool, draw).tool = tool
      /\ RecordOf(ep, tool, draw).left = Bookkeeping(ep)'
  BY DEF RecordOf
<1>4. prf'[<<ep, n, tool>>] = {draw}
  <2>1. <<ep, n, tool>> \in Coordinate
    BY CallType DEF Coordinate, NextTurn
  <2> QED
    BY <2>1 DEF CallDrawing, NextTurn, TypeOK
<1>5. n < MaxCalls
  BY CallType, ConfigAssumption DEF TurnKeys, NextTurn
<1>6. RecordOf(ep, tool, draw) = Outcome(Before(trace[ep], n + 1), n, tool, draw)
  BY RecordIsOutcome
<1> HIDE DEF n
<1>7. \A k \in 1 .. n + 1 : Before(trace'[ep], k) = Before(trace[ep], k)
  <2> SUFFICES ASSUME NEW k \in 1 .. n + 1, k # 1
               PROVE  trace'[ep][k - 1].left = trace[ep][k - 1].left
    BY DEF Before
  <2>1. k - 1 \in 1 .. n
    BY <1>1
  <2> QED
    BY <1>2, <2>1
<1>8. Before(trace'[ep], n + 2) = trace'[ep][n + 1].left
  <2>1. n + 2 # 1 /\ (n + 2) - 1 = n + 1
    BY <1>1
  <2> QED
    BY <2>1 DEF Before
<1>9. DOMAIN trace'[ep] = 1 .. n + 1
  BY <1>2
<1> QED
  BY <1>1, <1>2, <1>3, <1>4, <1>5, <1>6, <1>7, <1>8, <1>9 DEF n

LEMMA ReplayableStep == TypeOK /\ Replayable /\ [Next]_vars => Replayable'
<1> SUFFICES ASSUME TypeOK, Replayable, [Next]_vars PROVE Replayable'
  OBVIOUS
<1>1. ASSUME NEW caller \in Episodes, NEW tool \in Tools, NEW draw,
             CallDrawing(caller, tool, draw), NEW ep \in Episodes
      PROVE  /\ Len(trace'[ep]) <= MaxCalls /\ Len(first'[ep]) <= MaxCalls
             /\ Replays(ep, trace[ep])' /\ Replays(ep, first[ep])'
             /\ Bookkeeping(ep)' = Before(trace'[ep], Len(trace'[ep]) + 1)
  <2>1. /\ trace[ep] \in Seq(CallRecord) /\ first[ep] \in Seq(CallRecord)
        /\ Len(trace[ep]) <= MaxCalls /\ Len(first[ep]) <= MaxCalls
        /\ Replays(ep, trace[ep]) /\ Replays(ep, first[ep])
        /\ first' = first
    BY <1>1 DEF CallDrawing, Replayable, TypeOK
  <2>2. Replays(ep, first[ep])'
    <3>1. \A k \in DOMAIN first[ep] : \E d :
            /\ prf'[<<ep, k - 1, first[ep][k].tool>>] = {d}
            /\ first[ep][k] = Outcome(Before(first[ep], k), k - 1, first[ep][k].tool, d)
      BY <1>1, <2>1, ReplaysAreKept
    <3> QED
      BY <2>1, <3>1, Zenon DEF Replays
  <2>3. CASE ep # caller
    <3>1. trace'[ep] = trace[ep]
      BY <1>1, <2>3, CallType, CallExtendsTrace
    <3>2. Replays(ep, trace[ep])'
      <4>1. \A k \in DOMAIN trace[ep] : \E d :
              /\ prf'[<<ep, k - 1, trace[ep][k].tool>>] = {d}
              /\ trace[ep][k] = Outcome(Before(trace[ep], k), k - 1, trace[ep][k].tool, d)
        BY <1>1, <2>1, ReplaysAreKept
      <4> QED
        BY <3>1, <4>1, Zenon DEF Replays
    <3>3. Bookkeeping(ep)' = Bookkeeping(ep)
      BY <1>1, <2>3, DecideFromBook DEF CallDrawing, TypeOK
    <3> QED
      BY <2>1, <2>2, <3>1, <3>2, <3>3 DEF Replayable
  <2>4. CASE ep = caller
    <3> DEFINE n == Len(trace[ep])
    <3>1. /\ n \in Nat /\ n < MaxCalls
          /\ DOMAIN trace[ep] = 1 .. n
          /\ Len(trace'[ep]) = n + 1
          /\ DOMAIN trace'[ep] = 1 .. n + 1
          /\ \A k \in 1 .. n : trace'[ep][k] = trace[ep][k]
          /\ \A k \in 1 .. n + 1 : Before(trace'[ep], k) = Before(trace[ep], k)
          /\ trace'[ep][n + 1] = Outcome(Before(trace[ep], n + 1), n, tool, draw)
          /\ trace'[ep][n + 1].tool = tool
          /\ Bookkeeping(ep)' = Before(trace'[ep], n + 2)
          /\ prf'[<<ep, n, tool>>] = {draw}
      BY <1>1, <2>4, CallReplays
    <3>2. Len(trace'[ep]) <= MaxCalls /\ Len(trace'[ep]) + 1 = n + 2
      BY <3>1, ConfigAssumption
    <3>3. ASSUME NEW k \in 1 .. n
          PROVE  \E d : /\ prf'[<<ep, k - 1, trace'[ep][k].tool>>] = {d}
                        /\ trace'[ep][k] = Outcome(Before(trace'[ep], k), k - 1,
                                                   trace'[ep][k].tool, d)
      <4>1. /\ Before(trace'[ep], k) = Before(trace[ep], k)
            /\ trace'[ep][k] = trace[ep][k]
            /\ k \in DOMAIN trace[ep]
        BY <3>1
      <4> QED
        BY <1>1, <2>1, <4>1, ReplaysAreKept
    <3>4. /\ (n + 1) - 1 = n /\ 1 .. n + 1 = (1 .. n) \cup {n + 1}
          /\ n + 1 \in 1 .. n + 1
      BY <3>1
    <3> HIDE DEF n
    <3>5. \E d : /\ prf'[<<ep, (n + 1) - 1, trace'[ep][n + 1].tool>>] = {d}
                 /\ trace'[ep][n + 1] = Outcome(Before(trace'[ep], n + 1), (n + 1) - 1,
                                                trace'[ep][n + 1].tool, d)
      BY <3>1, <3>4
    <3>6. Replays(ep, trace[ep])'
      BY <3>1, <3>3, <3>4, <3>5 DEF Replays
    <3> QED
      BY <2>1, <2>2, <3>1, <3>2, <3>6
  <2> QED
    BY <2>3, <2>4
<1>2. ASSUME NEW ended \in Episodes, NextArm(ended), NEW ep \in Episodes
      PROVE  /\ Len(trace'[ep]) <= MaxCalls /\ Len(first'[ep]) <= MaxCalls
             /\ Replays(ep, trace[ep])' /\ Replays(ep, first[ep])'
             /\ Bookkeeping(ep)' = Before(trace'[ep], Len(trace'[ep]) + 1)
  <2>1. /\ trace'[ep] = IF ep = ended THEN <<>> ELSE trace[ep]
        /\ first'[ep] \in {first[ep], trace[ep]}
        /\ prf' = prf /\ ResetEpisode(ended)
    BY <1>2 DEF NextArm, TypeOK
  <2>2. Len(trace'[ep]) <= MaxCalls /\ Len(first'[ep]) <= MaxCalls
    BY <2>1, ConfigAssumption DEF Replayable
  <2>3. Replays(ep, trace[ep])' /\ Replays(ep, first[ep])'
    <3>1. ASSUME NEW calls, Replays(ep, calls)
          PROVE  \A k \in DOMAIN calls : \E d :
                   /\ prf'[<<ep, k - 1, calls[k].tool>>] = {d}
                   /\ calls[k] = Outcome(Before(calls, k), k - 1, calls[k].tool, d)
      BY <2>1, <3>1, Zenon DEF Replays
    <3>2. Replays(ep, <<>>)
      BY DEF Replays
    <3>3. Replays(ep, trace[ep]) /\ Replays(ep, first[ep])
      BY DEF Replayable
    <3>4. trace'[ep] \in {<<>>, trace[ep]}
      BY <2>1
    <3>5. Replays(ep, trace[ep])'
      <4>1. \A k \in DOMAIN trace'[ep] : \E d :
              /\ prf'[<<ep, k - 1, trace'[ep][k].tool>>] = {d}
              /\ trace'[ep][k] = Outcome(Before(trace'[ep], k), k - 1, trace'[ep][k].tool, d)
        BY <3>1, <3>2, <3>3, <3>4, Zenon
      <4> QED
        BY <4>1, Zenon DEF Replays
    <3>6. Replays(ep, first[ep])'
      <4>1. \A k \in DOMAIN first'[ep] : \E d :
              /\ prf'[<<ep, k - 1, first'[ep][k].tool>>] = {d}
              /\ first'[ep][k] = Outcome(Before(first'[ep], k), k - 1, first'[ep][k].tool, d)
        BY <2>1, <3>1, <3>3, Zenon
      <4> QED
        BY <4>1, Zenon DEF Replays
    <3> QED
      BY <3>5, <3>6
  <2>4. CASE ep = ended
    <3>1. Len(trace'[ep]) + 1 = 1
      BY <2>1, <2>4
    <3>2. Bookkeeping(ep)' = EmptyBook
      BY <1>2, <2>1, <2>4, ResetForms DEF Bookkeeping, EmptyBook, TypeOK, SchedTypeOK, ResetEpisode
    <3> QED
      BY <2>2, <2>3, <3>1, <3>2 DEF Before
  <2>5. CASE ep # ended
    <3>1. Bookkeeping(ep)' = Bookkeeping(ep)
      BY <2>1, <2>5 DEF Bookkeeping, ResetEpisode, TypeOK, SchedTypeOK
    <3> QED
      BY <2>1, <2>2, <2>3, <2>5, <3>1 DEF Replayable
  <2> QED
    BY <2>4, <2>5
<1>3. CASE UNCHANGED vars
  BY <1>3 DEF vars, Replayable, Replays, Bookkeeping
<1> QED
  BY <1>1, <1>2, <1>3, Steps DEF Replayable

LEMMA SameCallsStep ==
  TypeOK /\ Replayable /\ SameCallsSameFaults /\ [Next]_vars => SameCallsSameFaults'
<1> SUFFICES ASSUME TypeOK, Replayable, SameCallsSameFaults, [Next]_vars,
                    NEW ep \in Episodes,
                    NEW k \in DOMAIN trace'[ep], k \in DOMAIN first'[ep],
                    \A i \in 1 .. k : trace'[ep][i].tool = first'[ep][i].tool
             PROVE  trace'[ep][k] = first'[ep][k]
  BY DEF SameCallsSameFaults
<1>1. ASSUME NEW caller \in Episodes, NEW tool \in Tools, NEW draw,
             CallDrawing(caller, tool, draw)
      PROVE  trace'[ep][k] = first'[ep][k]
  <2>1. first' = first
    BY <1>1 DEF CallDrawing
  <2>2. CASE ep # caller
    <3>1. trace'[ep] = trace[ep]
      BY <1>1, <2>2, CallType, CallExtendsTrace
    <3> QED
      BY <2>1, <3>1 DEF SameCallsSameFaults
  <2>3. CASE ep = caller
    <3> DEFINE n == Len(trace[ep])
               last == n + 1
    <3>1. /\ n \in Nat /\ n < MaxCalls
          /\ DOMAIN trace[ep] = 1 .. n
          /\ DOMAIN trace'[ep] = 1 .. last
          /\ \A j \in 1 .. n : trace'[ep][j] = trace[ep][j]
          /\ trace'[ep][last] = Outcome(Before(trace[ep], last), n, tool, draw)
          /\ trace'[ep][last].tool = tool
          /\ prf'[<<ep, n, tool>>] = {draw}
      BY <1>1, <2>3, CallReplays
    <3>2. DOMAIN first[ep] = 1 .. Len(first[ep]) /\ Len(first[ep]) \in Nat
      BY DEF TypeOK
    <3>3. ASSUME NEW j \in 1 .. n, j \in DOMAIN first[ep],
                 \A i \in 1 .. j : trace'[ep][i].tool = first'[ep][i].tool
          PROVE  trace[ep][j] = first[ep][j]
      <4>1. \A i \in 1 .. j : trace[ep][i].tool = first[ep][i].tool
        BY <2>1, <3>1, <3>3
      <4> QED
        BY <3>1, <3>3, <4>1 DEF SameCallsSameFaults
    <3> HIDE DEF n
    <3>4. CASE k \in 1 .. n
      BY <2>1, <3>1, <3>3, <3>4
    <3>5. CASE k = last
      <4>1. first[ep][last].tool = tool
        BY <2>1, <3>1, <3>5
      <4>2. Before(first[ep], last) = Before(trace[ep], last)
        <5>1. CASE n = 0
          BY <5>1 DEF Before
        <5>2. CASE n # 0
          <6>1. n \in 1 .. n /\ n \in DOMAIN first[ep] /\ last # 1 /\ last - 1 = n
            BY <2>1, <3>1, <3>2, <3>5, <5>2
          <6>2. \A i \in 1 .. n : trace'[ep][i].tool = first'[ep][i].tool
            BY <3>1, <3>5
          <6>3. trace[ep][n] = first[ep][n]
            BY <3>3, <6>1, <6>2
          <6> QED
            BY <6>1, <6>3 DEF Before
        <5> QED
          BY <5>1, <5>2
      <4>3. PICK d : /\ prf'[<<ep, n, tool>>] = {d}
                     /\ first[ep][last] = Outcome(Before(first[ep], last), n, tool, d)
        <5>1. /\ first[ep] \in Seq(CallRecord) /\ Len(first[ep]) <= MaxCalls
              /\ Replays(ep, first[ep])
          BY DEF Replayable, TypeOK
        <5>2. last \in DOMAIN first[ep] /\ last - 1 = n
          BY <2>1, <3>1, <3>5
        <5> HIDE DEF last
        <5>3. \E d : /\ prf'[<<ep, last - 1, first[ep][last].tool>>] = {d}
                     /\ first[ep][last] = Outcome(Before(first[ep], last), last - 1,
                                                  first[ep][last].tool, d)
          BY <1>1, <5>1, <5>2, ReplaysAreKept
        <5> QED
          BY <4>1, <5>2, <5>3
      <4>4. d = draw
        BY <3>1, <4>3
      <4> QED
        BY <2>1, <3>1, <3>5, <4>2, <4>3, <4>4
    <3>6. k \in 1 .. n \/ k = last
      BY <2>3, <3>1
    <3> QED
      BY <3>4, <3>5, <3>6
  <2> QED
    BY <2>2, <2>3
<1>2. ASSUME NEW ended \in Episodes, NextArm(ended)
      PROVE  trace'[ep][k] = first'[ep][k]
  <2>1. /\ trace'[ep] = IF ep = ended THEN <<>> ELSE trace[ep]
        /\ ep # ended => first'[ep] = first[ep]
    BY <1>2 DEF NextArm, TypeOK
  <2>2. ep # ended
    BY <2>1
  <2> QED
    BY <2>1, <2>2 DEF SameCallsSameFaults
<1>3. CASE UNCHANGED vars
  BY <1>3 DEF vars, SameCallsSameFaults
<1> QED
  BY <1>1, <1>2, <1>3, Steps

LEMMA ReplayInit == Init => Replayable /\ SameCallsSameFaults
<1> SUFFICES ASSUME Init, NEW ep \in Episodes
             PROVE  /\ Len(trace[ep]) <= MaxCalls /\ Len(first[ep]) <= MaxCalls
                    /\ Replays(ep, trace[ep]) /\ Replays(ep, first[ep])
                    /\ Bookkeeping(ep) = Before(trace[ep], Len(trace[ep]) + 1)
                    /\ DOMAIN trace[ep] = {}
  BY DEF Replayable, SameCallsSameFaults
<1>1. trace[ep] = <<>> /\ first[ep] = <<>>
  BY DEF Init
<1>2. Bookkeeping(ep) = EmptyBook
  BY DEF Init, SchedInit, Bookkeeping, EmptyBook
<1>3. Before(trace[ep], Len(trace[ep]) + 1) = EmptyBook
  BY <1>1 DEF Before
<1> QED
  BY <1>1, <1>2, <1>3, ConfigAssumption DEF Replays

LEMMA ReplayInvariant == Spec => [](TypeOK /\ Replayable /\ SameCallsSameFaults)
<1>1. Init => TypeOK /\ Replayable /\ SameCallsSameFaults
  BY TypeInit, ReplayInit
<1>2. TypeOK /\ Replayable /\ SameCallsSameFaults /\ [Next]_vars
      => (TypeOK /\ Replayable /\ SameCallsSameFaults)'
  BY TypeStep, ReplayableStep, SameCallsStep
<1> QED
  BY <1>1, <1>2, PTL DEF Spec

\* Pairing (injector.py: "a replay from the trace is exact"): arms that make the
\* same calls in an episode meet the same faults and leave the same books, call by
\* call, however many arms and other episodes share the scheduler.
THEOREM PairedReplay == Spec => []SameCallsSameFaults
<1> QED
  BY ReplayInvariant, PTL

-----------------------------------------------------------------------------
(***************************************************************************)
(* What is true of assert_paired's check: fresh faults pair, whatever      *)
(* calls the arms made before.  Only a lasting fault, which depends on     *)
(* them, can make it fail.                                                 *)
(***************************************************************************)

\* No coordinate both arms reached has felt a lasting fault.
NoneLasting ==
  \A ep \in Episodes : \A k \in Shared(ep) :
    \A e \in trace[ep][k].events \cup first[ep][k].events : e.fresh

FirstDrawn(turn, tool, draw) ==
  {EventOf(turn, tool, FirstOf(FreshHits(tool, draw)), TRUE, turn)}

\* A fault that starts is the one its coordinate's draw puts first: the books only
\* say whether it starts.
LEMMA FreshIsFirstDrawn ==
  ASSUME NEW book, NEW turn, NEW tool, NEW draw,
         NEW e \in DecisionIn(book, turn, tool, draw), e.fresh \/ HitsIn(book, tool) = {}
  PROVE  DecisionIn(book, turn, tool, draw) = FirstDrawn(turn, tool, draw)
<1>1. CASE HitsIn(book, tool) # {}
  <2>1. PICK f, turn0 :
          DecisionIn(book, turn, tool, draw) = {EventOf(turn, tool, f, FALSE, turn0)}
    BY <1>1 DEF DecisionIn
  <2>2. e = EventOf(turn, tool, f, FALSE, turn0)
    BY <2>1
  <2> QED
    BY <1>1, <2>2 DEF EventOf
<1>2. CASE HitsIn(book, tool) = {}
  BY <1>2 DEF DecisionIn, FirstDrawn
<1> QED
  BY <1>1, <1>2

\* Where both arms met faults that started, or where nothing can be latched, they
\* met the same one.
LEMMA FreshPair ==
  ASSUME Replayable, NEW ep \in Episodes, NEW k \in Shared(ep),
         NEW d \in trace[ep][k].events, NEW e \in first[ep][k].events,
         (d.fresh /\ e.fresh) \/ \A book, tool : HitsIn(book, tool) = {}
  PROVE  trace[ep][k].events = first[ep][k].events
<1> DEFINE tool == trace[ep][k].tool
<1>1. /\ k \in DOMAIN trace[ep] /\ k \in DOMAIN first[ep]
      /\ first[ep][k].tool = tool
  BY DEF Shared
<1>2. Replays(ep, trace[ep]) /\ Replays(ep, first[ep])
  BY DEF Replayable
<1>3. PICK a : /\ prf[<<ep, k - 1, tool>>] = {a}
               /\ trace[ep][k] = Outcome(Before(trace[ep], k), k - 1, tool, a)
  BY <1>1, <1>2, Zenon DEF Replays
<1>4. PICK b : /\ prf[<<ep, k - 1, tool>>] = {b}
               /\ first[ep][k] = Outcome(Before(first[ep], k), k - 1, tool, b)
  <2>1. \E b : /\ prf[<<ep, k - 1, first[ep][k].tool>>] = {b}
              /\ first[ep][k] = Outcome(Before(first[ep], k), k - 1, first[ep][k].tool, b)
    BY <1>1, <1>2, Zenon DEF Replays
  <2> QED
    BY <1>1, <2>1, Zenon
<1>5. a = b
  BY <1>3, <1>4
<1>6. /\ trace[ep][k].events = DecisionIn(Before(trace[ep], k), k - 1, tool, a)
      /\ first[ep][k].events = DecisionIn(Before(first[ep], k), k - 1, tool, a)
  BY <1>3, <1>4, <1>5 DEF Outcome
<1> HIDE DEF tool
<1> DEFINE before == Before(trace[ep], k)
           theirs == Before(first[ep], k)
           drawn  == FirstDrawn(k - 1, tool, a)
<1>7. trace[ep][k].events = drawn
  <2>1. /\ d \in DecisionIn(before, k - 1, tool, a)
        /\ d.fresh \/ HitsIn(before, tool) = {}
    BY <1>6, Zenon
  <2>2. DecisionIn(before, k - 1, tool, a) = drawn
    BY <2>1, FreshIsFirstDrawn
  <2> QED
    BY <1>6, <2>2, Zenon
<1>8. first[ep][k].events = drawn
  <2>1. /\ e \in DecisionIn(theirs, k - 1, tool, a)
        /\ e.fresh \/ HitsIn(theirs, tool) = {}
    BY <1>6, Zenon
  <2>2. DecisionIn(theirs, k - 1, tool, a) = drawn
    BY <2>1, FreshIsFirstDrawn
  <2> QED
    BY <1>6, <2>2, Zenon
<1> QED
  BY <1>7, <1>8

\* assert_paired's reading of a mismatch (eval/harness.py) is true of faults that
\* start: while no coordinate both arms reached felt a lasting fault, the check
\* passes, whatever calls went before, whatever the cap cut off, and whatever other
\* episodes did.  A mismatch therefore shows a lasting fault, never an impure draw.
THEOREM FreshFaultsPair == Spec => [](NoneLasting => PairCheckPasses)
<1>1. Replayable => (NoneLasting => PairCheckPasses)
  <2> SUFFICES ASSUME Replayable, NoneLasting,
                      NEW ep \in Episodes, NEW k \in Shared(ep),
                      NEW d \in trace[ep][k].events, NEW e \in first[ep][k].events
               PROVE  FamiliesAt(trace[ep], k) = FamiliesAt(first[ep], k)
    BY DEF PairCheckPasses
  <2>1. d.fresh /\ e.fresh
    BY DEF NoneLasting
  <2> QED
    BY <2>1, FreshPair DEF FamiliesAt
<1> QED
  BY <1>1, ReplayInvariant, PTL

\* So it passes in every experiment whose families, after the override, all end
\* with the call they strike: with persistence_override "transient", for one.
THEOREM PairCheckWithoutPersistence ==
  Spec => []((\A f \in Configured : PersistenceOf(f) # "persistent") => PairCheckPasses)
<1>1. Replayable
      => ((\A f \in Configured : PersistenceOf(f) # "persistent") => PairCheckPasses)
  <2> SUFFICES ASSUME Replayable, \A f \in Configured : PersistenceOf(f) # "persistent",
                      NEW ep \in Episodes, NEW k \in Shared(ep),
                      NEW d \in trace[ep][k].events, NEW e \in first[ep][k].events
               PROVE  FamiliesAt(trace[ep], k) = FamiliesAt(first[ep], k)
    BY DEF PairCheckPasses
  <2>1. \A book, tool : HitsIn(book, tool) = {}
    BY DEF HitsIn, Configured
  <2> QED
    BY <2>1, FreshPair DEF FamiliesAt
<1> QED
  BY <1>1, ReplayInvariant, PTL

=============================================================================
