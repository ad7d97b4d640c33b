--------------------------- MODULE AgentLoopProofs ---------------------------
(***************************************************************************)
(* The accounting of an episode, proved for every set of tasks, methods    *)
(* and tools, every fault configuration, and every limit on turns, retries *)
(* and recovery: which calls are made, under which coordinates, at whose   *)
(* expense, and what is reported of their faults.                          *)
(***************************************************************************)
EXTENDS AgentLoop, TLAPS

\* A call through the proxy whose fault the caller reports.
ReportedCall(c, draw, nominal, resp) ==
  /\ ThroughProxy(c, draw, nominal, resp)
  /\ faultEvents' = faultEvents
                    + Cardinality(KeptEvents(TheEpisode, callIdx, c, draw, nominal))
  /\ families' = families
                 \cup FamiliesOf(KeptEvents(TheEpisode, callIdx, c, draw, nominal))

\* The policy and recovery both report theirs.
SomeCall == \E c, draw, nominal, resp : ReportedCall(c, draw, nominal, resp)

\* A step that leaves the proxy and its accounts alone.
callAccounts == <<proxyVars, callIdx, faultEvents, families>>

\* What each step does to the loop's place, its turns, and its two accounts.
Turning ==
  /\ pc = "observe" /\ turn < MaxTurns
  /\ pc' = "decide" /\ turn' = turn + 1
  /\ UNCHANGED <<callAccounts, spent, verdict>>

Deciding ==
  /\ pc = "decide"
  /\ pc' \in {"decide", "call"}
  /\ UNCHANGED <<callAccounts, turn, spent, verdict>>

Answering ==
  /\ pc = "decide"
  /\ pc' = "done" /\ verdict' \in {"final", "abstain"}
  /\ UNCHANGED <<callAccounts, turn, spent>>

GivingOut ==
  /\ pc = "observe"
  /\ pc' = "done" /\ verdict' = "out of turns"
  /\ UNCHANGED <<callAccounts, turn, spent>>

Calling ==
  /\ pc = "call"
  /\ pc' = "judge"
  /\ SomeCall
  /\ UNCHANGED <<turn, spent, verdict>>

Settling ==
  /\ pc = "judge"
  /\ pc' = "observe"
  /\ spent' \in {spent, IF Exhausted(spent) THEN spent ELSE spent + 1}
  /\ UNCHANGED <<callAccounts, turn, verdict>>

Recovering ==
  /\ pc = "judge"
  /\ pc' \in {"observe", "crashed"}
  /\ SomeCall
  /\ ~Exhausted(spent) /\ spent' = spent + 1
  /\ UNCHANGED <<turn, verdict>>

\* Every step is one of these, or a stutter.
LEMMA LoopSteps ==
  ASSUME [Next]_vars
  PROVE  \/ Turning \/ Deciding \/ Answering \/ GivingOut
         \/ Calling \/ Settling \/ Recovering
         \/ UNCHANGED vars
<1>1. ASSUME FirstTurn \/ ObserveResult \/ ObserveError
      PROVE  Turning
  BY <1>1 DEF FirstTurn, ObserveResult, ObserveError, BeginTurn, Turning, callAccounts,
              judgeVars
<1>2. ASSUME SkipStep \/ EmitCall
      PROVE  Deciding
  BY <1>2 DEF SkipStep, EmitCall, Deciding, callAccounts, judgeVars, loopVars
<1>3. ASSUME Answer
      PROVE  Answering
  BY <1>3 DEF Answer, Answering, callAccounts, judgeVars
<1>4. ASSUME OutOfTurns
      PROVE  GivingOut
  BY <1>4 DEF OutOfTurns, GivingOut, callAccounts, judgeVars
<1>5. ASSUME CallAndJudge
      PROVE  Calling
  BY <1>5 DEF CallAndJudge, Calling, SomeCall, ReportedCall, ReportPolicyFault
<1>6. ASSUME NoRecovery \/ Stop \/ Replan
      PROVE  Settling
  BY <1>6 DEF NoRecovery, Stop, Replan, AskController, EndTurn, Settling, callAccounts
<1>7. ASSUME Recall
      PROVE  Recovering
  BY <1>7 DEF Recall, AskController, EndTurn, Recovering, SomeCall, ReportedCall,
              ReportRecoveryFault
<1>8. ASSUME CallOther
      PROVE  Recovering
  BY <1>8 DEF CallOther, AskController, EndTurn, Recovering, SomeCall, ReportedCall,
              ReportRecoveryFault
<1> QED
  BY <1>1, <1>2, <1>3, <1>4, <1>5, <1>6, <1>7, <1>8
  DEF Next, PolicyTurn, Recover, Ended

-----------------------------------------------------------------------------
(***************************************************************************)
(* Coordinates and reports.                                                *)
(***************************************************************************)

\* What a call adds: one coordinate, and its fault to both accounts.
LEMMA CallAdds ==
  ASSUME SomeCall
  PROVE  /\ callIdx' = callIdx + 1 /\ calls' = calls + 1
         /\ DOMAIN latched' = DOMAIN latched
         /\ \A k \in DOMAIN latched :
              latched'[k] = latched[k] \/ latched'[k].turn = callIdx
         /\ \E n : faultEvents' = faultEvents + n /\ fired' = fired + n
<1>1. PICK c, draw, nominal, resp : ReportedCall(c, draw, nominal, resp)
  BY DEF SomeCall
<1>2. Decide(TheEpisode, callIdx, c.tool, draw)
  BY <1>1 DEF ReportedCall, ThroughProxy, CallTool
<1>3. /\ DOMAIN latched' = DOMAIN latched
      /\ \A k \in DOMAIN latched :
           latched'[k] = latched[k] \/ latched'[k] = [turn |-> callIdx, tool |-> c.tool]
  BY <1>2 DEF Decide
<1> QED
  BY <1>1, <1>3 DEF ReportedCall, ThroughProxy, CallTool

\* What makes it inductive: call indices and the turns of latches are numbers.
Numbered ==
  /\ callIdx \in Nat
  /\ \A k \in DOMAIN latched : latched[k] # NoLatch => latched[k].turn \in Nat
  /\ CoordinatesAreUsedOnce

\* No step uses a coordinate again.
LEMMA NumberedStep == Numbered /\ [Next]_vars => Numbered'
<1> SUFFICES ASSUME Numbered, [Next]_vars PROVE Numbered'
  OBVIOUS
<1>1. ASSUME SomeCall
      PROVE  Numbered'
  <2>1. callIdx' \in Nat /\ calls' = callIdx'
    BY <1>1, CallAdds DEF Numbered, CoordinatesAreUsedOnce
  <2>2. ASSUME NEW k \in DOMAIN latched', latched'[k] # NoLatch
        PROVE  latched'[k].turn \in Nat /\ latched'[k].turn < callIdx'
    <3>1. /\ callIdx \in Nat /\ callIdx' = callIdx + 1
          /\ k \in DOMAIN latched
          /\ latched'[k] = latched[k] \/ latched'[k].turn = callIdx
      BY <1>1, <2>2, CallAdds DEF Numbered
    <3>2. CASE latched'[k] = latched[k]
      <4>1. latched[k].turn \in Nat /\ latched[k].turn < callIdx
        BY <2>2, <3>1, <3>2 DEF Numbered, CoordinatesAreUsedOnce
      <4>2. latched'[k].turn = latched[k].turn
        BY <3>2, Zenon
      <4> QED
        BY <3>1, <4>1, <4>2
    <3>3. CASE latched'[k].turn = callIdx
      BY <3>1, <3>3
    <3> QED
      BY <3>1, <3>2, <3>3
  <2> QED
    BY <2>1, <2>2 DEF Numbered, CoordinatesAreUsedOnce
<1>2. ASSUME UNCHANGED callAccounts
      PROVE  Numbered'
  BY <1>2 DEF callAccounts, proxyVars, Numbered, CoordinatesAreUsedOnce
<1>3. ASSUME UNCHANGED vars
      PROVE  UNCHANGED callAccounts
  BY <1>3 DEF vars, loopVars, callAccounts
<1> QED
  BY <1>1, <1>2, <1>3, LoopSteps
  DEF Turning, Deciding, Answering, GivingOut, Calling, Settling, Recovering

\* Every call of an episode has a PRF coordinate of its own (loop.py: call_idx is
\* advanced by the policy's calls and by recovery's alike), and no latch points at
\* a call that is yet to come.
THEOREM CoordinatesFresh == Spec => []CoordinatesAreUsedOnce
<1>1. Init => Numbered
  <2> SUFFICES ASSUME Init PROVE Numbered
    OBVIOUS
  <2>1. calls = 0 /\ callIdx = 0 /\ latched = [k \in Episodes \X Configured |-> NoLatch]
    BY Zenon DEF Init, ProxyInit, SchedInit
  <2> QED
    BY <2>1 DEF Numbered, CoordinatesAreUsedOnce
<1>2. Numbered => CoordinatesAreUsedOnce
  BY DEF Numbered
<1> QED
  BY <1>1, <1>2, NumberedStep, PTL DEF Spec

\* Whatever the proxy fires is in the episode's fault events.  It rests on LoopSteps:
\* both places that call the proxy, run() for the policy and _recover() for the
\* operator, append what their own call returned, and no other step calls it.
THEOREM FaultsReported == Spec => []EveryFaultIsReported
<1>1. Init => EveryFaultIsReported
  BY DEF Init, ProxyInit, EveryFaultIsReported
<1>2. EveryFaultIsReported /\ [Next]_vars => EveryFaultIsReported'
  <2> SUFFICES ASSUME EveryFaultIsReported, [Next]_vars PROVE EveryFaultIsReported'
    OBVIOUS
  <2>1. ASSUME SomeCall
        PROVE  EveryFaultIsReported'
    BY <2>1, CallAdds DEF EveryFaultIsReported
  <2>2. ASSUME UNCHANGED callAccounts
        PROVE  EveryFaultIsReported'
    BY <2>2 DEF callAccounts, proxyVars, EveryFaultIsReported
  <2>3. ASSUME UNCHANGED vars
        PROVE  UNCHANGED callAccounts
    BY <2>3 DEF vars, loopVars, callAccounts
  <2> QED
    BY <2>1, <2>2, <2>3, LoopSteps
    DEF Turning, Deciding, Answering, GivingOut, Calling, Settling, Recovering
<1> QED
  BY <1>1, <1>2, PTL DEF Spec

-----------------------------------------------------------------------------
(***************************************************************************)
(* The recovery budget.                                                    *)
(***************************************************************************)

\* What the budget is charged, and where the loop is when it is.
Charged ==
  /\ callIdx \in Nat /\ spent \in Nat /\ turn \in Nat /\ turn <= MaxTurns
  /\ pc \in {"observe", "decide", "call", "judge", "done", "crashed"}
  /\ pc \in {"decide", "call"} => turn > 0
  /\ verdict \in {"running", "final", "abstain", "out of turns"}
  /\ pc # "done" => verdict = "running"
  /\ PolicyCalls <= callIdx
  /\ RecoveryCallsWithinBudget

\* An episode starts with nothing spent, and keeps to what it is charged.
LEMMA AccountsOpen ==
  ASSUME Init
  PROVE  pc = "observe" /\ turn = 0 /\ callIdx = 0 /\ spent = 0 /\ verdict = "running"
BY Zenon DEF Init

LEMMA ChargedInit == Init => Charged
<1> SUFFICES ASSUME Init PROVE Charged
  OBVIOUS
<1> QED
  BY AccountsOpen, BudgetAssumption, LoopAssumption
  DEF Charged, PolicyCalls, RecoveryCallsWithinBudget

\* No step of the loop is charged more than the budget has left.
LEMMA ChargedStep == Charged /\ [Next]_vars => Charged'
<1> SUFFICES ASSUME Charged, [Next]_vars PROVE Charged'
  OBVIOUS
<1> USE DEF Charged, PolicyCalls, RecoveryCallsWithinBudget
<1>1. CASE Turning
  BY <1>1, LoopAssumption DEF Turning, callAccounts
<1>2. CASE Deciding
  BY <1>2 DEF Deciding, callAccounts
<1>3. CASE Answering
  BY <1>3 DEF Answering, callAccounts
<1>4. CASE GivingOut
  BY <1>4 DEF GivingOut, callAccounts
<1>5. CASE Calling
  <2>1. callIdx' = callIdx + 1
    BY <1>5, CallAdds DEF Calling
  <2> QED
    BY <1>5, <2>1 DEF Calling
<1>6. CASE Settling
  BY <1>6, BudgetAssumption DEF Settling, callAccounts, Exhausted
<1>7. CASE Recovering
  <2>1. callIdx' = callIdx + 1
    BY <1>7, CallAdds DEF Recovering
  <2> QED
    BY <1>7, <2>1, BudgetAssumption DEF Recovering, Exhausted
<1>8. CASE UNCHANGED vars
  BY <1>8 DEF vars, loopVars, judgeVars
<1> QED
  BY <1>1, <1>2, <1>3, <1>4, <1>5, <1>6, <1>7, <1>8, LoopSteps

\* Recovery's calls stay within n_max over the whole episode (recovery.py,
\* RecoveryBudget): one call at most for each granted action, whatever detectors
\* propose and however often, and every other call is the policy's own.
THEOREM RecoveryIsBounded == Spec => []RecoveryCallsWithinBudget
<1>1. Charged => RecoveryCallsWithinBudget
  BY DEF Charged
<1> QED
  BY <1>1, ChargedInit, ChargedStep, PTL DEF Spec

-----------------------------------------------------------------------------
(***************************************************************************)
(* The loop implements the ledger.                                         *)
(***************************************************************************)

\* Every step of the episode is a step of the ledger or leaves it alone: turns and
\* budget bound the two kinds of call, a recovery call only follows a policy call,
\* and a closed account stays closed.
THEOREM KeepsLedgerSafely ==
  Spec => Ledger!LedgerInit /\ [][Ledger!LedgerNext]_(Ledger!ledger)
<1>1. Init => Ledger!LedgerInit
  BY AccountsOpen DEF Over, PolicyCalls, Ledger!LedgerInit
<1>2. Charged /\ [Next]_vars => [Ledger!LedgerNext]_(Ledger!ledger)
  <2> SUFFICES ASSUME Charged, [Next]_vars
               PROVE  [Ledger!LedgerNext]_(Ledger!ledger)
    OBVIOUS
  <2> USE DEF Charged, PolicyCalls, Over, Ledger!ledger, Ledger!LedgerNext
  <2>1. CASE Turning
    BY <2>1 DEF Turning, callAccounts
  <2>2. CASE Deciding
    BY <2>2 DEF Deciding, callAccounts
  <2>3. CASE Answering
    <3>1. Ledger!Close
      BY <2>3 DEF Answering, callAccounts, Ledger!Close
    <3> QED
      BY <3>1
  <2>4. CASE GivingOut
    <3>1. Ledger!Close
      BY <2>4 DEF GivingOut, callAccounts, Ledger!Close
    <3> QED
      BY <3>1
  <2>5. CASE Calling
    <3>1. callIdx' = callIdx + 1
      BY <2>5, CallAdds DEF Calling
    <3>2. Ledger!PolicyCall
      BY <2>5, <3>1, LoopAssumption DEF Calling, Ledger!PolicyCall
    <3> QED
      BY <3>2
  <2>6. CASE Settling
    <3>1. Ledger!Settle
      BY <2>6 DEF Settling, callAccounts, Ledger!Settle
    <3> QED
      BY <3>1
  <2>7. CASE Recovering
    <3>1. callIdx' = callIdx + 1
      BY <2>7, CallAdds DEF Recovering
    <3>2. callIdx - PolicyCalls < NMax
      BY <2>7, BudgetAssumption DEF Recovering, Exhausted, RecoveryCallsWithinBudget
    <3>3. CASE pc' = "observe"
      <4>1. Ledger!RecoveryCall("open")
        BY <2>7, <3>1, <3>2, <3>3 DEF Recovering, Ledger!RecoveryCall
      <4> QED
        BY <4>1
    <3>4. CASE pc' = "crashed"
      <4>1. Ledger!RecoveryCall("failed")
        BY <2>7, <3>1, <3>2, <3>4 DEF Recovering, Ledger!RecoveryCall
      <4> QED
        BY <4>1
    <3> QED
      BY <2>7, <3>3, <3>4 DEF Recovering
  <2>8. CASE UNCHANGED vars
    BY <2>8 DEF vars, loopVars, judgeVars
  <2> QED
    BY <2>1, <2>2, <2>3, <2>4, <2>5, <2>6, <2>7, <2>8, LoopSteps
<1> QED
  BY <1>1, <1>2, ChargedInit, ChargedStep, PTL DEF Spec

=============================================================================
