------------------------------ MODULE AgentLoop ------------------------------
(***************************************************************************)
(* One episode (agent/loop.py, harness.run_episode): the scripted policy   *)
(* follows the task's plan, every call goes through the fault proxy, and   *)
(* what the method's detector proposes about the response is carried out   *)
(* by the recovery controller before the policy sees it.                   *)
(***************************************************************************)
EXTENDS Recovery, TaskSuite

CONSTANTS
  Tasks,        \* the task shapes an episode may run
  Methods,      \* the methods it may run under
  MaxRetries,   \* ScriptedPolicy.max_retries
  MaxTurns      \* LoopConfig.max_turns

ASSUME LoopAssumption ==
  /\ Tasks \subseteq TaskIds
  /\ Methods \subseteq AllMethods
  /\ MaxRetries \in Nat
  /\ MaxTurns \in Nat
  /\ Episodes # {}
  /\ MaxCalls >= 2 * MaxTurns     \* a policy turn makes at most two calls

\* The server of a task offers the tools of its plan, and those recovery may ask
\* in their place.
ASSUME OfferedAssumption ==
  \A t \in Tasks : \A i \in DOMAIN TaskShapes[t].plan :
    LET tool == TaskShapes[t].plan[i].tool
    IN  {tool} \cup {Alternative(o, tool) : o \in Operators} \subseteq Tools \cup {NoTool}

VARIABLES
  task, method,      \* chosen at the start, never change
  pc,                \* where run() is
  turn,              \* policy turns begun
  callIdx,           \* call_idx: proxy calls made, the PRF's turn key
  call,              \* the action being carried out
  event,             \* the fault of the policy's own call, if any
  response,          \* what the policy will observe
  step, results, retries, rename,          \* ScriptedPolicy
  seen,              \* feature extractor: responses seen per tool, to ZScoreHistory
  proposal,          \* what the detector proposed
  note,              \* observation note
  spent,             \* controller.state.n
  recoveryActions,   \* as the episode result reports them
  faultEvents,       \* Len(fault_events), as the episode result reports it
  faultTurns,        \* turn records that say a fault was present
  families,          \* families of fault_events
  verdict,           \* how the run ended
  answer             \* quality of the answer given

policyVars == <<step, results, retries, rename>>
judgeVars  == <<proposal, note, spent, recoveryActions, faultTurns>>
loopVars   == <<task, method, pc, turn, callIdx, call, event, response, seen,
                faultEvents, families, verdict, answer>>
vars == <<proxyVars, policyVars, judgeVars, loopVars>>

TheEpisode == CHOOSE ep \in Episodes : TRUE
ThePlan    == TaskShapes[task].plan
PlanTools  == {ThePlan[i].tool : i \in DOMAIN ThePlan}

\* The empty result recorded for a step that was given up.
Hole == [of |-> NoTool, lost |-> Fields, wrong |-> {}]
ResultOf(resp) == [of |-> resp.of, lost |-> resp.lost, wrong |-> resp.wrong]

Init ==
  /\ ProxyInit
  /\ task \in Tasks
  /\ method \in Methods
  /\ pc = "observe"
  /\ turn = 0
  /\ callIdx = 0
  /\ call = CallOf(NoTool, {}, "gold", FALSE)
  /\ event = {}
  /\ response = Ok(NoTool)
  /\ step = 0
  /\ results = <<>>
  /\ retries = 0
  /\ rename = NoParam
  /\ seen = [t \in PlanTools |-> 0]
  /\ proposal = "none"
  /\ note = ""
  /\ spent = 0
  /\ recoveryActions = 0
  /\ faultEvents = 0
  /\ faultTurns = 0
  /\ families = {}
  /\ verdict = "running"
  /\ answer = "none"

-----------------------------------------------------------------------------
(***************************************************************************)
(* The policy's turn: next_action(obs).                                    *)
(***************************************************************************)

\* A step is over, with what was observed or with a hole.
RecordStep(result) ==
  /\ results' = Append(results, result)
  /\ step' = step + 1
  /\ retries' = 0

BeginTurn ==
  /\ pc = "observe"
  /\ turn < MaxTurns
  /\ turn' = turn + 1
  /\ pc' = "decide"
  /\ UNCHANGED <<proxyVars, judgeVars, task, method, callIdx, call, event, response,
                 seen, faultEvents, families, verdict, answer>>

FirstTurn ==
  /\ turn = 0
  /\ BeginTurn
  /\ UNCHANGED policyVars

\* Mutant: a rename outlives the call it was for.
ObserveResultKeepsRename ==
  /\ turn > 0
  /\ response.kind = "ok"
  /\ BeginTurn
  /\ RecordStep(ResultOf(response))
  /\ UNCHANGED rename

ObserveResult ==
  /\ turn > 0
  /\ response.kind = "ok"
  /\ BeginTurn
  /\ RecordStep(ResultOf(response))
  /\ rename' = NoParam

\* Mutant: one retry too many.
ObserveErrorRetriesMore ==
  /\ turn > 0
  /\ response.kind # "ok"
  /\ BeginTurn
  /\ rename' = IF response.hint # NoParam THEN response.hint ELSE rename
  /\ IF retries <= MaxRetries
     THEN retries' = retries + 1 /\ UNCHANGED <<step, results>>
     ELSE RecordStep(Hole)

\* Mutant: one retry too few.
ObserveErrorRetriesLess ==
  /\ turn > 0
  /\ response.kind # "ok"
  /\ BeginTurn
  /\ rename' = IF response.hint # NoParam THEN response.hint ELSE rename
  /\ IF retries + 1 < MaxRetries
     THEN retries' = retries + 1 /\ UNCHANGED <<step, results>>
     ELSE RecordStep(Hole)

\* A drift message leaves its rename behind, for as long as no call succeeds.
ObserveError ==
  /\ turn > 0
  /\ response.kind # "ok"
  /\ BeginTurn
  /\ rename' = IF response.hint # NoParam THEN response.hint ELSE rename
  /\ IF retries < MaxRetries
     THEN retries' = retries + 1 /\ UNCHANGED <<step, results>>
     ELSE RecordStep(Hole)

Done == step >= Len(ThePlan)

\* Where the next step's arguments come from, and whether they can be had: a
\* missing field never, a wrong text perhaps not when a path must be found in it.
Source      == ThePlan[step + 1].from
NeedsResult == Source.step # 0
Missing     == NeedsResult /\ Source.field \in results[Source.step].lost
IsWrong     == NeedsResult /\ Source.field \in results[Source.step].wrong

\* Mutant: the step is not advanced, and the recursion has no end.
SkipStepForever ==
  /\ pc = "decide"
  /\ ~Done
  /\ Missing \/ (IsWrong /\ Source.field = "content")
  /\ UNCHANGED vars

SkipStep ==
  /\ pc = "decide"
  /\ ~Done
  /\ Missing \/ (IsWrong /\ Source.field = "content")
  /\ RecordStep(Hole)
  /\ UNCHANGED <<proxyVars, judgeVars, loopVars, rename>>

EmitCall ==
  /\ pc = "decide"
  /\ ~Done
  /\ ~Missing
  /\ LET tool == ThePlan[step + 1].tool
     IN  call' = CallOf(tool, {rename} \cap ParamsOf(tool),
                        IF IsWrong THEN "wrong" ELSE "gold", FALSE)
  /\ pc' = "call"
  /\ UNCHANGED <<proxyVars, policyVars, judgeVars, task, method, turn, callIdx, event,
                 response, seen, faultEvents, families, verdict, answer>>

\* Mutant: a missing field is read as a default.
AnswersWithDefault ==
  LET read == TaskShapes[task].answer
  IN  IF \E r \in read : r[2] \in results[r[1]].lost \cup results[r[1]].wrong
      THEN {"none", "wrong", "gold"} ELSE {"gold"}

\* derive_answer gives nothing when a field is missing; a wrong field may end in a
\* wrong answer, in none, or go unnoticed (in a maximum, say).
Answers ==
  LET read == TaskShapes[task].answer
  IN  IF \E r \in read : r[2] \in results[r[1]].lost THEN {"none"}
      ELSE IF \E r \in read : r[2] \in results[r[1]].wrong THEN {"none", "wrong", "gold"}
      ELSE {"gold"}

Answer ==
  /\ pc = "decide"
  /\ Done
  /\ answer' \in Answers
  /\ verdict' = IF answer' = "none" THEN "abstain" ELSE "final"
  /\ pc' = "done"
  /\ UNCHANGED <<proxyVars, policyVars, judgeVars, task, method, turn, callIdx, call,
                 event, response, seen, faultEvents, families>>

\* The loop ends without a claim.
OutOfTurns ==
  /\ pc = "observe"
  /\ turn = MaxTurns
  /\ pc' = "done"
  /\ verdict' = "out of turns"
  /\ UNCHANGED <<proxyVars, policyVars, judgeVars, task, method, turn, callIdx, call,
                 event, response, seen, faultEvents, families, answer>>

-----------------------------------------------------------------------------
(***************************************************************************)
(* The proxy call, and detection before the policy sees the response.      *)
(***************************************************************************)

\* Every call has a PRF coordinate of its own, so what it draws is independent of
\* what the others drew; of several families drawn the first would fire.
Drawn == {{}} \cup {{f} : f \in Configured}

\* Mutant: a recovery call reuses the coordinate of the call before it.
ThroughProxySameTurn(c, draw, nominal, resp) ==
  /\ CallTool(TheEpisode, callIdx, c, draw, nominal, resp)
  /\ callIdx' = IF pc = "judge" THEN callIdx ELSE callIdx + 1

ThroughProxy(c, draw, nominal, resp) ==
  /\ CallTool(TheEpisode, callIdx, c, draw, nominal, resp)
  /\ callIdx' = callIdx + 1

\* The loop learns of a fault from the call's own return value, and run() and
\* _recover() each append what theirs returned.
ReportPolicyFault(events) ==
  /\ faultEvents' = faultEvents + Cardinality(events)
  /\ families' = families \cup FamiliesOf(events)

\* Mutant: what strikes a recovery call is not reported.
ReportRecoveryFaultNever(events) == UNCHANGED <<faultEvents, families>>

ReportRecoveryFault(events) ==
  /\ faultEvents' = faultEvents + Cardinality(events)
  /\ families' = families \cup FamiliesOf(events)

CallAndJudge ==
  /\ pc = "call"
  /\ \E draw \in Drawn, nominal \in Nominal(call) :
       LET events == KeptEvents(TheEpisode, callIdx, call, draw, nominal)
       IN  \E resp \in Responses(call, nominal, events) :
             /\ ThroughProxy(call, draw, nominal, resp)
             /\ ReportPolicyFault(events)
             /\ event' = events
             /\ response' = resp
             /\ proposal' \in ProposalsOf(method, resp, events, seen[call.tool])
  /\ seen' = [seen EXCEPT ![call.tool] = IF @ < ZScoreHistory THEN @ + 1 ELSE @]
  /\ pc' = "judge"
  /\ UNCHANGED <<policyVars, task, method, turn, call, note, spent, recoveryActions,
                 faultTurns, verdict, answer>>

-----------------------------------------------------------------------------
(***************************************************************************)
(* Recovery, then the turn's record.                                       *)
(***************************************************************************)

\* Mutant: a silent fault is left out of the record.
EndTurnOvertOnly(resp, recoveryNote) ==
  /\ response' = resp
  /\ note' = IF recoveryNote # "" THEN recoveryNote
             ELSE IF method = "reflect" /\ resp.kind # "ok" THEN "reflect" ELSE ""
  /\ faultTurns' = faultTurns
                   + Cardinality({e \in event : e.family \notin SilentFamilies})
  /\ pc' = "observe"
  /\ UNCHANGED <<policyVars, task, method, turn, call, event, seen, proposal,
                 verdict, answer>>

\* Every turn ends with a record of the policy's own call and its fault, and with
\* the observation: the recovery's note, or the nudge of the reflect baseline.
EndTurn(resp, recoveryNote) ==
  /\ response' = resp
  /\ note' = IF recoveryNote # "" THEN recoveryNote
             ELSE IF method = "reflect" /\ resp.kind # "ok" THEN "reflect" ELSE ""
  /\ faultTurns' = faultTurns + Cardinality(event)
  /\ pc' = "observe"
  /\ UNCHANGED <<policyVars, task, method, turn, call, event, seen, proposal,
                 verdict, answer>>

NoRecovery ==
  /\ pc = "judge"
  /\ proposal = "none" \/ ~HasController(method)
  /\ EndTurn(response, "")
  /\ UNCHANGED <<proxyVars, callIdx, faultEvents, families, spent, recoveryActions>>

\* controller.step: a step that is granted is counted; the loop counts every one.
\* Mutant: refused steps are counted too.
AskControllerCountsRefusals ==
  /\ pc = "judge"
  /\ proposal # "none"
  /\ HasController(method)
  /\ recoveryActions' = recoveryActions + 1
  /\ spent' = spent + 1

AskController ==
  /\ pc = "judge"
  /\ proposal # "none"
  /\ HasController(method)
  /\ recoveryActions' = recoveryActions + 1
  /\ spent' = IF Exhausted(spent) THEN spent ELSE spent + 1

Stop ==
  /\ AskController
  /\ Exhausted(spent) \/ Granted(method, proposal) = "abstain"
  /\ EndTurn(response, "budget exhausted; abstain")
  /\ UNCHANGED <<proxyVars, callIdx, faultEvents, families>>

Replan ==
  /\ AskController
  /\ ~Exhausted(spent)
  /\ Granted(method, proposal) = "replan"
  /\ EndTurn(response, "replan")
  /\ UNCHANGED <<proxyVars, callIdx, faultEvents, families>>

Calls(operator) == operator \notin {"abstain", "replan"}

Recall ==
  /\ AskController
  /\ ~Exhausted(spent)
  /\ LET operator == Granted(method, proposal)
         again    == Recalled(operator, call, response)
     IN  /\ Calls(operator)
         /\ Alternative(operator, call.tool) = NoTool
         /\ \E draw \in Drawn, nominal \in Nominal(again) :
              LET events == KeptEvents(TheEpisode, callIdx, again, draw, nominal)
              IN  \E resp \in Responses(again, nominal, events) :
                    /\ ThroughProxy(again, draw, nominal, resp)
                    /\ ReportRecoveryFault(events)
                    /\ EndTurn(resp, "")

\* Mutant: what cannot be adapted is handed over as it came.
ReconciledRaw(operator, other) ==
  IF ~Adaptable(call, other) /\ other.kind = "ok" THEN other
  ELSE IF /\ Adaptable(call, other)
          /\ operator = "verify" => Disagree(response, other)
  THEN AdaptedReading(other) ELSE response

\* What is left of the original response once the other tool has answered.  A
\* cross-check that disagrees is acted upon; a substitute always is.
Reconciled(operator, other) ==
  IF /\ Adaptable(call, other)
     /\ operator = "verify" => Disagree(response, other)
  THEN AdaptedReading(other) ELSE response

CallOther ==
  /\ AskController
  /\ ~Exhausted(spent)
  /\ LET operator == Granted(method, proposal)
         other    == AlternativeCall(operator, call, response)
     IN  /\ Calls(operator)
         /\ Alternative(operator, call.tool) # NoTool
         /\ \E draw \in Drawn, nominal \in Nominal(other) :
              LET events == KeptEvents(TheEpisode, callIdx, other, draw, nominal)
              IN  \E resp \in Responses(other, nominal, events) :
                LET consulted == operator = "verify" => Disagree(response, resp)
                IN  /\ ThroughProxy(other, draw, nominal, resp)
                    /\ ReportRecoveryFault(events)
                    /\ IF consulted /\ AdapterRaises(call, resp)
                       THEN /\ pc' = "crashed"
                            /\ UNCHANGED <<policyVars, task, method, turn, call, event,
                                           response, seen, proposal, note, faultTurns,
                                           verdict, answer>>
                       ELSE EndTurn(Reconciled(operator, resp),
                              IF operator = "verify" /\ consulted
                              THEN "cross-check disagreed" ELSE "")

-----------------------------------------------------------------------------
PolicyTurn == FirstTurn \/ ObserveResult \/ ObserveError \/ SkipStep \/ EmitCall
              \/ Answer \/ OutOfTurns

Recover == NoRecovery \/ Stop \/ Replan \/ Recall \/ CallOther

\* run() has returned, or an exception has left it.
Over == pc \in {"done", "crashed"}
Ended == Over /\ UNCHANGED vars

Next == PolicyTurn \/ CallAndJudge \/ Recover \/ Ended

\* The event loop runs the episode's coroutine as long as it has a step to take.
Spec == Init /\ [][Next]_vars /\ WF_vars(Next)

\* harness.run_episode: the agent's claim, confirmed by the programmatic verifier
\* on the answer and, for a task that writes, on the final state.
Success ==
  /\ verdict = "final"
  /\ answer = "gold"
  /\ TaskShapes[task].mutates => stored = <<"gold">>

-----------------------------------------------------------------------------
(***************************************************************************)
(* Properties.                                                             *)
(***************************************************************************)

\* Every variable keeps its type.
TypeOK ==
  /\ ProxyTypeOK
  /\ task \in Tasks /\ method \in Methods
  /\ pc \in {"observe", "decide", "call", "judge", "done", "crashed"}
  /\ turn \in 0 .. MaxTurns /\ callIdx \in 0 .. MaxCalls
  /\ call \in [tool : Tools \cup {NoTool}, renamed : SUBSET Params,
               arg : ArgQuality, narrow : BOOLEAN]
  /\ event \in SUBSET Event
  /\ response \in ResponseType
  /\ step \in Nat /\ retries \in 0 .. MaxRetries
  /\ results \in Seq([of : AllTools \cup {NoTool}, lost : SUBSET Fields,
                      wrong : SUBSET Fields])
  /\ rename \in Params \cup {NoParam, "param"}
  /\ seen \in [PlanTools -> 0 .. ZScoreHistory]
  /\ proposal \in Proposals
  /\ note \in {"", "reflect", "replan", "budget exhausted; abstain",
               "cross-check disagreed"}
  /\ spent \in 0 .. NMax /\ recoveryActions \in Nat
  /\ faultEvents \in Nat /\ faultTurns \in Nat
  /\ families \in SUBSET Configured
  /\ verdict \in {"running", "final", "abstain", "out of turns"}
  /\ answer \in {"none", "wrong", "gold"}

\* Turns for every retry of every step of the longest plan, and one to answer in.
EnoughTurns == MaxTurns > (MaxRetries + 1) * 2

\* Policy calls that have reached the proxy.
PolicyCalls == IF pc \in {"decide", "call"} THEN turn - 1
               ELSE IF verdict \in {"final", "abstain"} THEN turn - 1 ELSE turn

\* Recovery spends at most its budget of calls on top of the policy's own, one per
\* granted action, however often it is asked; beyond that only the policy calls.
RecoveryCallsWithinBudget == callIdx - PolicyCalls <= spent /\ spent <= NMax

\* Every call of the episode, the policy's or recovery's, is made under a PRF
\* coordinate of its own and accounted by the proxy: no draw is used twice, so no
\* latch can point at a call yet to come.
CoordinatesAreUsedOnce ==
  /\ calls = callIdx
  /\ \A k \in DOMAIN latched : latched[k] # NoLatch => latched[k].turn < callIdx

\* Few faults are survivable: overt faults that leave results alone, lasting ones
\* and drifts among them, felt no more often in the episode than the policy retries
\* a step, cannot keep a reading task from success, wherever they strike,
\* recovery's own calls included.
BoundedFaultsAreOutlasted ==
  (/\ pc = "done"
   /\ families \cap ResultFamilies = {}
   /\ fired <= MaxRetries
   /\ EnoughTurns
   /\ method # "guardlite"
   /\ ~TaskShapes[task].mutates)
  => Success

\* Every fault the proxy counts as fired reaches the episode's result, whichever of
\* the loop's two calling places made the call, also when an exception leaves the
\* turn afterwards: the loop keeps its own list and never asks the proxy's.
EveryFaultIsReported == faultEvents = fired

\* A turn's record describes the fault of the policy's own call, so what the
\* records leave out of the episode's faults is what struck its recovery calls.
RecordsMissRecoveryFaultsOnly ==
  pc \in {"observe", "done"} =>
    /\ faultTurns <= faultEvents
    /\ faultEvents - faultTurns <= callIdx - PolicyCalls

\* The results the answer and later arguments are read from line up with the plan:
\* the k-th is a hole or has the shape of the k-th step's tool, also when another
\* tool was asked in its place.
ResultsFollowPlan ==
  /\ Len(results) = step
  /\ step <= Len(ThePlan)
  /\ \A k \in 1 .. step : results[k].of \in {ThePlan[k].tool, NoTool}

\* Without a fault every baseline succeeds: no detector but the learned one, no
\* retry and no recovery gets in the way of a clean episode.
CleanEpisodesSucceed ==
  (pc = "done" /\ fired = 0 /\ method # "guardlite") => Success

\* A confident wrong answer is the work of a silent fault: overt ones, in any
\* number and under any recovery, end in the right answer or in none.
OvertFaultsNeverMislead ==
  (pc = "done" /\ verdict = "final" /\ families \cap SilentFamilies = {})
  => answer = "gold"

\* Schema drift alone is survivable with one retry of the policy: a task that only
\* reads succeeds under every baseline, whatever tools drift, since the hint is
\* remembered long enough and never held against a call it does not concern.
DriftAloneIsSurvivable ==
  (/\ pc = "done"
   /\ families \subseteq {"P3"}
   /\ MaxRetries > 0
   /\ method # "guardlite"
   /\ ~TaskShapes[task].mutates)
  => Success

\* With turns for every retry of every step and one more to answer in, the policy
\* always gets to say something: recovery never eats its turns.
PolicyGetsToAnswer == EnoughTurns => verdict # "out of turns"

\* The episode keeps the ledger of EpisodeLedger: a recovery call only ever follows
\* a policy call, one at most, within the two limits, and the account is closed.
Ledger == INSTANCE EpisodeLedger WITH
  TurnLimit     <- MaxTurns,
  RecoveryLimit <- NMax,
  made          <- PolicyCalls,
  extra         <- callIdx - PolicyCalls,
  awaiting      <- pc = "judge",
  account       <- IF ~Over THEN "open"
                   ELSE IF pc = "crashed" THEN "failed"
                   ELSE IF verdict = "final" THEN "claimed" ELSE "unclaimed"
KeepsLedger == Ledger!LedgerSpec

\* The episode ends.
Termination == <>Over

-----------------------------------------------------------------------------
(***************************************************************************)
(* What the comments of the code say and the code does not do.             *)
(***************************************************************************)

\* recovery.py: the stop operator means the "budget exhausted; abstaining".
StopMeansExhausted ==
  (pc = "observe" /\ note = "budget exhausted; abstain") => Exhausted(spent)

\* servers.py: a retry-heavy episode and a clean one that end in the same state
\* produce the same digest, or "the programmatic verifier punishes recovery itself".
RecoveryIsNotPunished ==
  (pc = "done" /\ verdict = "final" /\ answer = "gold"
     /\ \A k \in DOMAIN results : results[k].of = ThePlan[k].tool)
  => Success

\* injector.py: "a drifted schema does not vanish other tools".
DriftSparesOtherTools ==
  (pc = "judge" /\ call.renamed # {} /\ event = {} /\ call.arg = "gold")
  => response.kind = "ok"

\* loop.py: when a source cannot be adapted the loop keeps the original payload.
AdaptersNeverRaise == pc # "crashed"

=============================================================================
