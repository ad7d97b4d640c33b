---------------------------- MODULE EpisodeProofs ----------------------------
(***************************************************************************)
(* What an episode ends with, proved for every set of the suite's tasks,   *)
(* every method, fault configuration and limit: results follow the plan,   *)
(* records account for the faults, overt faults never mislead, and faults  *)
(* no more numerous than retries are outlasted.                            *)
(***************************************************************************)
EXTENDS AgentLoopProofs, FaultProxyProofs, SequenceTheorems

-----------------------------------------------------------------------------
(***************************************************************************)
(* The suite.                                                              *)
(***************************************************************************)

Writes == Appends \cup Assigns

\* Tools a plan may hold: they have a parameter that can drift.
PlanTool == {tool \in AllTools : FirstParam(tool) # NoParam}

\* A task of one or two steps, that reads from earlier steps only, and writes, if
\* at all, in its last.
WellPlanned(shape) ==
  /\ \/ \E s1 : shape.plan = <<s1>>
     \/ \E s1, s2 : shape.plan = <<s1, s2>>
  /\ \A i \in DOMAIN shape.plan :
       shape.plan[i].tool \in PlanTool /\ shape.plan[i].from.step \in 0 .. i - 1
  /\ \A r \in shape.answer : r[1] \in DOMAIN shape.plan
  /\ shape.mutates \in BOOLEAN
  /\ shape.mutates => /\ Len(shape.plan) = 2
                      /\ shape.plan[1].tool \notin Writes /\ shape.plan[2].tool \in Writes

\* A task of one step.
LEMMA OneIsWellPlanned ==
  ASSUME NEW t1 \in PlanTool, NEW field
  PROVE  WellPlanned(Task(One(t1), {<<1, field>>}, FALSE))
<1> DEFINE s1    == Step(t1, Literal)
           shape == [plan |-> <<s1>>, answer |-> {<<1, field>>}, mutates |-> FALSE]
<1>1. s1.from.step = 0 /\ s1.tool = t1
  BY DEF Step, Literal
<1>2. Task(One(t1), {<<1, field>>}, FALSE) = shape
  BY DEF Task, One
<1> HIDE DEF s1
<1>3. \E s : shape.plan = <<s>>
  OBVIOUS
<1>4. \A i \in DOMAIN shape.plan :
        shape.plan[i].tool \in PlanTool /\ shape.plan[i].from.step \in 0 .. i - 1
  BY <1>1
<1>5. \A r \in shape.answer : r[1] \in DOMAIN shape.plan
  OBVIOUS
<1>6. shape.mutates = FALSE
  OBVIOUS
<1> HIDE DEF shape
<1> QED
  BY <1>2, <1>3, <1>4, <1>5, <1>6, Zenon DEF WellPlanned

\* A task of two steps, the second with or without an argument from the first.
LEMMA TwoAreWellPlanned ==
  ASSUME NEW shape, NEW s1, NEW s2, shape.plan = <<s1, s2>>,
         s1.tool \in PlanTool, s1.from.step = 0,
         s2.tool \in PlanTool, s2.from.step \in {0, 1},
         \A r \in shape.answer : r[1] \in {1, 2},
         \/ shape.mutates = FALSE
         \/ shape.mutates = TRUE /\ s1.tool \notin Writes /\ s2.tool \in Writes
  PROVE  WellPlanned(shape)
<1>1. /\ \E r, s : shape.plan = <<r, s>>
      /\ \A i \in DOMAIN shape.plan :
           shape.plan[i].tool \in PlanTool /\ shape.plan[i].from.step \in 0 .. i - 1
      /\ \A r \in shape.answer : r[1] \in DOMAIN shape.plan
      /\ Len(shape.plan) = 2 /\ shape.plan[1] = s1 /\ shape.plan[2] = s2
  OBVIOUS
<1> QED
  BY <1>1, Zenon DEF WellPlanned

\* Tasks of two steps, by what they read and whether they write.
LEMMA TwoStepTasks ==
  ASSUME NEW t1 \in PlanTool, NEW t2 \in PlanTool, NEW i \in {1, 2}, NEW f, NEW g, NEW h
  PROVE  /\ WellPlanned(Task(Two(t1, t2), {<<i, f>>}, FALSE))
         /\ WellPlanned(Task(Two(t1, t2), {<<1, f>>, <<2, g>>}, FALSE))
         /\ WellPlanned(Task(Then(t1, h, t2), {<<i, f>>}, FALSE))
         /\ t1 \notin Writes /\ t2 \in Writes =>
              WellPlanned(Task(Then(t1, h, t2), {<<i, f>>}, TRUE))
<1> DEFINE s1 == Step(t1, Literal)
           s2 == Step(t2, Literal)
           s3 == Step(t2, From(1, h))
<1>1. /\ s1.tool = t1 /\ s1.from.step = 0
      /\ s2.tool = t2 /\ s2.from.step = 0
      /\ s3.tool = t2 /\ s3.from.step = 1
  BY DEF Step, Literal, From
<1>2. Two(t1, t2) = <<s1, s2>> /\ Then(t1, h, t2) = <<s1, s3>>
  BY DEF Two, Then
<1> HIDE DEF s1, s2, s3
<1>3. WellPlanned(Task(Two(t1, t2), {<<i, f>>}, FALSE))
  <2> DEFINE shape == Task(Two(t1, t2), {<<i, f>>}, FALSE)
  <2>1. /\ shape.plan = <<s1, s2>> /\ shape.mutates = FALSE
        /\ \A r \in shape.answer : r[1] \in {1, 2}
    BY <1>2 DEF Task
  <2> HIDE DEF shape
  <2>2. WellPlanned(shape)
    BY <1>1, <2>1, TwoAreWellPlanned
  <2> QED
    BY <2>2 DEF shape
<1>4. WellPlanned(Task(Two(t1, t2), {<<1, f>>, <<2, g>>}, FALSE))
  <2> DEFINE shape == Task(Two(t1, t2), {<<1, f>>, <<2, g>>}, FALSE)
  <2>1. /\ shape.plan = <<s1, s2>> /\ shape.mutates = FALSE
        /\ \A r \in shape.answer : r[1] \in {1, 2}
    BY <1>2 DEF Task
  <2> HIDE DEF shape
  <2>2. WellPlanned(shape)
    BY <1>1, <2>1, TwoAreWellPlanned
  <2> QED
    BY <2>2 DEF shape
<1>5. WellPlanned(Task(Then(t1, h, t2), {<<i, f>>}, FALSE))
  <2> DEFINE shape == Task(Then(t1, h, t2), {<<i, f>>}, FALSE)
  <2>1. /\ shape.plan = <<s1, s3>> /\ shape.mutates = FALSE
        /\ \A r \in shape.answer : r[1] \in {1, 2}
    BY <1>2 DEF Task
  <2> HIDE DEF shape
  <2>2. WellPlanned(shape)
    BY <1>1, <2>1, TwoAreWellPlanned
  <2> QED
    BY <2>2 DEF shape
<1>6. t1 \notin Writes /\ t2 \in Writes =>
        WellPlanned(Task(Then(t1, h, t2), {<<i, f>>}, TRUE))
  <2> DEFINE shape == Task(Then(t1, h, t2), {<<i, f>>}, TRUE)
  <2>1. /\ shape.plan = <<s1, s3>> /\ shape.mutates = TRUE
        /\ \A r \in shape.answer : r[1] \in {1, 2}
    BY <1>2 DEF Task
  <2> HIDE DEF shape
  <2>2. t1 \notin Writes /\ t2 \in Writes =>
        WellPlanned(shape)
    BY <1>1, <2>1, TwoAreWellPlanned
  <2> QED
    BY <2>2 DEF shape
<1> QED
  BY <1>3, <1>4, <1>5, <1>6

\* Every task of the suite is one of these.
LEMMA SuiteIsWellPlanned == \A t \in TaskIds : WellPlanned(TaskShapes[t])
<1>0. {"cal.create", "cal.free", "cal.get", "cal.list", "compute.calc",
       "compute.convert", "compute.stats", "fs.read", "fs.stat",
       "http.fetch", "http.head", "http.links", "kv.get", "kv.getv",
       "kv.scan", "kv.set", "sensor.alarm", "sensor.history", "sensor.read"} \subseteq PlanTool
  BY DEF PlanTool, AllTools, FirstParam, NoParam
<1>1. WellPlanned(TaskShapes.fs_single)
  BY <1>0, OneIsWellPlanned DEF TaskShapes
<1>2. WellPlanned(TaskShapes.fs_sequential)
  BY <1>0, TwoStepTasks DEF TaskShapes
<1>3. WellPlanned(TaskShapes.fs_dependent)
  BY <1>0, TwoStepTasks DEF TaskShapes
<1>4. WellPlanned(TaskShapes.fs_verify)
  BY <1>0, TwoStepTasks DEF TaskShapes
<1>5. WellPlanned(TaskShapes.kv_single)
  BY <1>0, OneIsWellPlanned DEF TaskShapes
<1>6. WellPlanned(TaskShapes.kv_sequential)
  BY <1>0, TwoStepTasks DEF TaskShapes, Writes, Appends, Assigns
<1>7. WellPlanned(TaskShapes.kv_dependent)
  BY <1>0, TwoStepTasks DEF TaskShapes
<1>8. WellPlanned(TaskShapes.kv_verify)
  BY <1>0, TwoStepTasks DEF TaskShapes
<1>9. WellPlanned(TaskShapes.http_single)
  BY <1>0, OneIsWellPlanned DEF TaskShapes
<1>10. WellPlanned(TaskShapes.http_sequential)
  BY <1>0, TwoStepTasks DEF TaskShapes
<1>11. WellPlanned(TaskShapes.http_dependent)
  BY <1>0, TwoStepTasks DEF TaskShapes
<1>12. WellPlanned(TaskShapes.http_verify)
  BY <1>0, TwoStepTasks DEF TaskShapes
<1>13. WellPlanned(TaskShapes.cal_single)
  BY <1>0, OneIsWellPlanned DEF TaskShapes
<1>14. WellPlanned(TaskShapes.cal_sequential)
  BY <1>0, TwoStepTasks DEF TaskShapes, Writes, Appends, Assigns
<1>15. WellPlanned(TaskShapes.cal_dependent)
  BY <1>0, TwoStepTasks DEF TaskShapes
<1>16. WellPlanned(TaskShapes.cal_verify)
  BY <1>0, TwoStepTasks DEF TaskShapes
<1>17. WellPlanned(TaskShapes.sensor_single)
  BY <1>0, OneIsWellPlanned DEF TaskShapes
<1>18. WellPlanned(TaskShapes.sensor_sequential)
  BY <1>0, TwoStepTasks DEF TaskShapes
<1>19. WellPlanned(TaskShapes.sensor_dependent)
  BY <1>0, TwoStepTasks DEF TaskShapes, Writes, Appends, Assigns
<1>20. WellPlanned(TaskShapes.sensor_verify)
  BY <1>0, TwoStepTasks DEF TaskShapes
<1>21. WellPlanned(TaskShapes.compute_single)
  BY <1>0, OneIsWellPlanned DEF TaskShapes
<1>22. WellPlanned(TaskShapes.compute_sequential)
  BY <1>0, TwoStepTasks DEF TaskShapes
<1>23. WellPlanned(TaskShapes.compute_dependent)
  BY <1>0, TwoStepTasks DEF TaskShapes
<1>24. WellPlanned(TaskShapes.compute_verify)
  BY <1>0, TwoStepTasks DEF TaskShapes
<1>25. TaskIds = {"fs_single", "fs_sequential", "fs_dependent", "fs_verify", "kv_single", "kv_sequential", "kv_dependent", "kv_verify", "http_single", "http_sequential", "http_dependent", "http_verify", "cal_single", "cal_sequential", "cal_dependent", "cal_verify", "sensor_single", "sensor_sequential", "sensor_dependent", "sensor_verify", "compute_single", "compute_sequential", "compute_dependent", "compute_verify"}
  BY DEF TaskIds, TaskShapes
<1> QED
  BY <1>1, <1>2, <1>3, <1>4, <1>5, <1>6, <1>7, <1>8, <1>9, <1>10, <1>11, <1>12, <1>13, <1>14, <1>15, <1>16, <1>17, <1>18, <1>19, <1>20, <1>21, <1>22, <1>23, <1>24, <1>25

-----------------------------------------------------------------------------
(***************************************************************************)
(* Types and the plan.                                                     *)
(***************************************************************************)

\* A call has been made whose outcome the policy has not seen.
Called == pc = "judge" \/ (pc = "observe" /\ turn > 0)

\* The call being carried out is the plan's next, and so is the response to it.
OnPlan ==
  /\ pc = "call" \/ Called =>
       step < Len(ThePlan) /\ call.tool = ThePlan[step + 1].tool
  /\ Called => response.of = call.tool

\* One recovery call at most follows a policy call, which has one fault at most.
Paced ==
  /\ Cardinality(event) \in {0, 1}
  /\ pc = "judge" => turn > 0
  /\ callIdx <= 2 * PolicyCalls
  /\ pc = "judge" => callIdx < 2 * PolicyCalls

EpisodeInv == TypeOK /\ ResultsFollowPlan /\ OnPlan /\ Charged /\ Paced

\* The task's plan is one of the suite's, and its tools are offered.
LEMMA PlanFacts ==
  ASSUME task \in Tasks
  PROVE  /\ WellPlanned(TaskShapes[task])
         /\ Len(ThePlan) \in {1, 2} /\ DOMAIN ThePlan = 1 .. Len(ThePlan)
         /\ \A i \in DOMAIN ThePlan :
              /\ ThePlan[i].tool \in PlanTool \cap Tools /\ ThePlan[i].tool \in PlanTools
              /\ ThePlan[i].from.step \in 0 .. i - 1
              /\ \A o \in Operators : Alternative(o, ThePlan[i].tool) \in Tools \cup {NoTool}
<1>1. WellPlanned(TaskShapes[task])
  BY SuiteIsWellPlanned, LoopAssumption
<1>2. Len(ThePlan) \in {1, 2} /\ DOMAIN ThePlan = 1 .. Len(ThePlan)
  <2>1. (\E s1 : ThePlan = <<s1>>) \/ (\E s1, s2 : ThePlan = <<s1, s2>>)
    BY <1>1, Zenon DEF WellPlanned, ThePlan
  <2> QED  BY <2>1
<1>3. \A i \in DOMAIN ThePlan :
        /\ ThePlan[i].tool \in PlanTool /\ ThePlan[i].from.step \in 0 .. i - 1
  BY <1>1, Zenon DEF WellPlanned, ThePlan
<1>4. ASSUME NEW i \in DOMAIN ThePlan
      PROVE  /\ ThePlan[i].tool \in Tools
             /\ \A o \in Operators : Alternative(o, ThePlan[i].tool) \in Tools \cup {NoTool}
  <2>1. {ThePlan[i].tool} \cup {Alternative(o, ThePlan[i].tool) : o \in Operators}
          \subseteq Tools \cup {NoTool}
    BY OfferedAssumption, Zenon DEF ThePlan
  <2>2. ThePlan[i].tool # NoTool
    BY <1>3 DEF PlanTool, AllTools, NoTool
  <2> QED
    BY <2>1, <2>2
<1>5. \A i \in DOMAIN ThePlan : ThePlan[i].tool \in PlanTools
  BY DEF PlanTools
<1> QED
  BY <1>1, <1>2, <1>3, <1>4, <1>5

\* The call in hand is a call of a tool of the plan, at a coordinate within bounds.
LEMMA CallInHand ==
  ASSUME EpisodeInv, pc \in {"call", "judge"}
  PROVE  /\ call \in CallType /\ call.tool \in PlanTools /\ call.tool \in PlanTool
         /\ callIdx \in TurnKeys /\ TheEpisode \in Episodes
         /\ \A o \in Operators : Alternative(o, call.tool) \in Tools \cup {NoTool}
<1>0. task \in Tasks
  BY DEF EpisodeInv, TypeOK
<1>1. step \in Nat /\ step < Len(ThePlan) /\ call.tool = ThePlan[step + 1].tool
  BY DEF EpisodeInv, TypeOK, OnPlan, Called
<1>2. step + 1 \in DOMAIN ThePlan
  BY <1>0, <1>1, PlanFacts
<1>3. call \in CallType
  BY <1>0, <1>1, <1>2, PlanFacts DEF EpisodeInv, TypeOK, CallType
<1>4. callIdx \in TurnKeys
  <2>1. /\ callIdx \in Nat /\ turn \in 0 .. MaxTurns
        /\ callIdx <= 2 * PolicyCalls
        /\ pc = "judge" => callIdx < 2 * PolicyCalls
    BY DEF EpisodeInv, TypeOK, Charged, Paced
  <2>2. PolicyCalls = IF pc = "call" THEN turn - 1 ELSE turn
    BY DEF EpisodeInv, Charged, PolicyCalls
  <2>3. callIdx < 2 * MaxTurns
    <3>1. CASE pc = "call"
      <4>1. PolicyCalls = turn - 1 /\ callIdx <= 2 * PolicyCalls
        BY <2>1, <2>2, <3>1
      <4> QED  BY <2>1, <4>1, LoopAssumption
    <3>2. CASE pc = "judge"
      <4>1. PolicyCalls = turn /\ callIdx < 2 * PolicyCalls
        BY <2>1, <2>2, <3>2
      <4> QED  BY <2>1, <4>1, LoopAssumption
    <3> QED  BY <3>1, <3>2
  <2> QED
    BY <2>1, <2>3, LoopAssumption, ConfigAssumption DEF TurnKeys
<1>5. TheEpisode \in Episodes
  BY LoopAssumption DEF TheEpisode
<1> QED
  BY <1>0, <1>1, <1>2, <1>3, <1>4, <1>5, PlanFacts

\* The events of a call.
Kept(c, draw, nominal) == KeptEvents(TheEpisode, callIdx, c, draw, nominal)

\* What a call through the proxy leaves in the episode's books, and its response.
LEMMA ProxyCallForms ==
  ASSUME TypeOK, callIdx \in TurnKeys, TheEpisode \in Episodes,
         NEW c \in CallType, NEW draw, NEW nominal, NEW resp,
         ReportedCall(c, draw, nominal, resp)
  PROVE  /\ ProxyTypeOK'
         /\ Kept(c, draw, nominal) \in SUBSET Event
         /\ Cardinality(Kept(c, draw, nominal)) \in {0, 1}
         /\ Kept(c, draw, nominal) = {} \/ Cardinality(Kept(c, draw, nominal)) = 1
         /\ nominal \in Nominal(c) /\ resp \in Responses(c, nominal, Kept(c, draw, nominal))
         /\ resp \in ResponseType /\ resp.of = c.tool
         /\ callIdx' = callIdx + 1 /\ callIdx' \in 0 .. MaxCalls
         /\ faultEvents' = faultEvents + Cardinality(Kept(c, draw, nominal))
         /\ fired' = fired + Cardinality(Kept(c, draw, nominal))
         /\ faultEvents' \in Nat
         /\ families' = families \cup FamiliesOf(Kept(c, draw, nominal))
         /\ families' \in SUBSET Configured
<1> DEFINE kept == Kept(c, draw, nominal)
<1>0. ProxyTypeOK /\ faultEvents \in Nat
  BY DEF TypeOK
<1>1. /\ CallTool(TheEpisode, callIdx, c, draw, nominal, resp)
      /\ callIdx' = callIdx + 1 /\ faultEvents' = faultEvents + Cardinality(kept)
      /\ families' = families \cup FamiliesOf(kept)
  BY DEF ReportedCall, ThroughProxy, Kept
<1>2. /\ ProxyTypeOK' /\ kept \in SUBSET Event
      /\ kept = {} \/ \E e \in Event : kept = {e}
      /\ nominal \in Nominal(c) /\ resp \in Responses(c, nominal, kept)
  BY <1>0, <1>1, CallToolForms DEF Kept
<1>3. fired' = fired + Cardinality(kept)
  BY <1>1 DEF CallTool, Kept
<1> HIDE DEF kept
<1>4. resp \in ResponseType /\ resp.of = c.tool
  BY <1>2, ResponseForms
<1>5. Cardinality(kept) \in {0, 1} /\ (kept = {} \/ Cardinality(kept) = 1)
  BY <1>2, FS_EmptySet, FS_Singleton
<1>6. families' \in SUBSET Configured
  BY <1>1, <1>2 DEF TypeOK, FamiliesOf, Event
<1>7. callIdx' \in 0 .. MaxCalls /\ faultEvents' \in Nat
  BY <1>0, <1>1, <1>5, ConfigAssumption DEF TurnKeys
<1> QED
  BY <1>1, <1>2, <1>3, <1>4, <1>5, <1>6, <1>7 DEF kept

\* The parts of the type invariant: the books of the calls, the policy's notes, the
\* judgement of responses, and the loop's place.
BooksOK ==
  ProxyTypeOK /\ callIdx \in 0 .. MaxCalls /\ faultEvents \in Nat /\ families \in SUBSET Configured

ResultType == [of : AllTools \cup {NoTool}, lost : SUBSET Fields, wrong : SUBSET Fields]
PolicyOK ==
  /\ step \in Nat /\ retries \in 0 .. MaxRetries
  /\ results \in Seq(ResultType) /\ rename \in Params \cup {NoParam, "param"}

JudgeOK ==
  /\ seen \in [PlanTools -> 0 .. ZScoreHistory] /\ proposal \in Proposals
  /\ note \in {"", "reflect", "replan", "budget exhausted; abstain", "cross-check disagreed"}
  /\ spent \in 0 .. NMax /\ recoveryActions \in Nat /\ faultTurns \in Nat

LoopOK ==
  /\ task \in Tasks /\ method \in Methods
  /\ pc \in {"observe", "decide", "call", "judge", "done", "crashed"} /\ turn \in 0 .. MaxTurns
  /\ call \in [tool : Tools \cup {NoTool}, renamed : SUBSET Params,
               arg : ArgQuality, narrow : BOOLEAN]
  /\ event \in SUBSET Event /\ response \in ResponseType
  /\ verdict \in {"running", "final", "abstain", "out of turns"}
  /\ answer \in {"none", "wrong", "gold"}

\* Together they are the type invariant.
LEMMA TypeParts ==
  /\ TypeOK <=> BooksOK /\ PolicyOK /\ JudgeOK /\ LoopOK
  /\ TypeOK' <=> BooksOK' /\ PolicyOK' /\ JudgeOK' /\ LoopOK'
BY Zenon DEF TypeOK, BooksOK, PolicyOK, JudgeOK, LoopOK, ResultType

\* The policy's own steps: they record a result or a hole for the step in hand.
Recording(result) ==
  /\ result.of \in {ThePlan[step + 1].tool, NoTool}
  /\ result \in ResultType

\* A recorded result is the plan's, and moves the policy to its next step.
LEMMA RecordFollowsPlan ==
  ASSUME TypeOK, ResultsFollowPlan, step < Len(ThePlan), NEW result, Recording(result),
         RecordStep(result), UNCHANGED task
  PROVE  /\ ResultsFollowPlan' /\ step' = step + 1 /\ step' \in Nat /\ retries' = 0
         /\ results' \in Seq(ResultType)
         /\ step' <= Len(ThePlan)
<1>1. /\ results \in Seq(ResultType)
      /\ step \in Nat /\ Len(results) = step /\ task \in Tasks
      /\ \A k \in 1 .. step : results[k].of \in {ThePlan[k].tool, NoTool}
  BY TypeParts DEF PolicyOK, LoopOK, ResultsFollowPlan
<1>2. results' = Append(results, result) /\ step' = step + 1 /\ retries' = 0
  BY DEF RecordStep
<1>3. ThePlan' = ThePlan
  BY DEF ThePlan
<1>4. Len(ThePlan) \in Nat
  BY <1>1, PlanFacts
<1>5. /\ results' \in Seq(ResultType)
      /\ Len(results') = step' /\ results'[step + 1] = result
      /\ \A k \in 1 .. step : results'[k] = results[k]
  BY <1>1, <1>2 DEF Recording
<1>6. \A k \in 1 .. step' : results'[k].of \in {ThePlan[k].tool, NoTool}
  BY <1>1, <1>2, <1>5 DEF Recording
<1> QED
  BY <1>1, <1>2, <1>3, <1>4, <1>5, <1>6 DEF ResultsFollowPlan

\* A hole can stand for any step.
LEMMA HoleRecords == Recording(Hole)
BY DEF Recording, Hole, NoTool, ResultType

\* A beginning turn keeps the loop, the books and the judgements typed.
LEMMA TurnKeepsTypes ==
  ASSUME TypeOK, BeginTurn
  PROVE  BooksOK' /\ JudgeOK' /\ LoopOK' /\ ThePlan' = ThePlan
<1>1. BooksOK /\ JudgeOK /\ LoopOK
  BY TypeParts
<1>2. turn' \in 0 .. MaxTurns
  <2>1. turn \in 0 .. MaxTurns /\ turn < MaxTurns /\ turn' = turn + 1
    BY <1>1, Zenon DEF BeginTurn, LoopOK
  <2> QED  BY <2>1, LoopAssumption
<1>3. BooksOK'
  BY <1>1 DEF BeginTurn, BooksOK, proxyVars, ProxyTypeOK, SchedTypeOK
<1>4. ThePlan' = ThePlan /\ PlanTools' = PlanTools
  BY DEF BeginTurn, ThePlan, PlanTools
<1>5. JudgeOK'
  BY <1>1, <1>4 DEF BeginTurn, JudgeOK, judgeVars
<1>6. LoopOK'
  BY <1>1, <1>2 DEF BeginTurn, LoopOK
<1> QED
  BY <1>3, <1>4, <1>5, <1>6

\* The policy's steps keep types, results and pace.
LEMMA PolicyKeepsEpisode ==
  ASSUME EpisodeInv, PolicyTurn
  PROVE  TypeOK' /\ ResultsFollowPlan' /\ OnPlan' /\ Paced'
<1>0. /\ TypeOK /\ PolicyOK /\ LoopOK /\ ResultsFollowPlan /\ OnPlan /\ Charged /\ Paced
      /\ step \in Nat /\ step <= Len(ThePlan) /\ task \in Tasks
  BY TypeParts DEF EpisodeInv, PolicyOK, LoopOK, ResultsFollowPlan
<1>1. /\ Len(ThePlan) \in {1, 2} /\ DOMAIN ThePlan = 1 .. Len(ThePlan)
      /\ \A i \in DOMAIN ThePlan : ThePlan[i].tool \in PlanTool \cap Tools
  BY <1>0, PlanFacts
<1>2. ASSUME FirstTurn \/ ObserveResult \/ ObserveError
      PROVE  TypeOK' /\ ResultsFollowPlan' /\ OnPlan' /\ Paced'
  <2>0. BeginTurn
    BY <1>2 DEF FirstTurn, ObserveResult, ObserveError
  <2>1. BooksOK' /\ JudgeOK' /\ LoopOK' /\ ThePlan' = ThePlan /\ task' = task
    BY <1>0, <2>0, TurnKeepsTypes DEF BeginTurn
  <2>2. OnPlan' /\ Paced'
    <3>1. /\ pc = "observe" /\ pc' = "decide" /\ turn' = turn + 1
          /\ callIdx' = callIdx /\ verdict' = verdict /\ event' = event
      BY <2>0 DEF BeginTurn
    <3>2. PolicyCalls' = PolicyCalls
      BY <1>0, <3>1 DEF PolicyCalls, Charged
    <3> QED
      BY <1>0, <3>1, <3>2 DEF OnPlan, Called, Paced
  <2>3. CASE FirstTurn
    BY <1>0, <2>1, <2>3, TypeParts, <2>2
    DEF FirstTurn, policyVars, PolicyOK, ResultsFollowPlan
  <2>4. ASSUME turn > 0
        PROVE  step < Len(ThePlan) /\ response.of = ThePlan[step + 1].tool
    BY <1>0, <2>0, <2>4 DEF BeginTurn, OnPlan, Called
  <2>5. CASE ObserveResult
    <3>1. Recording(ResultOf(response))
      BY <1>0, <2>4, <2>5 DEF ObserveResult, Recording, ResultOf, LoopOK, ResponseType, ResultType
    <3>2. ResultsFollowPlan' /\ step' \in Nat /\ retries' = 0 /\ results' \in Seq(ResultType)
      BY <1>0, <2>1, <2>4, <2>5, <3>1, RecordFollowsPlan DEF ObserveResult
    <3>3. PolicyOK'
      BY <2>5, <3>2, LoopAssumption DEF ObserveResult, PolicyOK
    <3> QED
      BY <2>1, <2>2, <3>2, <3>3, TypeParts
  <2>6. CASE ObserveError
    <3>1. rename' \in Params \cup {NoParam, "param"}
      BY <1>0, <2>6 DEF ObserveError, LoopOK, PolicyOK, ResponseType
    <3>2. CASE RecordStep(Hole)
      <4>1. ResultsFollowPlan' /\ step' \in Nat /\ retries' = 0 /\ results' \in Seq(ResultType)
        BY <1>0, <2>1, <2>4, <2>6, <3>2, HoleRecords, RecordFollowsPlan DEF ObserveError
      <4> QED
        BY <2>1, <2>2, <3>1, <4>1, LoopAssumption, TypeParts DEF PolicyOK
    <3>3. CASE retries < MaxRetries /\ retries' = retries + 1 /\ UNCHANGED <<step, results>>
      <4>1. PolicyOK'
        BY <1>0, <3>1, <3>3, LoopAssumption DEF PolicyOK
      <4>2. ResultsFollowPlan'
        BY <1>0, <2>1, <3>3 DEF ResultsFollowPlan
      <4> QED
        BY <2>1, <2>2, <4>1, <4>2, TypeParts
    <3> QED
      BY <2>6, <3>2, <3>3 DEF ObserveError
  <2> QED
    BY <1>2, <2>3, <2>5, <2>6
<1>3. ASSUME SkipStep
      PROVE  TypeOK' /\ ResultsFollowPlan' /\ OnPlan' /\ Paced'
  <2>1. /\ UNCHANGED <<proxyVars, judgeVars, loopVars, rename>> /\ RecordStep(Hole)
        /\ pc = "decide" /\ step < Len(ThePlan)
    BY <1>0, <1>1, <1>3 DEF SkipStep, Done
  <2>2. BooksOK' /\ JudgeOK' /\ LoopOK'
    <3>1. BooksOK'
      BY <1>0, <2>1, TypeParts DEF BooksOK, proxyVars, loopVars, ProxyTypeOK, SchedTypeOK
    <3>2. JudgeOK'
      BY <1>0, <2>1, TypeParts DEF JudgeOK, judgeVars, loopVars, PlanTools, ThePlan
    <3>3. LoopOK'
      BY <1>0, <2>1, Zenon DEF LoopOK, loopVars
    <3> QED
      BY <3>1, <3>2, <3>3
  <2>3. ResultsFollowPlan' /\ step' \in Nat /\ retries' = 0 /\ results' \in Seq(ResultType)
    BY <1>0, <2>1, HoleRecords, RecordFollowsPlan DEF loopVars
  <2>4. PolicyOK'
    BY <1>0, <2>1, <2>3, LoopAssumption DEF PolicyOK
  <2>5. OnPlan' /\ Paced'
    BY <1>0, <2>1 DEF loopVars, OnPlan, Called, Paced, PolicyCalls
  <2> QED
    BY <2>2, <2>3, <2>4, <2>5, TypeParts
<1>4. ASSUME EmitCall
      PROVE  TypeOK' /\ ResultsFollowPlan' /\ OnPlan' /\ Paced'
  <2> DEFINE tool == ThePlan[step + 1].tool
             next == CallOf(tool, {rename} \cap ParamsOf(tool),
                            IF IsWrong THEN "wrong" ELSE "gold", FALSE)
  <2>1. /\ pc = "decide" /\ step < Len(ThePlan) /\ call' = next /\ pc' = "call"
        /\ UNCHANGED <<proxyVars, policyVars, judgeVars, task, method, turn, callIdx, event,
                       response, seen, faultEvents, families, verdict, answer>>
    BY <1>0, <1>1, <1>4 DEF EmitCall, Done
  <2>2. tool \in Tools
    BY <1>0, <1>1, <2>1
  <2>3. next \in CallType /\ next.tool = tool
    BY <2>2, ToolsAssumption DEF CallOf, CallType, ArgQuality, Params
  <2> HIDE DEF next
  <2>4. BooksOK' /\ JudgeOK' /\ PolicyOK'
    BY <1>0, <2>1, TypeParts
    DEF BooksOK, JudgeOK, PolicyOK, proxyVars, judgeVars, policyVars, ProxyTypeOK, SchedTypeOK,
        PlanTools, ThePlan
  <2>5. LoopOK'
    BY <1>0, <2>1, <2>3 DEF LoopOK, CallType
  <2>6. ThePlan' = ThePlan /\ UNCHANGED <<step, results>>
    BY <2>1 DEF ThePlan, policyVars
  <2>7. ResultsFollowPlan' /\ OnPlan'
    BY <1>0, <2>1, <2>3, <2>6 DEF ResultsFollowPlan, OnPlan, Called
  <2>8. Paced'
    BY <1>0, <2>1 DEF Paced, PolicyCalls
  <2> QED
    BY <2>4, <2>5, <2>7, <2>8, TypeParts
<1>5. ASSUME Answer \/ OutOfTurns
      PROVE  TypeOK' /\ ResultsFollowPlan' /\ OnPlan' /\ Paced'
  <2>1. /\ pc \in {"decide", "observe"} /\ pc' = "done"
        /\ answer' \in {"none", "wrong", "gold"}
        /\ \/ pc = "decide" /\ verdict' \in {"final", "abstain"}
           \/ pc = "observe" /\ verdict' = "out of turns"
        /\ UNCHANGED <<proxyVars, policyVars, judgeVars, task, method, turn, callIdx, call,
                       event, response, seen, faultEvents, families>>
    BY <1>0, <1>5 DEF Answer, OutOfTurns, Answers, LoopOK
  <2>2. BooksOK' /\ JudgeOK' /\ PolicyOK'
    BY <1>0, <2>1, TypeParts
    DEF BooksOK, JudgeOK, PolicyOK, proxyVars, judgeVars, policyVars, ProxyTypeOK, SchedTypeOK,
        PlanTools, ThePlan
  <2>3. LoopOK'
    BY <1>0, <2>1 DEF LoopOK
  <2>4. ThePlan' = ThePlan /\ UNCHANGED <<step, results>>
    BY <2>1 DEF ThePlan, policyVars
  <2>5. ResultsFollowPlan' /\ OnPlan'
    BY <1>0, <2>1, <2>4 DEF ResultsFollowPlan, OnPlan, Called
  <2>6. Paced'
    BY <1>0, <2>1 DEF Paced, PolicyCalls, Charged
  <2> QED
    BY <2>2, <2>3, <2>5, <2>6, TypeParts
<1> QED
  BY <1>2, <1>3, <1>4, <1>5 DEF PolicyTurn
\* The operator a controller grants is one of the taxonomy's.
LEMMA GrantedIsAnOperator ==
  ASSUME NEW m, NEW p \in Proposals \ {"none"}
  PROVE  Granted(m, p) \in Operators
<1>1. AllowedOperators(m) \subseteq Operators
  BY DEF AllowedOperators, Operators, RetryOperators
<1> QED
  BY <1>1 DEF Granted, Asked, Proposals, Operators, RetryOperators

\* Detectors propose operators, nothing, or the sentinel's own nothing.
LEMMA ProposalsAreProposals ==
  ASSUME NEW m, NEW resp, NEW events \in SUBSET Event, NEW s
  PROVE  ProposalsOf(m, resp, events, s) \subseteq Proposals
<1>1. \A f \in Family : OracleOp(f) \in Proposals
  BY DEF Family, TransportFamilies, ProtocolFamilies, SemanticFamilies, ResourceFamilies,
         OracleOp, Proposals, Operators, RetryOperators
<1>2. FamiliesOf(events) \subseteq Family
  BY ConfigAssumption DEF FamiliesOf, Event, Configured
<1>3. RuleProposals(resp, s) \subseteq Proposals
  BY DEF RuleProposals, Proposals, Operators, RetryOperators
<1>4. OracleProposals(events) \subseteq Proposals
  BY <1>1, <1>2 DEF OracleProposals, Proposals
<1>5. SentinelProposals \subseteq Proposals
  BY <1>1 DEF SentinelProposals, Proposals
<1> QED
  BY <1>3, <1>4, <1>5 DEF ProposalsOf, Proposals

\* The policy's call keeps types, results and pace.
LEMMA CallKeepsEpisode ==
  ASSUME EpisodeInv, CallAndJudge
  PROVE  TypeOK' /\ ResultsFollowPlan' /\ OnPlan' /\ Paced'
<1>0. /\ TypeOK /\ BooksOK /\ PolicyOK /\ JudgeOK /\ LoopOK
      /\ ResultsFollowPlan /\ OnPlan /\ Charged /\ Paced /\ pc = "call"
  BY TypeParts DEF EpisodeInv, CallAndJudge
<1>1. /\ call \in CallType /\ call.tool \in PlanTools
      /\ callIdx \in TurnKeys /\ TheEpisode \in Episodes
  BY <1>0, CallInHand
<1>2. PICK draw, nominal, resp :
        /\ ReportedCall(call, draw, nominal, resp)
        /\ event' = Kept(call, draw, nominal) /\ response' = resp
        /\ proposal' \in ProposalsOf(method, resp, Kept(call, draw, nominal), seen[call.tool])
  BY Zenon DEF CallAndJudge, Kept, ReportedCall, ReportPolicyFault
<1>3. /\ pc' = "judge"
      /\ seen' = [seen EXCEPT ![call.tool] = IF @ < ZScoreHistory THEN @ + 1 ELSE @]
      /\ UNCHANGED <<policyVars, task, method, turn, call, note, spent, recoveryActions,
                     faultTurns, verdict, answer>>
  BY Zenon DEF CallAndJudge, ReportedCall, ReportPolicyFault
<1>4. /\ BooksOK' /\ event' \in SUBSET Event /\ Cardinality(event') \in {0, 1}
      /\ response' \in ResponseType /\ response'.of = call.tool /\ callIdx' = callIdx + 1
  BY <1>0, <1>1, <1>2, ProxyCallForms DEF BooksOK
<1>5. proposal' \in Proposals
  BY <1>2, <1>4, ProposalsAreProposals
<1>6. ThePlan' = ThePlan /\ PlanTools' = PlanTools /\ UNCHANGED <<step, results>>
  BY <1>3 DEF ThePlan, PlanTools, policyVars
<1>7. seen' \in [PlanTools -> 0 .. ZScoreHistory]
  <2>1. seen[call.tool] \in 0 .. ZScoreHistory
    BY <1>0, <1>1 DEF JudgeOK
  <2>2. (IF seen[call.tool] < ZScoreHistory THEN seen[call.tool] + 1 ELSE seen[call.tool])
          \in 0 .. ZScoreHistory
    BY <2>1 DEF ZScoreHistory
  <2> QED
    BY <1>0, <1>3, <2>2 DEF JudgeOK
<1>8. JudgeOK' /\ PolicyOK'
  BY <1>0, <1>3, <1>5, <1>6, <1>7 DEF JudgeOK, PolicyOK, policyVars
<1>9. LoopOK'
  BY <1>0, <1>3, <1>4 DEF LoopOK
<1>10. ResultsFollowPlan' /\ OnPlan'
  BY <1>0, <1>3, <1>4, <1>6 DEF ResultsFollowPlan, OnPlan, Called
<1>11. Paced'
  BY <1>0, <1>3, <1>4, LoopAssumption DEF Paced, PolicyCalls, Charged, LoopOK
<1> QED
  BY <1>4, <1>8, <1>9, <1>10, <1>11, TypeParts

\* A turn ends with some response of the tool that was called.
TurnEnds ==
  /\ pc = "judge" /\ pc' = "observe"
  /\ response' \in ResponseType /\ response'.of = call.tool
  /\ note' \in {"", "reflect", "replan", "budget exhausted; abstain", "cross-check disagreed"}
  /\ faultTurns' = faultTurns + Cardinality(event)
  /\ UNCHANGED <<policyVars, task, method, turn, call, event, seen, proposal,
                 verdict, answer>>

\* What the recovery before it has spent.
Spending ==
  callIdx' \in {callIdx, callIdx + 1} /\ spent' \in 0 .. NMax /\ recoveryActions' \in Nat

\* A turn's end keeps types, results and pace, whatever response of the tool that
\* was called it hands over, and whatever the recovery before it has spent.
LEMMA EndTurnKeepsEpisode ==
  ASSUME EpisodeInv, BooksOK', TurnEnds, Spending
  PROVE  TypeOK' /\ ResultsFollowPlan' /\ OnPlan' /\ Paced'
<1>0. /\ TypeOK /\ PolicyOK /\ JudgeOK /\ LoopOK
      /\ ResultsFollowPlan /\ OnPlan /\ Charged /\ Paced
  BY TypeParts DEF EpisodeInv
<1>1. /\ pc = "judge" /\ pc' = "observe" /\ faultTurns' = faultTurns + Cardinality(event)
      /\ response' \in ResponseType /\ response'.of = call.tool
      /\ note' \in {"", "reflect", "replan", "budget exhausted; abstain", "cross-check disagreed"}
      /\ callIdx' \in {callIdx, callIdx + 1} /\ spent' \in 0 .. NMax /\ recoveryActions' \in Nat
      /\ UNCHANGED <<policyVars, task, method, turn, call, event, seen, proposal,
                     verdict, answer>>
  BY DEF TurnEnds, Spending
<1>2. ThePlan' = ThePlan /\ PlanTools' = PlanTools /\ UNCHANGED <<step, results>>
  BY <1>1 DEF ThePlan, PlanTools, policyVars
<1>3. PolicyOK' /\ LoopOK'
  BY <1>0, <1>1 DEF PolicyOK, LoopOK, policyVars
<1>4. JudgeOK'
  <2>1. Cardinality(event) \in {0, 1} /\ faultTurns \in Nat
    BY <1>0 DEF JudgeOK, Paced
  <2>2. faultTurns' \in Nat
    <3>1. faultTurns' = faultTurns + Cardinality(event)
      BY <1>1
    <3> QED  BY <2>1, <3>1
  <2> QED
    BY <1>0, <1>1, <1>2, <2>2 DEF JudgeOK
<1>5. ResultsFollowPlan' /\ OnPlan'
  BY <1>0, <1>1, <1>2 DEF ResultsFollowPlan, OnPlan, Called
<1>6. Paced'
  <2>1. callIdx \in Nat /\ turn \in Nat /\ PolicyCalls = turn /\ PolicyCalls' = turn
    BY <1>0, <1>1 DEF PolicyCalls, Charged
  <2>2. callIdx < 2 * turn
    <3>1. callIdx < 2 * PolicyCalls
      BY <1>0, <1>1 DEF Paced
    <3> QED  BY <2>1, <3>1
  <2>3. callIdx' <= 2 * turn
    <3>1. callIdx' = callIdx \/ callIdx' = callIdx + 1
      BY <1>1
    <3>2. callIdx <= 2 * turn /\ callIdx + 1 <= 2 * turn
      BY <2>1, <2>2
    <3> QED  BY <3>1, <3>2
  <2>4. Cardinality(event') \in {0, 1}
    BY <1>0, <1>1 DEF Paced
  <2>5. pc' = "observe"
    BY <1>1
  <2> QED
    BY <1>1, <2>1, <2>3, <2>4 DEF Paced
<1> QED
  BY <1>3, <1>4, <1>5, <1>6, TypeParts

\* What the controller is asked to do, and the call it may ask for.
Operator  == Granted(method, proposal)
Again     == Recalled(Operator, call, response)
Other     == AlternativeCall(Operator, call, response)
Consulted(resp) == Operator = "verify" => Disagree(response, resp)

\* A controller that is asked grants an operator and keeps to its budget.
LEMMA AskedWithinBudget ==
  ASSUME EpisodeInv, AskController
  PROVE  /\ spent' \in 0 .. NMax /\ recoveryActions' \in Nat
         /\ Operator \in Operators /\ pc = "judge"
<1>1. /\ spent \in 0 .. NMax /\ recoveryActions \in Nat /\ proposal \in Proposals
      /\ proposal # "none" /\ pc = "judge"
  BY DEF EpisodeInv, TypeOK, AskController
<1>2. Operator \in Operators
  BY <1>1, GrantedIsAnOperator DEF Operator
<1>3. recoveryActions + 1 \in Nat /\ recoveryActions' = recoveryActions + 1
  BY <1>1 DEF AskController
<1>4. spent' \in 0 .. NMax
  <2>1. CASE Exhausted(spent)
    <3>1. spent' = spent
      BY <2>1, Zenon DEF AskController
    <3> QED  BY <1>1, <3>1
  <2>2. CASE ~Exhausted(spent)
    <3>1. spent' = spent + 1
      BY <2>2, Zenon DEF AskController
    <3>2. spent + 1 \in 0 .. NMax
      BY <1>1, <2>2, BudgetAssumption DEF Exhausted
    <3> QED  BY <3>1, <3>2
  <2> QED  BY <2>1, <2>2
<1> QED
  BY <1>1, <1>2, <1>3, <1>4

\* A turn that ends without a call keeps the books.
LEMMA QuietBooks ==
  ASSUME EpisodeInv, UNCHANGED <<proxyVars, callIdx, faultEvents, families>>
  PROVE  BooksOK'
<1>1. BooksOK
  BY TypeParts DEF EpisodeInv
<1> QED
  BY <1>1 DEF BooksOK, proxyVars, ProxyTypeOK, SchedTypeOK

\* EndTurn is a turn's end.
LEMMA EndTurnEnds ==
  ASSUME pc = "judge", NEW resp \in ResponseType, resp.of = call.tool,
         NEW why \in {"", "replan", "budget exhausted; abstain", "cross-check disagreed"},
         EndTurn(resp, why)
  PROVE  TurnEnds
BY DEF EndTurn, TurnEnds

\* The same tool asked again is a call of that tool.
LEMMA AgainIsACall ==
  ASSUME EpisodeInv, pc = "judge"
  PROVE  Again \in CallType /\ Again.tool = call.tool
<1>1. call \in CallType
  BY CallInHand
<1>2. call.tool \in AllTools
  BY <1>1, ToolsAssumption DEF CallType
<1>3. ParamsOf(call.tool) \subseteq Params
  BY <1>2 DEF Params
<1>4. ASSUME response.hint \in ParamsOf(call.tool)
      PROVE  /\ [call EXCEPT !.renamed = @ \cup {response.hint}] \in CallType
             /\ [call EXCEPT !.renamed = @ \cup {response.hint}].tool = call.tool
  BY <1>1, <1>3, <1>4 DEF CallType
<1>5. /\ [call EXCEPT !.narrow = TRUE] \in CallType
      /\ [call EXCEPT !.narrow = TRUE].tool = call.tool
  BY <1>1 DEF CallType
<1> QED
  BY <1>1, <1>4, <1>5 DEF Again, Recalled

\* The tool asked in its place is one the agent is offered.
LEMMA OtherIsACall ==
  ASSUME EpisodeInv, pc = "judge", Operator \in Operators,
         Alternative(Operator, call.tool) # NoTool
  PROVE  Other \in CallType /\ Other.tool = Alternative(Operator, call.tool)
<1>1. call \in CallType /\ Alternative(Operator, call.tool) \in Tools
  BY CallInHand
<1> QED
  BY <1>1 DEF Other, AlternativeCall, CallOf, CallType, ArgQuality

\* What is handed over for a call of another tool is a response of the first.
LEMMA ReconciledForms ==
  ASSUME response \in ResponseType, response.of = call.tool, NEW resp \in ResponseType
  PROVE  /\ Reconciled(Operator, resp) \in ResponseType
         /\ Reconciled(Operator, resp).of = call.tool
<1>1. {"value"} \subseteq Fields /\ "sensor.read" \in AllTools
  <2>1. "value" \in FieldsOf("sensor.read") /\ "sensor.read" \in AllTools
    BY DEF FieldsOf, AllTools
  <2> QED  BY <2>1 DEF Fields
<1>2. AdaptedReading(resp) \in ResponseType /\ AdaptedReading(resp).of = "sensor.read"
  BY <1>1 DEF AdaptedReading, Ok, ResponseType
<1> QED
  BY <1>2 DEF Reconciled, Adaptable

\* The crash of an adapter leaves everything but the books and the budget alone.
LEMMA CrashKeepsEpisode ==
  ASSUME EpisodeInv, BooksOK', pc = "judge", pc' = "crashed", callIdx' = callIdx + 1, Spending,
         UNCHANGED <<policyVars, task, method, turn, call, event, response, seen, proposal,
                     note, faultTurns, verdict, answer>>
  PROVE  TypeOK' /\ ResultsFollowPlan' /\ OnPlan' /\ Paced'
<1>0. /\ TypeOK /\ PolicyOK /\ JudgeOK /\ LoopOK
      /\ ResultsFollowPlan /\ OnPlan /\ Charged /\ Paced
  BY TypeParts DEF EpisodeInv
<1>1. ThePlan' = ThePlan /\ PlanTools' = PlanTools /\ UNCHANGED <<step, results>>
  BY DEF ThePlan, PlanTools, policyVars
<1>2. PolicyOK' /\ JudgeOK' /\ LoopOK'
  BY <1>0, <1>1 DEF PolicyOK, JudgeOK, LoopOK, policyVars, Spending
<1>3. ResultsFollowPlan' /\ OnPlan'
  BY <1>0, <1>1 DEF ResultsFollowPlan, OnPlan, Called
<1>4. Paced'
  <2>1. /\ callIdx \in Nat /\ turn \in Nat /\ PolicyCalls = turn /\ PolicyCalls' = turn
        /\ callIdx < 2 * PolicyCalls
    BY <1>0 DEF PolicyCalls, Charged, Paced
  <2>2. callIdx + 1 <= 2 * turn
    <3>1. callIdx < 2 * turn
      BY <2>1
    <3> QED  BY <2>1, <3>1
  <2> QED
    BY <1>0, <2>1, <2>2 DEF Paced
<1> QED
  BY <1>2, <1>3, <1>4, TypeParts

\* Recovery keeps types, results and pace.
LEMMA RecoverKeepsEpisode ==
  ASSUME EpisodeInv, Recover
  PROVE  TypeOK' /\ ResultsFollowPlan' /\ OnPlan' /\ Paced'
<1>0. /\ pc = "judge" /\ response \in ResponseType /\ response.of = call.tool
      /\ callIdx \in TurnKeys /\ TheEpisode \in Episodes /\ TypeOK
      /\ spent \in 0 .. NMax /\ recoveryActions \in Nat
  <2>1. pc = "judge"
    BY DEF Recover, NoRecovery, Stop, Replan, Recall, CallOther, AskController
  <2> QED
    BY <2>1, CallInHand DEF EpisodeInv, TypeOK, OnPlan, Called
<1>1. CASE NoRecovery
  <2>1. TurnEnds /\ Spending /\ BooksOK'
    BY <1>0, <1>1, EndTurnEnds, QuietBooks DEF NoRecovery, Spending
  <2> QED  BY <2>1, EndTurnKeepsEpisode
<1>2. CASE Stop \/ Replan
  <2>1. AskController /\ UNCHANGED <<proxyVars, callIdx, faultEvents, families>>
    BY <1>2 DEF Stop, Replan
  <2>2. BooksOK' /\ Spending
    BY <2>1, QuietBooks, AskedWithinBudget DEF Spending
  <2>3. TurnEnds
    BY <1>0, <1>2, EndTurnEnds DEF Stop, Replan
  <2> QED  BY <2>2, <2>3, EndTurnKeepsEpisode
<1>3. CASE Recall
  <2>1. AskController /\ Again \in CallType /\ Again.tool = call.tool
    BY <1>0, <1>3, AgainIsACall DEF Recall
  <2>2. PICK draw, nominal, resp :
          ReportedCall(Again, draw, nominal, resp) /\ EndTurn(resp, "")
    BY <1>3, Zenon DEF Recall, Again, Operator, ReportedCall, ReportRecoveryFault
  <2>3. BooksOK' /\ resp \in ResponseType /\ resp.of = call.tool /\ callIdx' = callIdx + 1
    BY <1>0, <2>1, <2>2, ProxyCallForms DEF BooksOK
  <2>4. TurnEnds
    BY <1>0, <2>2, <2>3, EndTurnEnds
  <2>5. Spending
    BY <2>1, <2>3, AskedWithinBudget DEF Spending
  <2> QED  BY <2>3, <2>4, <2>5, EndTurnKeepsEpisode
<1>4. CASE CallOther
  <2>1. AskController /\ Operator \in Operators /\ Alternative(Operator, call.tool) # NoTool
    BY <1>4, AskedWithinBudget DEF CallOther, Operator
  <2>2. Other \in CallType
    BY <1>0, <2>1, OtherIsACall
  <2>3. PICK draw, nominal, resp :
          /\ ReportedCall(Other, draw, nominal, resp)
          /\ IF Consulted(resp) /\ AdapterRaises(call, resp)
             THEN /\ pc' = "crashed"
                  /\ UNCHANGED <<policyVars, task, method, turn, call, event,
                                 response, seen, proposal, note, faultTurns,
                                 verdict, answer>>
             ELSE EndTurn(Reconciled(Operator, resp),
                          IF Operator = "verify" /\ Consulted(resp)
                          THEN "cross-check disagreed" ELSE "")
    BY <1>4, Zenon DEF CallOther, Other, Operator, Consulted, ReportedCall, ReportRecoveryFault
  <2>4. BooksOK' /\ resp \in ResponseType /\ callIdx' = callIdx + 1
    BY <1>0, <2>2, <2>3, ProxyCallForms DEF BooksOK
  <2>5. Spending
    BY <2>1, <2>4, AskedWithinBudget DEF Spending
  <2>6. CASE ~(Consulted(resp) /\ AdapterRaises(call, resp))
    <3>1. Reconciled(Operator, resp) \in ResponseType /\ Reconciled(Operator, resp).of = call.tool
      BY <1>0, <2>4, ReconciledForms
    <3>2. TurnEnds
      <4>1. PICK why \in {"", "cross-check disagreed"} : EndTurn(Reconciled(Operator, resp), why)
        BY <2>3, <2>6, Zenon
      <4> QED  BY <1>0, <3>1, <4>1, EndTurnEnds
    <3> QED  BY <2>4, <2>5, <3>2, EndTurnKeepsEpisode
  <2>7. CASE Consulted(resp) /\ AdapterRaises(call, resp)
    <3>1. /\ pc' = "crashed"
          /\ UNCHANGED <<policyVars, task, method, turn, call, event, response, seen,
                         proposal, note, faultTurns, verdict, answer>>
      BY <2>3, <2>7
    <3> QED  BY <1>0, <2>4, <2>5, <3>1, CrashKeepsEpisode
  <2> QED  BY <2>6, <2>7
<1> QED
  BY <1>1, <1>2, <1>3, <1>4 DEF Recover

-----------------------------------------------------------------------------
(***************************************************************************)
(* The episode's invariant.                                                *)
(***************************************************************************)

\* An episode starts with it.
LEMMA EpisodeStarts == Init => EpisodeInv
<1> SUFFICES ASSUME Init PROVE EpisodeInv
  OBVIOUS
<1>1. ProxyTypeOK /\ Charged
  BY ProxyInitType, ChargedInit DEF Init
<1>2. callIdx = 0 /\ faultEvents = 0 /\ families = {}
  BY Zenon DEF Init
<1>3. BooksOK
  BY <1>1, <1>2, ConfigAssumption DEF BooksOK
<1>4. PolicyOK
  <2>1. step = 0 /\ results = <<>> /\ retries = 0 /\ rename = NoParam
    BY Zenon DEF Init
  <2> QED  BY <2>1, LoopAssumption DEF PolicyOK
<1>5. JudgeOK
  <2>1. /\ seen = [t \in PlanTools |-> 0] /\ proposal = "none" /\ note = "" /\ spent = 0
        /\ recoveryActions = 0 /\ faultTurns = 0
    BY Zenon DEF Init
  <2>2. seen \in [PlanTools -> 0 .. ZScoreHistory]
    <3>1. 0 \in 0 .. ZScoreHistory
      BY DEF ZScoreHistory
    <3>2. [t \in PlanTools |-> 0] \in [PlanTools -> 0 .. ZScoreHistory]
      BY <3>1, Zenon
    <3> QED  BY <2>1, <3>2, Zenon
  <2>3. spent \in 0 .. NMax
    <3>1. 0 \in 0 .. NMax
      BY BudgetAssumption
    <3>2. spent = 0
      BY <2>1, Zenon
    <3> QED  BY <3>1, <3>2
  <2> QED  BY <2>1, <2>2, <2>3 DEF JudgeOK, Proposals
<1>6. LoopOK /\ ResultsFollowPlan
  <2>1. /\ task \in Tasks /\ method \in Methods /\ pc = "observe" /\ turn = 0
        /\ call = CallOf(NoTool, {}, "gold", FALSE) /\ event = {} /\ response = Ok(NoTool)
        /\ verdict = "running" /\ answer = "none" /\ step = 0 /\ results = <<>>
    BY Zenon DEF Init
  <2>2. response \in ResponseType
    BY <2>1 DEF Ok, ResponseType
  <2>3. call \in [tool : Tools \cup {NoTool}, renamed : SUBSET Params, arg : ArgQuality,
                  narrow : BOOLEAN]
    BY <2>1 DEF CallOf, ArgQuality
  <2>4. LoopOK
    <3>1. turn \in 0 .. MaxTurns
      BY <2>1, LoopAssumption
    <3>2. event \in SUBSET Event
      BY <2>1
    <3> QED  BY <2>1, <2>2, <2>3, <3>1, <3>2, Zenon DEF LoopOK
  <2>5. Len(ThePlan) \in {1, 2} /\ Len(results) = 0
    BY <2>1, PlanFacts
  <2>6. ResultsFollowPlan
    BY <2>1, <2>5 DEF ResultsFollowPlan
  <2> QED  BY <2>4, <2>6
<1>7. OnPlan /\ Paced
  <2>1. Cardinality(event) = 0
    <3>1. event = {}
      BY Zenon DEF Init
    <3> QED  BY <3>1, FS_EmptySet
  <2>2. pc = "observe" /\ turn = 0 /\ callIdx = 0 /\ verdict = "running"
    BY AccountsOpen
  <2>3. PolicyCalls = 0
    BY <2>2 DEF PolicyCalls
  <2>4. OnPlan
    BY <2>2 DEF OnPlan, Called
  <2>5. Paced
    BY <2>1, <2>2, <2>3 DEF Paced
  <2> QED  BY <2>4, <2>5
<1> QED
  BY <1>1, <1>3, <1>4, <1>5, <1>6, <1>7, TypeParts DEF EpisodeInv

\* A stutter keeps it.
LEMMA StutterKeepsEpisode ==
  ASSUME EpisodeInv, UNCHANGED vars
  PROVE  TypeOK' /\ ResultsFollowPlan' /\ OnPlan' /\ Paced'
<1>0. /\ TypeOK /\ PolicyOK /\ JudgeOK /\ LoopOK /\ BooksOK
      /\ ResultsFollowPlan /\ OnPlan /\ Charged /\ Paced
  BY TypeParts DEF EpisodeInv
<1>1. UNCHANGED <<proxyVars, policyVars, judgeVars, loopVars>>
  BY DEF vars
<1>2. BooksOK' /\ PolicyOK' /\ LoopOK'
  BY <1>0, <1>1
  DEF BooksOK, PolicyOK, LoopOK, proxyVars, policyVars, loopVars, ProxyTypeOK, SchedTypeOK
<1>3. JudgeOK'
  BY <1>0, <1>1 DEF JudgeOK, judgeVars, loopVars, PlanTools, ThePlan
<1>4. ResultsFollowPlan' /\ OnPlan' /\ Paced'
  BY <1>0, <1>1
  DEF ResultsFollowPlan, OnPlan, Called, Paced, PolicyCalls, loopVars, policyVars, ThePlan
<1> QED
  BY <1>2, <1>3, <1>4, TypeParts

\* Every step keeps it.
LEMMA EpisodeStep == EpisodeInv /\ [Next]_vars => EpisodeInv'
<1> SUFFICES ASSUME EpisodeInv, [Next]_vars PROVE EpisodeInv'
  OBVIOUS
<1>1. Charged'
  BY ChargedStep DEF EpisodeInv
<1>2. TypeOK' /\ ResultsFollowPlan' /\ OnPlan' /\ Paced'
  BY PolicyKeepsEpisode, CallKeepsEpisode, RecoverKeepsEpisode, StutterKeepsEpisode
  DEF Next, Ended
<1> QED
  BY <1>1, <1>2 DEF EpisodeInv

\* The episode's variables keep their types, for every set of tasks, methods,
\* families and limits (agent/loop.py).
THEOREM EpisodeTypeCorrect == Spec => []TypeOK
<1>1. EpisodeInv => TypeOK
  BY DEF EpisodeInv
<1> QED
  BY <1>1, EpisodeStarts, EpisodeStep, PTL DEF Spec

\* The k-th result is the k-th step's or a hole, whatever was asked in its place
\* (policy.py appends per step; loop.py adapts a substitute's payload).
THEOREM ResultsKeepToPlan == Spec => []ResultsFollowPlan
<1>1. EpisodeInv => ResultsFollowPlan
  BY DEF EpisodeInv
<1> QED
  BY <1>1, EpisodeStarts, EpisodeStep, PTL DEF Spec

-----------------------------------------------------------------------------
(***************************************************************************)
(* What the turn records leave out.                                        *)
(***************************************************************************)

\* A call that recovery makes: its coordinate, and one fault at most.
RecoveryCalls ==
  /\ callIdx' = callIdx + 1
  /\ faultEvents' = faultEvents \/ faultEvents' = faultEvents + 1

\* A turn ends, with or without a call of recovery's, or recovery crashes.
TurnOver ==
  /\ pc = "judge" /\ UNCHANGED <<turn, verdict>>
  /\ \/ /\ pc' = "observe" /\ faultTurns' = faultTurns + Cardinality(event)
        /\ RecoveryCalls \/ UNCHANGED <<callIdx, faultEvents>>
     \/ pc' = "crashed"

\* Every recovery is the end of a turn.
LEMMA RecoveryEndsTurn ==
  ASSUME EpisodeInv, Recover
  PROVE  TurnOver
<1>0. /\ pc = "judge" /\ callIdx \in TurnKeys /\ TheEpisode \in Episodes /\ TypeOK
      /\ faultEvents \in Nat
  <2>1. pc = "judge"
    BY DEF Recover, NoRecovery, Stop, Replan, Recall, CallOther, AskController
  <2> QED
    BY <2>1, CallInHand DEF EpisodeInv, TypeOK
<1>1. CASE NoRecovery \/ Stop \/ Replan
  BY <1>0, <1>1 DEF NoRecovery, Stop, Replan, EndTurn, TurnOver
<1>2. CASE Recall
  <2>1. Again \in CallType
    BY <1>0, AgainIsACall
  <2>2. PICK draw, nominal, resp :
          ReportedCall(Again, draw, nominal, resp) /\ EndTurn(resp, "")
    BY <1>2, Zenon DEF Recall, Again, Operator, ReportedCall, ReportRecoveryFault
  <2>3. RecoveryCalls
    <3>1. /\ callIdx' = callIdx + 1
          /\ faultEvents' = faultEvents + Cardinality(Kept(Again, draw, nominal))
          /\ Cardinality(Kept(Again, draw, nominal)) \in {0, 1}
      BY <1>0, <2>1, <2>2, ProxyCallForms
    <3> QED  BY <1>0, <3>1 DEF RecoveryCalls
  <2> QED  BY <1>0, <2>2, <2>3 DEF EndTurn, TurnOver
<1>3. CASE CallOther
  <2>1. AskController /\ Operator \in Operators /\ Alternative(Operator, call.tool) # NoTool
    BY <1>3, AskedWithinBudget DEF CallOther, Operator
  <2>2. Other \in CallType
    BY <1>0, <2>1, OtherIsACall
  <2>3. PICK draw, nominal, resp :
          /\ ReportedCall(Other, draw, nominal, resp)
          /\ IF Consulted(resp) /\ AdapterRaises(call, resp)
             THEN /\ pc' = "crashed"
                  /\ UNCHANGED <<policyVars, task, method, turn, call, event,
                                 response, seen, proposal, note, faultTurns,
                                 verdict, answer>>
             ELSE EndTurn(Reconciled(Operator, resp),
                          IF Operator = "verify" /\ Consulted(resp)
                          THEN "cross-check disagreed" ELSE "")
    BY <1>3, Zenon DEF CallOther, Other, Operator, Consulted, ReportedCall, ReportRecoveryFault
  <2>4. RecoveryCalls
    <3>1. /\ callIdx' = callIdx + 1
          /\ faultEvents' = faultEvents + Cardinality(Kept(Other, draw, nominal))
          /\ Cardinality(Kept(Other, draw, nominal)) \in {0, 1}
      BY <1>0, <2>2, <2>3, ProxyCallForms
    <3> QED  BY <1>0, <3>1 DEF RecoveryCalls
  <2> QED  BY <1>0, <2>3, <2>4, Zenon DEF EndTurn, TurnOver
<1> QED
  BY <1>1, <1>2, <1>3 DEF Recover

\* The records are behind the faults by what struck recovery's calls, and, until a
\* turn ends, by what struck the policy's own.
Recorded ==
  /\ pc \in {"observe", "decide", "call", "done"} =>
       faultTurns <= faultEvents /\ faultEvents + PolicyCalls <= faultTurns + callIdx
  /\ pc = "judge" =>
       /\ faultTurns + Cardinality(event) <= faultEvents
       /\ faultEvents + PolicyCalls <= faultTurns + Cardinality(event) + callIdx

\* No step widens the gap but a call of recovery's, by one fault at most.
LEMMA RecordedStep == EpisodeInv /\ Recorded /\ [Next]_vars => Recorded'
<1> SUFFICES ASSUME EpisodeInv, Recorded, [Next]_vars PROVE Recorded'
  OBVIOUS
<1>0. /\ callIdx \in Nat /\ turn \in Nat /\ faultTurns \in Nat /\ faultEvents \in Nat
      /\ Cardinality(event) \in {0, 1} /\ Charged /\ TypeOK
  BY DEF EpisodeInv, TypeOK, Charged, Paced
<1>1. CASE PolicyTurn
  <2>1. /\ pc \in {"observe", "decide"} /\ pc' \in {"decide", "call", "done"}
        /\ UNCHANGED <<callIdx, faultTurns, faultEvents>>
    BY <1>1 DEF PolicyTurn, FirstTurn, ObserveResult, ObserveError, BeginTurn, SkipStep, EmitCall,
                Answer, OutOfTurns, judgeVars, loopVars
  <2>2. PolicyCalls' = PolicyCalls
    <3>1. \/ pc = "observe" /\ pc' = "decide" /\ turn' = turn + 1 /\ verdict' = verdict
          \/ pc = "observe" /\ pc' = "done" /\ turn' = turn /\ verdict' = "out of turns"
          \/ pc = "decide" /\ pc' \in {"decide", "call"} /\ turn' = turn /\ verdict' = verdict
          \/ pc = "decide" /\ pc' = "done" /\ turn' = turn /\ verdict' \in {"final", "abstain"}
      BY <1>1 DEF PolicyTurn, FirstTurn, ObserveResult, ObserveError, BeginTurn, SkipStep, EmitCall,
                  Answer, OutOfTurns, judgeVars, loopVars
    <3>2. verdict = "running" /\ turn \in Nat
      BY <1>0, <2>1 DEF Charged
    <3>3. CASE pc = "observe" /\ pc' = "decide" /\ turn' = turn + 1 /\ verdict' = verdict
      <4>1. PolicyCalls = turn /\ PolicyCalls' = (turn + 1) - 1
        BY <3>2, <3>3 DEF PolicyCalls
      <4> QED  BY <3>2, <4>1
    <3>4. CASE pc = "observe" /\ pc' = "done" /\ turn' = turn /\ verdict' = "out of turns"
      BY <3>2, <3>4 DEF PolicyCalls
    <3>5. CASE turn' = turn /\ pc = "decide"
      BY <3>1, <3>2, <3>5 DEF PolicyCalls
    <3> QED  BY <3>1, <3>3, <3>4, <3>5
  <2> QED  BY <2>1, <2>2 DEF Recorded
<1>2. CASE CallAndJudge
  <2>1. pc = "call" /\ pc' = "judge" /\ UNCHANGED <<turn, faultTurns, verdict>>
    BY <1>2 DEF CallAndJudge
  <2>2. call \in CallType /\ callIdx \in TurnKeys /\ TheEpisode \in Episodes
    BY <2>1, CallInHand
  <2>3. PICK draw, nominal, resp :
          ReportedCall(call, draw, nominal, resp) /\ event' = Kept(call, draw, nominal)
    BY <1>2, Zenon DEF CallAndJudge, Kept, ReportedCall, ReportPolicyFault
  <2>4. /\ callIdx' = callIdx + 1 /\ faultEvents' = faultEvents + Cardinality(event')
        /\ Cardinality(event') \in {0, 1}
    BY <1>0, <2>2, <2>3, ProxyCallForms
  <2>5. PolicyCalls = turn - 1 /\ PolicyCalls' = turn
    BY <1>0, <2>1 DEF PolicyCalls, Charged
  <2>6. faultTurns <= faultEvents /\ faultEvents + (turn - 1) <= faultTurns + callIdx
    BY <2>1, <2>5 DEF Recorded
  <2>7. \A n \in {0, 1} :
          /\ faultTurns + n <= faultEvents + n
          /\ faultEvents + n + turn <= faultTurns + n + (callIdx + 1)
    BY <1>0, <2>6
  <2> QED  BY <2>1, <2>4, <2>5, <2>7 DEF Recorded
<1>3. CASE Recover
  <2>1. TurnOver
    BY <1>3, RecoveryEndsTurn
  <2>2. CASE pc' = "crashed"
    BY <2>2 DEF Recorded
  <2>3. CASE pc' # "crashed"
    <3>1. /\ pc' = "observe" /\ faultTurns' = faultTurns + Cardinality(event)
          /\ RecoveryCalls \/ UNCHANGED <<callIdx, faultEvents>>
          /\ PolicyCalls = turn /\ PolicyCalls' = turn
          /\ faultTurns + Cardinality(event) <= faultEvents
          /\ faultEvents + turn <= faultTurns + Cardinality(event) + callIdx
      BY <1>0, <2>1, <2>3 DEF TurnOver, PolicyCalls, Charged, Recorded
    <3>2. CASE UNCHANGED <<callIdx, faultEvents>>
      BY <3>1, <3>2 DEF Recorded
    <3>3. CASE RecoveryCalls
      <4>1. \A n \in {0, 1} :
              /\ faultTurns + n <= faultEvents =>
                   faultTurns + n <= faultEvents + 1
              /\ faultEvents + turn <= faultTurns + n + callIdx =>
                   /\ faultEvents + turn <= faultTurns + n + (callIdx + 1)
                   /\ (faultEvents + 1) + turn <= faultTurns + n + (callIdx + 1)
        BY <1>0
      <4> QED  BY <1>0, <3>1, <3>3, <4>1 DEF RecoveryCalls, Recorded
    <3> QED  BY <3>1, <3>2, <3>3
  <2> QED  BY <2>2, <2>3
<1>4. CASE UNCHANGED vars
  BY <1>4 DEF vars, loopVars, judgeVars, Recorded, PolicyCalls
<1> QED
  BY <1>1, <1>2, <1>3, <1>4 DEF Next, Ended

\* The turn records leave out no more of the episode's faults than there were calls
\* of recovery's own (loop.py: the record takes its fault from the policy's call,
\* fault_events from both).
THEOREM RecordsMissOnlyRecovery == Spec => []RecordsMissRecoveryFaultsOnly
<1>1. Init => Recorded
  <2> SUFFICES ASSUME Init PROVE Recorded
    OBVIOUS
  <2>1. faultEvents = 0 /\ faultTurns = 0 /\ callIdx = 0 /\ turn = 0 /\ pc = "observe"
        /\ verdict = "running"
    BY Zenon DEF Init
  <2>2. PolicyCalls = 0
    BY <2>1 DEF PolicyCalls
  <2> QED  BY <2>1, <2>2 DEF Recorded
<1>2. EpisodeInv /\ Recorded => RecordsMissRecoveryFaultsOnly
  <2> SUFFICES ASSUME EpisodeInv, Recorded, pc \in {"observe", "done"}
               PROVE  /\ faultTurns <= faultEvents
                      /\ faultEvents - faultTurns <= callIdx - PolicyCalls
    BY DEF RecordsMissRecoveryFaultsOnly
  <2>1. callIdx \in Nat /\ turn \in Nat /\ faultTurns \in Nat /\ faultEvents \in Nat
    BY DEF EpisodeInv, TypeOK, Charged
  <2>2. PolicyCalls \in Int
    BY <2>1 DEF PolicyCalls
  <2> QED  BY <2>1, <2>2 DEF Recorded
<1> QED
  BY <1>1, <1>2, EpisodeStarts, EpisodeStep, RecordedStep, PTL DEF Spec

-----------------------------------------------------------------------------
(***************************************************************************)
(* Overt faults never mislead.                                             *)
(***************************************************************************)

Overt == families \cap SilentFamilies = {}

\* What the policy has been told, or has concluded, is right as far as it goes.
Truthful ==
  /\ \A k \in 1 .. step : results[k].wrong = {}
  /\ response.wrong = {}
  /\ call.arg = "gold"
  /\ verdict = "final" => answer = "gold"

\* No silent fault is forgotten, and the response to a call with right arguments is
\* right unless one strikes it.
LEMMA OvertCallsAreTruthful ==
  ASSUME TypeOK, callIdx \in TurnKeys, TheEpisode \in Episodes, Overt',
         NEW c \in CallType, NEW draw, NEW nominal, NEW resp,
         ReportedCall(c, draw, nominal, resp)
  PROVE  Overt /\ (c.arg = "gold" => resp.wrong = {})
<1>1. /\ families' = families \cup FamiliesOf(Kept(c, draw, nominal))
      /\ Kept(c, draw, nominal) \in SUBSET Event /\ nominal \in Nominal(c)
      /\ resp \in Responses(c, nominal, Kept(c, draw, nominal))
  BY ProxyCallForms
<1>2. resp.wrong # {} =>
        c.arg # "gold" \/ FamiliesOf(Kept(c, draw, nominal)) \cap SilentFamilies # {}
  BY <1>1, ResponseForms
<1> QED
  BY <1>1, <1>2 DEF Overt

\* The policy's own steps are as truthful as what they go by.
LEMMA PolicyStaysTruthful ==
  ASSUME EpisodeInv, PolicyTurn, Truthful
  PROVE  Truthful'
<1>0. /\ step \in Nat /\ Len(results) = step /\ step <= Len(ThePlan) /\ task \in Tasks
      /\ results \in Seq(ResultType)
  BY TypeParts DEF EpisodeInv, ResultsFollowPlan, PolicyOK, LoopOK
<1>1. ASSUME NEW result, result.wrong = {}, RecordStep(result)
      PROVE  \A k \in 1 .. step' : results'[k].wrong = {}
  <2>1. step' = step + 1 /\ results' = Append(results, result)
    BY <1>1 DEF RecordStep
  <2>2. \A k \in 1 .. step + 1 :
          Append(results, result)[k] = IF k = step + 1 THEN result ELSE results[k]
    BY <1>0
  <2>3. \A k \in 1 .. step + 1 : Append(results, result)[k].wrong = {}
    <3>1. \A k \in 1 .. step + 1 : k = step + 1 \/ k \in 1 .. step
      BY <1>0
    <3> QED  BY <1>1, <2>2, <3>1 DEF Truthful
  <2> QED  BY <2>1, <2>3
<1>2. Hole.wrong = {} /\ ResultOf(response).wrong = {}
  BY DEF Hole, ResultOf, Truthful
<1>3. CASE FirstTurn \/ ObserveResult \/ ObserveError
  <2>1. UNCHANGED <<response, call, verdict, answer>>
    BY <1>3 DEF FirstTurn, ObserveResult, ObserveError, BeginTurn
  <2>2. UNCHANGED <<step, results>> \/ RecordStep(Hole) \/ RecordStep(ResultOf(response))
    BY <1>3 DEF FirstTurn, ObserveResult, ObserveError, policyVars
  <2>3. \A k \in 1 .. step' : results'[k].wrong = {}
    BY <1>1, <1>2, <2>2 DEF Truthful
  <2> QED  BY <2>1, <2>3 DEF Truthful
<1>4. CASE SkipStep
  <2>1. RecordStep(Hole) /\ UNCHANGED <<response, call, verdict, answer>>
    BY <1>4 DEF SkipStep, loopVars
  <2>2. \A k \in 1 .. step' : results'[k].wrong = {}
    BY <1>1, <1>2, <2>1
  <2> QED  BY <2>1, <2>2 DEF Truthful
<1>5. CASE EmitCall
  <2>1. /\ UNCHANGED <<step, results, response, verdict, answer>>
        /\ call'.arg = IF IsWrong THEN "wrong" ELSE "gold"
        /\ ~Done
    BY <1>5 DEF EmitCall, policyVars, CallOf
  <2>2. ~IsWrong
    <3>1. Source.step \in 0 .. step
      <4>1. step + 1 \in DOMAIN ThePlan
        BY <1>0, <2>1, PlanFacts DEF Done
      <4>2. ThePlan[step + 1].from.step \in 0 .. (step + 1) - 1
        BY <1>0, <4>1, PlanFacts
      <4> QED  BY <1>0, <4>2 DEF Source
    <3>2. CASE Source.step = 0
      BY <3>2 DEF IsWrong, NeedsResult
    <3>3. CASE Source.step # 0
      <4>1. Source.step \in 1 .. step
        BY <1>0, <3>1, <3>3
      <4> QED  BY <4>1 DEF IsWrong, Truthful
    <3> QED  BY <3>2, <3>3
  <2> QED  BY <2>1, <2>2 DEF Truthful
<1>6. CASE Answer
  <2>1. /\ UNCHANGED <<step, results, response, call>> /\ Done
        /\ answer' \in Answers /\ verdict' = IF answer' = "none" THEN "abstain" ELSE "final"
    BY <1>6 DEF Answer, policyVars
  <2>2. step = Len(ThePlan)
    BY <1>0, <2>1, PlanFacts DEF Done
  <2>3. \A r \in TaskShapes[task].answer : results[r[1]].wrong = {}
    <3>1. \A r \in TaskShapes[task].answer : r[1] \in DOMAIN ThePlan
      BY <1>0, PlanFacts DEF WellPlanned, ThePlan
    <3> QED  BY <1>0, <2>2, <3>1, PlanFacts DEF Truthful
  <2>4. answer' \in {"none", "gold"}
    BY <2>1, <2>3 DEF Answers
  <2> QED  BY <2>1, <2>4 DEF Truthful
<1>7. CASE OutOfTurns
  BY <1>7 DEF OutOfTurns, policyVars, Truthful
<1> QED
  BY <1>3, <1>4, <1>5, <1>6, <1>7 DEF PolicyTurn

\* What can be adapted in the place of a reading is right: a history that was asked
\* for under a name the reading's tool has dropped is refused.
LEMMA AdaptableIsRight ==
  ASSUME EpisodeInv, pc = "judge", Overt', call.arg = "gold",
         Operator \in Operators, Alternative(Operator, call.tool) # NoTool,
         NEW draw, NEW nominal, NEW resp, ReportedCall(Other, draw, nominal, resp),
         Adaptable(call, resp)
  PROVE  resp.wrong = {}
<1>1. /\ callIdx \in TurnKeys /\ TheEpisode \in Episodes /\ TypeOK
      /\ Other \in CallType /\ Other.tool = Alternative(Operator, call.tool)
  BY CallInHand, OtherIsACall DEF EpisodeInv
<1>2. /\ Other.arg = "gold" => resp.wrong = {}
      /\ nominal \in Nominal(Other) /\ Kept(Other, draw, nominal) \in SUBSET Event
      /\ resp \in Responses(Other, nominal, Kept(Other, draw, nominal))
  <2>1. Other.arg = "gold" => resp.wrong = {}
    BY <1>1, OvertCallsAreTruthful
  <2>2. /\ nominal \in Nominal(Other) /\ Kept(Other, draw, nominal) \in SUBSET Event
        /\ resp \in Responses(Other, nominal, Kept(Other, draw, nominal))
    BY <1>1, ProxyCallForms
  <2> QED  BY <2>1, <2>2
<1>3. nominal.kind = "ok"
  <2>1. resp.kind = "ok" => nominal.kind = "ok"
    BY <1>1, <1>2, ResponseForms
  <2> QED  BY <2>1 DEF Adaptable
<1>4. Other.tool = "sensor.history" /\ FirstParam("sensor.history") = "device_id"
  BY <1>1 DEF Alternative, FirstParam, Adaptable
<1>5. Other.arg = IF FirstParam(call.tool) \in call.renamed THEN "void" ELSE call.arg
  BY <1>1, <1>4 DEF Other, AlternativeCall, CallOf
<1>6. CASE Other.arg = "void"
  <2>1. nominal = Refused(Other.tool)
    BY <1>2, <1>4, <1>6 DEF Nominal
  <2> QED  BY <1>3, <2>1 DEF Refused, Ok
<1>7. CASE Other.arg = "gold"
  BY <1>2, <1>7
<1> QED
  BY <1>5, <1>6, <1>7

\* So are recovery's, as long as the faults are overt.
LEMMA RecoveryStaysTruthful ==
  ASSUME EpisodeInv, Recover, Overt => Truthful, Overt'
  PROVE  Truthful'
<1>0. /\ pc = "judge" /\ callIdx \in TurnKeys /\ TheEpisode \in Episodes /\ TypeOK
      /\ call \in CallType
  <2>1. pc = "judge"
    BY DEF Recover, NoRecovery, Stop, Replan, Recall, CallOther, AskController
  <2> QED
    BY <2>1, CallInHand DEF EpisodeInv
<1>1. ASSUME NEW resp, NEW why, EndTurn(resp, why), resp.wrong = {}, Truthful
      PROVE  Truthful'
  BY <1>1 DEF EndTurn, policyVars, Truthful
<1>2. CASE NoRecovery \/ Stop \/ Replan
  <2>1. Truthful
    BY <1>2 DEF NoRecovery, Stop, Replan, Overt
  <2>2. \E why : EndTurn(response, why)
    BY <1>2 DEF NoRecovery, Stop, Replan
  <2> QED  BY <1>1, <2>1, <2>2 DEF Truthful
<1>3. CASE Recall
  <2>1. Again \in CallType
    BY <1>0, AgainIsACall
  <2>2. PICK draw, nominal, resp :
          ReportedCall(Again, draw, nominal, resp) /\ EndTurn(resp, "")
    BY <1>3, Zenon DEF Recall, Again, Operator, ReportedCall, ReportRecoveryFault
  <2>3. Overt /\ (Again.arg = "gold" => resp.wrong = {})
    BY <1>0, <2>1, <2>2, OvertCallsAreTruthful
  <2>4. Again.arg = call.arg
    BY <1>0 DEF Again, Recalled, CallType
  <2> QED  BY <1>1, <2>2, <2>3, <2>4 DEF Truthful
<1>4. CASE CallOther
  <2>1. AskController /\ Operator \in Operators /\ Alternative(Operator, call.tool) # NoTool
    BY <1>4, AskedWithinBudget DEF CallOther, Operator
  <2>2. Other \in CallType /\ Other.tool = Alternative(Operator, call.tool)
    BY <1>0, <2>1, OtherIsACall
  <2>3. PICK draw, nominal, resp :
          /\ ReportedCall(Other, draw, nominal, resp)
          /\ IF Consulted(resp) /\ AdapterRaises(call, resp)
             THEN /\ pc' = "crashed"
                  /\ UNCHANGED <<policyVars, task, method, turn, call, event,
                                 response, seen, proposal, note, faultTurns,
                                 verdict, answer>>
             ELSE EndTurn(Reconciled(Operator, resp),
                          IF Operator = "verify" /\ Consulted(resp)
                          THEN "cross-check disagreed" ELSE "")
    BY <1>4, Zenon DEF CallOther, Other, Operator, Consulted, ReportedCall, ReportRecoveryFault
  <2>4. Overt
    BY <1>0, <2>2, <2>3, OvertCallsAreTruthful
  <2>5. Truthful
    BY <2>4
  <2>6. Adaptable(call, resp) => resp.wrong = {}
    BY <1>0, <2>1, <2>3, <2>5, AdaptableIsRight DEF Truthful
  <2>7. Reconciled(Operator, resp).wrong = {}
    BY <2>5, <2>6 DEF Reconciled, Adaptable, AdaptedReading, Ok, Truthful
  <2>8. CASE pc' = "crashed" /\ UNCHANGED <<policyVars, call, response, verdict, answer>>
    BY <2>5, <2>8 DEF Truthful, policyVars
  <2>9. CASE \E why : EndTurn(Reconciled(Operator, resp), why)
    BY <1>1, <2>5, <2>7, <2>9
  <2> QED  BY <2>3, <2>8, <2>9, Zenon
<1> QED
  BY <1>2, <1>3, <1>4 DEF Recover

\* Every step keeps what is right, until a silent fault strikes.
LEMMA TruthfulStep ==
  EpisodeInv /\ (Overt => Truthful) /\ [Next]_vars => (Overt' => Truthful')
<1> SUFFICES ASSUME EpisodeInv, Overt => Truthful, [Next]_vars, Overt' PROVE Truthful'
  OBVIOUS
<1>1. CASE PolicyTurn
  <2>1. UNCHANGED families
    BY <1>1 DEF PolicyTurn, FirstTurn, ObserveResult, ObserveError, BeginTurn, SkipStep, EmitCall,
                Answer, OutOfTurns, judgeVars, loopVars
  <2> QED  BY <1>1, <2>1, PolicyStaysTruthful DEF Overt
<1>2. CASE CallAndJudge
  <2>1. pc = "call" /\ UNCHANGED <<policyVars, call, verdict, answer>>
    BY <1>2 DEF CallAndJudge
  <2>2. call \in CallType /\ callIdx \in TurnKeys /\ TheEpisode \in Episodes
    BY <2>1, CallInHand
  <2>3. PICK draw, nominal, resp :
          ReportedCall(call, draw, nominal, resp) /\ response' = resp
    BY <1>2, Zenon DEF CallAndJudge, ReportedCall, ReportPolicyFault
  <2>4. Overt /\ (call.arg = "gold" => resp.wrong = {})
    BY <2>2, <2>3, OvertCallsAreTruthful DEF EpisodeInv
  <2> QED  BY <2>1, <2>3, <2>4 DEF Truthful, policyVars
<1>3. CASE Recover
  BY <1>3, RecoveryStaysTruthful
<1>4. CASE UNCHANGED vars
  BY <1>4 DEF vars, loopVars, policyVars, Overt, Truthful
<1> QED
  BY <1>1, <1>2, <1>3, <1>4 DEF Next, Ended

\* It starts so.
LEMMA TruthfulStarts == Init => Truthful
<1> SUFFICES ASSUME Init PROVE Truthful
  OBVIOUS
<1>1. step = 0 /\ response = Ok(NoTool) /\ call = CallOf(NoTool, {}, "gold", FALSE)
      /\ verdict = "running"
  BY Zenon DEF Init
<1> QED  BY <1>1 DEF Truthful, Ok, CallOf

\* A confident wrong answer is the work of a silent fault: overt ones, however many
\* and under whatever recovery, leave the answer right or missing (policy.py,
\* _derive_or_abstain; loop.py, _reconcile and its adapter).
THEOREM OvertFaultsDoNotMislead == Spec => []OvertFaultsNeverMislead
<1>1. (Overt => Truthful) => OvertFaultsNeverMislead
  BY DEF Overt, Truthful, OvertFaultsNeverMislead
<1> QED
  BY <1>1, EpisodeStarts, TruthfulStarts, EpisodeStep, TruthfulStep, PTL DEF Spec

-----------------------------------------------------------------------------
(***************************************************************************)
(* The policy gets to answer.                                              *)
(***************************************************************************)

\* Turns that as many steps can take.
TurnsFor(steps) == IF steps = 0 THEN 0
                   ELSE IF steps = 1 THEN MaxRetries + 1 ELSE (MaxRetries + 1) * 2

\* Turns are taken by the steps that are over and by the retries of the one in hand.
Spared ==
  /\ turn <= TurnsFor(step) + retries + 1
  /\ EnoughTurns => verdict # "out of turns"

\* A step that is over has taken no more than its share.
LEMMA TurnsAddUp ==
  ASSUME NEW s \in {0, 1}, NEW r \in 0 .. MaxRetries, NEW t \in Nat,
         t <= TurnsFor(s) + r + 1
  PROVE  /\ t + 1 <= TurnsFor(s) + (r + 1) + 1
         /\ t + 1 <= TurnsFor(s + 1) + 0 + 1
         /\ t <= TurnsFor(s + 1) + 0 + 1
         /\ t <= (MaxRetries + 1) * 2
<1>1. CASE s = 0
  BY <1>1, LoopAssumption DEF TurnsFor
<1>2. CASE s = 1
  BY <1>2, LoopAssumption DEF TurnsFor
<1> QED
  BY <1>1, <1>2

\* Only the policy takes turns, and it takes one for each observation.
LEMMA SparedStep == EpisodeInv /\ Spared /\ [Next]_vars => Spared'
<1> SUFFICES ASSUME EpisodeInv, Spared, [Next]_vars PROVE Spared'
  OBVIOUS
<1>0. /\ turn \in Nat /\ step \in Nat /\ retries \in 0 .. MaxRetries /\ MaxRetries \in Nat
      /\ step <= Len(ThePlan) /\ Len(ThePlan) \in {1, 2} /\ Charged
      /\ turn <= TurnsFor(step) + retries + 1
  BY PlanFacts, LoopAssumption DEF EpisodeInv, TypeOK, Charged, ResultsFollowPlan, Spared
<1>1. ASSUME UNCHANGED <<turn, step, retries, verdict>>
      PROVE  Spared'
  BY <1>1 DEF Spared, TurnsFor
<1>2. CASE PolicyTurn
  <2>1. ASSUME step < Len(ThePlan)
        PROVE  /\ step \in {0, 1}
               /\ turn + 1 <= TurnsFor(step) + (retries + 1) + 1
               /\ turn + 1 <= TurnsFor(step + 1) + 0 + 1
               /\ turn <= TurnsFor(step + 1) + 0 + 1
               /\ turn <= (MaxRetries + 1) * 2
    <3>1. step \in {0, 1}
      <4>1. CASE Len(ThePlan) = 1
        BY <1>0, <2>1, <4>1
      <4>2. CASE Len(ThePlan) = 2
        BY <1>0, <2>1, <4>2
      <4> QED  BY <1>0, <4>1, <4>2
    <3> QED  BY <1>0, <3>1, TurnsAddUp
  <2>2. CASE FirstTurn
    <3>1. turn' = 1 /\ UNCHANGED <<step, retries, verdict>>
      BY <2>2 DEF FirstTurn, BeginTurn, policyVars
    <3>2. 1 <= TurnsFor(step) + retries + 1
      BY <1>0 DEF TurnsFor
    <3> QED  BY <3>1, <3>2 DEF Spared, TurnsFor
  <2>3. CASE ObserveResult \/ ObserveError
    <3>1. step < Len(ThePlan)
      BY <2>3 DEF ObserveResult, ObserveError, BeginTurn, EpisodeInv, OnPlan, Called
    <3>2. turn' = turn + 1 /\ verdict' = verdict
      BY <2>3 DEF ObserveResult, ObserveError, BeginTurn
    <3>3. CASE step' = step + 1 /\ retries' = 0
      BY <2>1, <3>1, <3>2, <3>3 DEF Spared, TurnsFor
    <3>4. CASE step' = step /\ retries' = retries + 1
      BY <2>1, <3>1, <3>2, <3>4 DEF Spared, TurnsFor
    <3> QED
      BY <2>3, <3>3, <3>4 DEF ObserveResult, ObserveError, RecordStep
  <2>4. CASE SkipStep
    <3>1. step < Len(ThePlan)
      BY <1>0, <2>4 DEF SkipStep, Done
    <3>2. UNCHANGED <<turn, verdict>> /\ step' = step + 1 /\ retries' = 0
      BY <2>4 DEF SkipStep, loopVars, RecordStep
    <3> QED  BY <2>1, <3>1, <3>2 DEF Spared, TurnsFor
  <2>5. CASE EmitCall
    BY <1>1, <2>5 DEF EmitCall, policyVars
  <2>6. CASE Answer
    <3>1. UNCHANGED <<turn, step, retries>> /\ verdict' \in {"abstain", "final"}
      BY <2>6 DEF Answer, policyVars
    <3> QED  BY <1>0, <3>1 DEF Spared, TurnsFor
  <2>7. CASE OutOfTurns
    <3>1. UNCHANGED <<turn, step, retries>> /\ pc = "observe" /\ turn = MaxTurns
      BY <2>7 DEF OutOfTurns, policyVars
    <3>2. ~EnoughTurns
      <4>1. CASE turn = 0
        BY <1>0, <3>1, <4>1 DEF EnoughTurns
      <4>2. CASE turn > 0
        <5>1. step < Len(ThePlan)
          BY <3>1, <4>2 DEF EpisodeInv, OnPlan, Called
        <5> QED  BY <1>0, <2>1, <3>1, <5>1 DEF EnoughTurns
      <4> QED  BY <1>0, <4>1, <4>2
    <3> QED  BY <1>0, <3>1, <3>2 DEF Spared, TurnsFor, EnoughTurns
  <2> QED
    BY <1>2, <2>2, <2>3, <2>4, <2>5, <2>6, <2>7 DEF PolicyTurn
<1>3. CASE CallAndJudge
  BY <1>1, <1>3 DEF CallAndJudge, policyVars
<1>4. CASE Recover
  <2>1. UNCHANGED <<policyVars, turn, verdict>>
    BY <1>4 DEF Recover, NoRecovery, Stop, Replan, Recall, CallOther, EndTurn
  <2> QED  BY <1>1, <2>1 DEF policyVars
<1>5. CASE UNCHANGED vars
  BY <1>1, <1>5 DEF vars, loopVars, policyVars
<1> QED
  BY <1>2, <1>3, <1>4, <1>5 DEF Next, Ended

\* None has been taken at the start.
LEMMA SparedStarts == Init => Spared
<1> SUFFICES ASSUME Init PROVE Spared
  OBVIOUS
<1>1. turn = 0 /\ step = 0 /\ retries = 0 /\ verdict = "running"
  BY Zenon DEF Init
<1> QED  BY <1>1 DEF Spared, TurnsFor

\* With turns for every retry of every step and one more, no episode runs out of
\* them: recovery, however often it acts, takes none of the policy's (loop.py: the
\* loop counts next_action, not the calls of _recover).
THEOREM PolicyAnswersInTime == Spec => []PolicyGetsToAnswer
<1>1. Spared => PolicyGetsToAnswer
  BY DEF Spared, PolicyGetsToAnswer
<1> QED
  BY <1>1, EpisodeStarts, SparedStarts, EpisodeStep, SparedStep, PTL DEF Spec

-----------------------------------------------------------------------------
(***************************************************************************)
(* Faults that are outlasted.                                              *)
(***************************************************************************)

\* A call with right arguments, that spells a parameter by its new name only when
\* the tool has drifted.
SoundCall(c) ==
  /\ c.arg = "gold" /\ c.narrow = FALSE
  /\ c.renamed = {} \/ (c.renamed = {FirstParam(c.tool)} /\ c.tool \in drift)

\* What a family that leaves results alone makes of a result: the same, or an
\* error, whose hint is a drift's.
LEMMA HarmlessForms ==
  ASSUME NEW tool, NEW f \in Family \ ResultFamilies, NEW given \in Faulted(tool, Ok(tool), f)
  PROVE  /\ given.kind = "ok" => given = Ok(tool)
         /\ f # "P3" => given.hint = NoParam
         /\ f = "P3" => /\ given.kind = "error"
                        /\ given.hint = IF FirstParam(tool) = NoParam THEN "param"
                                           ELSE FirstParam(tool)
<1>0. f \in {"T1", "T2", "T3", "T4", "P1", "P2", "P3", "P4", "R2", "R3"}
  BY DEF Family, TransportFamilies, ProtocolFamilies, SemanticFamilies, ResourceFamilies,
         ResultFamilies
<1>1. CASE f \in {"T1", "T2", "T3"}
  BY <1>1 DEF Faulted, Refused, Ok
<1>2. CASE f \in {"T4", "P2"}
  BY <1>2 DEF Faulted, Refused, Ok
<1>3. CASE f \in {"P1", "P4", "R3"}
  BY <1>3 DEF Faulted, Refused, Ok
<1>4. CASE f = "P3"
  BY <1>4 DEF Faulted, Refused, Ok
<1>5. CASE f = "R2"
  BY <1>5 DEF Faulted, Ok
<1> QED
  BY <1>0, <1>1, <1>2, <1>3, <1>4, <1>5

\* A sound call is served, unless a fault that leaves results alone strikes it; a
\* drift does not strike one that has adapted.
LEMMA SoundCallsAreServed ==
  ASSUME TypeOK, callIdx \in TurnKeys, TheEpisode \in Episodes,
         families' \cap ResultFamilies = {},
         NEW c \in CallType, SoundCall(c), FirstParam(c.tool) # NoParam,
         NEW draw, NEW nominal, NEW resp, ReportedCall(c, draw, nominal, resp)
  PROVE  /\ resp.kind = "ok" => resp = Ok(c.tool)
         /\ resp.kind # "ok" => fired' = fired + 1
         /\ resp.hint # NoParam => resp.hint = FirstParam(c.tool) /\ c.tool \in drift'
         /\ resp.kind # "ok" /\ families' \subseteq {"P3"} =>
              resp.hint # NoParam /\ c.renamed = {}
<1> DEFINE kept == Kept(c, draw, nominal)
<1>1. /\ kept \in SUBSET Event /\ nominal \in Nominal(c) /\ resp \in Responses(c, nominal, kept)
      /\ kept = {} \/ Cardinality(kept) = 1
      /\ fired' = fired + Cardinality(kept) /\ families' = families \cup FamiliesOf(kept)
  BY ProxyCallForms
<1>2. kept = {} \/ \E e \in Event : kept = {e} /\ ~(e.family = "P3" /\ Adapted(c))
  <2>1. Decide(TheEpisode, callIdx, c.tool, draw) /\ SchedTypeOK
    BY DEF ReportedCall, ThroughProxy, CallTool, TypeOK, ProxyTypeOK
  <2> QED  BY <2>1, KeptForms DEF Kept
<1>3. nominal = Ok(c.tool)
  <2>1. (IF Adapted(c) THEN c.renamed \ {FirstParam(c.tool)} ELSE c.renamed) = {}
    BY DEF SoundCall, Adapted
  <2>2. Nominal(c) = {Ok(c.tool)}
    BY <2>1 DEF SoundCall, Nominal
  <2> QED  BY <1>1, <2>2
<1>4. drift' = DriftAfter(c, kept)
  BY DEF ReportedCall, ThroughProxy, CallTool, Kept
<1> HIDE DEF kept
<1>5. CASE kept = {}
  <2>1. resp = Ok(c.tool)
    BY <1>1, <1>3, <1>5 DEF Responses
  <2> QED  BY <2>1 DEF Ok
<1>6. CASE \E e \in Event : kept = {e} /\ ~(e.family = "P3" /\ Adapted(c))
  <2>1. PICK e \in Event : kept = {e} /\ ~(e.family = "P3" /\ Adapted(c))
    BY <1>6
  <2>2. FamiliesOf(kept) = {e.family}
    BY <2>1 DEF FamiliesOf
  <2>3. e.family \in Family \ ResultFamilies /\ e.family \in families'
    BY <1>1, <2>2, ConfigAssumption DEF Event, Configured
  <2>4. resp \in Faulted(c.tool, Ok(c.tool), e.family)
    <3>1. kept # {}
      BY <2>1
    <3> QED  BY <1>1, <1>3, <2>2, <3>1 DEF Responses
  <2>5. fired' = fired + 1
    <3>1. kept # {}
      BY <2>1
    <3> QED  BY <1>1, <3>1
  <2>6. e.family = "P3" => c.tool \in drift'
    BY <1>4, <2>2 DEF DriftAfter
  <2>7. e.family = "P3" => c.renamed = {}
    BY <2>1 DEF SoundCall, Adapted
  <2>8. /\ resp.kind = "ok" => resp = Ok(c.tool)
        /\ e.family # "P3" => resp.hint = NoParam
        /\ e.family = "P3" => resp.kind = "error" /\ resp.hint = FirstParam(c.tool)
    BY <2>3, <2>4, HarmlessForms
  <2> QED  BY <2>3, <2>5, <2>6, <2>7, <2>8
<1> QED
  BY <1>2, <1>5, <1>6

\* Faults that the policy's retries, or the drifts' own hints, are a match for.
Survivable ==
  /\ families \cap ResultFamilies = {} /\ method # "guardlite"
  /\ (families \subseteq {"P3"} /\ MaxRetries > 0) \/ fired <= MaxRetries

NextTool == ThePlan[step + 1].tool

\* What the policy has is whole and right; its rename is the next tool's; what it
\* calls is sound, and is answered, or failed by a fault not yet retried; retries
\* and turns are paid for by faults, or by the two turns a drift costs a step.
Whole    == \A k \in 1 .. step : results[k].lost = {} /\ results[k].wrong = {}
Helped   == rename # NoParam =>
              step < Len(ThePlan) /\ rename = FirstParam(NextTool) /\ NextTool \in drift
InHand   == pc \in {"call", "judge"} =>
              call.arg = "gold" /\ call.narrow = FALSE /\ call.renamed = {rename} \ {NoParam}
Answered == Called =>
              /\ response.kind = "ok" => response = Ok(call.tool)
              /\ response.kind # "ok" =>
                   /\ retries < fired /\ turn <= step + fired
                   /\ families \subseteq {"P3"} => response.hint # NoParam /\ rename = NoParam
              /\ response.hint # NoParam =>
                   response.hint = FirstParam(call.tool) /\ call.tool \in drift
Afforded == /\ retries <= fired /\ turn <= step + fired + 1
            /\ families \subseteq {"P3"} =>
                 /\ retries > 0 => rename # NoParam
                 /\ retries <= 1 /\ turn <= 2 * step + retries + 1
Claimed  == verdict # "abstain" /\ (verdict = "final" => answer = "gold")

Sound == /\ Whole /\ Helped /\ InHand /\ Answered /\ Afforded /\ Claimed
         /\ pc = "judge" => proposal # "decompose"

\* The numbers and the tools of a sound episode.
LEMMA SoundFacts ==
  ASSUME EpisodeInv
  PROVE  /\ fired \in Nat /\ retries \in Nat /\ turn \in Nat /\ step \in Nat
         /\ Len(results) = step /\ step <= Len(ThePlan) /\ Len(ThePlan) \in {1, 2}
         /\ \A i \in 1 .. Len(ThePlan) : /\ FirstParam(ThePlan[i].tool) # NoParam
                                         /\ ThePlan[i].tool \in AllTools
         /\ Called \/ pc = "call" => step < Len(ThePlan) /\ call.tool = NextTool
<1>1. task \in Tasks /\ ProxyTypeOK /\ step \in Nat /\ retries \in 0 .. MaxRetries
  BY DEF EpisodeInv, TypeOK
<1>2. fired \in Nat
  BY <1>1 DEF ProxyTypeOK
<1>3. \A i \in 1 .. Len(ThePlan) : /\ FirstParam(ThePlan[i].tool) # NoParam
                                   /\ ThePlan[i].tool \in AllTools
  BY <1>1, PlanFacts DEF PlanTool
<1>4. retries \in Nat /\ turn \in Nat /\ Len(results) = step /\ step <= Len(ThePlan)
  <2>1. retries \in Nat
    BY <1>1, LoopAssumption
  <2>2. turn \in Nat
    BY DEF EpisodeInv, Charged
  <2>3. Len(results) = step /\ step <= Len(ThePlan)
    BY DEF EpisodeInv, ResultsFollowPlan
  <2> QED  BY <2>1, <2>2, <2>3
<1>5. Len(ThePlan) \in {1, 2}
  BY <1>1, PlanFacts
<1>6. Called \/ pc = "call" => step < Len(ThePlan) /\ call.tool = NextTool
  BY DEF EpisodeInv, OnPlan, NextTool
<1> QED
  BY <1>1, <1>2, <1>3, <1>4, <1>5, <1>6

\* An error that is survivable is retried.
LEMMA SoundErrorsAreRetried ==
  ASSUME EpisodeInv, Survivable, Sound, Called, response.kind # "ok"
  PROVE  retries < MaxRetries
<1>1. fired \in Nat /\ retries \in Nat /\ MaxRetries \in Nat
  BY SoundFacts, LoopAssumption
<1>2. CASE families \subseteq {"P3"} /\ MaxRetries > 0
  <2>1. retries <= 0
    BY <1>1, <1>2 DEF Sound, Answered, Afforded
  <2> QED  BY <1>1, <1>2, <2>1
<1>3. CASE fired <= MaxRetries
  <2>1. retries < fired
    BY DEF Sound, Answered
  <2> QED  BY <1>1, <1>3, <2>1
<1> QED
  BY <1>2, <1>3 DEF Survivable

\* A turn that begins has something to go by.
LEMMA TurnStaysSound ==
  ASSUME EpisodeInv, Survivable, Sound, FirstTurn \/ ObserveResult \/ ObserveError
  PROVE  Sound'
<1>0. /\ fired \in Nat /\ retries \in Nat /\ turn \in Nat /\ step \in Nat
      /\ Len(results) = step /\ results \in Seq(ResultType)
      /\ Called => step < Len(ThePlan) /\ call.tool = NextTool
  BY SoundFacts, TypeParts DEF EpisodeInv, PolicyOK
<1>1. /\ pc = "observe" /\ pc' = "decide" /\ turn' = turn + 1 /\ ThePlan' = ThePlan
      /\ UNCHANGED <<fired, drift, families, verdict, answer>>
  BY DEF FirstTurn, ObserveResult, ObserveError, BeginTurn, ThePlan, proxyVars
<1>2. InHand' /\ Answered' /\ Claimed' /\ pc' # "judge"
  BY <1>1 DEF Sound, InHand, Answered, Called, Claimed
<1>3. CASE FirstTurn
  <2>1. turn' = 1 /\ UNCHANGED <<step, results, retries, rename>>
    BY <1>3 DEF FirstTurn, BeginTurn, policyVars
  <2>2. Whole' /\ Helped'
    BY <1>1, <2>1 DEF Sound, Whole, Helped, NextTool
  <2>3. Afforded'
    BY <1>0, <1>1, <2>1 DEF Sound, Afforded
  <2> QED  BY <1>2, <2>2, <2>3 DEF Sound
<1>4. CASE ObserveResult
  <2>1. Called /\ response = Ok(call.tool)
    BY <1>4 DEF ObserveResult, BeginTurn, Called, Sound, Answered
  <2>2. /\ results' = Append(results, ResultOf(response)) /\ step' = step + 1 /\ retries' = 0
        /\ rename' = NoParam
    BY <1>4 DEF ObserveResult, RecordStep
  <2>3. Whole'
    <3>1. ResultOf(response).lost = {} /\ ResultOf(response).wrong = {}
      BY <2>1 DEF ResultOf, Ok
    <3>2. \A k \in 1 .. step + 1 :
            Append(results, ResultOf(response))[k] =
              IF k = step + 1 THEN ResultOf(response) ELSE results[k]
      BY <1>0
    <3>3. \A k \in 1 .. step + 1 : k = step + 1 \/ k \in 1 .. step
      BY <1>0
    <3>4. \A k \in 1 .. step + 1 : /\ Append(results, ResultOf(response))[k].lost = {}
                                   /\ Append(results, ResultOf(response))[k].wrong = {}
      BY <3>1, <3>2, <3>3 DEF Sound, Whole
    <3> QED  BY <2>2, <3>4 DEF Whole
  <2>4. Helped'
    BY <2>2 DEF Helped
  <2>5. Afforded'
    <3>1. /\ 0 <= fired /\ turn + 1 <= (step + 1) + fired + 1
          /\ families \subseteq {"P3"} => turn + 1 <= 2 * (step + 1) + 0 + 1
      BY <1>0 DEF Sound, Afforded
    <3> QED  BY <1>1, <2>2, <3>1 DEF Afforded
  <2> QED  BY <1>2, <2>3, <2>4, <2>5 DEF Sound
<1>5. CASE ObserveError
  <2>1. Called /\ response.kind # "ok"
    BY <1>5 DEF ObserveError, BeginTurn, Called
  <2>2. /\ UNCHANGED <<step, results>> /\ retries' = retries + 1
        /\ rename' = IF response.hint # NoParam THEN response.hint ELSE rename
    BY <1>5, <2>1, SoundErrorsAreRetried DEF ObserveError
  <2>3. Whole' /\ Helped'
    BY <1>0, <1>1, <2>1, <2>2 DEF Sound, Whole, Helped, Answered, NextTool
  <2>4. Afforded'
    <3>1. retries + 1 <= fired /\ turn + 1 <= step + fired + 1
      BY <1>0, <2>1 DEF Sound, Answered
    <3>2. ASSUME families \subseteq {"P3"}
          PROVE  rename' # NoParam /\ retries = 0 /\ turn + 1 <= 2 * step + (retries + 1) + 1
      BY <1>0, <2>1, <2>2, <3>2 DEF Sound, Answered, Afforded
    <3>3. families \subseteq {"P3"} => retries + 1 <= 1
      BY <3>2
    <3> QED  BY <1>1, <2>2, <3>1, <3>2, <3>3 DEF Afforded
  <2> QED  BY <1>2, <2>3, <2>4 DEF Sound
<1> QED
  BY <1>3, <1>4, <1>5

\* The policy decides on whole and right results only.
LEMMA DecisionsStaySound ==
  ASSUME EpisodeInv, Sound, SkipStep \/ EmitCall \/ Answer \/ OutOfTurns
  PROVE  Sound' /\ ~SkipStep
<1>0. /\ fired \in Nat /\ retries \in Nat /\ turn \in Nat /\ step \in Nat /\ task \in Tasks
      /\ Len(results) = step /\ Len(ThePlan) \in {1, 2} /\ step <= Len(ThePlan)
  BY SoundFacts DEF EpisodeInv, TypeOK
<1>1. ASSUME ~Done
      PROVE  ~Missing /\ ~IsWrong
  <2>1. Source.step \in 0 .. step
    <3>1. step + 1 \in DOMAIN ThePlan
      BY <1>0, <1>1, PlanFacts DEF Done
    <3>2. ThePlan[step + 1].from.step \in 0 .. (step + 1) - 1
      BY <1>0, <3>1, PlanFacts
    <3> QED  BY <1>0, <3>2 DEF Source
  <2>2. CASE Source.step = 0
    BY <2>2 DEF Missing, IsWrong, NeedsResult
  <2>3. CASE Source.step # 0
    <3>1. Source.step \in 1 .. step
      BY <1>0, <2>1, <2>3
    <3> QED  BY <3>1 DEF Missing, IsWrong, Sound, Whole
  <2> QED  BY <2>2, <2>3
<1>2. ~SkipStep
  BY <1>1 DEF SkipStep
<1>3. ASSUME UNCHANGED <<proxyVars, policyVars, task, families, turn>>, InHand', Answered', Claimed',
             pc' # "judge"
      PROVE  Sound'
  <2>1. Whole' /\ Helped'
    BY <1>3 DEF Sound, Whole, Helped, NextTool, ThePlan, proxyVars, policyVars
  <2>2. Afforded'
    BY <1>3 DEF Sound, Afforded, proxyVars, policyVars
  <2> QED  BY <1>3, <2>1, <2>2 DEF Sound
<1>4. CASE EmitCall
  <2>1. /\ pc' = "call" /\ ~Done
        /\ call' = CallOf(NextTool, {rename} \cap ParamsOf(NextTool),
                          IF IsWrong THEN "wrong" ELSE "gold", FALSE)
        /\ UNCHANGED <<proxyVars, policyVars, task, families, turn, verdict, answer>>
    BY <1>4 DEF EmitCall, NextTool
  <2>2. {rename} \cap ParamsOf(NextTool) = {rename} \ {NoParam}
    <3>1. NextTool \in AllTools
      <4>1. step + 1 \in 1 .. Len(ThePlan)
        BY <1>0, <2>1 DEF Done
      <4> QED  BY <4>1, SoundFacts DEF NextTool
    <3>2. CASE rename = NoParam
      <4>1. NoParam \notin ParamsOf(NextTool)
        BY <3>1, FirstParamOfTool DEF Params
      <4> QED  BY <3>2, <4>1
    <3>3. CASE rename # NoParam
      <4>1. rename \in ParamsOf(NextTool)
        BY <3>1, <3>3, FirstParamOfTool DEF Sound, Helped
      <4> QED  BY <3>3, <4>1
    <3> QED  BY <3>2, <3>3
  <2>3. /\ call'.arg = "gold" /\ call'.narrow = FALSE /\ call'.renamed = {rename} \ {NoParam}
        /\ rename' = rename
    BY <1>1, <2>1, <2>2 DEF CallOf, policyVars
  <2>4. InHand' /\ Answered' /\ Claimed'
    BY <2>1, <2>3 DEF InHand, Answered, Called, Claimed, Sound
  <2> QED  BY <1>2, <1>3, <2>1, <2>4
<1>5. CASE Answer
  <2>1. /\ pc' = "done" /\ UNCHANGED <<proxyVars, policyVars, task, families, turn>> /\ Done
        /\ answer' \in Answers /\ verdict' = IF answer' = "none" THEN "abstain" ELSE "final"
    BY <1>5 DEF Answer
  <2>2. step = Len(ThePlan)
    BY <1>0, <2>1 DEF Done
  <2>3. \A r \in TaskShapes[task].answer : results[r[1]].lost = {} /\ results[r[1]].wrong = {}
    <3>1. \A r \in TaskShapes[task].answer : r[1] \in DOMAIN ThePlan
      BY <1>0, PlanFacts DEF WellPlanned, ThePlan
    <3> QED  BY <1>0, <2>2, <3>1, PlanFacts DEF Sound, Whole
  <2>4. answer' = "gold"
    BY <2>1, <2>3 DEF Answers
  <2>5. InHand' /\ Answered' /\ Claimed'
    BY <2>1, <2>4 DEF InHand, Answered, Called, Claimed
  <2> QED  BY <1>2, <1>3, <2>1, <2>5
<1>6. CASE OutOfTurns
  <2>1. /\ pc' = "done" /\ verdict' = "out of turns"
        /\ UNCHANGED <<proxyVars, policyVars, task, families, turn>>
    BY <1>6 DEF OutOfTurns
  <2>2. InHand' /\ Answered' /\ Claimed'
    BY <2>1 DEF InHand, Answered, Called, Claimed
  <2> QED  BY <1>2, <1>3, <2>1, <2>2
<1> QED
  BY <1>2, <1>4, <1>5, <1>6

\* A call through the proxy only adds: faults, families, drifts.
LEMMA ProxyGrows ==
  ASSUME TypeOK, callIdx \in TurnKeys, TheEpisode \in Episodes,
         NEW c \in CallType, NEW draw, NEW nominal, NEW resp,
         ReportedCall(c, draw, nominal, resp)
  PROVE  /\ fired <= fired' /\ fired' \in Nat
         /\ drift \subseteq drift' /\ families \subseteq families'
         /\ FamiliesOf(Kept(c, draw, nominal)) \subseteq families'
         /\ fired' = 0 => /\ families' = families /\ Kept(c, draw, nominal) = {}
                          /\ resp = nominal
<1>1. /\ Cardinality(Kept(c, draw, nominal)) \in {0, 1}
      /\ fired' = fired + Cardinality(Kept(c, draw, nominal))
      /\ families' = families \cup FamiliesOf(Kept(c, draw, nominal))
  BY ProxyCallForms
<1>2. fired \in Nat
  <2>1. ProxyTypeOK
    BY DEF TypeOK
  <2> QED  BY <2>1 DEF ProxyTypeOK
<1>3. drift \subseteq drift'
  BY DEF ReportedCall, ThroughProxy, CallTool, DriftAfter
<1>4. fired <= fired' /\ fired' \in Nat
  <2>1. fired' = fired \/ fired' = fired + 1
    BY <1>1, <1>2
  <2> QED  BY <1>2, <2>1
<1>5. ASSUME fired' = 0
      PROVE  /\ families' = families /\ Kept(c, draw, nominal) = {}
             /\ resp = nominal
  <2>1. Kept(c, draw, nominal) = {}
    <3>1. Cardinality(Kept(c, draw, nominal)) # 1
      BY <1>1, <1>2, <1>5
    <3> QED  BY <3>1, ProxyCallForms
  <2>2. resp \in Responses(c, nominal, Kept(c, draw, nominal))
    BY ProxyCallForms
  <2> QED  BY <1>1, <2>1, <2>2 DEF FamiliesOf, Responses
<1> QED
  BY <1>1, <1>3, <1>4, <1>5

\* More faults pay for as much.
LEMMA MoreFaultsPay ==
  ASSUME NEW f \in Nat, NEW g \in Nat, f <= g, NEW r \in Nat, NEW t \in Nat, NEW s \in Nat
  PROVE  /\ r <= f => r <= g
         /\ r < f => r < g
         /\ t <= s + f + 1 => t <= s + g + 1
         /\ t <= s + f => t <= s + g
OBVIOUS

\* What was afforded with few faults is afforded with more.
LEMMA AffordedStays ==
  ASSUME Afforded, fired \in Nat, fired' \in Nat, fired <= fired', families \subseteq families',
         retries \in Nat, turn \in Nat, step \in Nat,
         UNCHANGED <<step, retries, rename, turn>>
  PROVE  Afforded'
<1>1. retries <= fired' /\ turn <= step + fired' + 1
  BY MoreFaultsPay, Zenon DEF Afforded
<1>2. families' \subseteq {"P3"} =>
        /\ retries > 0 => rename # NoParam
        /\ retries <= 1 /\ turn <= 2 * step + retries + 1
  BY DEF Afforded
<1> QED
  BY <1>1, <1>2 DEF Afforded

\* What was answered stays so.
LEMMA AnsweredStays ==
  ASSUME Answered, Called, fired \in Nat, fired' \in Nat, fired <= fired',
         families \subseteq families', drift \subseteq drift',
         retries \in Nat, turn \in Nat, step \in Nat,
         UNCHANGED <<policyVars, turn, call, response>>
  PROVE  Answered'
<1>1. UNCHANGED <<step, retries, rename>>
  BY DEF policyVars
<1>2. ASSUME response.kind # "ok"
      PROVE  /\ retries < fired' /\ turn <= step + fired'
             /\ families' \subseteq {"P3"} => response.hint # NoParam /\ rename = NoParam
  <2>1. retries < fired /\ turn <= step + fired
    BY <1>2 DEF Answered
  <2>2. retries < fired' /\ turn <= step + fired'
    BY <2>1, MoreFaultsPay, Zenon
  <2>3. families' \subseteq {"P3"} => response.hint # NoParam /\ rename = NoParam
    BY <1>2 DEF Answered
  <2> QED  BY <2>2, <2>3
<1> QED
  BY <1>1, <1>2 DEF Answered

\* A narrower call is granted to those who ask for it.
LEMMA GrantedDecompose ==
  ASSUME NEW m, NEW p, Granted(m, p) = "decompose" PROVE p = "decompose"
BY DEF Granted, Asked

\* The same call again is as sound, and repaired by a hint it has adapted.
LEMMA SoundAgain ==
  ASSUME Sound, pc = "judge", call \in CallType, call.tool = NextTool,
         FirstParam(call.tool) # NoParam, Again.tool = call.tool
  PROVE  SoundCall(Again) /\ (Again.renamed = {} => rename = NoParam)
<1>1. /\ call.arg = "gold" /\ call.narrow = FALSE /\ call.renamed = {rename} \ {NoParam}
      /\ rename # NoParam => rename = FirstParam(call.tool) /\ call.tool \in drift
      /\ response.hint # NoParam => response.hint = FirstParam(call.tool) /\ call.tool \in drift
  BY DEF Sound, InHand, Helped, Answered, Called
<1>2. Operator # "decompose"
  BY GrantedDecompose DEF Sound, Operator
<1>3. CASE Operator = "reparameterize" /\ response.hint \in ParamsOf(call.tool)
  <2>1. response.hint # NoParam
    BY <1>3, FirstParamOfTool, ToolsAssumption DEF Params, CallType
  <2>2. Again = [call EXCEPT !.renamed = @ \cup {response.hint}]
    BY <1>3, Zenon DEF Again, Recalled
  <2>3. /\ Again.arg = call.arg /\ Again.narrow = call.narrow
        /\ Again.renamed = call.renamed \cup {response.hint}
    BY <2>2 DEF CallType
  <2> QED  BY <1>1, <2>1, <2>3 DEF SoundCall
<1>4. CASE ~(Operator = "reparameterize" /\ response.hint \in ParamsOf(call.tool))
  <2>1. Again = call
    BY <1>2, <1>4 DEF Again, Recalled
  <2> QED  BY <1>1, <2>1 DEF SoundCall
<1> QED
  BY <1>3, <1>4

\* The policy's call stays sound, whatever the detector makes of its response.
LEMMA CallStaysSound ==
  ASSUME EpisodeInv, Sound, CallAndJudge, families' \cap ResultFamilies = {},
         method # "guardlite"
  PROVE  Sound'
<1>0. /\ fired \in Nat /\ retries \in Nat /\ turn \in Nat /\ step \in Nat /\ pc = "call" /\ TypeOK
      /\ step < Len(ThePlan) /\ call.tool = NextTool /\ Len(ThePlan) \in {1, 2}
  BY SoundFacts DEF EpisodeInv, CallAndJudge
<1>1. FirstParam(call.tool) # NoParam
  <2>1. step + 1 \in 1 .. Len(ThePlan)
    BY <1>0
  <2> QED  BY <1>0, <2>1, SoundFacts DEF NextTool
<1>2. PICK draw, nominal, resp :
        /\ ReportedCall(call, draw, nominal, resp) /\ response' = resp
        /\ proposal' \in ProposalsOf(method, resp, Kept(call, draw, nominal), seen[call.tool])
  BY Zenon DEF CallAndJudge, Kept, ReportedCall, ReportPolicyFault
<1>3. call \in CallType /\ callIdx \in TurnKeys /\ TheEpisode \in Episodes
  BY <1>0, CallInHand
<1>4. SoundCall(call)
  BY <1>0 DEF Sound, InHand, Helped, SoundCall
<1>5. /\ resp.kind = "ok" => resp = Ok(call.tool)
      /\ resp.kind # "ok" => fired' = fired + 1
      /\ resp.hint # NoParam => resp.hint = FirstParam(call.tool) /\ call.tool \in drift'
      /\ resp.kind # "ok" /\ families' \subseteq {"P3"} =>
           resp.hint # NoParam /\ call.renamed = {}
  BY <1>0, <1>1, <1>2, <1>3, <1>4, SoundCallsAreServed
<1>6. fired <= fired' /\ fired' \in Nat /\ drift \subseteq drift' /\ families \subseteq families'
      /\ FamiliesOf(Kept(call, draw, nominal)) \subseteq families'
  BY <1>0, <1>2, <1>3, ProxyGrows
<1>7. /\ pc' = "judge" /\ ThePlan' = ThePlan
      /\ UNCHANGED <<step, results, retries, rename, turn, call, verdict, answer>>
  BY DEF CallAndJudge, policyVars, ThePlan
<1>8. Whole' /\ Helped' /\ InHand' /\ Claimed'
  BY <1>0, <1>6, <1>7 DEF Sound, Whole, Helped, InHand, Claimed, NextTool
<1>9. Answered'
  <2>1. ASSUME resp.kind # "ok"
        PROVE  /\ retries < fired' /\ turn <= step + fired'
               /\ families' \subseteq {"P3"} => resp.hint # NoParam /\ rename = NoParam
    <3>1. retries < fired + 1 /\ turn <= step + (fired + 1) /\ fired' = fired + 1
      BY <1>0, <1>5, <2>1 DEF Sound, Afforded
    <3>2. families' \subseteq {"P3"} => resp.hint # NoParam /\ rename = NoParam
      BY <1>0, <1>5, <2>1 DEF Sound, InHand
    <3> QED  BY <3>1, <3>2
  <2> QED  BY <1>2, <1>5, <1>7, <2>1 DEF Answered
<1>10. Afforded'
  BY <1>0, <1>6, <1>7, AffordedStays DEF Sound
<1>11. proposal' # "decompose"
  <2>1. "decompose" \notin RuleProposals(resp, seen[call.tool])
    BY DEF RuleProposals
  <2>2. "decompose" \notin OracleProposals(Kept(call, draw, nominal))
    <3>1. \A f \in FamiliesOf(Kept(call, draw, nominal)) : OracleOp(f) # "decompose"
      <4>1. \A f \in Family \ ResultFamilies : OracleOp(f) # "decompose"
        BY DEF Family, TransportFamilies, ProtocolFamilies, SemanticFamilies, ResourceFamilies,
               ResultFamilies, OracleOp
      <4>2. Kept(call, draw, nominal) \in SUBSET Event
        BY <1>0, <1>2, <1>3, ProxyCallForms
      <4>3. FamiliesOf(Kept(call, draw, nominal)) \subseteq Family \ ResultFamilies
        BY <1>6, <4>2, ConfigAssumption DEF FamiliesOf, Event, Configured
      <4> QED  BY <4>1, <4>3
    <3> QED  BY <3>1 DEF OracleProposals
  <2> QED  BY <1>2, <2>1, <2>2 DEF ProposalsOf
<1> QED
  BY <1>8, <1>9, <1>10, <1>11 DEF Sound

\* Recovery leaves behind a response that is whole, or an error that a fault has
\* paid for.
LEMMA RecoveryStaysSound ==
  ASSUME EpisodeInv, Sound, Recover, families' \cap ResultFamilies = {}
  PROVE  Sound'
<1>0. /\ fired \in Nat /\ retries \in Nat /\ turn \in Nat /\ step \in Nat /\ pc = "judge" /\ TypeOK
      /\ step < Len(ThePlan) /\ call.tool = NextTool /\ Called /\ Len(ThePlan) \in {1, 2}
      /\ call \in CallType /\ callIdx \in TurnKeys /\ TheEpisode \in Episodes
  <2>1. pc = "judge"
    BY DEF Recover, NoRecovery, Stop, Replan, Recall, CallOther, AskController
  <2> QED
    BY <2>1, CallInHand, SoundFacts DEF EpisodeInv, Called
<1>1. FirstParam(call.tool) # NoParam
  <2>1. step + 1 \in 1 .. Len(ThePlan)
    BY <1>0
  <2> QED  BY <1>0, <2>1, SoundFacts DEF NextTool
<1>2. ASSUME fired <= fired', drift \subseteq drift', families \subseteq families', fired' \in Nat,
             UNCHANGED <<policyVars, task, turn, call, verdict, answer>>, pc' # "judge", Answered'
      PROVE  Sound'
  <2>1. /\ ThePlan' = ThePlan
        /\ UNCHANGED <<step, results, retries, rename, turn, call, verdict, answer>>
    BY <1>2 DEF policyVars, ThePlan
  <2>2. Whole' /\ Helped' /\ Claimed'
    BY <1>2, <2>1 DEF Sound, Whole, Helped, Claimed, NextTool
  <2>3. Afforded'
    BY <1>0, <1>2, <2>1, AffordedStays DEF Sound
  <2>4. InHand'
    <3>1. pc' \in {"observe", "crashed"}
      BY DEF Recover, NoRecovery, Stop, Replan, Recall, CallOther, EndTurn
    <3> QED  BY <3>1 DEF InHand
  <2> QED  BY <1>2, <2>2, <2>3, <2>4 DEF Sound
<1>3. CASE NoRecovery \/ Stop \/ Replan
  <2>1. /\ UNCHANGED <<proxyVars, families, policyVars, task, turn, call, verdict, answer, response>>
        /\ pc' = "observe"
    BY <1>3 DEF NoRecovery, Stop, Replan, EndTurn
  <2>2. Answered'
    BY <1>0, <2>1 DEF Sound, Answered, policyVars, proxyVars
  <2> QED  BY <1>0, <1>2, <2>1, <2>2 DEF proxyVars
<1>4. CASE Recall
  <2>1. Again \in CallType /\ Again.tool = call.tool
    BY <1>0, AgainIsACall
  <2>2. PICK draw, nominal, resp :
          ReportedCall(Again, draw, nominal, resp) /\ EndTurn(resp, "")
    BY <1>4, Zenon DEF Recall, Again, Operator, ReportedCall, ReportRecoveryFault
  <2>3. /\ UNCHANGED <<policyVars, task, turn, call, verdict, answer>>
        /\ response' = resp /\ pc' = "observe"
    BY <2>2 DEF EndTurn
  <2>4. SoundCall(Again) /\ (Again.renamed = {} => rename = NoParam)
    BY <1>0, <1>1, <2>1, SoundAgain
  <2>5. /\ resp.kind = "ok" => resp = Ok(call.tool)
        /\ resp.kind # "ok" => fired' = fired + 1
        /\ resp.hint # NoParam => resp.hint = FirstParam(call.tool) /\ call.tool \in drift'
        /\ resp.kind # "ok" /\ families' \subseteq {"P3"} =>
             resp.hint # NoParam /\ Again.renamed = {}
    BY <1>0, <1>1, <2>1, <2>2, <2>4, SoundCallsAreServed
  <2>6. fired <= fired' /\ drift \subseteq drift' /\ families \subseteq families' /\ fired' \in Nat
    BY <1>0, <2>1, <2>2, ProxyGrows
  <2>7. Answered'
    <3>1. ASSUME resp.kind # "ok"
          PROVE  /\ retries < fired' /\ turn <= step + fired'
                 /\ families' \subseteq {"P3"} => resp.hint # NoParam /\ rename = NoParam
      <4>1. retries < fired + 1 /\ turn <= step + (fired + 1) /\ fired' = fired + 1
        BY <1>0, <2>5, <3>1 DEF Sound, Afforded
      <4> QED  BY <2>4, <2>5, <3>1, <4>1
    <3> QED  BY <2>3, <2>5, <3>1 DEF Answered, policyVars
  <2> QED  BY <1>2, <2>3, <2>6, <2>7
<1>5. CASE CallOther
  <2>1. AskController /\ Operator \in Operators /\ Alternative(Operator, call.tool) # NoTool
    BY <1>5, AskedWithinBudget DEF CallOther, Operator
  <2>2. Other \in CallType
    BY <1>0, <2>1, OtherIsACall
  <2>3. PICK draw, nominal, resp :
          /\ ReportedCall(Other, draw, nominal, resp)
          /\ IF Consulted(resp) /\ AdapterRaises(call, resp)
             THEN /\ pc' = "crashed"
                  /\ UNCHANGED <<policyVars, task, method, turn, call, event,
                                 response, seen, proposal, note, faultTurns,
                                 verdict, answer>>
             ELSE EndTurn(Reconciled(Operator, resp),
                          IF Operator = "verify" /\ Consulted(resp)
                          THEN "cross-check disagreed" ELSE "")
    BY <1>5, Zenon DEF CallOther, Other, Operator, Consulted, ReportedCall, ReportRecoveryFault
  <2>4. fired <= fired' /\ drift \subseteq drift' /\ families \subseteq families' /\ fired' \in Nat
    BY <1>0, <2>2, <2>3, ProxyGrows
  <2>5. CASE pc' = "crashed" /\ UNCHANGED <<policyVars, task, turn, call, response, verdict, answer>>
    <3>1. Answered'
      BY <2>5 DEF Answered, Called
    <3> QED  BY <1>2, <2>4, <2>5, <3>1
  <2>6. CASE \E why : EndTurn(Reconciled(Operator, resp), why)
    <3>1. /\ UNCHANGED <<policyVars, task, turn, call, verdict, answer>>
          /\ response' = Reconciled(Operator, resp) /\ pc' = "observe"
      BY <2>6 DEF EndTurn
    <3>2. CASE response' = response
      <4>1. Answered'
        BY <1>0, <2>4, <3>1, <3>2, AnsweredStays DEF Sound
      <4> QED  BY <1>2, <2>4, <3>1, <4>1
    <3>3. CASE response' = AdaptedReading(resp) /\ Adaptable(call, resp)
      <4>1. resp.wrong = {}
        <5>1. Overt'
          BY DEF Overt, ResultFamilies, SilentFamilies
        <5>2. call.arg = "gold"
          BY <1>0 DEF Sound, InHand
        <5> QED  BY <1>0, <2>1, <2>3, <3>3, <5>1, <5>2, AdaptableIsRight
      <4>2. response' = Ok(call.tool)
        BY <3>3, <4>1 DEF AdaptedReading, Adaptable, Ok
      <4>3. Answered'
        BY <3>1, <4>2 DEF Answered, Ok
      <4> QED  BY <1>2, <2>4, <3>1, <4>3
    <3> QED  BY <3>1, <3>2, <3>3 DEF Reconciled
  <2> QED  BY <2>3, <2>5, <2>6, Zenon
<1> QED
  BY <1>3, <1>4, <1>5 DEF Recover

\* No step takes a fault or a family back, or changes the method.
LEMMA FaultsOnlyAdd ==
  ASSUME EpisodeInv, [Next]_vars
  PROVE  /\ fired <= fired' /\ fired' \in Nat /\ families \subseteq families' /\ method' = method
         /\ fired' = 0 => families' = families
<1>0. TypeOK /\ fired \in Nat
  BY SoundFacts DEF EpisodeInv
<1>1. ASSUME UNCHANGED <<proxyVars, families>>
      PROVE  /\ fired <= fired' /\ fired' \in Nat /\ families \subseteq families'
             /\ fired' = 0 => families' = families
  BY <1>0, <1>1 DEF proxyVars
<1>2. ASSUME pc \in {"call", "judge"}, NEW c \in CallType, NEW draw, NEW nominal, NEW resp,
             ReportedCall(c, draw, nominal, resp)
      PROVE  /\ fired <= fired' /\ fired' \in Nat /\ families \subseteq families'
             /\ fired' = 0 => families' = families
  BY <1>0, <1>2, ProxyGrows, CallInHand
<1>3. CASE PolicyTurn
  <2>1. UNCHANGED <<proxyVars, families, method>>
    BY <1>3 DEF PolicyTurn, FirstTurn, ObserveResult, ObserveError, BeginTurn, SkipStep, EmitCall,
                Answer, OutOfTurns, judgeVars, loopVars
  <2> QED  BY <1>1, <2>1
<1>4. CASE CallAndJudge
  <2>1. pc = "call" /\ method' = method /\ \E draw, nominal, resp : ReportedCall(call, draw, nominal, resp)
    BY <1>4, Zenon DEF CallAndJudge, ReportedCall, ReportPolicyFault
  <2>2. call \in CallType
    BY <2>1, CallInHand
  <2> QED  BY <1>2, <2>1, <2>2
<1>5. CASE NoRecovery \/ Stop \/ Replan
  <2>1. UNCHANGED <<proxyVars, families, method>>
    BY <1>5 DEF NoRecovery, Stop, Replan, EndTurn
  <2> QED  BY <1>1, <2>1
<1>6. CASE Recall
  <2>1. /\ pc = "judge" /\ method' = method
        /\ \E draw, nominal, resp : ReportedCall(Again, draw, nominal, resp)
    BY <1>6, Zenon DEF Recall, AskController, EndTurn, Again, Operator, ReportedCall, ReportRecoveryFault
  <2>2. Again \in CallType
    BY <2>1, AgainIsACall
  <2> QED  BY <1>2, <2>1, <2>2
<1>7. CASE CallOther
  <2>1. AskController /\ Operator \in Operators /\ Alternative(Operator, call.tool) # NoTool
    BY <1>7, AskedWithinBudget DEF CallOther, Operator
  <2>2. /\ pc = "judge" /\ method' = method
        /\ \E draw, nominal, resp : ReportedCall(Other, draw, nominal, resp)
    BY <1>7, Zenon DEF CallOther, AskController, EndTurn, Other, Operator, ReportedCall, ReportRecoveryFault
  <2>3. Other \in CallType
    BY <2>1, <2>2, OtherIsACall
  <2> QED  BY <1>2, <2>2, <2>3
<1>8. CASE UNCHANGED vars
  <2>1. UNCHANGED <<proxyVars, families, method>>
    BY <1>8 DEF vars, loopVars
  <2> QED  BY <1>1, <2>1
<1> QED
  BY <1>3, <1>4, <1>5, <1>6, <1>7, <1>8 DEF Next, Recover, Ended

\* What is survivable after a step was so before it.
LEMMA SurvivableBefore ==
  ASSUME EpisodeInv, [Next]_vars, Survivable' PROVE Survivable
<1>1. fired <= fired' /\ fired' \in Nat /\ families \subseteq families' /\ method' = method
  BY FaultsOnlyAdd
<1>2. \A n \in Nat : fired <= n /\ n <= MaxRetries => fired <= MaxRetries
  BY SoundFacts, LoopAssumption
<1>3. fired' <= MaxRetries => fired <= MaxRetries
  BY <1>1, <1>2, Zenon
<1> QED
  BY <1>1, <1>3 DEF Survivable

\* As long as its faults are survivable, an episode stays sound.
LEMMA SoundStep ==
  EpisodeInv /\ (Survivable => Sound) /\ [Next]_vars => (Survivable' => Sound')
<1> SUFFICES ASSUME EpisodeInv, Survivable => Sound, [Next]_vars, Survivable' PROVE Sound'
  OBVIOUS
<1>0. Survivable /\ Sound /\ families' \cap ResultFamilies = {} /\ method # "guardlite"
  BY SurvivableBefore DEF Survivable
<1>1. CASE PolicyTurn
  BY <1>0, <1>1, TurnStaysSound, DecisionsStaySound DEF PolicyTurn
<1>2. CASE CallAndJudge
  BY <1>0, <1>2, CallStaysSound
<1>3. CASE Recover
  BY <1>0, <1>3, RecoveryStaysSound
<1>4. CASE UNCHANGED vars
  <2>1. UNCHANGED <<drift, fired, policyVars, task, pc, turn, call, response, families, verdict,
                    answer, proposal>>
    BY <1>4 DEF vars, proxyVars, loopVars, judgeVars
  <2>2. Whole' /\ Helped' /\ Claimed'
    BY <1>0, <2>1 DEF Sound, Whole, Helped, Claimed, NextTool, ThePlan, policyVars
  <2>3. InHand' /\ Answered' /\ Afforded'
    BY <1>0, <2>1 DEF Sound, InHand, Answered, Called, Afforded, policyVars
  <2> QED  BY <1>0, <2>1, <2>2, <2>3 DEF Sound
<1> QED
  BY <1>1, <1>2, <1>3, <1>4 DEF Next, Ended

\* How an episode can be over: with all steps done, or without turns.
Concluded ==
  /\ pc = "done" => verdict # "running"
  /\ verdict \in {"final", "abstain"} => step = Len(ThePlan)
  /\ verdict = "out of turns" => turn = MaxTurns /\ (turn = 0 \/ step < Len(ThePlan))

\* It is over in one of the two ways.
LEMMA ConcludedStep == EpisodeInv /\ Concluded /\ [Next]_vars => EpisodeInv' /\ Concluded'
<1> SUFFICES ASSUME EpisodeInv, Concluded, [Next]_vars PROVE Concluded'
  BY EpisodeStep
<1>1. EpisodeInv'
  BY EpisodeStep
<1>2. CASE pc' # "done"
  BY <1>1, <1>2 DEF EpisodeInv, Charged, Concluded
<1>3. CASE Answer
  <2>1. Done /\ verdict' \in {"abstain", "final"} /\ UNCHANGED <<task, step>>
    BY <1>3 DEF Answer, policyVars
  <2>2. step = Len(ThePlan)
    BY <2>1, SoundFacts DEF Done
  <2> QED  BY <2>1, <2>2 DEF Concluded, ThePlan
<1>4. CASE OutOfTurns
  <2>1. /\ verdict' = "out of turns" /\ turn = MaxTurns /\ UNCHANGED <<task, step, turn>>
        /\ pc = "observe" /\ turn \in Nat
    BY <1>4, SoundFacts DEF OutOfTurns, policyVars
  <2>2. turn = 0 \/ step < Len(ThePlan)
    <3>1. turn > 0 => Called
      BY <2>1 DEF Called
    <3>2. Called => step < Len(ThePlan)
      BY SoundFacts
    <3>3. turn = 0 \/ turn > 0
      <4>1. turn \in Nat
        BY SoundFacts
      <4> QED  BY <4>1
    <3> QED  BY <3>1, <3>2, <3>3
  <2> QED  BY <2>1, <2>2 DEF Concluded, ThePlan
<1>5. CASE UNCHANGED vars
  BY <1>5 DEF vars, loopVars, policyVars, Concluded, ThePlan
<1>6. \/ pc' # "done" \/ Answer \/ OutOfTurns \/ UNCHANGED vars
  BY DEF Next, PolicyTurn, FirstTurn, ObserveResult, ObserveError, BeginTurn, SkipStep, EmitCall,
         loopVars, CallAndJudge, Recover, NoRecovery, Stop, Replan, Recall, CallOther, EndTurn, Ended
<1> QED
  BY <1>2, <1>3, <1>4, <1>5, <1>6

\* An episode starts sound.
LEMMA SoundStarts == Init => Sound /\ Concluded
<1> SUFFICES ASSUME Init PROVE Sound /\ Concluded
  OBVIOUS
<1>1. /\ pc = "observe" /\ turn = 0 /\ verdict = "running" /\ step = 0 /\ retries = 0
      /\ rename = NoParam
  BY Zenon DEF Init
<1>2. fired = 0
  BY Zenon DEF Init, ProxyInit
<1> QED
  BY <1>1, <1>2
  DEF Sound, Concluded, Whole, Helped, InHand, Answered, Called, Afforded, Claimed

\* Few faults are survivable: overt ones that leave results alone, no more of them
\* in the whole episode than the policy retries a step, end in success for a task
\* that reads, wherever they strike, under every method but the learned one
\* (policy.py: max_retries; loop.py: every call is the policy's or the recovery's).
THEOREM BoundedFaultsDoNotPrevail == Spec => []BoundedFaultsAreOutlasted
<1>1. EpisodeInv /\ Spared /\ Concluded /\ (Survivable => Sound) => BoundedFaultsAreOutlasted
  <2> SUFFICES ASSUME EpisodeInv, Spared, Concluded, Survivable => Sound, pc = "done",
                      families \cap ResultFamilies = {}, fired <= MaxRetries, EnoughTurns,
                      method # "guardlite", ~TaskShapes[task].mutates
               PROVE  Success
    BY DEF BoundedFaultsAreOutlasted
  <2>1. Claimed
    BY DEF Survivable, Sound
  <2>2. verdict \in {"running", "final", "abstain", "out of turns"}
    BY DEF EpisodeInv, TypeOK
  <2> QED  BY <2>1, <2>2 DEF Spared, Concluded, Claimed, Success
<1> QED
  BY <1>1, EpisodeStarts, SparedStarts, SoundStarts, EpisodeStep, SparedStep, ConcludedStep, SoundStep,
     PTL DEF Spec

\* The episode ran out of turns.
RanOut == verdict = "out of turns"

\* Two turns for each of two steps, and one to answer in.
FiveTurns == MaxTurns > 4

\* Drifts cost two turns a step at most.
LEMMA DriftsLeaveTurns ==
  ASSUME FiveTurns, EpisodeInv, Concluded, Afforded, families \subseteq {"P3"}
  PROVE  ~RanOut
<1> SUFFICES ASSUME RanOut PROVE FALSE
  OBVIOUS
<1>1. /\ fired \in Nat /\ retries \in Nat /\ turn \in Nat /\ step \in Nat
      /\ Len(ThePlan) \in {1, 2}
  BY SoundFacts
<1>2. turn = MaxTurns /\ (turn = 0 \/ step < Len(ThePlan))
  BY DEF Concluded, RanOut
<1>3. turn > 4
  BY <1>2, LoopAssumption DEF FiveTurns
<1>4. step < Len(ThePlan)
  <2>1. turn # 0
    BY <1>1, <1>3
  <2> QED  BY <1>2, <2>1, Zenon
<1>5. step <= 1
  <2>1. CASE Len(ThePlan) = 1
    BY <1>1, <1>4, <2>1
  <2>2. CASE Len(ThePlan) = 2
    BY <1>1, <1>4, <2>2
  <2> QED  BY <1>1, <2>1, <2>2
<1>6. turn <= 2 * step + retries + 1 /\ retries <= 1
  BY DEF Afforded
<1>7. 2 * step <= 2
  BY <1>1, <1>5
<1>8. 2 * step + retries + 1 <= 4
  BY <1>1, <1>6, <1>7
<1> QED  BY <1>1, <1>3, <1>6, <1>8

\* Schema drift alone is survivable with one retry and five turns: the hint is kept
\* for as long as the step needs it (policy.py: _rename; proxy.py: an adapted
\* caller is no longer struck).
THEOREM DriftDoesNotPrevail ==
  ASSUME FiveTurns
  PROVE  Spec => []DriftAloneIsSurvivable
<1>1. EpisodeInv /\ Concluded /\ (Survivable => Sound) => DriftAloneIsSurvivable
  <2> SUFFICES ASSUME EpisodeInv, Concluded, Survivable => Sound, pc = "done",
                      families \subseteq {"P3"}, MaxRetries > 0,
                      method # "guardlite", ~TaskShapes[task].mutates
               PROVE  Success
    BY DEF DriftAloneIsSurvivable
  <2>1. Claimed /\ Afforded
    BY DEF Survivable, Sound, ResultFamilies, SilentFamilies, SemanticFamilies
  <2>2. verdict # "out of turns"
    BY <2>1, DriftsLeaveTurns, Zenon DEF RanOut
  <2>3. verdict \in {"running", "final", "abstain", "out of turns"}
    BY DEF EpisodeInv, TypeOK
  <2> QED  BY <2>1, <2>2, <2>3 DEF Concluded, Claimed, Success
<1> QED
  BY <1>1, EpisodeStarts, SoundStarts, EpisodeStep, ConcludedStep, SoundStep, PTL DEF Spec

-----------------------------------------------------------------------------
(***************************************************************************)
(* Clean episodes.                                                         *)
(***************************************************************************)

Clean   == fired = 0 /\ method # "guardlite"
Mutates == TaskShapes[task].mutates
Written == step = 2 \/ (step = 1 /\ Called)

\* Families come of faults.
Faultless == fired = 0 => families = {}

\* Nothing is suspected: no tool has been heard often enough to be found slow; and
\* the task's write has been made once, or not yet.
Spotless ==
  /\ ~RanOut =>
       /\ \A t \in PlanTools : seen[t] <= step + 1 /\ (~Called => seen[t] <= step)
       /\ Mutates => stored = IF Written THEN <<"gold">> ELSE <<>>
  /\ pc = "judge" => proposal = "none"

\* A task that writes does so in the second of two steps.
LEMMA WritesComeLast ==
  ASSUME task \in Tasks, Mutates
  PROVE  /\ Len(ThePlan) = 2
         /\ ThePlan[1].tool \notin Appends \cup Assigns /\ ThePlan[2].tool \in Appends \cup Assigns
<1>1. WellPlanned(TaskShapes[task])
  BY PlanFacts
<1> QED
  BY <1>1 DEF WellPlanned, Mutates, ThePlan, Writes

\* A step of the plan that is still to do is its first or its second.
LEMMA AtMostTwoSteps ==
  ASSUME step \in Nat, step < Len(ThePlan), Len(ThePlan) \in {1, 2}
  PROVE  step = 0 \/ step = 1
<1>1. CASE Len(ThePlan) = 1
  BY <1>1
<1>2. CASE Len(ThePlan) = 2
  BY <1>2
<1> QED
  BY <1>1, <1>2

\* How often a tool was heard is a number, no larger than the steps taken.
LEMMA HeardLittle ==
  ASSUME TypeOK, Spotless, ~RanOut
  PROVE  \A t \in PlanTools :
           /\ seen[t] \in Nat /\ seen[t] <= step + 1
           /\ ~Called => seen[t] <= step
<1>1. seen \in [PlanTools -> 0 .. ZScoreHistory]
  BY Zenon DEF TypeOK
<1>2. \A n \in 0 .. ZScoreHistory : n \in Nat
  BY DEF ZScoreHistory
<1>3. \A t \in PlanTools : seen[t] \in Nat
  BY <1>1, <1>2, Zenon
<1>4. \A t \in PlanTools : seen[t] <= step + 1 /\ (~Called => seen[t] <= step)
  BY Zenon DEF Spotless
<1> QED
  BY <1>3, <1>4, Zenon

\* A clean call is answered, suspected by no detector, and written if it writes.
LEMMA SpotlessCall ==
  ASSUME EpisodeInv, EpisodeInv', Sound, Spotless, Clean, fired' = 0, families' = {}, CallAndJudge
  PROVE  Spotless'
<1>0. /\ step \in Nat /\ task \in Tasks /\ pc = "call" /\ ~RanOut /\ ~Called /\ TypeOK
      /\ step < Len(ThePlan) /\ Len(ThePlan) \in {1, 2} /\ call.tool = NextTool
  BY SoundFacts DEF EpisodeInv, TypeOK, Charged, CallAndJudge, RanOut, Called
<1>1. call \in CallType /\ call.tool \in PlanTools /\ callIdx \in TurnKeys /\ TheEpisode \in Episodes
  BY <1>0, CallInHand
<1>2. PICK draw, nominal, resp :
        /\ ReportedCall(call, draw, nominal, resp)
        /\ proposal' \in ProposalsOf(method, resp, Kept(call, draw, nominal), seen[call.tool])
  BY Zenon DEF CallAndJudge, Kept, ReportedCall, ReportPolicyFault
<1>3. /\ pc' = "judge" /\ UNCHANGED <<step, task, verdict>> /\ Called'
      /\ seen' = [seen EXCEPT ![call.tool] = IF @ < ZScoreHistory THEN @ + 1 ELSE @]
  BY Zenon DEF CallAndJudge, policyVars, Called, ReportedCall, ReportPolicyFault
<1>4. PlanTools' = PlanTools /\ Mutates' = Mutates
  BY <1>3 DEF PlanTools, ThePlan, Mutates
<1>5. step = 0 \/ step = 1
  BY <1>0, AtMostTwoSteps
<1>6. Kept(call, draw, nominal) = {} /\ resp = nominal /\ nominal = Ok(call.tool)
  <2>1. Kept(call, draw, nominal) = {} /\ resp = nominal
    BY <1>0, <1>1, <1>2, ProxyGrows
  <2>2. SoundCall(call)
    BY <1>0 DEF Sound, InHand, Helped, SoundCall
  <2>3. nominal \in Nominal(call)
    BY <1>0, <1>1, <1>2, ProxyCallForms
  <2>4. (IF Adapted(call) THEN call.renamed \ {FirstParam(call.tool)} ELSE call.renamed) = {}
    BY <2>2 DEF SoundCall, Adapted
  <2>5. Nominal(call) = {Ok(call.tool)}
    BY <2>2, <2>4 DEF SoundCall, Nominal
  <2> QED  BY <2>1, <2>3, <2>5
<1>7. \A t \in PlanTools : seen[t] \in Nat /\ seen[t] <= step
  BY <1>0, HeardLittle, Zenon
<1>8. proposal' = "none"
  <2>1. seen[call.tool] < ZScoreHistory
    BY <1>1, <1>5, <1>7 DEF ZScoreHistory
  <2>2. RuleProposals(resp, seen[call.tool]) = {"none"}
    <3>1. resp.kind = "ok" /\ resp.broken = FALSE
      BY <1>6 DEF Ok
    <3>2. ~(seen[call.tool] >= ZScoreHistory)
      BY <1>1, <1>7, <2>1 DEF ZScoreHistory
    <3> QED  BY <3>1, <3>2 DEF RuleProposals, SchemaValid
  <2>3. OracleProposals(Kept(call, draw, nominal)) = {"none"}
    BY <1>6 DEF OracleProposals
  <2> QED  BY <1>2, <2>2, <2>3 DEF ProposalsOf, Clean
<1>9. \A t \in PlanTools : seen'[t] <= step + 1
  <2>1. \A t \in PlanTools : seen'[t] = seen[t] \/ seen'[t] = seen[t] + 1
    <3>1. seen \in [PlanTools -> 0 .. ZScoreHistory]
      BY <1>0 DEF TypeOK
    <3> QED  BY <1>1, <1>3, <3>1
  <2> QED  BY <1>0, <1>7, <2>1
<1>10. Mutates => stored' = IF Written' THEN <<"gold">> ELSE <<>>
  <2> SUFFICES ASSUME Mutates PROVE stored' = IF Written' THEN <<"gold">> ELSE <<>>
    OBVIOUS
  <2>1. Write(call, nominal) /\ nominal.kind = "ok" /\ call.arg = "gold"
    BY <1>0, <1>2, <1>6 DEF ReportedCall, ThroughProxy, CallTool, Ok, Sound, InHand
  <2>2. /\ ThePlan[1].tool \notin Appends \cup Assigns
        /\ ThePlan[2].tool \in Appends \cup Assigns
    BY <1>0, WritesComeLast
  <2>3. stored = <<>>
    <3>1. ~Written
      BY <1>0, <1>5 DEF Written
    <3> QED  BY <1>0, <3>1 DEF Spotless
  <2>4. CASE step = 0
    <3>1. call.tool \notin Appends \cup Assigns
      BY <1>0, <2>2, <2>4 DEF NextTool
    <3>2. stored' = <<>>
      BY <2>1, <2>3, <3>1 DEF Write
    <3>3. ~Written'
      BY <1>3, <2>4 DEF Written
    <3> QED  BY <3>2, <3>3
  <2>5. CASE step = 1
    <3>1. call.tool \in Appends \cup Assigns
      BY <1>0, <2>2, <2>5 DEF NextTool
    <3>2. stored' = <<"gold">>
      <4>1. Append(<<>>, "gold") = <<"gold">>
        OBVIOUS
      <4> QED  BY <2>1, <2>3, <3>1, <4>1 DEF Write
    <3>3. Written'
      BY <1>3, <2>5 DEF Written
    <3> QED  BY <3>2, <3>3
  <2> QED  BY <1>5, <2>4, <2>5
<1> QED
  BY <1>3, <1>4, <1>8, <1>9, <1>10 DEF Spotless

\* The steps of a faultless, sound episode suspect nothing and write once.
LEMMA SpotlessStep ==
  ASSUME EpisodeInv, EpisodeInv', Sound, Spotless, Clean, fired' = 0, families' = {}, [Next]_vars
  PROVE  Spotless'
<1>0. /\ fired = 0 /\ retries \in Nat /\ turn \in Nat /\ step \in Nat /\ task \in Tasks
      /\ step <= Len(ThePlan) /\ Len(ThePlan) \in {1, 2} /\ TypeOK
      /\ pc # "done" => ~RanOut
  BY SoundFacts DEF EpisodeInv, TypeOK, Charged, Clean, RanOut
<1>1. ASSUME UNCHANGED <<step, seen, stored, task>>, Called' = Called, RanOut => RanOut',
             pc' # "judge"
      PROVE  Spotless'
  <2>1. /\ PlanTools' = PlanTools /\ Mutates' = Mutates /\ Written' = Written
        /\ seen' = seen /\ step' = step /\ stored' = stored
    BY <1>1 DEF Mutates, Written, PlanTools, ThePlan
  <2>2. /\ ~RanOut' =>
             /\ \A t \in PlanTools' : seen'[t] <= step' + 1 /\ (~Called' => seen'[t] <= step')
             /\ Mutates' => stored' = IF Written' THEN <<"gold">> ELSE <<>>
    <3> SUFFICES ASSUME ~RanOut'
                 PROVE  /\ \A t \in PlanTools : seen[t] <= step + 1 /\ (~Called => seen[t] <= step)
                        /\ Mutates => stored = IF Written THEN <<"gold">> ELSE <<>>
      BY <1>1, <2>1
    <3>1. ~RanOut
      BY <1>1
    <3> QED  BY <3>1 DEF Spotless
  <2> QED  BY <1>1, <2>2 DEF Spotless
<1>2. CASE FirstTurn
  <2>1. UNCHANGED <<step, seen, stored, task>> /\ Called' = Called /\ pc' = "decide" /\ RanOut' = RanOut
    BY <1>2 DEF FirstTurn, BeginTurn, policyVars, proxyVars, Called, RanOut
  <2> QED  BY <1>1, <2>1
<1>3. CASE ObserveResult
  <2>1. /\ step' = step + 1 /\ pc' = "decide" /\ UNCHANGED <<seen, stored, task>>
        /\ Called /\ ~Called' /\ ~RanOut /\ PlanTools' = PlanTools /\ Mutates' = Mutates
    BY <1>0, <1>3 DEF ObserveResult, BeginTurn, RecordStep, proxyVars, Called, RanOut, PlanTools,
                      ThePlan, Mutates
  <2>2. \A t \in PlanTools : seen[t] \in Nat /\ seen[t] <= step + 1
    BY <1>0, <2>1, HeardLittle, Zenon
  <2>3. \A t \in PlanTools : seen[t] <= (step + 1) + 1
    BY <1>0, <2>2
  <2>4. Written' = Written
    <3>1. step < Len(ThePlan)
      BY <2>1, SoundFacts
    <3>2. step = 0 \/ step = 1
      BY <1>0, <3>1, AtMostTwoSteps
    <3>3. CASE step = 0
      BY <2>1, <3>3 DEF Written
    <3>4. CASE step = 1
      BY <2>1, <3>4 DEF Written
    <3> QED  BY <3>2, <3>3, <3>4
  <2> QED  BY <2>1, <2>2, <2>3, <2>4 DEF Spotless
<1>4. CASE ObserveError
  <2>1. Called /\ response.kind # "ok"
    BY <1>4 DEF ObserveError, BeginTurn, Called
  <2>2. retries < 0
    BY <1>0, <2>1 DEF Sound, Answered
  <2> QED  BY <1>0, <2>2
<1>5. CASE SkipStep
  BY <1>5, DecisionsStaySound
<1>6. CASE EmitCall
  <2>1. UNCHANGED <<step, seen, stored, task>> /\ Called' = Called /\ pc' = "call" /\ RanOut' = RanOut
    BY <1>6 DEF EmitCall, policyVars, proxyVars, Called, RanOut
  <2> QED  BY <1>1, <2>1
<1>7. CASE Answer
  <2>1. UNCHANGED <<step, seen, stored, task>> /\ Called' = Called /\ pc' = "done" /\ ~RanOut
    BY <1>0, <1>7 DEF Answer, policyVars, proxyVars, Called, RanOut
  <2> QED  BY <1>1, <2>1
<1>8. CASE OutOfTurns
  BY <1>8 DEF OutOfTurns, Spotless, RanOut
<1>9. CASE CallAndJudge
  BY <1>9, SpotlessCall
<1>10. CASE Recover
  <2>1. pc = "judge"
    BY <1>10 DEF Recover, NoRecovery, Stop, Replan, Recall, CallOther, AskController
  <2>2. NoRecovery
    BY <1>10, <2>1 DEF Recover, Stop, Replan, Recall, CallOther, AskController, Spotless
  <2>3. turn > 0
    BY <2>1 DEF EpisodeInv, Paced
  <2>4. /\ UNCHANGED <<step, seen, stored, task, turn>> /\ pc' = "observe"
        /\ RanOut' = RanOut
    BY <2>2 DEF NoRecovery, EndTurn, policyVars, proxyVars, RanOut
  <2>5. Called /\ Called'
    BY <2>1, <2>3, <2>4 DEF Called
  <2> QED  BY <1>1, <2>4, <2>5
<1>11. CASE UNCHANGED vars
  <2>1. UNCHANGED <<step, seen, stored, task, turn, pc, proposal, verdict>>
    BY <1>11 DEF vars, loopVars, policyVars, proxyVars, judgeVars
  <2> QED  BY <2>1 DEF Spotless, Called, Written, Mutates, RanOut, PlanTools, ThePlan
<1> QED
  BY <1>2, <1>3, <1>4, <1>5, <1>6, <1>7, <1>8, <1>9, <1>10, <1>11 DEF Next, PolicyTurn, Ended

\* What holds of a clean episode at every step.
CleanInv == /\ EpisodeInv /\ Concluded /\ (Survivable => Sound)
            /\ Faultless /\ (Clean => Spotless)

\* It is inductive.
LEMMA CleanStep == CleanInv /\ [Next]_vars => CleanInv'
<1> SUFFICES ASSUME CleanInv, [Next]_vars PROVE CleanInv'
  OBVIOUS
<1>1. /\ EpisodeInv /\ EpisodeInv' /\ Concluded' /\ (Survivable' => Sound')
  BY EpisodeStep, ConcludedStep, SoundStep DEF CleanInv
<1>2. /\ fired \in Nat /\ fired <= fired' /\ fired' \in Nat /\ method' = method
      /\ fired' = 0 => families' = families
  BY <1>1, FaultsOnlyAdd, SoundFacts
<1>3. fired' = 0 => fired = 0
  <2>1. \A n \in Nat : fired <= n /\ n = 0 => fired = 0
    BY <1>2
  <2> QED  BY <1>2, <2>1, Zenon
<1>4. Faultless'
  BY <1>2, <1>3 DEF CleanInv, Faultless
<1>5. ASSUME Clean'
      PROVE  Spotless'
  <2>1. fired' = 0 /\ families' = {} /\ fired = 0 /\ families = {} /\ Clean
    BY <1>2, <1>3, <1>4, <1>5 DEF Clean, CleanInv, Faultless
  <2>2. Survivable
    BY <2>1, LoopAssumption DEF Survivable, Clean
  <2> QED  BY <1>1, <2>1, <2>2, SpotlessStep DEF CleanInv
<1> QED
  BY <1>1, <1>4, <1>5 DEF CleanInv

\* It holds at the start.
LEMMA CleanStarts == Init => CleanInv
<1> SUFFICES ASSUME Init PROVE CleanInv
  OBVIOUS
<1>1. EpisodeInv /\ Sound /\ Concluded
  BY EpisodeStarts, SoundStarts
<1>2. /\ families = {} /\ step = 0 /\ pc = "observe" /\ turn = 0
      /\ seen = [t \in PlanTools |-> 0]
  BY Zenon DEF Init
<1>3. stored = <<>>
  BY Zenon DEF Init, ProxyInit
<1>4. \A t \in PlanTools : seen[t] <= step + 1 /\ seen[t] <= step
  BY <1>2
<1>5. Spotless
  BY <1>2, <1>3, <1>4 DEF Spotless, Written, Called
<1> QED
  BY <1>1, <1>2, <1>5 DEF CleanInv, Faultless

\* One turn for each of two steps, and one to answer in.
ThreeTurns == MaxTurns > 2

\* A clean episode takes one turn a step.
LEMMA CleanEpisodesHaveTime ==
  ASSUME ThreeTurns, EpisodeInv, Concluded, Afforded, fired = 0
  PROVE  ~RanOut
<1> SUFFICES ASSUME RanOut PROVE FALSE
  OBVIOUS
<1>1. turn \in Nat /\ step \in Nat /\ Len(ThePlan) \in {1, 2}
  BY SoundFacts
<1>2. turn = MaxTurns /\ (turn = 0 \/ step < Len(ThePlan))
  BY DEF Concluded, RanOut
<1>3. turn > 2
  BY <1>2, LoopAssumption DEF ThreeTurns
<1>4. step < Len(ThePlan)
  <2>1. turn # 0
    BY <1>1, <1>3
  <2> QED  BY <1>2, <2>1, Zenon
<1>5. step = 0 \/ step = 1
  BY <1>1, <1>4, AtMostTwoSteps
<1>6. turn <= step + 1
  BY <1>1 DEF Afforded
<1> QED
  BY <1>1, <1>3, <1>5, <1>6

\* Without a fault every task succeeds, writing ones too, under every method but the
\* learned one, given a turn for each step and one more: no detector has heard a
\* tool often enough to find it slow, and nothing is written twice (sentinel.py: the
\* z-score waits for its history; policy.py: one call a step).
THEOREM CleanEpisodesDoSucceed ==
  ASSUME ThreeTurns
  PROVE  Spec => []CleanEpisodesSucceed
<1>1. CleanInv => CleanEpisodesSucceed
  <2> SUFFICES ASSUME CleanInv, pc = "done", fired = 0, method # "guardlite"
               PROVE  Success
    BY DEF CleanEpisodesSucceed
  <2>1. /\ EpisodeInv /\ Concluded /\ families = {} /\ Spotless /\ Survivable
    BY LoopAssumption DEF CleanInv, Faultless, Clean, Survivable
  <2>2. Claimed /\ Afforded
    BY <2>1 DEF CleanInv, Sound
  <2>3. ~RanOut
    BY <2>1, <2>2, CleanEpisodesHaveTime
  <2>4. verdict \in {"running", "final", "abstain", "out of turns"} /\ task \in Tasks
    BY <2>1 DEF EpisodeInv, TypeOK
  <2>5. verdict = "final" /\ answer = "gold"
    BY <2>1, <2>2, <2>3, <2>4 DEF Concluded, Claimed, RanOut
  <2>6. Mutates => stored = <<"gold">>
    <3> SUFFICES ASSUME Mutates PROVE stored = <<"gold">>
      OBVIOUS
    <3>1. step = 2
      BY <2>1, <2>4, <2>5, WritesComeLast DEF Concluded
    <3> QED  BY <2>1, <2>3, <3>1 DEF Spotless, Written
  <2> QED  BY <2>5, <2>6 DEF Success, Mutates
<1> QED
  BY <1>1, CleanStarts, CleanStep, PTL DEF Spec

-----------------------------------------------------------------------------
(***************************************************************************)
(* Where the claims hold that the comments make of every episode: outside  *)
(* the circumstance in which the code does not keep them.                  *)
(***************************************************************************)

\* Nobody proposes to stop.
LEMMA NobodyProposesToStop ==
  ASSUME NEW m, NEW resp, NEW events \in SUBSET Event, NEW s
  PROVE  "abstain" \notin ProposalsOf(m, resp, events, s)
<1>1. \A f \in Family : OracleOp(f) # "abstain"
  BY DEF Family, TransportFamilies, ProtocolFamilies, SemanticFamilies, ResourceFamilies, OracleOp
<1>2. FamiliesOf(events) \subseteq Family
  BY ConfigAssumption DEF FamiliesOf, Event, Configured
<1>3. "abstain" \notin RuleProposals(resp, s)
  BY DEF RuleProposals
<1>4. "abstain" \notin OracleProposals(events)
  BY <1>1, <1>2 DEF OracleProposals
<1>5. "abstain" \notin SentinelProposals
  BY <1>1 DEF SentinelProposals
<1> QED
  BY <1>3, <1>4, <1>5 DEF ProposalsOf

\* A controller falls back on stopping only if its set has no retry.
LEMMA OnlyReplanFallsBackOnStopping ==
  ASSUME NEW m, m # "full_replan", NEW p, p # "abstain"
  PROVE  Granted(m, p) # "abstain"
<1>1. "retry" \in AllowedOperators(m)
  BY DEF AllowedOperators, Operators, RetryOperators
<1> QED
  BY <1>1 DEF Granted, Asked

\* So, under every method but that one, a stop follows from a spent budget.
Unstopped ==
  method # "full_replan" =>
    /\ pc = "judge" => proposal # "abstain"
    /\ pc = "observe" /\ note = "budget exhausted; abstain" => Exhausted(spent)

LEMMA UnstoppedStep == EpisodeInv /\ Unstopped /\ [Next]_vars => Unstopped'
<1> SUFFICES ASSUME EpisodeInv, Unstopped, [Next]_vars PROVE Unstopped'
  OBVIOUS
<1>1. CASE PolicyTurn
  <2>1. pc' \notin {"judge", "observe"}
    BY <1>1 DEF PolicyTurn, FirstTurn, ObserveResult, ObserveError, BeginTurn, SkipStep, EmitCall,
                Answer, OutOfTurns, loopVars
  <2> QED  BY <2>1 DEF Unstopped
<1>2. CASE CallAndJudge
  <2>1. pc = "call" /\ pc' = "judge"
    BY <1>2 DEF CallAndJudge
  <2>2. call \in CallType /\ callIdx \in TurnKeys /\ TheEpisode \in Episodes /\ TypeOK
    BY <2>1, CallInHand DEF EpisodeInv
  <2>3. PICK draw, nominal, resp :
          /\ ReportedCall(call, draw, nominal, resp)
          /\ proposal' \in ProposalsOf(method, resp, Kept(call, draw, nominal), seen[call.tool])
    BY <1>2, Zenon DEF CallAndJudge, Kept, ReportedCall, ReportPolicyFault
  <2>4. Kept(call, draw, nominal) \in SUBSET Event
    BY <2>2, <2>3, ProxyCallForms
  <2>5. proposal' # "abstain"
    BY <2>3, <2>4, NobodyProposesToStop
  <2> QED  BY <2>1, <2>5 DEF Unstopped
<1>3. ASSUME NEW resp, NEW why, why # "budget exhausted; abstain", EndTurn(resp, why)
      PROVE  Unstopped'
  BY <1>3 DEF EndTurn, Unstopped
<1>4. CASE NoRecovery \/ Replan
  BY <1>3, <1>4 DEF NoRecovery, Replan
<1>5. CASE Stop
  <2>1. AskController /\ (Exhausted(spent) \/ Granted(method, proposal) = "abstain")
        /\ EndTurn(response, "budget exhausted; abstain")
    BY <1>5 DEF Stop
  <2>2. pc = "judge" /\ pc' = "observe" /\ method' = method
    BY <2>1 DEF AskController, EndTurn
  <2>3. CASE Exhausted(spent)
    <3>1. spent' = spent
      BY <2>1, <2>3, Zenon DEF AskController
    <3> QED  BY <2>2, <2>3, <3>1 DEF Unstopped, Exhausted
  <2>4. CASE ~Exhausted(spent)
    BY <2>1, <2>2, <2>4, OnlyReplanFallsBackOnStopping DEF Unstopped
  <2> QED  BY <2>3, <2>4
<1>6. CASE Recall
  <2>1. \E resp : EndTurn(resp, "")
    BY <1>6, Zenon DEF Recall, ReportedCall, ReportRecoveryFault
  <2> QED  BY <1>3, <2>1
<1>7. CASE CallOther
  <2>1. pc' = "crashed" \/ \E resp, why : why # "budget exhausted; abstain" /\ EndTurn(resp, why)
    <3>1. \/ pc' = "crashed"
          \/ \E resp : EndTurn(resp, "cross-check disagreed")
          \/ \E resp : EndTurn(resp, "")
      BY <1>7, Zenon DEF CallOther, ReportedCall, ReportRecoveryFault
    <3> QED  BY <3>1
  <2> QED  BY <1>3, <2>1 DEF Unstopped
<1>8. CASE UNCHANGED vars
  BY <1>8 DEF vars, judgeVars, loopVars, Unstopped, Exhausted
<1> QED
  BY <1>1, <1>2, <1>4, <1>5, <1>6, <1>7, <1>8 DEF Next, Recover, Ended

\* What recovery.py says of the stop, that the budget is exhausted, is true of every
\* method but full_replan, whose set of operators has no retry to replace one that
\* it does not allow.
THEOREM StoppingMeansExhausted == Spec => [](method # "full_replan" => StopMeansExhausted)
<1>1. Init => Unstopped
  <2> SUFFICES ASSUME Init PROVE Unstopped
    OBVIOUS
  <2>1. pc = "observe" /\ note = ""
    BY Zenon DEF Init
  <2> QED  BY <2>1 DEF Unstopped
<1>2. Unstopped => (method # "full_replan" => StopMeansExhausted)
  BY DEF Unstopped, StopMeansExhausted
<1> QED
  BY <1>1, <1>2, EpisodeStarts, EpisodeStep, UnstoppedStep, PTL DEF Spec

-----------------------------------------------------------------------------
\* A server that was asked rightly leaves nothing out but the readings of a shorter
\* history.
LEMMA NominalLoses ==
  ASSUME NEW c \in CallType, NEW nominal \in Nominal(c)
  PROVE  nominal.lost \subseteq {"readings"}
<1> DEFINE served == Ok(c.tool)
           answers == {[served EXCEPT !.wrong = w] : w \in SUBSET FieldsOf(c.tool)}
<1>1. \/ nominal = Refused(c.tool) \/ nominal \in answers
      \/ nominal = [served EXCEPT !.lost = {"readings"}] \/ nominal = served
  BY DEF Nominal
<1> QED
  BY <1>1 DEF Refused, Ok

\* Families other than P5 take entries, if anything.
LEMMA FaultedLoses ==
  ASSUME NEW tool \in AllTools, NEW nominal \in ResponseType, NEW f \in Family, f # "P5",
         NEW resp \in Faulted(tool, nominal, f)
  PROVE  resp.lost \subseteq nominal.lost \cup Entries
<1> USE DEF ResponseType
<1>1. CASE f \in {"T1", "T2", "T3", "T4", "P1", "P2", "P3", "P4", "R3"}
  BY <1>1 DEF Faulted, Refused, Ok
<1>2. CASE f \in {"S1", "S2", "S4"}
  <2>1. PICK w \in SUBSET FieldsOf(tool) : resp = [nominal EXCEPT !.wrong = @ \cup w]
    BY <1>2 DEF Faulted
  <2> QED  BY <2>1
<1>3. CASE f = "S3"
  <2>1. PICK w \in SUBSET FieldsOf(tool) :
          resp = [nominal EXCEPT !.lost = @ \cup (FieldsOf(tool) \cap Entries),
                                 !.wrong = @ \cup w]
    BY <1>3 DEF Faulted
  <2> QED  BY <2>1
<1>4. CASE f \in {"R1", "R2"}
  BY <1>4 DEF Faulted
<1> QED
  BY <1>1, <1>2, <1>3, <1>4
  DEF Family, TransportFamilies, ProtocolFamilies, SemanticFamilies, ResourceFamilies

\* Only a required field that is removed can cost a history its unit: a narrower one
\* lacks readings, an emptied one its entries.
LEMMA OnlyP5TakesTheUnit ==
  ASSUME NEW c \in CallType, NEW nominal \in Nominal(c), NEW events \in SUBSET Event,
         NEW resp \in Responses(c, nominal, events), "unit" \in resp.lost
  PROVE  "P5" \in FamiliesOf(events)
<1>1. "unit" \notin nominal.lost
  <2>1. nominal.lost \subseteq {"readings"}
    BY NominalLoses
  <2> QED  BY <2>1
<1>2. events # {}
  BY <1>1 DEF Responses
<1>3. PICK f \in FamiliesOf(events) : resp \in Faulted(c.tool, nominal, f)
  BY <1>2 DEF Responses
<1>4. f \in Family
  BY <1>3, ConfigAssumption DEF FamiliesOf, Event, Configured
<1>5. f = "P5"
  <2>1. nominal \in ResponseType /\ c.tool \in AllTools
    BY NominalForms, ToolsAssumption DEF CallType
  <2>2. f # "P5" => resp.lost \subseteq nominal.lost \cup Entries
    BY <1>3, <1>4, <2>1, FaultedLoses
  <2> QED  BY <1>1, <2>2 DEF Entries
<1> QED
  BY <1>3, <1>5


\* So an adapter raises only after a required field has been removed.
Adapting == "P5" \notin families => pc # "crashed"

LEMMA AdaptingStep == EpisodeInv /\ Adapting /\ [Next]_vars => Adapting'
<1> SUFFICES ASSUME EpisodeInv, Adapting, [Next]_vars, "P5" \notin families', pc' = "crashed"
             PROVE  FALSE
  BY DEF Adapting
<1>1. families \subseteq families'
  BY FaultsOnlyAdd
<1>2. pc # "crashed"
  BY <1>1 DEF Adapting
<1>3. CASE CallOther
  <2>1. /\ AskController /\ Operator \in Operators /\ Alternative(Operator, call.tool) # NoTool
        /\ pc = "judge"
    BY <1>3, AskedWithinBudget DEF CallOther, Operator
  <2>2. Other \in CallType /\ callIdx \in TurnKeys /\ TheEpisode \in Episodes /\ TypeOK
    BY <2>1, CallInHand, OtherIsACall DEF EpisodeInv
  <2>3. PICK draw, nominal, resp :
          /\ ReportedCall(Other, draw, nominal, resp)
          /\ AdapterRaises(call, resp) \/ \E why : EndTurn(Reconciled(Operator, resp), why)
    BY <1>3, Zenon DEF CallOther, Other, Operator, ReportedCall, ReportRecoveryFault
  <2>4. "unit" \in resp.lost
    <3>1. ~\E why : EndTurn(Reconciled(Operator, resp), why)
      BY DEF EndTurn
    <3> QED  BY <2>3, <3>1 DEF AdapterRaises
  <2>5. /\ nominal \in Nominal(Other) /\ Kept(Other, draw, nominal) \in SUBSET Event
        /\ resp \in Responses(Other, nominal, Kept(Other, draw, nominal))
        /\ families' = families \cup FamiliesOf(Kept(Other, draw, nominal))
    BY <2>2, <2>3, ProxyCallForms
  <2>6. "P5" \in FamiliesOf(Kept(Other, draw, nominal))
    BY <2>2, <2>4, <2>5, OnlyP5TakesTheUnit
  <2> QED  BY <2>5, <2>6
<1>4. CASE PolicyTurn
  BY <1>2, <1>4 DEF PolicyTurn, FirstTurn, ObserveResult, ObserveError, BeginTurn, SkipStep, EmitCall,
                    Answer, OutOfTurns, loopVars
<1>5. CASE CallAndJudge
  BY <1>5 DEF CallAndJudge
<1>6. CASE NoRecovery \/ Stop \/ Replan \/ Recall
  <2>1. \E resp, why : EndTurn(resp, why)
    BY <1>6, Zenon DEF NoRecovery, Stop, Replan, Recall, ReportedCall, ReportRecoveryFault
  <2> QED  BY <2>1 DEF EndTurn
<1>7. CASE UNCHANGED vars
  BY <1>2, <1>7 DEF vars, loopVars
<1> QED
  BY <1>3, <1>4, <1>5, <1>6, <1>7 DEF Next, Recover, Ended

\* What loop.py says of a source that cannot be adapted, that the original payload is
\* kept, is true of every episode without a P5: the adapter looks for the readings,
\* and no other family leaves those and takes the unit.
THEOREM OnlyP5MakesAdaptersRaise == Spec => []("P5" \notin families => AdaptersNeverRaise)
<1>1. Init => Adapting
  <2> SUFFICES ASSUME Init PROVE Adapting
    OBVIOUS
  <2>1. pc = "observe"
    BY Zenon DEF Init
  <2> QED  BY <2>1 DEF Adapting
<1>2. Adapting => ("P5" \notin families => AdaptersNeverRaise)
  BY DEF Adapting, AdaptersNeverRaise
<1> QED
  BY <1>1, <1>2, EpisodeStarts, EpisodeStep, AdaptingStep, PTL DEF Spec

-----------------------------------------------------------------------------
\* A drift alone, that a retry repairs, leaves a call that the policy has adapted to
\* its hint with nothing to refuse, whatever else has drifted: what injector.py says
\* of a drift, that the other tools stay.  The retries are needed: without one the
\* rename outlives the step it was for.
THEOREM DriftAloneSparesOtherTools ==
  Spec => [](families \subseteq {"P3"} /\ MaxRetries > 0 /\ method # "guardlite"
               => DriftSparesOtherTools)
<1>1. EpisodeInv /\ (Survivable => Sound)
        => (families \subseteq {"P3"} /\ MaxRetries > 0 /\ method # "guardlite"
              => DriftSparesOtherTools)
  <2> SUFFICES ASSUME EpisodeInv, Survivable => Sound, families \subseteq {"P3"},
                      MaxRetries > 0, method # "guardlite", pc = "judge", call.renamed # {},
                      response.kind # "ok"
               PROVE  FALSE
    BY DEF DriftSparesOtherTools
  <2>1. Sound
    BY DEF Survivable, ResultFamilies, SemanticFamilies
  <2>2. rename = NoParam
    BY <2>1 DEF Sound, Answered, Called
  <2>3. call.renamed = {}
    BY <2>1, <2>2 DEF Sound, InHand
  <2> QED  BY <2>3
<1> QED
  BY <1>1, EpisodeStarts, SoundStarts, EpisodeStep, SoundStep, PTL DEF Spec

-----------------------------------------------------------------------------
\* What the writes have left is right, and there is something as soon as one of them
\* has been answered.
AllGold == \A k \in 1 .. Len(stored) : stored[k] = "gold"
Deposited ==
  /\ AllGold
  /\ \A k \in 1 .. step : results[k].of \in Writes => stored # <<>>
  /\ Called /\ response.kind = "ok" /\ call.tool \in Writes => stored # <<>>

\* A right call adds what is right, and nothing takes a write back; an answer to a
\* write is an answer of the server.
LEMMA RightWritesStay ==
  ASSUME TypeOK, callIdx \in TurnKeys, TheEpisode \in Episodes,
         NEW c \in CallType, c.arg = "gold" \/ c.tool \notin Writes,
         NEW draw, NEW nominal, NEW resp, ReportedCall(c, draw, nominal, resp)
  PROVE  /\ AllGold => AllGold'
         /\ stored # <<>> => stored' # <<>>
         /\ resp.kind = "ok" /\ c.tool \in Writes => stored' # <<>>
<1>0. stored \in Seq(ArgQuality)
  <2>1. ProxyTypeOK
    BY DEF TypeOK
  <2> QED  BY <2>1 DEF ProxyTypeOK
<1>1. Write(c, nominal)
  BY DEF ReportedCall, ThroughProxy, CallTool
<1>2. resp.kind = "ok" => nominal.kind = "ok"
  <2>1. /\ nominal \in Nominal(c) /\ Kept(c, draw, nominal) \in SUBSET Event
        /\ resp \in Responses(c, nominal, Kept(c, draw, nominal))
    BY ProxyCallForms
  <2> QED  BY <2>1, ResponseForms
<1>3. CASE nominal.kind # "ok" \/ c.tool \notin Writes
  <2>1. stored' = stored
    BY <1>1, <1>3 DEF Write, Writes
  <2> QED  BY <1>2, <1>3, <2>1 DEF AllGold
<1>4. CASE nominal.kind = "ok" /\ c.tool \in Appends
  <2>1. stored' = Append(stored, "gold")
    BY <1>1, <1>4 DEF Write, Writes
  <2>2. Len(stored') = Len(stored) + 1
        /\ \A k \in 1 .. Len(stored) + 1 : k = Len(stored) + 1 \/ k \in 1 .. Len(stored)
    BY <1>0, <2>1
  <2>3. stored'[Len(stored) + 1] = "gold" /\ \A k \in 1 .. Len(stored) : stored'[k] = stored[k]
    BY <1>0, <2>1 DEF ArgQuality
  <2>4. stored' # <<>>
    BY <1>0, <2>2
  <2>5. AllGold => AllGold'
    BY <2>2, <2>3 DEF AllGold
  <2> QED  BY <2>4, <2>5
<1>5. CASE nominal.kind = "ok" /\ c.tool \in Writes /\ c.tool \notin Appends
  <2>1. stored' = <<"gold">>
    BY <1>1, <1>5 DEF Write, Writes
  <2>2. stored' # <<>> /\ Len(stored') = 1 /\ stored'[1] = "gold"
    BY <2>1
  <2> QED  BY <2>2 DEF AllGold
<1> QED
  BY <1>3, <1>4, <1>5 DEF Writes

\* The policy's steps leave the state alone, and record what they were answered.
LEMMA PolicyKeepsDeposits ==
  ASSUME EpisodeInv, EpisodeInv', Deposited, PolicyTurn
  PROVE  Deposited'
<1>0. /\ step \in Nat /\ Len(results) = step /\ results \in Seq(ResultType)
  BY TypeParts DEF EpisodeInv, ResultsFollowPlan, PolicyOK
<1>1. stored' = stored /\ AllGold'
  <2>1. stored' = stored
    BY DEF PolicyTurn, FirstTurn, ObserveResult, ObserveError, BeginTurn, SkipStep, EmitCall,
           Answer, OutOfTurns, proxyVars
  <2> QED  BY <2>1 DEF Deposited, AllGold
<1>2. Called' => Called /\ response' = response /\ call' = call
  BY DEF Called, PolicyTurn, FirstTurn, ObserveResult, ObserveError, BeginTurn, SkipStep, EmitCall,
         Answer, OutOfTurns, loopVars
<1>3. ASSUME NEW result, RecordStep(result), result.of \in Writes => stored # <<>>
      PROVE  \A k \in 1 .. step' : results'[k].of \in Writes => stored' # <<>>
  <2>1. step' = step + 1 /\ results' = Append(results, result)
    BY <1>3 DEF RecordStep
  <2>2. \A k \in 1 .. step + 1 :
          Append(results, result)[k] = IF k = step + 1 THEN result ELSE results[k]
    BY <1>0
  <2>3. \A k \in 1 .. step + 1 : k = step + 1 \/ k \in 1 .. step
    BY <1>0
  <2> QED  BY <1>1, <1>3, <2>1, <2>2, <2>3 DEF Deposited
<1>4. \A k \in 1 .. step' : results'[k].of \in Writes => stored' # <<>>
  <2>1. CASE UNCHANGED <<step, results>>
    BY <1>1, <2>1 DEF Deposited
  <2>2. CASE RecordStep(Hole)
    <3>1. Hole.of \notin Writes
      BY DEF Hole, Writes, Appends, Assigns, NoTool
    <3> QED  BY <1>3, <2>2, <3>1
  <2>3. CASE ObserveResult
    <3>1. Called /\ response.kind = "ok" /\ RecordStep(ResultOf(response))
      BY <2>3 DEF ObserveResult, BeginTurn, Called
    <3>2. response.of = call.tool
      BY <3>1 DEF EpisodeInv, OnPlan
    <3>3. ResultOf(response).of = call.tool
      BY <3>2 DEF ResultOf
    <3> QED  BY <1>3, <3>1, <3>3 DEF Deposited
  <2> QED
    BY <2>1, <2>2, <2>3 DEF PolicyTurn, FirstTurn, ObserveError, SkipStep, EmitCall, Answer,
                            OutOfTurns, policyVars
<1> QED
  BY <1>1, <1>2, <1>4 DEF Deposited

\* So do the calls, the policy's and recovery's, as long as their arguments are right.
LEMMA CallsKeepDeposits ==
  ASSUME EpisodeInv, EpisodeInv', Deposited, Truthful, CallAndJudge \/ Recover
  PROVE  Deposited'
<1>0. /\ callIdx \in TurnKeys /\ TheEpisode \in Episodes /\ TypeOK /\ call \in CallType
      /\ pc \in {"call", "judge"} /\ UNCHANGED <<step, results>>
  <2>1. pc \in {"call", "judge"} /\ UNCHANGED <<step, results>>
    BY DEF CallAndJudge, Recover, NoRecovery, Stop, Replan, Recall, CallOther, AskController,
           EndTurn, policyVars
  <2> QED
    BY <2>1, CallInHand DEF EpisodeInv
<1>1. ASSUME AllGold', stored # <<>> => stored' # <<>>,
             Called' => (response'.kind = "ok" /\ call'.tool \in Writes => stored' # <<>>)
      PROVE  Deposited'
  BY <1>0, <1>1 DEF Deposited
<1>2. CASE CallAndJudge
  <2>1. /\ call' = call
        /\ \E draw, nominal, resp : ReportedCall(call, draw, nominal, resp) /\ response' = resp
    BY <1>2, Zenon DEF CallAndJudge, ReportedCall, ReportPolicyFault
  <2>2. PICK draw, nominal, resp : ReportedCall(call, draw, nominal, resp) /\ response' = resp
    BY <2>1
  <2>3. /\ AllGold' /\ (stored # <<>> => stored' # <<>>)
        /\ resp.kind = "ok" /\ call.tool \in Writes => stored' # <<>>
    BY <1>0, <2>2, RightWritesStay DEF Deposited, Truthful
  <2> QED  BY <1>1, <2>1, <2>2, <2>3
<1>3. CASE NoRecovery \/ Stop \/ Replan
  <2>1. pc = "judge" /\ UNCHANGED <<stored, response, call>>
    BY <1>3 DEF NoRecovery, Stop, Replan, AskController, EndTurn, proxyVars
  <2>2. AllGold'
    BY <2>1 DEF Deposited, AllGold
  <2> QED  BY <1>1, <2>1, <2>2 DEF Deposited, Called
<1>4. CASE Recall
  <2>1. PICK draw, nominal, resp :
          pc = "judge" /\ ReportedCall(Again, draw, nominal, resp) /\ EndTurn(resp, "")
    BY <1>4, Zenon DEF Recall, Again, Operator, AskController, ReportedCall, ReportRecoveryFault
  <2>2. Again \in CallType /\ Again.tool = call.tool
    BY <2>1, AgainIsACall
  <2>3. Again.arg = "gold"
    BY <1>0 DEF Again, Recalled, CallType, Truthful
  <2>4. /\ AllGold' /\ (stored # <<>> => stored' # <<>>)
        /\ resp.kind = "ok" /\ call.tool \in Writes => stored' # <<>>
    BY <1>0, <2>1, <2>2, <2>3, RightWritesStay DEF Deposited
  <2> QED  BY <1>1, <2>1, <2>4 DEF EndTurn
<1>5. CASE CallOther
  <2>1. /\ AskController /\ Operator \in Operators /\ Alternative(Operator, call.tool) # NoTool
        /\ pc = "judge"
    BY <1>5, AskedWithinBudget DEF CallOther, Operator
  <2>2. Other \in CallType /\ Other.tool = Alternative(Operator, call.tool)
    BY <2>1, OtherIsACall
  <2>3. Other.tool \notin Writes /\ call.tool \notin Writes
    BY <2>1, <2>2 DEF Alternative, Writes, Appends, Assigns
  <2>4. \E draw, nominal, resp : ReportedCall(Other, draw, nominal, resp)
    BY <1>5, Zenon DEF CallOther, Other, Operator, ReportedCall, ReportRecoveryFault
  <2>5. AllGold' /\ (stored # <<>> => stored' # <<>>)
    BY <1>0, <2>2, <2>3, <2>4, RightWritesStay DEF Deposited
  <2>6. call' = call
    BY <1>5 DEF CallOther, EndTurn
  <2> QED  BY <1>1, <2>3, <2>5, <2>6
<1> QED
  BY <1>2, <1>3, <1>4, <1>5 DEF Recover

\* Overt faults keep the deposits.
LEMMA DepositsStep ==
  EpisodeInv /\ (Overt => Truthful /\ Deposited) /\ [Next]_vars => (Overt' => Deposited')
<1> SUFFICES ASSUME EpisodeInv, Overt => Truthful /\ Deposited, [Next]_vars, Overt'
             PROVE  Deposited'
  OBVIOUS
<1>1. EpisodeInv' /\ Truthful /\ Deposited
  <2>1. families \subseteq families'
    BY FaultsOnlyAdd
  <2> QED  BY <2>1, EpisodeStep DEF Overt
<1>2. CASE UNCHANGED vars
  BY <1>1, <1>2 DEF vars, proxyVars, policyVars, loopVars, Deposited, AllGold, Called
<1> QED
  BY <1>1, <1>2, PolicyKeepsDeposits, CallsKeepDeposits DEF Next, Ended

\* What servers.py says of a state reached with retries, that the verifier takes it
\* for that of a clean episode, is true of every one in which nothing was written
\* twice, under whatever overt faults and recovery: the task's last step has been
\* answered, so its write is there, and it is right.
THEOREM OnlyRepeatedWritesArePunished ==
  Spec => [](families \cap SilentFamilies = {} /\ Len(stored) <= 1 => RecoveryIsNotPunished)
<1>1. Init => (Overt => Deposited)
  <2> SUFFICES ASSUME Init PROVE Deposited
    OBVIOUS
  <2>1. step = 0 /\ stored = <<>> /\ pc = "observe" /\ turn = 0
    BY Zenon DEF Init, ProxyInit
  <2> QED  BY <2>1 DEF Deposited, AllGold, Called
<1>2. EpisodeInv /\ Concluded /\ (Overt => Truthful /\ Deposited)
        => (families \cap SilentFamilies = {} /\ Len(stored) <= 1 => RecoveryIsNotPunished)
  <2> SUFFICES ASSUME EpisodeInv, Concluded, Deposited, Len(stored) <= 1,
                      verdict = "final", Mutates,
                      \A k \in DOMAIN results : results[k].of = ThePlan[k].tool
               PROVE  stored = <<"gold">>
    BY DEF Overt, RecoveryIsNotPunished, Success, Mutates
  <2>1. /\ stored \in Seq(ArgQuality) /\ task \in Tasks /\ step = Len(ThePlan)
        /\ Len(results) = step /\ results \in Seq(ResultType)
    BY TypeParts DEF EpisodeInv, TypeOK, ProxyTypeOK, Concluded, ResultsFollowPlan, PolicyOK
  <2>2. step = 2 /\ ThePlan[2].tool \in Writes
    BY <2>1, WritesComeLast DEF Writes
  <2>3. results[2].of \in Writes
    BY <2>1, <2>2
  <2>4. stored # <<>>
    BY <2>2, <2>3 DEF Deposited
  <2>5. Len(stored) = 1
    <3>1. Len(stored) \in Nat \ {0}
      BY <2>1, <2>4, EmptySeq, Zenon
    <3>2. \A n \in Nat \ {0} : n <= 1 => n = 1
      OBVIOUS
    <3> QED  BY <3>1, <3>2, Zenon
  <2> QED  BY <2>1, <2>5 DEF Deposited, AllGold
<1>3. EpisodeInv /\ Concluded /\ (Overt => Truthful) /\ (Overt => Deposited) /\ [Next]_vars
        => (Overt' => Truthful') /\ (Overt' => Deposited')
  BY TruthfulStep, DepositsStep
<1> QED
  BY <1>1, <1>2, <1>3, EpisodeStarts, EpisodeStep, ConcludedStep, SoundStarts, TruthfulStarts,
     PTL DEF Spec

=============================================================================
