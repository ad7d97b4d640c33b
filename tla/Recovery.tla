------------------------------ MODULE Recovery ------------------------------
(***************************************************************************)
(* The detectors and the recovery controller (agent/sentinel, recovery):   *)
(* what each method proposes for a response, what the controller makes of  *)
(* a proposal under its budget, and the call an operator asks for.         *)
(***************************************************************************)
EXTENDS FaultProxy

CONSTANTS
  NMax,            \* RecoveryBudget.n_max
  SentinelTuned    \* the learned sentinel's own threshold lies above the loop's

ASSUME BudgetAssumption == NMax \in Nat /\ SentinelTuned \in BOOLEAN

\* The whole baseline grid, and the scripted agent under each.
AllMethods == {"naive", "retry_only", "reflect", "full_replan", "guardlite", "oracle"}
HasController(method) == method \notin {"naive", "reflect"}

RetryOperators == {"retry", "retry_backoff"}
Operators == RetryOperators \cup {"reparameterize", "substitute", "decompose", "replan",
                                  "verify", "abstain"}

\* No proposal, and the sentinel's own "nothing is wrong".
Proposals == Operators \cup {"none", "noop"}

AllowedOperators(method) ==
  CASE method = "retry_only"  -> RetryOperators \cup {"abstain"}
    [] method = "full_replan" -> {"replan", "abstain"}
    [] OTHER                  -> Operators

\* ---------------------------------------------------------------- detection

\* The schema check of the feature extractor: an error envelope has no result to
\* check, bytes that do not parse are invalid by fiat.
SchemaValid(response) ==
  \/ response.kind = "error"
  \/ response.kind = "ok" /\ ~response.broken

\* The latency z-score of a tool needs four earlier responses of that tool; with
\* them a slow response, injected or not, may pass the threshold.
ZScoreHistory == 4

\* Mutant: the z-score is trusted without a history.
RuleProposalsNoHistory(response, seen) ==
  IF response.kind = "error" \/ ~SchemaValid(response) THEN {"retry"}
  ELSE {"none", "retry_backoff"}

RuleProposals(response, seen) ==
  IF response.kind = "error" \/ ~SchemaValid(response) THEN {"retry"}
  ELSE IF seen >= ZScoreHistory THEN {"none", "retry_backoff"}
  ELSE {"none"}

OracleProposals(events) ==
  IF events = {} THEN {"none"} ELSE {OracleOp(f) : f \in FamiliesOf(events)}

\* A learned sentinel may suspect any family or none.  A fault probability
\* between the loop's threshold and a higher one of its own reaches the loop as
\* a suspicion with the operator NOOP.
SentinelProposals ==
  {"none"} \cup {OracleOp(f) : f \in Family} \cup (IF SentinelTuned THEN {"noop"} ELSE {})

ProposalsOf(method, response, events, seen) ==
  CASE method \in {"retry_only", "full_replan"} -> RuleProposals(response, seen)
    [] method = "oracle"                        -> OracleProposals(events)
    [] method = "guardlite"                     -> SentinelProposals
    [] OTHER                                    -> {"none"}

\* --------------------------------------------------------------- controller

\* Mutant: one action past the budget.
ExhaustedLate(spent) == spent > NMax

Exhausted(spent) == spent >= NMax

\* The loop turns a NOOP into a retry before it asks the controller, and the
\* controller replaces an operator its set does not have.
Asked(proposal) == IF proposal = "noop" THEN "retry" ELSE proposal

Granted(method, proposal) ==
  LET allowed == AllowedOperators(method)
  IN  IF Asked(proposal) \in allowed THEN Asked(proposal)
      ELSE IF "retry" \in allowed THEN "retry" ELSE "abstain"

\* ---------------------------------------------------------------- operators

\* The other tool an operator corroborates or replaces a call with.
Alternative(operator, tool) ==
  CASE operator \in {"verify", "substitute"} /\ tool = "sensor.read" -> "sensor.history"
    [] operator = "verify" /\ tool = "cal.get"                       -> "cal.list"
    [] operator = "substitute" /\ tool = "kv.get"                    -> "kv.scan"
    [] OTHER                                                         -> NoTool

\* The same tool again: repaired by the drift hint of the failed response, or
\* narrowed to half the readings, or as it was.
Recalled(operator, call, response) ==
  CASE operator = "reparameterize" /\ response.hint \in ParamsOf(call.tool)
                             -> [call EXCEPT !.renamed = @ \cup {response.hint}]
    [] operator = "decompose" /\ call.tool = "sensor.history"
                             -> [call EXCEPT !.narrow = TRUE]
    [] OTHER                 -> call

\* The alternative is called with the argument of the original, under the
\* parameter's old name only, or with the date of the suspect result.
AlternativeCall(operator, call, response) ==
  LET tool == Alternative(operator, call.tool)
      arg  == IF tool = "cal.list"
              THEN IF response.kind # "ok" \/ "start" \in response.lost THEN "void"
                   ELSE IF "start" \in response.wrong THEN "wrong" ELSE "gold"
              ELSE IF FirstParam(call.tool) \in call.renamed THEN "void" ELSE call.arg
  IN  CallOf(tool, {}, arg, FALSE)

\* _reconcile compares the two results in their own shapes, which always differ.
Disagree(original, other) == original.kind = "ok" /\ other.kind = "ok"

\* Only a history can be reshaped into a reading: its last entry, with its unit.
Adaptable(original, other) ==
  /\ original.tool = "sensor.read"
  /\ other.kind = "ok"
  /\ "readings" \notin other.lost

\* The adapter indexes the unit without looking.
AdapterRaises(original, other) == Adaptable(original, other) /\ "unit" \in other.lost

AdaptedReading(other) ==
  [Ok("sensor.read") EXCEPT !.wrong = IF "readings" \in other.wrong THEN {"value"} ELSE {}]

=============================================================================
