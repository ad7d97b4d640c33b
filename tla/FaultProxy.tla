----------------------------- MODULE FaultProxy -----------------------------
(***************************************************************************)
(* FaultProxy (faults/proxy.py) between a caller and the environment's     *)
(* server: it asks the scheduler for a fault, forwards the call, and       *)
(* applies the fault to the response.  Payloads are reduced to what tells  *)
(* outcomes apart: of a call, the parameters spelled by their new name,    *)
(* whether its values are the gold ones, and whether a shorter history was *)
(* asked for; of a result, the fields that are missing and those that are  *)
(* wrong.  ProxyCaller calls it any way it likes, AgentLoop as the agent   *)
(* does.                                                                   *)
(***************************************************************************)
EXTENDS FaultScheduler, ToolCatalog, FiniteSets

\* The proxy's agent is offered the servers' own tools.
ASSUME ToolsAssumption == Tools \subseteq AllTools

VARIABLES
  drift,       \* tools whose first parameter has been renamed
  stored,      \* the values the writes left in the digested state
  calls,       \* stats.calls
  fired        \* stats.faults_fired

proxyVars == <<latched, counts, drift, stored, calls, fired>>

CallOf(tool, renamed, arg, narrow) ==
  [tool |-> tool, renamed |-> renamed, arg |-> arg, narrow |-> narrow]

\* Values are the gold ones, wrong ones, or the empty string an argument builder
\* falls back on.
ArgQuality == {"gold", "wrong", "void"}

CallType == [tool : Tools, renamed : SUBSET Params, arg : ArgQuality, narrow : BOOLEAN]

\* kind "ok" carries a result; "error" a JSON-RPC error, with the parameter a
\* drift message says was renamed; "transport" and "raw" are the sentinels for a
\* broken connection and for bytes that do not parse.  "of" is the tool whose
\* result object it is; "broken" says that object breaks its output schema.
Ok(tool) == [kind |-> "ok", of |-> tool, hint |-> NoParam, lost |-> {}, wrong |-> {},
             broken |-> FALSE]
Refused(tool) == [Ok(tool) EXCEPT !.kind = "error"]

ResponseType ==
  [kind : {"ok", "error", "transport", "raw"}, of : AllTools \cup {NoTool},
   hint : Params \cup {NoParam, "param"}, lost : SUBSET Fields,
   wrong : SUBSET Fields, broken : BOOLEAN]

\* The caller spells the drifted parameter by its new name.
Adapted(call) == call.tool \in drift /\ FirstParam(call.tool) \in call.renamed

\* _forward: the server refuses an unknown parameter, and a device without a
\* name; a wrong value may be refused too, or answered with results that are
\* wrong in any field.  A shorter history lacks readings the task asked for.
Nominal(call) ==
  LET unknown == IF Adapted(call) THEN call.renamed \ {FirstParam(call.tool)}
                                  ELSE call.renamed
      served  == Ok(call.tool)
      answers == {[served EXCEPT !.wrong = w] : w \in SUBSET FieldsOf(call.tool)}
  IN  IF \/ unknown # {}
         \/ call.arg = "void" /\ FirstParam(call.tool) = "device_id"
      THEN {Refused(call.tool)}
      ELSE IF call.arg # "gold" THEN {Refused(call.tool)} \cup answers
      ELSE IF call.narrow THEN {[served EXCEPT !.lost = {"readings"}]}
      ELSE {served}

\* A silently emptied result has none of the entries later steps pick from; its
\* count or value is that of an empty set, right only by coincidence.
Entries == {"slots", "events", "readings", "body"}

\* apply_fault: what a family makes of a nominal response.
Faulted(tool, nominal, f) ==
  CASE f \in {"T1", "T2", "T3"} -> {[Refused(tool) EXCEPT !.kind = "transport"]}
    [] f \in {"T4", "P2"}       -> {[Refused(tool) EXCEPT !.kind = "raw"]}
    [] f \in {"P1", "P4", "R3"} -> {Refused(tool)}
    [] f = "P3" -> {[Refused(tool) EXCEPT !.hint = IF FirstParam(tool) = NoParam
                                             THEN "param" ELSE FirstParam(tool)]}
    [] f = "P5" -> {[nominal EXCEPT !.broken = TRUE, !.lost = @ \cup gone] :
                      gone \in {{x} : x \in FieldsOf(tool)}
                               \cup (IF HasUnreadField(tool) THEN {{}} ELSE {})}
    [] f \in {"S1", "S2", "S4"} -> {[nominal EXCEPT !.wrong = @ \cup w] :
                                      w \in SUBSET FieldsOf(tool)}
    [] f = "S3" -> {[nominal EXCEPT !.lost = @ \cup (FieldsOf(tool) \cap Entries),
                                    !.wrong = @ \cup w] :
                      w \in SUBSET (FieldsOf(tool) \cap {"count", "value"})}
    [] f \in {"R1", "R2"} -> {nominal}

\* Mutant: an adapted caller still gets the drift.
KeptEventsOfAdaptedToo(ep, turn, call, draw, nominal) ==
  {e \in Decision(ep, turn, call.tool, draw) :
     e.family \in ResultFamilies => nominal.kind = "ok"}

\* decide() as the proxy keeps it: a drift no longer concerns a caller that has
\* adapted to it, and a fault that corrupts results has none to corrupt in a
\* server's own error.
KeptEvents(ep, turn, call, draw, nominal) ==
  {e \in Decision(ep, turn, call.tool, draw) :
     /\ ~(e.family = "P3" /\ Adapted(call))
     /\ e.family \in ResultFamilies => nominal.kind = "ok"}

\* A write takes effect when the server answers it, whatever the caller is told.
Write(call, nominal) ==
  stored' = IF nominal.kind # "ok"          THEN stored
            ELSE IF call.tool \in Appends   THEN Append(stored, call.arg)
            ELSE IF call.tool \in Assigns   THEN <<call.arg>>
            ELSE stored

\* The families of the kept event; none when the call goes through clean.
FamiliesOf(events) == {e.family : e \in events}

Responses(call, nominal, events) ==
  IF events = {} THEN {nominal}
  ELSE UNION {Faulted(call.tool, nominal, f) : f \in FamiliesOf(events)}

\* Mutants: a tool without a parameter drifts too; only one tool can drift.
DriftAfterAnyTool(call, events) ==
  IF "P3" \in FamiliesOf(events) THEN drift \cup {call.tool} ELSE drift

DriftAfterFirstOnly(call, events) ==
  IF "P3" \in FamiliesOf(events) /\ FirstParam(call.tool) # NoParam /\ drift = {}
  THEN {call.tool} ELSE drift

\* A drift that fires is remembered, if the tool has a parameter to rename.
DriftAfter(call, events) ==
  IF "P3" \in FamiliesOf(events) /\ FirstParam(call.tool) # NoParam
  THEN drift \cup {call.tool} ELSE drift

\* The whole of call_tool, for a response the call may get.
CallTool(ep, turn, call, draw, nominal, response) ==
  LET events == KeptEvents(ep, turn, call, draw, nominal)
  IN  /\ nominal \in Nominal(call)
      /\ response \in Responses(call, nominal, events)
      /\ Decide(ep, turn, call.tool, draw)
      /\ Write(call, nominal)
      /\ drift' = DriftAfter(call, events)
      /\ calls' = calls + 1
      /\ fired' = fired + Cardinality(events)

\* tools/list after drift: the parameter a caller can read there.
AdvertisesNewName(tool) == tool \in drift

\* reset_episode() forgets every drift, not only this episode's.
ProxyReset(ep) ==
  /\ ResetEpisode(ep)
  /\ drift' = {}
  /\ UNCHANGED <<stored, calls, fired>>

ProxyInit ==
  /\ SchedInit
  /\ drift = {}
  /\ stored = <<>>
  /\ calls = 0
  /\ fired = 0

ProxyTypeOK ==
  /\ SchedTypeOK
  /\ drift \subseteq {t \in Tools : FirstParam(t) # NoParam}
  /\ stored \in Seq(ArgQuality)
  /\ calls \in Nat
  /\ fired \in 0 .. calls

=============================================================================
