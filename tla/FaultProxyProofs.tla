-------------------------- MODULE FaultProxyProofs --------------------------
(***************************************************************************)
(* What every caller of the proxy may rely on, proved for every catalogue  *)
(* tool, family, priority order and draw: the shapes of calls, events and  *)
(* responses, and what a response says of its call and of the fault on it. *)
(***************************************************************************)
EXTENDS FaultProxy, FaultSchedulerProofs, FiniteSetTheorems

\* The parameter a drift renames is one of the tool's own; "param", which a drift
\* of a tool without parameters names, is no tool's.
LEMMA FirstParamOfTool ==
  /\ \A tool \in AllTools : FirstParam(tool) # NoParam => FirstParam(tool) \in ParamsOf(tool)
  /\ \A tool : FirstParam(tool) # "param" /\ "param" \notin OtherParams(tool)
  /\ NoParam \notin Params /\ "param" \notin Params
<1>1. \A tool : FirstParam(tool) # "param" /\ "param" \notin OtherParams(tool)
  BY DEF FirstParam, OtherParams, NoParam
<1>2. \A tool : NoParam \notin OtherParams(tool)
  BY DEF OtherParams, NoParam
<1> QED
  BY <1>1, <1>2 DEF ParamsOf, Params, NoParam

\* What the server itself answers is a result or a refusal, undamaged, without a
\* hint, and a result of the tool that was called.
LEMMA NominalForms ==
  ASSUME NEW call \in CallType, NEW nominal \in Nominal(call)
  PROVE  /\ nominal \in ResponseType
         /\ nominal.kind \in {"ok", "error"} /\ nominal.of = call.tool
         /\ nominal.hint = NoParam /\ ~nominal.broken
         /\ nominal.lost # {} => call.narrow
         /\ nominal.wrong # {} => call.arg # "gold"
<1> DEFINE served == Ok(call.tool)
           answers == {[served EXCEPT !.wrong = w] : w \in SUBSET FieldsOf(call.tool)}
<1>1. call.tool \in AllTools
  BY ToolsAssumption DEF CallType
<1>2. FieldsOf(call.tool) \subseteq Fields
  BY <1>1 DEF Fields
<1>3. "readings" \in Fields
  <2>1. "readings" \in FieldsOf("sensor.history") /\ "sensor.history" \in AllTools
    BY DEF FieldsOf, AllTools
  <2> QED  BY <2>1 DEF Fields
<1>4. CASE nominal = Refused(call.tool)
  BY <1>1, <1>4 DEF Refused, Ok, ResponseType
<1>5. CASE nominal \in answers /\ call.arg # "gold"
  BY <1>1, <1>2, <1>5 DEF Ok, ResponseType
<1>6. CASE nominal = [served EXCEPT !.lost = {"readings"}] /\ call.narrow
  BY <1>1, <1>3, <1>6 DEF Ok, ResponseType
<1>7. CASE nominal = served
  BY <1>1, <1>7 DEF Ok, ResponseType
<1> QED
  BY <1>4, <1>5, <1>6, <1>7 DEF Nominal

\* The proxy keeps at most one event of a call, a configured family's.
LEMMA KeptForms ==
  ASSUME SchedTypeOK, NEW ep \in Episodes, NEW turn \in TurnKeys,
         NEW call \in CallType, NEW draw, NEW nominal, Decide(ep, turn, call.tool, draw)
  PROVE  /\ SchedTypeOK'
         /\ KeptEvents(ep, turn, call, draw, nominal) \in SUBSET Event
         /\ \/ KeptEvents(ep, turn, call, draw, nominal) = {}
            \/ \E e \in Event :
                 /\ KeptEvents(ep, turn, call, draw, nominal) = {e}
                 /\ ~(e.family = "P3" /\ Adapted(call))
                 /\ e.family \in ResultFamilies => nominal.kind = "ok"
<1> DEFINE decided == Decision(ep, turn, call.tool, draw)
           kept    == KeptEvents(ep, turn, call, draw, nominal)
<1>1. call.tool \in Tools
  BY DEF CallType
<1>2. decided \subseteq Event /\ SchedTypeOK'
  BY <1>1, DecideType
<1>3. decided = {} \/ \E e : decided = {e}
  <2>1. \/ FiresNothing(ep, turn, call.tool, draw)
        \/ \E f \in Configured : FiresLasting(ep, turn, call.tool, draw, f)
        \/ \E f \in Configured : FiresFresh(ep, turn, call.tool, draw, f)
    BY DecisionForms
  <2> QED  BY <2>1, Zenon DEF FiresNothing, FiresLasting, FiresFresh
<1> HIDE DEF decided
<1>4. kept = {e \in decided : /\ ~(e.family = "P3" /\ Adapted(call))
                              /\ e.family \in ResultFamilies => nominal.kind = "ok"}
  BY DEF KeptEvents, decided
<1>5. ASSUME NEW e, decided = {e}
      PROVE  kept = {} \/ (kept = {e} /\ e \in Event)
  BY <1>2, <1>4, <1>5
<1>6. ASSUME NEW e, decided = {e}, kept = {e}
      PROVE  /\ ~(e.family = "P3" /\ Adapted(call))
             /\ e.family \in ResultFamilies => nominal.kind = "ok"
  BY <1>4, <1>6
<1> QED
  BY <1>2, <1>3, <1>4, <1>5, <1>6

\* What a family makes of a response keeps its type and its tool, hints only at
\* drift, damages a result and nothing else, and only silently if it is silent.
LEMMA FaultedForms ==
  ASSUME NEW tool \in AllTools, NEW nominal \in ResponseType, NEW f \in Family,
         NEW response \in Faulted(tool, nominal, f), nominal.of = tool
  PROVE  /\ response \in ResponseType /\ response.of = tool
         /\ response.hint \notin {NoParam, nominal.hint} =>
              f = "P3" /\ response.hint = IF FirstParam(tool) = NoParam THEN "param"
                                          ELSE FirstParam(tool)
         /\ response.kind = "ok" => nominal.kind = "ok"
         /\ response.kind # "ok" =>
              f \notin ResultFamilies \/ nominal.kind # "ok"
         /\ response.wrong # {} => nominal.wrong # {} \/ f \in SilentFamilies
         /\ response.lost # {} => nominal.lost # {} \/ f \in ResultFamilies
<1> USE DEF ResponseType, ResultFamilies, SilentFamilies, SemanticFamilies
<1>1. FieldsOf(tool) \subseteq Fields
  BY DEF Fields
<1>2. CASE f \in {"T1", "T2", "T3"}
  BY <1>2 DEF Faulted, Refused, Ok
<1>3. CASE f \in {"T4", "P2"}
  BY <1>3 DEF Faulted, Refused, Ok
<1>4. CASE f \in {"P1", "P4", "R3"}
  BY <1>4 DEF Faulted, Refused, Ok
<1>5. CASE f = "P3"
  <2> DEFINE hint == IF FirstParam(tool) = NoParam THEN "param" ELSE FirstParam(tool)
  <2>1. FirstParam(tool) # NoParam => FirstParam(tool) \in Params
    BY FirstParamOfTool DEF Params
  <2>2. response = [Refused(tool) EXCEPT !.hint = hint]
    BY <1>5 DEF Faulted
  <2>3. hint \in Params \cup {"param"}
    BY <2>1
  <2> HIDE DEF hint
  <2>4. response \in ResponseType /\ response.of = tool /\ response.hint = hint
    BY <2>2, <2>3 DEF Refused, Ok
  <2>5. response.kind = "error" /\ response.wrong = {} /\ response.lost = {}
    BY <2>2 DEF Refused, Ok
  <2>6. response.hint = IF FirstParam(tool) = NoParam THEN "param" ELSE FirstParam(tool)
    BY <2>4 DEF hint
  <2> HIDE DEF ResponseType
  <2> QED  BY <1>5, <2>4, <2>5, <2>6
<1>6. CASE f = "P5"
  <2> DEFINE Struck(gone) == [nominal EXCEPT !.broken = TRUE, !.lost = @ \cup gone]
             oneField     == {{x} : x \in FieldsOf(tool)}
             unread       == IF HasUnreadField(tool) THEN {{}} ELSE {}
  <2>0. response \in {Struck(gone) : gone \in oneField \cup unread}
    BY <1>6 DEF Faulted
  <2>1. PICK gone \in SUBSET FieldsOf(tool) : response = Struck(gone)
    <3> HIDE DEF Struck
    <3>1. oneField \cup unread \subseteq SUBSET FieldsOf(tool)
      OBVIOUS
    <3> QED  BY <2>0, <3>1
  <2> QED  BY <1>1, <1>6, <2>1
<1>7. CASE f \in {"S1", "S2", "S4"}
  <2>1. PICK w \in SUBSET FieldsOf(tool) : response = [nominal EXCEPT !.wrong = @ \cup w]
    BY <1>7 DEF Faulted
  <2> QED  BY <1>1, <1>7, <2>1
<1>8. CASE f = "S3"
  <2>1. PICK gone \in SUBSET FieldsOf(tool), w \in SUBSET FieldsOf(tool) :
          response = [nominal EXCEPT !.lost = @ \cup gone, !.wrong = @ \cup w]
    BY <1>8 DEF Faulted
  <2> QED  BY <1>1, <1>8, <2>1
<1>9. CASE f \in {"R1", "R2"}
  BY <1>9 DEF Faulted
<1> QED
  BY <1>2, <1>3, <1>4, <1>5, <1>6, <1>7, <1>8, <1>9
  DEF Family, TransportFamilies, ProtocolFamilies, ResourceFamilies

\* What a caller can read from a response: it concerns the tool that was called;
\* a hint is a drift's; damage is a fault's, or asked for; a result that arrives
\* is the server's, and one that a result family was to damage does arrive.
LEMMA ResponseForms ==
  ASSUME NEW call \in CallType, NEW nominal \in Nominal(call), NEW events \in SUBSET Event,
         NEW response \in Responses(call, nominal, events)
  PROVE  /\ response \in ResponseType /\ response.of = call.tool
         /\ response.hint # NoParam =>
              /\ "P3" \in FamiliesOf(events)
              /\ response.hint = IF FirstParam(call.tool) = NoParam THEN "param"
                                 ELSE FirstParam(call.tool)
         /\ response.kind = "ok" => nominal.kind = "ok"
         /\ events = {} => response = nominal
         /\ response.wrong # {} =>
              call.arg # "gold" \/ FamiliesOf(events) \cap SilentFamilies # {}
         /\ response.lost # {} =>
              call.narrow \/ FamiliesOf(events) \cap ResultFamilies # {}
<1>1. /\ nominal \in ResponseType /\ nominal.of = call.tool /\ nominal.hint = NoParam
      /\ nominal.wrong # {} => call.arg # "gold"
      /\ nominal.lost # {} => call.narrow
  BY NominalForms
<1>2. CASE events = {}
  BY <1>1, <1>2 DEF Responses
<1>3. CASE events # {}
  <2>1. PICK f \in FamiliesOf(events) : response \in Faulted(call.tool, nominal, f)
    BY <1>3 DEF Responses
  <2>2. f \in Family
    BY <2>1, ConfigAssumption DEF FamiliesOf, Event, Configured
  <2>3. call.tool \in AllTools
    BY ToolsAssumption DEF CallType
  <2> QED
    BY <1>1, <1>3, <2>1, <2>2, <2>3, FaultedForms
<1> QED
  BY <1>2, <1>3

\* call_tool keeps the proxy's books typed, counts its call, and keeps at most one
\* event of it.
LEMMA CallToolForms ==
  ASSUME ProxyTypeOK, NEW ep \in Episodes, NEW turn \in TurnKeys, NEW call \in CallType,
         NEW draw, NEW nominal, NEW response,
         CallTool(ep, turn, call, draw, nominal, response)
  PROVE  /\ ProxyTypeOK'
         /\ KeptEvents(ep, turn, call, draw, nominal) \in SUBSET Event
         /\ \/ KeptEvents(ep, turn, call, draw, nominal) = {}
            \/ \E e \in Event : KeptEvents(ep, turn, call, draw, nominal) = {e}
         /\ response \in Responses(call, nominal, KeptEvents(ep, turn, call, draw, nominal))
         /\ nominal \in Nominal(call)
<1> DEFINE kept == KeptEvents(ep, turn, call, draw, nominal)
<1>1. /\ nominal \in Nominal(call) /\ response \in Responses(call, nominal, kept)
      /\ Decide(ep, turn, call.tool, draw)
      /\ Write(call, nominal)
      /\ drift' = DriftAfter(call, kept)
      /\ calls' = calls + 1 /\ fired' = fired + Cardinality(kept)
  BY DEF CallTool
<1>2. SchedTypeOK' /\ kept \in SUBSET Event /\ (kept = {} \/ \E e \in Event : kept = {e})
  BY <1>1, KeptForms DEF ProxyTypeOK
<1> HIDE DEF kept
<1>3. Cardinality(kept) \in {0, 1}
  BY <1>2, FS_EmptySet, FS_Singleton
<1>4. drift' \subseteq {t \in Tools : FirstParam(t) # NoParam}
  BY <1>1 DEF DriftAfter, ProxyTypeOK, CallType
<1>5. stored' \in Seq(ArgQuality)
  <2>1. call.arg \in ArgQuality /\ stored \in Seq(ArgQuality)
    BY DEF CallType, ProxyTypeOK
  <2> QED  BY <1>1, <2>1 DEF Write
<1>6. calls' \in Nat /\ fired' \in 0 .. calls'
  BY <1>1, <1>3 DEF ProxyTypeOK
<1>7. ProxyTypeOK'
  BY <1>2, <1>4, <1>5, <1>6 DEF ProxyTypeOK
<1> QED
  BY <1>1, <1>2, <1>7 DEF kept

\* A proxy starts typed.
LEMMA ProxyInitType == ProxyInit => ProxyTypeOK
BY SchedInitType DEF ProxyInit, ProxyTypeOK

=============================================================================
