-------------------------- MODULE ProxyCallerProofs --------------------------
(***************************************************************************)
(* The proxy's promises to its callers, proved for every set of tools,     *)
(* every configuration and any number of calls: a rename that was told     *)
(* stays usable, a drift that lasts stays readable, and logs stay within   *)
(* the cap.                                                                *)
(***************************************************************************)
EXTENDS ProxyCaller, FaultProxyProofs, TLAPS

\* The calls a caller makes are calls: new names are names of parameters.
LEMMA SensibleCalls ==
  ASSUME NEW call \in CallerCalls, Sensible(call)
  PROVE  call \in CallType /\ ~call.narrow
<1>1. call.renamed \subseteq Params
  BY ToolsAssumption DEF CallerCalls, Sensible, Params
<1> QED
  BY <1>1 DEF CallerCalls, CallType, ArgQuality

\* The whole of a caller's call: what the server and the proxy answer, what it
\* tells, and what it adds to the logs.
Called(ep, call, draw, nominal, response) ==
  LET kept == KeptEvents(ep, calls, call, draw, nominal) IN
  /\ call \in CallType /\ ~call.narrow
  /\ CallTool(ep, calls, call, draw, nominal, response)
  /\ exchange' = [call |-> call, told |-> told, events |-> kept, response |-> response]
  /\ told' = IF response.hint \in Params
             THEN told \cup {<<call.tool, response.hint>>} ELSE told
  /\ reported' = [reported EXCEPT ![ep] = @ + Cardinality({e \in kept : e.fresh})]

\* Every call is one of these.
LEMMA CallForms ==
  ASSUME NEW ep, NEW call \in CallerCalls, NEW draw, Call(ep, call, draw)
  PROVE  \E nominal, response : Called(ep, call, draw, nominal, response)
<1>1. call \in CallType /\ ~call.narrow
  BY SensibleCalls DEF Call
<1> QED
  BY <1>1, Zenon DEF Call, Called

\* A call keeps the proxy typed, and its response has its shape.
LEMMA CalledType ==
  ASSUME TypeOK, NEW ep \in Episodes, NEW call, NEW draw, calls < MaxCalls,
         NEW nominal, NEW response, Called(ep, call, draw, nominal, response)
  PROVE  LET kept == KeptEvents(ep, calls, call, draw, nominal) IN
         /\ TypeOK'
         /\ kept \in SUBSET Event
         /\ nominal \in Nominal(call) /\ response \in Responses(call, nominal, kept)
<1> DEFINE kept == KeptEvents(ep, calls, call, draw, nominal)
<1>1. calls \in TurnKeys
  BY ConfigAssumption DEF TypeOK, ProxyTypeOK, TurnKeys
<1>2. /\ call \in CallType /\ CallTool(ep, calls, call, draw, nominal, response)
      /\ exchange' = [call |-> call, told |-> told, events |-> kept, response |-> response]
      /\ told' = IF response.hint \in Params
                 THEN told \cup {<<call.tool, response.hint>>} ELSE told
      /\ reported' = [reported EXCEPT ![ep] = @ + Cardinality({e \in kept : e.fresh})]
  BY DEF Called
<1>3. /\ ProxyTypeOK' /\ kept \in SUBSET Event /\ (kept = {} \/ \E e \in Event : kept = {e})
      /\ nominal \in Nominal(call) /\ response \in Responses(call, nominal, kept)
  BY <1>1, <1>2, CallToolForms DEF TypeOK
<1> HIDE DEF kept
<1>4. response \in ResponseType
  BY <1>2, <1>3, ResponseForms
<1>5. told' \subseteq Tools \X Params
  BY <1>2 DEF TypeOK, CallType
<1>6. Cardinality({e \in kept : e.fresh}) \in Nat
  <2>1. IsFiniteSet(kept)
    BY <1>3, FS_EmptySet, FS_Singleton
  <2> QED  BY <2>1, FS_Subset, FS_CardinalityType
<1>7. reported' \in [Episodes -> Nat]
  BY <1>2, <1>6 DEF TypeOK
<1>8. exchange'.response = response
  BY <1>2
<1> QED
  BY <1>3, <1>4, <1>5, <1>7, <1>8 DEF kept, TypeOK

\* A reset keeps the caller typed, forgets the episode's latches, every drift and
\* all that was told.
LEMMA ResetType ==
  ASSUME TypeOK, NEW ep \in Episodes, Reset(ep)
  PROVE  TypeOK'
<1>1. SchedTypeOK'
  BY ResetForms DEF Reset, ProxyReset, TypeOK, ProxyTypeOK
<1>2. NoExchange.response \in ResponseType
  BY DEF NoExchange, Ok, ResponseType, NoTool
<1> QED
  BY <1>1, <1>2 DEF Reset, ProxyReset, TypeOK, ProxyTypeOK

\* Every step is a reset or a call, or a stutter.
LEMMA CallerSteps ==
  ASSUME [Next]_vars
  PROVE  \/ \E ep \in Episodes : Reset(ep)
         \/ \E ep \in Episodes : \E call, draw, nominal, response :
              calls < MaxCalls /\ Called(ep, call, draw, nominal, response)
         \/ UNCHANGED vars
<1>1. ASSUME NEW ep \in Episodes, NEW call \in CallerCalls, NEW draw, Call(ep, call, draw)
      PROVE  calls < MaxCalls /\ \E nominal, response : Called(ep, call, draw, nominal, response)
  <2>1. calls < MaxCalls
    BY <1>1 DEF Call
  <2> QED  BY <1>1, <2>1, CallForms
<1> QED
  BY <1>1, Zenon DEF Next

\* Every variable keeps its type, and every response its shape, under any caller.
THEOREM ProxyTypeCorrect == Spec => []TypeOK
<1>1. Init => TypeOK
  <2>1. NoExchange.response \in ResponseType
    BY DEF NoExchange, Ok, ResponseType, NoTool
  <2> QED
    BY <2>1, ProxyInitType DEF Init, TypeOK
<1>2. TypeOK /\ [Next]_vars => TypeOK'
  <2> SUFFICES ASSUME TypeOK, [Next]_vars PROVE TypeOK'
    OBVIOUS
  <2>1. ASSUME NEW ep \in Episodes, Reset(ep)
        PROVE  TypeOK'
    BY <2>1, ResetType
  <2>2. ASSUME NEW ep \in Episodes, NEW call, NEW draw, NEW nominal, NEW response,
               calls < MaxCalls, Called(ep, call, draw, nominal, response)
        PROVE  TypeOK'
    BY <2>2, CalledType
  <2>3. CASE UNCHANGED vars
    BY <2>3 DEF vars, proxyVars, callerVars, TypeOK, ProxyTypeOK, SchedTypeOK
  <2> QED
    BY <2>1, <2>2, <2>3, CallerSteps
<1> QED
  BY <1>1, <1>2, PTL DEF Spec

-----------------------------------------------------------------------------
(***************************************************************************)
(* A rename that was told stays usable.                                    *)
(***************************************************************************)

\* What a caller was told, the proxy remembers.
ToldIsDrifted == \A t \in told : t[1] \in drift /\ t[2] = FirstParam(t[1])

\* A caller is told of a drift of the tool it called, which the proxy remembers.
LEMMA ToldIsDriftedCalled ==
  ASSUME TypeOK, ToldIsDrifted, NEW ep \in Episodes, NEW call, NEW draw, calls < MaxCalls,
         NEW nominal, NEW response, Called(ep, call, draw, nominal, response)
  PROVE  ToldIsDrifted'
<1> DEFINE kept == KeptEvents(ep, calls, call, draw, nominal)
<1>1. /\ call \in CallType /\ drift' = DriftAfter(call, kept)
      /\ told' = IF response.hint \in Params
                 THEN told \cup {<<call.tool, response.hint>>} ELSE told
  BY DEF Called, CallTool
<1>2. /\ kept \in SUBSET Event
      /\ nominal \in Nominal(call) /\ response \in Responses(call, nominal, kept)
  BY CalledType
<1> HIDE DEF kept
<1>3. ASSUME response.hint \in Params
      PROVE  call.tool \in drift' /\ response.hint = FirstParam(call.tool)
  <2>1. response.hint # NoParam /\ response.hint # "param"
    BY <1>3, FirstParamOfTool
  <2>2. /\ "P3" \in FamiliesOf(kept)
        /\ response.hint = IF FirstParam(call.tool) = NoParam THEN "param"
                           ELSE FirstParam(call.tool)
    BY <1>1, <1>2, <2>1, ResponseForms
  <2> QED
    BY <1>1, <2>1, <2>2 DEF DriftAfter
<1>4. drift \subseteq drift'
  BY <1>1 DEF DriftAfter
<1> QED
  BY <1>1, <1>3, <1>4 DEF ToldIsDrifted

\* A caller that spells as it was told meets no drift, and the server knows its call.
LEMMA ServedCalled ==
  ASSUME TypeOK, ToldIsDrifted, NEW ep \in Episodes, NEW call, NEW draw, calls < MaxCalls,
         NEW nominal, NEW response, Called(ep, call, draw, nominal, response)
  PROVE  AdaptedCallerIsServed'
<1> DEFINE kept == KeptEvents(ep, calls, call, draw, nominal)
<1>1. /\ call \in CallType /\ ~call.narrow
      /\ exchange' = [call |-> call, told |-> told, events |-> kept, response |-> response]
  BY DEF Called
<1>2. /\ kept \in SUBSET Event
      /\ nominal \in Nominal(call) /\ response \in Responses(call, nominal, kept)
  BY CalledType
<1>3. "P3" \in FamiliesOf(kept) => ~Adapted(call)
  BY DEF KeptEvents, FamiliesOf
<1> HIDE DEF kept
<1> SUFFICES ASSUME call.arg = "gold", call.renamed # {},
                    \A p \in call.renamed : <<call.tool, p>> \in told
             PROVE  /\ response.hint = NoParam
                    /\ kept = {} => response.kind = "ok"
  BY <1>1 DEF AdaptedCallerIsServed
<1>4. Adapted(call) /\ call.renamed = {FirstParam(call.tool)}
  <2>1. \A p \in call.renamed : call.tool \in drift /\ p = FirstParam(call.tool)
    BY DEF ToldIsDrifted
  <2> QED
    BY <2>1 DEF Adapted
<1>5. nominal = Ok(call.tool)
  BY <1>1, <1>2, <1>4 DEF Nominal
<1>6. response.hint = NoParam
  BY <1>1, <1>2, <1>3, <1>4, ResponseForms
<1>7. kept = {} => response.kind = "ok"
  BY <1>2, <1>5 DEF Responses, Ok
<1> QED
  BY <1>6, <1>7

\* A caller told of a rename (proxy.py, call_tool and _forward: the schema_drift
\* error and _drift) is never refused for spelling the parameter the new way, for
\* any tools, families, cap and number of calls since.
THEOREM RenamesStayUsable == Spec => []AdaptedCallerIsServed
<1> DEFINE Inv == ToldIsDrifted /\ AdaptedCallerIsServed
<1>1. Init => Inv
  BY DEF Init, NoExchange, CallOf, ToldIsDrifted, AdaptedCallerIsServed
<1>2. TypeOK /\ Inv /\ [Next]_vars => Inv'
  <2> SUFFICES ASSUME TypeOK, ToldIsDrifted, AdaptedCallerIsServed, [Next]_vars
               PROVE  ToldIsDrifted' /\ AdaptedCallerIsServed'
    OBVIOUS
  <2>1. ASSUME NEW ep \in Episodes, Reset(ep)
        PROVE  Inv'
    BY <2>1 DEF Reset, NoExchange, CallOf, ToldIsDrifted, AdaptedCallerIsServed
  <2>2. ASSUME NEW ep \in Episodes, NEW call, NEW draw, NEW nominal, NEW response,
               calls < MaxCalls, Called(ep, call, draw, nominal, response)
        PROVE  Inv'
    BY <2>2, ToldIsDriftedCalled, ServedCalled
  <2>3. CASE UNCHANGED vars
    BY <2>3 DEF vars, proxyVars, callerVars, ToldIsDrifted, AdaptedCallerIsServed
  <2> QED
    BY <2>1, <2>2, <2>3, CallerSteps
<1>3. Inv => AdaptedCallerIsServed
  OBVIOUS
<1> QED
  BY <1>1, <1>2, <1>3, ProxyTypeCorrect, PTL DEF Spec

-----------------------------------------------------------------------------
(***************************************************************************)
(* Logs stay within the cap, and a drift that lasts stays readable.        *)
(***************************************************************************)

\* What the scheduler does on a call, seen from the events the proxy keeps: it
\* starts nothing and no fresh event is kept, or it starts one fault, which is the
\* event the proxy keeps or drops.
LEMMA KeptStarts ==
  ASSUME SchedTypeOK, NEW ep \in Episodes, NEW turn, NEW call, NEW draw, NEW nominal,
         Decide(ep, turn, call.tool, draw)
  PROVE  LET kept == KeptEvents(ep, turn, call, draw, nominal) IN
         \/ UNCHANGED schedVars /\ \A e \in kept : ~e.fresh
         \/ \E f \in Configured :
              /\ Starts(ep, turn, call.tool, f) /\ counts[ep] < MaxFaults
              /\ kept \subseteq {EventOf(turn, call.tool, f, TRUE, turn)}
              /\ f = "P3" => Adapted(call) \/ "P3" \in FamiliesOf(kept)
<1> DEFINE kept == KeptEvents(ep, turn, call, draw, nominal)
           tool == call.tool
<1>1. kept \subseteq Decision(ep, turn, tool, draw)
  BY DEF KeptEvents
<1>2. CASE FiresNothing(ep, turn, tool, draw) /\ UNCHANGED schedVars
  BY <1>1, <1>2 DEF FiresNothing
<1>3. ASSUME NEW f \in Configured,
             FiresLasting(ep, turn, tool, draw, f), UNCHANGED schedVars
      PROVE  \A e \in kept : ~e.fresh
  BY <1>1, <1>3 DEF FiresLasting, EventOf
<1>4. ASSUME NEW f \in Configured,
             FiresFresh(ep, turn, tool, draw, f), Starts(ep, turn, tool, f)
      PROVE  /\ counts[ep] < MaxFaults
             /\ kept \subseteq {EventOf(turn, tool, f, TRUE, turn)}
             /\ f = "P3" => Adapted(call) \/ "P3" \in FamiliesOf(kept)
  <2> DEFINE e == EventOf(turn, tool, f, TRUE, turn)
  <2>1. Decision(ep, turn, tool, draw) = {e} /\ counts[ep] < MaxFaults
    BY <1>4 DEF FiresFresh
  <2>2. e.family = f
    BY DEF EventOf
  <2>3. ASSUME f = "P3", ~Adapted(call)
        PROVE  "P3" \in FamiliesOf(kept)
    <3>1. "P3" \notin ResultFamilies
      BY DEF ResultFamilies, SilentFamilies, SemanticFamilies
    <3> HIDE DEF e
    <3>2. e \in kept
      BY <2>1, <2>2, <2>3, <3>1 DEF KeptEvents
    <3> HIDE DEF kept
    <3> QED
      BY <2>2, <2>3, <3>2 DEF FamiliesOf
  <2> QED
    BY <1>1, <2>1, <2>3
<1> QED
  BY <1>2, <1>3, <1>4, DecideForms

\* An episode's reported faults are started ones: one that bit, one at a time.
LEMMA ReportedCalled ==
  ASSUME TypeOK, ReportedWithinCap, NEW ep \in Episodes, NEW call, NEW draw,
         calls < MaxCalls,
         NEW nominal, NEW response, Called(ep, call, draw, nominal, response)
  PROVE  ReportedWithinCap'
<1> DEFINE kept  == KeptEvents(ep, calls, call, draw, nominal)
           fresh == {e \in kept : e.fresh}
<1>1. /\ Decide(ep, calls, call.tool, draw)
      /\ reported' = [reported EXCEPT ![ep] = @ + Cardinality(fresh)]
  BY DEF Called, CallTool
<1>2. reported \in [Episodes -> Nat] /\ counts \in [Episodes -> 0 .. MaxFaults]
      /\ MaxFaults \in Nat
  BY ConfigAssumption DEF TypeOK, ProxyTypeOK, SchedTypeOK
<1>3. \/ UNCHANGED schedVars /\ \A e \in kept : ~e.fresh
      \/ \E f \in Configured :
           /\ Starts(ep, calls, call.tool, f) /\ counts[ep] < MaxFaults
           /\ kept \subseteq {EventOf(calls, call.tool, f, TRUE, calls)}
  BY <1>1, KeptStarts DEF TypeOK, ProxyTypeOK
<1> HIDE DEF kept
<1>4. CASE UNCHANGED schedVars /\ \A e \in kept : ~e.fresh
  <2>1. Cardinality(fresh) = 0
    <3>1. fresh = {}
      BY <1>4
    <3> QED  BY <3>1, FS_EmptySet
  <2> QED
    BY <1>1, <1>2, <1>4, <2>1 DEF ReportedWithinCap, schedVars
<1>5. ASSUME NEW f \in Configured,
             Starts(ep, calls, call.tool, f), counts[ep] < MaxFaults,
             kept \subseteq {EventOf(calls, call.tool, f, TRUE, calls)}
      PROVE  ReportedWithinCap'
  <2>1. Cardinality(fresh) \in {0, 1}
    <3>1. fresh = {} \/ fresh = {EventOf(calls, call.tool, f, TRUE, calls)}
      BY <1>5
    <3> QED  BY <3>1, FS_EmptySet, FS_Singleton
  <2>2. counts' = [counts EXCEPT ![ep] = @ + 1]
    BY <1>5 DEF Starts
  <2> QED
    BY <1>1, <1>2, <1>5, <2>1, <2>2 DEF ReportedWithinCap
<1> QED
  BY <1>3, <1>4, <1>5

\* Whatever is called, dropped or reset, an episode reports no more faults than its
\* scheduler started, which is no more than max_faults_per_episode.
THEOREM LogsStayWithinCap == Spec => []ReportedWithinCap
<1>1. Init => ReportedWithinCap
  BY ConfigAssumption DEF Init, ProxyInit, SchedInit, ReportedWithinCap
<1>2. TypeOK /\ ReportedWithinCap /\ [Next]_vars => ReportedWithinCap'
  <2> SUFFICES ASSUME TypeOK, ReportedWithinCap, [Next]_vars PROVE ReportedWithinCap'
    OBVIOUS
  <2>1. ASSUME NEW ep \in Episodes, Reset(ep)
        PROVE  ReportedWithinCap'
    BY <2>1, ConfigAssumption
    DEF Reset, ProxyReset, ResetEpisode, TypeOK, ProxyTypeOK, SchedTypeOK, ReportedWithinCap
  <2>2. ASSUME NEW ep \in Episodes, NEW call, NEW draw, NEW nominal, NEW response,
               calls < MaxCalls, Called(ep, call, draw, nominal, response)
        PROVE  ReportedWithinCap'
    BY <2>2, ReportedCalled
  <2>3. CASE UNCHANGED vars
    BY <2>3 DEF vars, proxyVars, callerVars, ReportedWithinCap
  <2> QED
    BY <2>1, <2>2, <2>3, CallerSteps
<1> QED
  BY <1>1, <1>2, ProxyTypeCorrect, PTL DEF Spec

\* The harness builds a proxy for every episode it runs: no other episode resets it.
ProxyPerEpisode == \A e1, e2 \in Episodes : e1 = e2

\* A call that starts a drift leaves it readable, or met a caller that had read it.
LEMMA AdvertisedCalled ==
  ASSUME TypeOK, LatchedDriftIsAdvertised, NEW ep \in Episodes, NEW call, NEW draw,
         calls < MaxCalls,
         NEW nominal, NEW response, Called(ep, call, draw, nominal, response)
  PROVE  LatchedDriftIsAdvertised'
<1> DEFINE kept == KeptEvents(ep, calls, call, draw, nominal)
           here == [turn |-> calls, tool |-> call.tool]
<1>1. Decide(ep, calls, call.tool, draw) /\ drift' = DriftAfter(call, kept)
  BY DEF Called, CallTool
<1>2. /\ drift \subseteq drift'
      /\ "P3" \in FamiliesOf(kept) /\ FirstParam(call.tool) # NoParam => call.tool \in drift'
  BY <1>1 DEF DriftAfter
<1>3. \/ UNCHANGED schedVars
      \/ \E f \in Configured :
           /\ Starts(ep, calls, call.tool, f)
           /\ f = "P3" => Adapted(call) \/ "P3" \in FamiliesOf(kept)
  BY <1>1, KeptStarts DEF TypeOK, ProxyTypeOK
<1> HIDE DEF kept
<1>4. CASE UNCHANGED schedVars
  BY <1>2, <1>4 DEF schedVars, LatchedDriftIsAdvertised, IsLatched, AdvertisesNewName
<1>5. ASSUME NEW f \in Configured, Starts(ep, calls, call.tool, f),
             f = "P3" => Adapted(call) \/ "P3" \in FamiliesOf(kept)
      PROVE  LatchedDriftIsAdvertised'
  <2>1. latched \in [Episodes \X Configured -> Latch \cup {NoLatch}]
    BY DEF TypeOK, ProxyTypeOK, SchedTypeOK
  <2> SUFFICES ASSUME NEW e \in Episodes, "P3" \in Configured,
                      latched'[<<e, "P3">>] # NoLatch,
                      FirstParam(latched'[<<e, "P3">>].tool) # NoParam
               PROVE  latched'[<<e, "P3">>].tool \in drift'
    BY DEF LatchedDriftIsAdvertised, IsLatched, AdvertisesNewName
  <2>2. CASE latched'[<<e, "P3">>] = latched[<<e, "P3">>]
    BY <1>2, <2>2 DEF LatchedDriftIsAdvertised, IsLatched, AdvertisesNewName
  <2>3. CASE latched'[<<e, "P3">>] # latched[<<e, "P3">>]
    <3>1. f = "P3" /\ latched'[<<e, "P3">>] = here
      BY <1>5, <2>1, <2>3 DEF Starts
    <3>2. here.tool = call.tool
      OBVIOUS
    <3> QED
      BY <1>2, <1>5, <3>1, <3>2 DEF Adapted
  <2> QED
    BY <2>2, <2>3
<1> QED
  BY <1>3, <1>4, <1>5

\* As long as a drift can refuse a tool, tools/list shows the name it wants
\* (proxy.py, tools_list_after_drift), in a proxy of one episode: a reset of another
\* would forget the drift and keep the latch.
THEOREM LastingDriftsAreReadable ==
  ASSUME ProxyPerEpisode
  PROVE  Spec => []LatchedDriftIsAdvertised
<1>1. Init => LatchedDriftIsAdvertised
  BY DEF Init, ProxyInit, SchedInit, LatchedDriftIsAdvertised, IsLatched
<1>2. TypeOK /\ LatchedDriftIsAdvertised /\ [Next]_vars => LatchedDriftIsAdvertised'
  <2> SUFFICES ASSUME TypeOK, LatchedDriftIsAdvertised, [Next]_vars
               PROVE  LatchedDriftIsAdvertised'
    OBVIOUS
  <2>1. ASSUME NEW ep \in Episodes, Reset(ep)
        PROVE  LatchedDriftIsAdvertised'
    <3>1. SchedTypeOK /\ ResetEpisode(ep)
      BY <2>1 DEF Reset, ProxyReset, TypeOK, ProxyTypeOK
    <3>2. \A e \in Episodes, f \in Configured : latched'[<<e, f>>] = NoLatch
      BY <3>1, ResetForms DEF ProxyPerEpisode
    <3> QED
      BY <3>2 DEF LatchedDriftIsAdvertised, IsLatched
  <2>2. ASSUME NEW ep \in Episodes, NEW call, NEW draw, NEW nominal, NEW response,
               calls < MaxCalls, Called(ep, call, draw, nominal, response)
        PROVE  LatchedDriftIsAdvertised'
    BY <2>2, AdvertisedCalled
  <2>3. CASE UNCHANGED vars
    BY <2>3 DEF vars, proxyVars, LatchedDriftIsAdvertised, IsLatched, AdvertisesNewName
  <2> QED
    BY <2>1, <2>2, <2>3, CallerSteps
<1> QED
  BY <1>1, <1>2, ProxyTypeCorrect, PTL DEF Spec

=============================================================================
