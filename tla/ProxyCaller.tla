---------------------------- MODULE ProxyCaller ----------------------------
(***************************************************************************)
(* The proxy under an arbitrary caller of one environment: any tool, with  *)
(* or without a renamed parameter, under any draw of the PRF.  Histories   *)
(* keep what callers were told, which is what the proxy's promises are     *)
(* about.                                                                  *)
(***************************************************************************)
EXTENDS FaultProxy

VARIABLES
  told,        \* <<tool, parameter>> renames reported to the episode's caller
  reported,    \* fresh events returned in the episode
  exchange     \* the last call, what had been told before it, and its outcome

callerVars == <<told, reported, exchange>>
vars == <<proxyVars, callerVars>>

NoExchange == [call |-> CallOf(NoTool, {}, "gold", FALSE), told |-> {},
               events |-> {}, response |-> Ok(NoTool)]

Init ==
  /\ ProxyInit
  /\ told = {}
  /\ reported = [ep \in Episodes |-> 0]
  /\ exchange = NoExchange

\* A caller spells parameters as the catalogue does, or the first by its new name.
CallerCalls ==
  [tool : Tools, renamed : {{}} \cup {{FirstParam(t)} : t \in Tools},
   arg : {"gold", "wrong"}, narrow : {FALSE}]

Sensible(call) == call.renamed \subseteq ParamsOf(call.tool)

Call(ep, call, draw) ==
  /\ calls < MaxCalls
  /\ Sensible(call)
  /\ \E nominal \in Nominal(call) :
       LET events == KeptEvents(ep, calls, call, draw, nominal)
       IN  \E response \in Responses(call, nominal, events) :
             /\ CallTool(ep, calls, call, draw, nominal, response)
             /\ told' = IF response.hint \in Params
                        THEN told \cup {<<call.tool, response.hint>>} ELSE told
             /\ reported' = [reported EXCEPT ![ep] =
                               @ + Cardinality({e \in events : e.fresh})]
             /\ exchange' = [call |-> call, told |-> told, events |-> events,
                             response |-> response]

\* The episode is over: its caller, and what that caller was told, are gone.
Reset(ep) ==
  /\ ProxyReset(ep)
  /\ told' = {}
  /\ reported' = [reported EXCEPT ![ep] = 0]
  /\ exchange' = NoExchange

Next ==
  \E ep \in Episodes :
    \/ Reset(ep)
    \/ \E call \in CallerCalls, draw \in SUBSET Configured : Call(ep, call, draw)

Spec == Init /\ [][Next]_vars

-----------------------------------------------------------------------------
(***************************************************************************)
(* Properties.                                                             *)
(***************************************************************************)

\* Every variable keeps its type, and every response its shape.
TypeOK ==
  /\ ProxyTypeOK
  /\ told \subseteq Tools \X Params
  /\ reported \in [Episodes -> Nat]
  /\ exchange.response \in ResponseType

\* A caller told of a rename, however long ago and whatever has drifted since,
\* is never refused for spelling that parameter the new way: it is neither told
\* to rename it again nor told it is unknown, only another fault can stop it.
AdaptedCallerIsServed ==
  LET c == exchange.call IN
    (/\ c.arg = "gold"
     /\ c.renamed # {}
     /\ \A p \in c.renamed : <<c.tool, p>> \in exchange.told)
    => /\ exchange.response.hint = NoParam
       /\ exchange.events = {} => exchange.response.kind = "ok"

\* While a schema drift keeps refusing a tool, tools/list shows the new name, so
\* the recovery the proxy intends is open at any later time.
LatchedDriftIsAdvertised ==
  \A ep \in Episodes :
    (/\ "P3" \in Configured
     /\ IsLatched(ep, "P3")
     /\ FirstParam(latched[<<ep, "P3">>].tool) # NoParam)
    => AdvertisesNewName(latched[<<ep, "P3">>].tool)

\* The faults an episode reports never pass its cap, and an event dropped because
\* it had nothing to bite on still used up one of them, so the logs can only
\* report fewer faults than the scheduler started.
ReportedWithinCap ==
  \A ep \in Episodes : reported[ep] <= counts[ep] /\ counts[ep] <= MaxFaults

=============================================================================
