---------------------------- MODULE ToolSession ----------------------------
(***************************************************************************)
(* An episode of a chat policy with its server (agent/loop.py:111-189), no *)
(* fault fired and no recovery: the policy replies, its call is executed,  *)
(* the result becomes the next observation.  Unlike the scripted policy of *)
(* AgentLoop a model calls what it likes, with the arguments it likes.     *)
(***************************************************************************)
EXTENDS SilentMutators, ChatPolicy

CONSTANT MaxTurns  \* LoopConfig.max_turns

ASSUME MaxTurnsAssumption == MaxTurns \in Nat \ {0}

VARIABLES
  phase,    \* what comes next, or how the episode ended
  turn,
  observed, \* the size of the observation not yet shown, if there is one
  written   \* history: the writes acknowledged and not overwritten or deleted since

sessionVars == <<phase, turn, observed, written>>
vars == <<serverVars, chatVars, sessionVars>>

Init ==
  /\ ServerInit /\ ChatInit
  /\ phase = "reply" /\ turn = 0 /\ observed = {} /\ written = {}

\* next_action, and what the loop makes of it.  No turn is left for an action
\* after the last.
NextAction ==
  /\ phase = "reply"
  /\ \E said \in Replies :
       /\ Generate(observed, said)
       /\ phase' = ReadAs(said)
  /\ observed' = {}
  /\ UNCHANGED <<serverVars, turn, written>>

\* The call goes to the server; what it raises ends the episode and the process.
Execute ==
  /\ phase = "call"
  /\ ServerCall
  /\ written' = {w \in written : w.key \notin reply'.gone} \cup reply'.made
  /\ turn' = turn + 1
  /\ IF reply'.status = "raised" THEN phase' = "raised" /\ UNCHANGED observed
     ELSE /\ phase' = IF turn' = MaxTurns THEN "out of turns" ELSE "reply"
          /\ \E size \in ResultSizes : observed' = {size}
  /\ UNCHANGED chatVars

Next == NextAction \/ Execute

Spec == Init /\ [][Next]_vars

-----------------------------------------------------------------------------
\* The variables have the types the code gives them.
TypeOK ==
  /\ ServerTypeOK /\ ChatTypeOK
  /\ phase \in {"reply", "call", "answered", "abstained", "raised", "out of turns"}
  /\ turn \in 0 .. MaxTurns
  /\ Cardinality(observed) <= 1
  /\ \A w \in written : DOMAIN w = {"key", "version", "value"}

\* What the server's reads say of an acknowledged write: where it was put, and in
\* the listing that has to show it (fs.list shows what is in some directory).
Holds(w) ==
  /\ env = "fs" =>
       /\ w.key \in DOMAIN files /\ files[w.key][w.version] = w.value
       /\ Len(w.key) > 1 => Last(w.key) \in FsListed(Front(w.key))
       /\ w.version = FsStat(w.key).version =>
            \A word \in w.value.words : w.key \in FsFound(word)
  /\ env = "kv" =>
       /\ KvGetv(w.key, w.version) = {[value |-> w.value, version |-> w.version]}
       /\ w.key \in KvScanned(w.key[1])
  /\ env = "cal" =>
       /\ w.key \in DOMAIN events /\ events[w.key] = w.value
       /\ w.key \in DOMAIN CalListed(w.value.day)
       /\ w.value.start \notin CalFree(w.value.day)
  /\ env = "sensor" => alarms[w.key] = {w.value}
  /\ env \notin {"http", "compute"}

\* A write the server acknowledged can be found ever after under the version or
\* id it was given, and in the listings, whatever else is written, set again or
\* deleted, until it is itself deleted or overwritten: no two writes are given
\* the same one.
AcknowledgedWritesLast == \A w \in written : Holds(w)

=============================================================================
