--------------------------- MODULE FaultScheduler ---------------------------
(***************************************************************************)
(* FaultScheduler (faults/injector.py): decides whether a fault fires on a *)
(* tool call.  The pseudo-random draw of a call is the set of configured   *)
(* families whose prf_unit falls under the configured rate: it is a        *)
(* parameter here, and the modules that extend this one say where it comes *)
(* from.  What the scheduler keeps is the latch of every persistent family *)
(* and the number of faults it has started, per episode.                   *)
(***************************************************************************)
EXTENDS Naturals, Sequences, FaultTaxonomy

CONSTANTS
  Episodes,    \* episode ids sharing this scheduler
  Tools,       \* tool names the agent may call
  Families,    \* cfg.families: a sequence, for its order is the priority
  MaxFaults,   \* cfg.max_faults_per_episode
  Override,    \* cfg.persistence_override: a persistence, or "none"
  MaxCalls     \* bound: PRF turn keys run from 0 to MaxCalls - 1

Configured == {Families[i] : i \in DOMAIN Families}
TurnKeys   == 0 .. MaxCalls - 1
NoTool     == "no tool"

ASSUME ConfigAssumption ==
  /\ Families \in Seq(Family)
  /\ MaxFaults \in Nat
  /\ MaxCalls \in Nat
  /\ Override \in Persistences \cup {"none"}
  /\ NoTool \notin Tools

VARIABLES
  latched,     \* (episode, family) -> the turn and the tool it latched on
  counts       \* episode -> faults started

schedVars == <<latched, counts>>

Latch   == [turn : TurnKeys, tool : Tools]
NoLatch == [turn |-> 0, tool |-> NoTool]

PersistenceOf(f) == IF Override = "none" THEN DefaultPersistence(f) ELSE Override

IsLatched(ep, f) == latched[<<ep, f>>] # NoLatch

\* The configured families whose latch makes them fire on this call, and those
\* that the call's own draw would start.
LatchedHits(ep, tool) ==
  {i \in DOMAIN Families : LET f == Families[i] IN
     /\ PersistenceOf(f) = "persistent"
     /\ IsLatched(ep, f)
     /\ f \in ToolScoped => latched[<<ep, f>>].tool = tool
     /\ Applicable(f, tool)}

FreshHits(tool, draw) ==
  {i \in DOMAIN Families : Applicable(Families[i], tool) /\ Families[i] \in draw}

FirstOf(hits) == Families[CHOOSE i \in hits : \A j \in hits : i <= j]

\* An event carries what the log carries: persistent_from is None exactly when
\* the fault is fresh, which is what "fresh" says.
EventOf(turn, tool, f, isFresh, turn0) ==
  [turn |-> turn, tool |-> tool, family |-> f, fresh |-> isFresh, from |-> turn0]

Event == [turn : TurnKeys, tool : Tools, family : Configured,
          fresh : BOOLEAN, from : TurnKeys]

\* Mutant: the cap is looked at before the latches.
DecisionCapFirst(ep, turn, tool, draw) ==
  IF counts[ep] >= MaxFaults THEN {}
  ELSE IF LatchedHits(ep, tool) # {}
  THEN LET f == FirstOf(LatchedHits(ep, tool))
       IN  {EventOf(turn, tool, f, FALSE, latched[<<ep, f>>].turn)}
  ELSE IF FreshHits(tool, draw) # {}
       THEN {EventOf(turn, tool, FirstOf(FreshHits(tool, draw)), TRUE, turn)}
       ELSE {}

\* Mutant: the cap lets one more fault start.
DecisionPastCap(ep, turn, tool, draw) ==
  IF LatchedHits(ep, tool) # {}
  THEN LET f == FirstOf(LatchedHits(ep, tool))
       IN  {EventOf(turn, tool, f, FALSE, latched[<<ep, f>>].turn)}
  ELSE IF counts[ep] <= MaxFaults /\ FreshHits(tool, draw) # {}
       THEN {EventOf(turn, tool, FirstOf(FreshHits(tool, draw)), TRUE, turn)}
       ELSE {}

\* Mutant: a latched fault is logged as a new one, without persistent_from.
DecisionForgetsLatch(ep, turn, tool, draw) ==
  IF LatchedHits(ep, tool) # {}
  THEN {EventOf(turn, tool, FirstOf(LatchedHits(ep, tool)), TRUE, turn)}
  ELSE IF counts[ep] < MaxFaults /\ FreshHits(tool, draw) # {}
       THEN {EventOf(turn, tool, FirstOf(FreshHits(tool, draw)), TRUE, turn)}
       ELSE {}

\* decide(): the set holding the event that fires, or the empty set.  Latched
\* faults come first and ignore the cap, which counts faults and not calls.
Decision(ep, turn, tool, draw) ==
  IF LatchedHits(ep, tool) # {}
  THEN LET f == FirstOf(LatchedHits(ep, tool))
       IN  {EventOf(turn, tool, f, FALSE, latched[<<ep, f>>].turn)}
  ELSE IF counts[ep] < MaxFaults /\ FreshHits(tool, draw) # {}
       THEN {EventOf(turn, tool, FirstOf(FreshHits(tool, draw)), TRUE, turn)}
       ELSE {}

\* Mutant: every event is counted against the cap, lasting faults included.
DecideCountsEveryCall(ep, turn, tool, draw) ==
  LET started == {e \in Decision(ep, turn, tool, draw) : e.fresh}
  IN  /\ counts'  = IF Decision(ep, turn, tool, draw) = {} THEN counts
                    ELSE [counts EXCEPT ![ep] = @ + 1]
      /\ latched' = [k \in DOMAIN latched |->
                       IF /\ k[1] = ep
                          /\ \E e \in started : /\ e.family = k[2]
                                                /\ PersistenceOf(e.family) = "persistent"
                       THEN [turn |-> turn, tool |-> tool]
                       ELSE latched[k]]

\* Mutant: a family that has latched keeps its first latch.
DecideKeepsFirstLatch(ep, turn, tool, draw) ==
  LET started == {e \in Decision(ep, turn, tool, draw) : e.fresh}
  IN  /\ counts'  = IF started = {} THEN counts
                    ELSE [counts EXCEPT ![ep] = @ + 1]
      /\ latched' = [k \in DOMAIN latched |->
                       IF /\ k[1] = ep /\ latched[k] = NoLatch
                          /\ \E e \in started : /\ e.family = k[2]
                                                /\ PersistenceOf(e.family) = "persistent"
                       THEN [turn |-> turn, tool |-> tool]
                       ELSE latched[k]]

\* What decide() leaves behind: a fresh fault is counted, and latched when it
\* persists, over whatever latch its family had.
Decide(ep, turn, tool, draw) ==
  LET started == {e \in Decision(ep, turn, tool, draw) : e.fresh}
  IN  /\ counts'  = IF started = {} THEN counts
                    ELSE [counts EXCEPT ![ep] = @ + 1]
      /\ latched' = [k \in DOMAIN latched |->
                       IF /\ k[1] = ep
                          /\ \E e \in started : /\ e.family = k[2]
                                                /\ PersistenceOf(e.family) = "persistent"
                       THEN [turn |-> turn, tool |-> tool]
                       ELSE latched[k]]

\* Mutant: the reset forgets the latches.
ResetKeepsLatches(ep) ==
  /\ counts' = [counts EXCEPT ![ep] = 0]
  /\ UNCHANGED latched

ResetEpisode(ep) ==
  /\ latched' = [k \in DOMAIN latched |-> IF k[1] = ep THEN NoLatch ELSE latched[k]]
  /\ counts'  = [counts EXCEPT ![ep] = 0]

SchedInit ==
  /\ latched = [k \in Episodes \X Configured |-> NoLatch]
  /\ counts  = [ep \in Episodes |-> 0]

SchedTypeOK ==
  /\ latched \in [Episodes \X Configured -> Latch \cup {NoLatch}]
  /\ counts \in [Episodes -> 0 .. MaxFaults]

=============================================================================
