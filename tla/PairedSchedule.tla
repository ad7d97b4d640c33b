--------------------------- MODULE PairedSchedule ---------------------------
(***************************************************************************)
(* The paired experiment seen from the scheduler: the same episode is run  *)
(* by several arms (compression levels, or methods), each making the calls *)
(* its own agent chooses, against schedules drawn from one seed.  Episodes *)
(* that share a scheduler interleave.  The PRF answers a coordinate the    *)
(* same way whenever it is asked: any answer the first time, and the same  *)
(* one ever after.  A trace records the calls an arm made, what fired on   *)
(* each, and the scheduler's bookkeeping afterwards.                       *)
(***************************************************************************)
EXTENDS FaultScheduler, FiniteSets

CONSTANTS
  MaxArms,     \* bound: arms finished, over all episodes
  ArmCalls     \* bound: episode -> calls an arm of it makes at most

ASSUME ArmsAssumption ==
  /\ MaxArms \in Nat
  /\ ArmCalls \in [Episodes -> 0 .. MaxCalls]

VARIABLES
  prf,       \* (episode, turn, tool) -> {}, or {the families drawn there}
  trace,     \* episode -> calls of the arm in progress
  first,     \* episode -> calls of the first arm, <<>> until it is over
  arms       \* arms finished

vars == <<latched, counts, prf, trace, first, arms>>

Coordinate == Episodes \X TurnKeys \X Tools
Bookkeeping(ep) == [latches |-> [f \in Configured |-> latched[<<ep, f>>]],
                    count   |-> counts[ep]]

Init ==
  /\ SchedInit
  /\ prf   = [c \in Coordinate |-> {}]
  /\ trace = [ep \in Episodes |-> <<>>]
  /\ first = [ep \in Episodes |-> <<>>]
  /\ arms  = 0

\* What the PRF may answer at a coordinate: what it has answered, if it has.
Draws(c) == IF prf[c] = {} THEN SUBSET Configured ELSE prf[c]

\* The PRF turn key is the number of the call in the episode (loop.py: call_idx).
NextTurn(ep) == Len(trace[ep])

Call(ep, tool) ==
  LET turn == NextTurn(ep)
      here == <<ep, turn, tool>>
  IN  /\ turn < ArmCalls[ep]
      /\ \E draw \in Draws(here) :
           /\ prf' = [prf EXCEPT ![here] = {draw}]
           /\ Decide(ep, turn, tool, draw)
           /\ trace' = [trace EXCEPT ![ep] =
                          Append(@, [tool   |-> tool,
                                     events |-> Decision(ep, turn, tool, draw),
                                     left   |-> Bookkeeping(ep)'])]
      /\ UNCHANGED <<first, arms>>

\* The arm ends wherever its agent stops; the next one starts from a scheduler
\* reset for this episode.
NextArm(ep) ==
  /\ trace[ep] # <<>>
  /\ arms < MaxArms
  /\ first' = [first EXCEPT ![ep] = IF @ = <<>> THEN trace[ep] ELSE @]
  /\ trace' = [trace EXCEPT ![ep] = <<>>]
  /\ arms'  = arms + 1
  /\ ResetEpisode(ep)
  /\ UNCHANGED prf

Next == \E ep \in Episodes : NextArm(ep) \/ \E tool \in Tools : Call(ep, tool)

Spec == Init /\ [][Next]_vars
-----------------------------------------------------------------------------
(***************************************************************************)
(* Properties.                                                             *)
(***************************************************************************)

CallRecord == [tool : Tools,
               events : SUBSET Event,
               left : [latches : [Configured -> Latch \cup {NoLatch}], count : Nat]]

\* Every variable keeps its type; a call fires at most one fault, and fires it
\* under its own coordinate.
TypeOK ==
  /\ SchedTypeOK
  /\ prf \in [Coordinate -> SUBSET SUBSET Configured]
  /\ trace \in [Episodes -> Seq(CallRecord)]
  /\ first \in [Episodes -> Seq(CallRecord)]
  /\ arms \in 0 .. MaxArms

\* The calls of the episode at which a fault started.
Started(calls, F) ==
  {k \in DOMAIN calls : \E e \in calls[k].events : e.fresh /\ e.family \in F}

\* The cap is on faults started, however long they last: the scheduler's count
\* is the number of fresh faults in the log, whatever was reset, dropped or
\* interleaved with it, and never passes max_faults_per_episode.
CountIsFaultsStarted ==
  \A ep \in Episodes :
    /\ counts[ep] = Cardinality(Started(trace[ep], Configured))
    /\ counts[ep] <= MaxFaults

\* The bookkeeping can be read off the log (injector.py, FaultScheduler: "that
\* state is itself reconstructible"): a family is latched exactly when it is
\* persistent and has started in this episode, at the turn and on the tool of its
\* LAST start.  A tool-scoped drift starts anew when another tool draws it, and
\* decide() then overwrites the latch: the comments beside FAMILY_SCOPE and
\* _latched speak of the original tool and the first turn, which a family keeps
\* only while no other tool has drawn it.
LatchIsLastStart ==
  \A ep \in Episodes, f \in Configured :
    LET starts == Started(trace[ep], {f})
    IN  IF PersistenceOf(f) # "persistent" \/ starts = {}
        THEN ~IsLatched(ep, f)
        ELSE \E k \in starts :
               /\ \A j \in starts : j <= k
               /\ latched[<<ep, f>>] = [turn |-> k - 1, tool |-> trace[ep][k].tool]

\* A persistent server-wide fault, once started, is felt on every later call it
\* applies to in the episode, past the cap and whichever tool is called: each
\* such call reports a fault that lasts, never a new one and never none.
ServerWideFaultLasts ==
  \A ep \in Episodes : \A i, j \in DOMAIN trace[ep] :
    (i < j) =>
      \A e \in trace[ep][i].events :
        (/\ PersistenceOf(e.family) = "persistent"
         /\ e.family \notin ToolScoped
         /\ Applicable(e.family, trace[ep][j].tool))
        => \E d \in trace[ep][j].events : ~d.fresh

\* Two arms that make the same calls meet the same faults and leave the same
\* bookkeeping, call by call, whatever other episodes did to the scheduler in
\* between ("a replay from the trace is exact", injector.py).
SameCallsSameFaults ==
  \A ep \in Episodes : \A k \in DOMAIN trace[ep] \cap DOMAIN first[ep] :
    (\A i \in 1 .. k : trace[ep][i].tool = first[ep][i].tool)
    => trace[ep][k] = first[ep][k]

-----------------------------------------------------------------------------
(***************************************************************************)
(* What the comments of the code say and the code does not do.             *)
(***************************************************************************)

\* The calls both arms made at the same coordinate, and what fired on one.
Shared(ep) ==
  {k \in DOMAIN trace[ep] \cap DOMAIN first[ep] : trace[ep][k].tool = first[ep][k].tool}
FamiliesAt(calls, k) == {e.family : e \in calls[k].events}

\* harness.py, assert_paired: what the check really compares, the coordinates
\* faulted in both runs, of which it says that "a single mismatch means the
\* schedule was not a pure function of (seed, episode, turn, tool)".
PairCheckPasses ==
  \A ep \in Episodes : \A k \in Shared(ep) :
    (trace[ep][k].events # {} /\ first[ep][k].events # {})
    => FamiliesAt(trace[ep], k) = FamiliesAt(first[ep], k)

=============================================================================
