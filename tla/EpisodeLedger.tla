--------------------------- MODULE EpisodeLedger ---------------------------
(***************************************************************************)
(* What one episode promises to whoever pays for it, in calls: the policy  *)
(* has a number of turns, each worth one call; after a call of the policy, *)
(* and before the next, recovery may make one call of its own, as long as  *)
(* its budget lasts; and the account is closed in the end, with a claim,   *)
(* without one, or by a failure of a recovery call.                        *)
(***************************************************************************)
EXTENDS Naturals

CONSTANTS TurnLimit, RecoveryLimit

VARIABLES
  made,       \* calls of the policy
  extra,      \* calls of recovery
  awaiting,   \* the policy's last call may still be recovered
  account     \* "open", or how it was closed

ledger == <<made, extra, awaiting, account>>

LedgerInit == made = 0 /\ extra = 0 /\ awaiting = FALSE /\ account = "open"

PolicyCall ==
  /\ account = "open" /\ ~awaiting /\ made < TurnLimit
  /\ made' = made + 1
  /\ awaiting' = TRUE
  /\ UNCHANGED <<extra, account>>

Settle ==
  /\ account = "open" /\ awaiting
  /\ awaiting' = FALSE
  /\ UNCHANGED <<made, extra, account>>

RecoveryCall(outcome) ==
  /\ account = "open" /\ awaiting /\ extra < RecoveryLimit
  /\ extra' = extra + 1
  /\ awaiting' = FALSE
  /\ account' = outcome
  /\ UNCHANGED made

Close ==
  /\ account = "open" /\ ~awaiting
  /\ account' \in {"claimed", "unclaimed"}
  /\ UNCHANGED <<made, extra, awaiting>>

LedgerNext ==
  PolicyCall \/ Settle \/ Close \/ \E outcome \in {"open", "failed"} : RecoveryCall(outcome)

LedgerSpec == LedgerInit /\ [][LedgerNext]_ledger /\ WF_ledger(Settle) /\ WF_ledger(Close)

=============================================================================
