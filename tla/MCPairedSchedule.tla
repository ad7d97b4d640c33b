-------------------------- MODULE MCPairedSchedule --------------------------
(***************************************************************************)
(* Small instances of PairedSchedule.  Family lists are cfg.families in    *)
(* the order of configs/faults; each puts together the lifetimes that can  *)
(* disturb one another.                                                    *)
(***************************************************************************)
EXTENDS PairedSchedule

OneEpisode  == {"fs:fs-001:s0"}
TwoEpisodes == {"fs:fs-001:s0", "fs:fs-002:s0"}

TwoTools == {"fs.read", "fs.stat"}

\* Every episode makes the same number of calls; or one is followed at length
\* while another interleaves with it.
EqualCalls == [ep \in Episodes |-> MaxCalls]
LongAndShort ==
  [ep \in Episodes |-> IF ep = "fs:fs-001:s0" THEN MaxCalls ELSE 1]

OutageAndReset == <<"T1", "T3">>
DriftAndOutage == <<"P3", "T1">>
=============================================================================
