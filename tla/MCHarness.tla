----------------------------- MODULE MCHarness -----------------------------
(***************************************************************************)
(* A small experiment: two teachers generate the same cell into one        *)
(* directory, and a third worker fills the first teacher's arm, which is   *)
(* the anchor, with a second fault configuration up to a limit, with the   *)
(* analysis running beside.                                                *)
(***************************************************************************)
EXTENDS Rq1

Episode(env, task) == [env |-> env, task |-> task]
Fs1 == Episode("fs", "fs-001:s0")
Fs2 == Episode("fs", "fs-002:s0")
Kv1 == Episode("kv", "kv-001:s0")

RunOf(config, fault, profile, episodes, limit, skip, shards) ==
  [out |-> "data", config |-> config, fault |-> fault, method |-> "naive",
   profile |-> profile, episodes |-> episodes, limit |-> limit, skip |-> skip,
   shard |-> shards]

ThreeWorkers == {"generate", "other", "limited"}
TheirSpecs ==
  [generate |-> RunOf("F16", "mixed_r15", "E0", <<Fs1, Fs2>>, 2, TRUE, TRUE),
   other    |-> RunOf("Q4", "mixed_r15", "E0", <<Fs1, Fs2>>, 2, TRUE, TRUE),
   limited  |-> RunOf("F16", "overt_only", "E0", <<Fs1, Kv1>>, 1, TRUE, FALSE)]
Dirs == [F16 |-> "gguf_m-F16", Q4 |-> "gguf_m-Q4", Q8 |-> "gguf_m-Q8"]
NoneOrSecond == {{}, {JobOf("generate", 2)}}

OneArm == <<Dirs.Q8, Dirs.Q4>>

\* The anchor's second fault configuration is met after the first.
Rank(p) ==
  LET k == CASE p.episode = Fs1 -> 1 [] p.episode = Fs2 -> 2 [] OTHER -> 3
  IN  CASE p.tag = Dirs.Q4 -> k [] p.fault = "overt_only" -> 10 + k [] OTHER -> 20 + k
OvertLast == {[p \in Paths |-> Rank(p)]}

\* The anchor recovers in the struck episode and the other arm does not; the other
\* episode is fault-free.  The other arm met the fault that one or that the other
\* of the anchor's fault configurations drew.
Come(family) ==
  [job \in Jobs |->
     LET struck == job.episode = Fs1
         drawn  == IF job.config = "Q4" THEN family
                   ELSE IF job.fault = "overt_only" THEN "P1" ELSE "T3"
     IN  [fired   |-> struck,
          faults  |-> [call \in IF struck THEN {1} ELSE {} |-> drawn],
          success |-> ~struck \/ job.config # "Q4"]]

EitherFault == {Come("T3"), Come("P1")}
=============================================================================
