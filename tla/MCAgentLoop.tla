---------------------------- MODULE MCAgentLoop ----------------------------
(***************************************************************************)
(* Small instances of AgentLoop: the tasks, methods and families that meet *)
(* in a run, in the order the fault configurations list the families.      *)
(***************************************************************************)
EXTENDS AgentLoop

OneEpisode == {"episode"}

SuiteTools ==
  UNION {{TaskShapes[t].plan[i].tool : i \in DOMAIN TaskShapes[t].plan} : t \in Tasks}
  \cup {"sensor.history", "cal.list", "kv.scan"}

Baselines == AllMethods \ {"guardlite"}
AllTasks  == TaskIds

SensorTasks   == {t \in TaskIds : "sensor.read" \in {TaskShapes[t].plan[i].tool :
                                                     i \in DOMAIN TaskShapes[t].plan}}
ChainTasks    == {"sensor_dependent", "sensor_verify", "cal_verify", "kv_single"}
ReadTasks     == {t \in TaskIds : ~TaskShapes[t].mutates}
VerifyTasks   == {"fs_verify"}
WriteTasks    == {"kv_sequential", "cal_sequential"}

Overseers     == {"oracle", "guardlite"}
OracleOnly    == {"oracle"}
GuardliteOnly == {"guardlite"}
NaiveOnly     == {"naive"}
RetryOnly     == {"retry_only"}
ReplanOnly    == {"full_replan"}

OvertFamilies    == <<"T1", "T3", "P3", "P5">>
RecoveryFamilies == <<"T1", "P5", "S1", "S3", "R3">>
TimeoutOnly      == <<"T2">>
DriftOnly        == <<"P3">>
StaleAndMissing  == <<"S1", "P5">>
=============================================================================
