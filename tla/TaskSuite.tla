----------------------------- MODULE TaskSuite -----------------------------
(***************************************************************************)
(* The benchmark's tasks (envs/tasks.py), by shape: the plan's tools, the  *)
(* earlier result field each step's arguments are taken from, the fields   *)
(* the answer is derived from, and whether the final state is verified.    *)
(* Every task of an environment has one of its four shapes.                *)
(***************************************************************************)
EXTENDS Naturals, Sequences

Literal == [step |-> 0, field |-> ""]          \* arguments known up front
From(step, field) == [step |-> step, field |-> field]

\* Steps are numbered from 1; the answer is a set of <<step, field>>.
Task(plan, answer, mutates) ==
  [plan |-> plan, answer |-> answer, mutates |-> mutates]

Step(tool, from) == [tool |-> tool, from |-> from]

One(t1)        == <<Step(t1, Literal)>>
Two(t1, t2)    == <<Step(t1, Literal), Step(t2, Literal)>>
Then(t1, f, t2) == <<Step(t1, Literal), Step(t2, From(1, f))>>

TaskShapes ==
  [fs_single          |-> Task(One("fs.read"), {<<1, "content">>}, FALSE),
   fs_sequential      |-> Task(Two("fs.stat", "fs.stat"),
                               {<<1, "size">>, <<2, "size">>}, FALSE),
   fs_dependent       |-> Task(Then("fs.read", "content", "fs.read"),
                               {<<2, "content">>}, FALSE),
   fs_verify          |-> Task(Two("fs.read", "fs.stat"), {<<2, "version">>}, FALSE),
   kv_single          |-> Task(One("kv.get"), {<<1, "value">>}, FALSE),
   kv_sequential      |-> Task(Then("kv.scan", "count", "kv.set"),
                               {<<1, "count">>}, TRUE),
   kv_dependent       |-> Task(Two("kv.get", "kv.getv"), {<<2, "value">>}, FALSE),
   kv_verify          |-> Task(Then("kv.get", "version", "kv.getv"),
                               {<<2, "version">>}, FALSE),
   http_single        |-> Task(One("http.fetch"), {<<1, "body">>}, FALSE),
   http_sequential    |-> Task(Two("http.fetch", "http.fetch"),
                               {<<1, "body">>, <<2, "body">>}, FALSE),
   http_dependent     |-> Task(Two("http.links", "http.fetch"), {<<2, "body">>}, FALSE),
   http_verify        |-> Task(Two("http.fetch", "http.head"),
                               {<<2, "content_length">>}, FALSE),
   cal_single         |-> Task(One("cal.list"), {<<1, "count">>}, FALSE),
   cal_sequential     |-> Task(Then("cal.free", "slots", "cal.create"),
                               {<<1, "count">>}, TRUE),
   cal_dependent      |-> Task(Then("cal.list", "events", "cal.get"),
                               {<<2, "location">>}, FALSE),
   cal_verify         |-> Task(Then("cal.get", "start", "cal.list"),
                               {<<1, "start">>}, FALSE),
   sensor_single      |-> Task(One("sensor.read"), {<<1, "value">>}, FALSE),
   sensor_sequential  |-> Task(Two("sensor.read", "sensor.read"),
                               {<<1, "value">>, <<2, "value">>}, FALSE),
   sensor_dependent   |-> Task(Then("sensor.read", "value", "sensor.alarm"),
                               {<<2, "threshold">>}, TRUE),
   sensor_verify      |-> Task(Two("sensor.read", "sensor.history"),
                               {<<2, "readings">>}, FALSE),
   compute_single     |-> Task(One("compute.calc"), {<<1, "value">>}, FALSE),
   compute_sequential |-> Task(Two("compute.convert", "compute.convert"),
                               {<<1, "value">>, <<2, "value">>}, FALSE),
   compute_dependent  |-> Task(Then("compute.convert", "value", "compute.calc"),
                               {<<2, "value">>}, FALSE),
   compute_verify     |-> Task(Two("compute.stats", "compute.stats"),
                               {<<1, "value">>}, FALSE)]

TaskIds == DOMAIN TaskShapes

=============================================================================
