------------------------------ MODULE Harness ------------------------------
(***************************************************************************)
(* The experiment driver (eval/harness.py) and its teacher-rollout variant *)
(* (data/generate.py): workers, each with a slice of the joblist, that run *)
(* an episode, write its record to a path computed from the job, and skip  *)
(* the paths that exist.  A worker may be killed between any two steps, by *)
(* the batch system, and launched again.  An episode is deterministic and  *)
(* its record is known by its job; what happens inside it is AgentLoop.    *)
(***************************************************************************)
EXTENDS Naturals, Sequences, FiniteSets

CONSTANTS
  Workers,      \* processes, one per line of the joblist
  RunSpec,      \* for each: what it was asked to run
  Tag,          \* model_tag: the directory name of a model config
  Poisonings,   \* the sets of jobs whose episode may raise, each time it is run
  MaxRelaunches,\* bound: how often a worker is launched again
  MaxKills      \* bound: how often the batch system kills

ASSUME HarnessAssumption ==
  /\ \A w \in Workers : Len(RunSpec[w].episodes) \in Nat /\ RunSpec[w].limit \in Nat
  /\ MaxRelaunches \in Nat /\ MaxKills \in Nat

VARIABLES
  poison,       \* the jobs whose episode raises
  file,         \* the result directory, by path
  shard,        \* the JSONL shards, by path
  todo,         \* a generating worker's sources not yet copied
  pc,           \* where a worker is in run() or generate()
  at,           \* the position in its slice
  nDone,        \* n_done
  relaunches,
  kills

harnessVars == <<poison, file, shard, todo, pc, at, nDone, relaunches, kills>>

Slice(w) == RunSpec[w].episodes
Positions(w) == 1 .. Len(Slice(w))

\* Everything the record of an episode depends on, and so stands for it.
JobOf(w, k) ==
  [out |-> RunSpec[w].out, config |-> RunSpec[w].config, fault |-> RunSpec[w].fault,
   method |-> RunSpec[w].method, profile |-> RunSpec[w].profile, episode |-> Slice(w)[k]]

Jobs == UNION {{JobOf(w, k) : k \in Positions(w)} : w \in Workers}

ASSUME JobsAssumption == IsFiniteSet(Jobs) /\ Poisonings \subseteq SUBSET Jobs

\* episode_path: the profile is in the record but not in the path, so the same
\* episode run under two profiles goes to one file.
PathOf(job) ==
  [out |-> job.out, tag |-> Tag[job.config], fault |-> job.fault, method |-> job.method,
   episode |-> job.episode]

Paths == {PathOf(job) : job \in Jobs}

\* The job at a worker's position, and the path of its record.
Job(w) == JobOf(w, at[w])
Path(w) == PathOf(Job(w))

\* "empty" is opened and truncated, not yet written; "torn" mixes two records;
\* "of" is the job whose record can be read there, if one can.
Absent == [state |-> "absent", of |-> {}]
Empty == [state |-> "empty", of |-> {}]
Torn == [state |-> "torn", of |-> {}]
Whole(job) == [state |-> "whole", of |-> {job}]

Exists(p) == file[p].state # "absent"
Readable(p) == file[p].state = "whole"

Stopped == {"done", "failed", "killed"}

\* After its slice a generating worker concatenates; others are done.
AfterSlice(w) == IF RunSpec[w].shard THEN "concat" ELSE "done"

-----------------------------------------------------------------------------
\* limit_episodes is reached; it counts the skipped ones too.
StopAtLimit(w) ==
  /\ pc[w] = "loop"
  /\ at[w] \in Positions(w)
  /\ nDone[w] >= RunSpec[w].limit
  /\ pc' = [pc EXCEPT ![w] = AfterSlice(w)]
  /\ UNCHANGED <<poison, file, shard, todo, at, nDone, relaunches, kills>>

\* The guards of the loop body.
WantsNext(w) ==
  /\ pc[w] = "loop"
  /\ at[w] \in Positions(w)
  /\ nDone[w] < RunSpec[w].limit

Skips(w) == RunSpec[w].skip /\ Exists(Path(w))

\* Mutant: the limit counts only the episodes this launch has run.
SkipUncounted(w) ==
  /\ WantsNext(w)
  /\ Skips(w)
  /\ at' = [at EXCEPT ![w] = @ + 1]
  /\ UNCHANGED <<poison, file, shard, todo, pc, nDone, relaunches, kills>>

\* Whatever is at the path counts as a result.
SkipExisting(w) ==
  /\ WantsNext(w)
  /\ Skips(w)
  /\ nDone' = [nDone EXCEPT ![w] = @ + 1]
  /\ at' = [at EXCEPT ![w] = @ + 1]
  /\ UNCHANGED <<poison, file, shard, todo, pc, relaunches, kills>>

\* Mutant: skip_existing is not looked at.
RunEpisodeAnyway(w) ==
  /\ WantsNext(w)
  /\ pc' = [pc EXCEPT ![w] = IF Job(w) \in poison THEN "failed" ELSE "record"]
  /\ UNCHANGED <<poison, file, shard, todo, at, nDone, relaunches, kills>>

\* Mutant: an episode that raises is run again.
RunEpisodeRetrying(w) ==
  /\ WantsNext(w)
  /\ ~Skips(w)
  /\ pc' = [pc EXCEPT ![w] = IF Job(w) \in poison THEN "loop" ELSE "record"]
  /\ UNCHANGED <<poison, file, shard, todo, at, nDone, relaunches, kills>>

\* The episode is run to its end, or what it raises ends the worker: run() has
\* no handler.
RunEpisode(w) ==
  /\ WantsNext(w)
  /\ ~Skips(w)
  /\ pc' = [pc EXCEPT ![w] = IF Job(w) \in poison THEN "failed" ELSE "record"]
  /\ UNCHANGED <<poison, file, shard, todo, at, nDone, relaunches, kills>>

\* write_text opens the path for writing, without looking at it again.
OpenFile(w) ==
  /\ pc[w] = "record"
  /\ file' = [file EXCEPT ![Path(w)] = Empty]
  /\ pc' = [pc EXCEPT ![w] = "open"]
  /\ UNCHANGED <<poison, shard, todo, at, nDone, relaunches, kills>>

\* ... and writes from the start: over another's record, which may have been the
\* longer one (wall_s is in it), if another has written since.
Written(w) ==
  IF file[Path(w)].state = "empty" THEN {Whole(Job(w))} ELSE {Whole(Job(w)), Torn}

\* Mutant: the record is still in the buffer when the loop goes on.
WriteRecordUnflushed(w) ==
  /\ pc[w] = "open"
  /\ nDone' = [nDone EXCEPT ![w] = @ + 1]
  /\ at' = [at EXCEPT ![w] = @ + 1]
  /\ pc' = [pc EXCEPT ![w] = "loop"]
  /\ UNCHANGED <<poison, file, shard, todo, relaunches, kills>>

WriteRecord(w) ==
  /\ pc[w] = "open"
  /\ \E written \in Written(w) : file' = [file EXCEPT ![Path(w)] = written]
  /\ nDone' = [nDone EXCEPT ![w] = @ + 1]
  /\ at' = [at EXCEPT ![w] = @ + 1]
  /\ pc' = [pc EXCEPT ![w] = "loop"]
  /\ UNCHANGED <<poison, shard, todo, relaunches, kills>>

EndOfSlice(w) ==
  /\ pc[w] = "loop"
  /\ at[w] \notin Positions(w)
  /\ pc' = [pc EXCEPT ![w] = AfterSlice(w)]
  /\ UNCHANGED <<poison, file, shard, todo, at, nDone, relaunches, kills>>

-----------------------------------------------------------------------------
\* The shard of a cell, whoever its teacher is: <env>__<fault>.jsonl.
ShardPath(w) ==
  [out |-> RunSpec[w].out, env |-> Slice(w)[1].env, fault |-> RunSpec[w].fault]

ShardPaths == {ShardPath(w) : w \in {v \in Workers : RunSpec[v].shard}}

\* "by" is everyone who has had the file open since it was last truncated with
\* nobody else at it, and "lines" is told only while that is one worker: two of
\* them write over each other, each from its own offset.
NoShard == [by |-> {}, lines |-> {}]

\* The episode files of the worker's cell and teacher, whoever wrote them.
Sources(w) ==
  {p \in Paths : /\ Exists(p)
                 /\ p.out = RunSpec[w].out /\ p.tag = Tag[RunSpec[w].config]
                 /\ p.fault = RunSpec[w].fault /\ p.method = RunSpec[w].method
                 /\ p.episode.env = Slice(w)[1].env}

CopyingTo(s) == {v \in Workers : pc[v] = "copy" /\ ShardPath(v) = s}

\* The shard is truncated, and the sources listed.
OpenShard(w) ==
  /\ pc[w] = "concat"
  /\ shard' = [shard EXCEPT ![ShardPath(w)] =
                  [by |-> {w} \cup CopyingTo(ShardPath(w)), lines |-> {}]]
  /\ todo' = [todo EXCEPT ![w] = Sources(w)]
  /\ pc' = [pc EXCEPT ![w] = "copy"]
  /\ UNCHANGED <<poison, file, at, nDone, relaunches, kills>>

WithLines(content, w, records) ==
  IF content.by = {w} THEN [content EXCEPT !.lines = @ \cup records] ELSE content

\* Mutant: a source that does not parse is left out.
CopyLineTolerant(w) ==
  /\ pc[w] = "copy"
  /\ \E p \in todo[w] :
       /\ todo' = [todo EXCEPT ![w] = @ \ {p}]
       /\ shard' = [shard EXCEPT ![ShardPath(w)] =
                      IF Readable(p) THEN WithLines(@, w, file[p].of) ELSE @]
  /\ UNCHANGED <<poison, file, pc, at, nDone, relaunches, kills>>

CopyLine(w) ==
  /\ pc[w] = "copy"
  /\ \E p \in todo[w] :
       /\ Readable(p)
       /\ todo' = [todo EXCEPT ![w] = @ \ {p}]
       /\ shard' = [shard EXCEPT ![ShardPath(w)] = WithLines(@, w, file[p].of)]
  /\ UNCHANGED <<poison, file, pc, at, nDone, relaunches, kills>>

\* A source that does not parse ends the worker and leaves the shard as it is, with
\* nothing on the disk to tell it from a finished one.
FailToCopy(w) ==
  /\ pc[w] = "copy"
  /\ \E p \in todo[w] : ~Readable(p)
  /\ pc' = [pc EXCEPT ![w] = "failed"]
  /\ todo' = [todo EXCEPT ![w] = {}]
  /\ UNCHANGED <<poison, file, shard, at, nDone, relaunches, kills>>

CloseShard(w) ==
  /\ pc[w] = "copy"
  /\ todo[w] = {}
  /\ pc' = [pc EXCEPT ![w] = "done"]
  /\ UNCHANGED <<poison, file, shard, todo, at, nDone, relaunches, kills>>

-----------------------------------------------------------------------------
\* What was still in its buffer dies with a worker that is writing a shard.
LoseBuffer(w) ==
  IF pc[w] = "copy"
  THEN \E kept \in SUBSET shard[ShardPath(w)].lines :
         shard' = [shard EXCEPT ![ShardPath(w)] = [@ EXCEPT !.lines = kept]]
  ELSE UNCHANGED shard

\* The batch system, at a time limit or a preemption.
Kill(w) ==
  /\ kills < MaxKills
  /\ pc[w] \notin Stopped
  /\ kills' = kills + 1
  /\ pc' = [pc EXCEPT ![w] = "killed"]
  /\ LoseBuffer(w)
  /\ todo' = [todo EXCEPT ![w] = {}]
  /\ UNCHANGED <<poison, file, at, nDone, relaunches>>

\* Mutant: positions counted from zero.
RelaunchAtZero(w) ==
  /\ pc[w] \in Stopped
  /\ relaunches < MaxRelaunches
  /\ relaunches' = relaunches + 1
  /\ pc' = [pc EXCEPT ![w] = "loop"]
  /\ at' = [at EXCEPT ![w] = 0]
  /\ nDone' = [nDone EXCEPT ![w] = 0]
  /\ UNCHANGED <<poison, file, shard, todo, kills>>

\* The same line of the joblist again: a new process, the same directory.
Relaunch(w) ==
  /\ pc[w] \in Stopped
  /\ relaunches < MaxRelaunches
  /\ relaunches' = relaunches + 1
  /\ pc' = [pc EXCEPT ![w] = "loop"]
  /\ at' = [at EXCEPT ![w] = 1]
  /\ nDone' = [nDone EXCEPT ![w] = 0]
  /\ UNCHANGED <<poison, file, shard, todo, kills>>

HarnessInit ==
  /\ poison \in Poisonings
  /\ file = [p \in Paths |-> Absent]
  /\ shard = [s \in ShardPaths |-> NoShard]
  /\ todo = [w \in Workers |-> {}]
  /\ pc = [w \in Workers |-> "loop"]
  /\ at = [w \in Workers |-> 1]
  /\ nDone = [w \in Workers |-> 0]
  /\ relaunches = 0
  /\ kills = 0

\* What a worker does of its own accord.
Step(w) ==
  \/ StopAtLimit(w) \/ SkipExisting(w) \/ RunEpisode(w)
  \/ OpenFile(w) \/ WriteRecord(w) \/ EndOfSlice(w)
  \/ OpenShard(w) \/ CopyLine(w) \/ FailToCopy(w) \/ CloseShard(w)

HarnessNext == \E w \in Workers : Step(w) \/ Kill(w) \/ Relaunch(w)

HarnessSpec ==
  /\ HarnessInit
  /\ [][HarnessNext]_harnessVars
  /\ \A w \in Workers : WF_harnessVars(Step(w))

-----------------------------------------------------------------------------
FileType == [state : {"absent", "empty", "torn", "whole"}, of : SUBSET Jobs]
ShardType == [by : SUBSET Workers, lines : SUBSET Jobs]

\* The variables have the types the code gives them.
HarnessTypeOK ==
  /\ poison \subseteq Jobs
  /\ file \in [Paths -> FileType]
  /\ shard \in [ShardPaths -> ShardType]
  /\ todo \in [Workers -> SUBSET Paths]
  /\ pc \in [Workers -> {"loop", "record", "open", "concat", "copy"} \cup Stopped]
  /\ at \in [Workers -> Nat \ {0}]
  /\ nDone \in [Workers -> Nat]
  /\ relaunches \in Nat
  /\ kills \in Nat

\* Paths that one line of the joblist, at one position, has its record at.
OwnPaths ==
  {p \in Paths : \A v, w \in Workers : \A i \in Positions(v), j \in Positions(w) :
     PathOf(JobOf(v, i)) = p /\ PathOf(JobOf(w, j)) = p => v = w /\ i = j}

\* The positions of resumable work: skip_existing, at a path of its own.
Resumable ==
  [w \in Workers |-> {k \in Positions(w) : RunSpec[w].skip /\ PathOf(JobOf(w, k)) \in OwnPaths}]

\* Resuming is idempotent: once the record of a resumable position can be read,
\* no launch, kill or other worker changes or loses it.
KeepsRecords ==
  \A w \in Workers : \A k \in Resumable[w] :
    Readable(PathOf(JobOf(w, k)))
      => file'[PathOf(JobOf(w, k))] = file[PathOf(JobOf(w, k))]

RecordsAreKept == [][KeepsRecords]_harnessVars

\* Each kill spoils one file at most, and nothing else spoils any: beyond those
\* being written, no more unreadable files at paths of their own than kills.
DamageWithinKills ==
  LET beingWritten == {Path(w) : w \in {v \in Workers : pc[v] = "open"}}
      spoiled      == {p \in OwnPaths : Exists(p) /\ ~Readable(p)}
  IN  Cardinality(spoiled \ beingWritten) <= kills

\* A worker's results, at paths of its own, are always the beginning of its
\* slice: nothing is left out, nothing lies beyond the limit, however often it
\* was relaunched, nor beyond an episode that raises; and they are the whole of
\* it, up to the limit, when the worker reports success.
ResultsAreAPrefix ==
  \A w \in Workers :
    LET has(k) == Exists(PathOf(JobOf(w, k)))
    IN  (\A k \in Positions(w) : PathOf(JobOf(w, k)) \in OwnPaths) =>
          \A k \in Positions(w) :
            /\ has(k) => /\ k <= RunSpec[w].limit
                         /\ \A j \in 1 .. k : has(j) /\ JobOf(w, j) \notin poison
            /\ pc[w] = "done" /\ k <= RunSpec[w].limit => has(k)

\* A worker that reports success has made its shard whole: unless another teacher
\* of the cell has opened the same file at the same time or since, it holds a line
\* for every episode of the worker's slice that is written at a path of its own,
\* and no line of another teacher, fault configuration, method or environment.
\* What was killed, raised or found unreadable on the way never shortens it.
ShardsHoldTheirCell ==
  \A w \in Workers :
    RunSpec[w].shard /\ pc[w] = "done" /\ shard[ShardPath(w)].by = {w} =>
      LET lines == shard[ShardPath(w)].lines
      IN  /\ \A k \in Resumable[w] : JobOf(w, k) \in lines
          /\ \A job \in lines : /\ job.config = RunSpec[w].config
                                 /\ job.fault = RunSpec[w].fault
                                 /\ job.method = RunSpec[w].method
                                 /\ job.episode.env = Slice(w)[1].env

\* What the harness says of its layout (eval/harness.py:11-12), that it is
\* idempotent under skip_existing: what a worker skips at a path of its own is
\* the record of the episode.
SkippedIsRecorded ==
  \A w \in Workers : WantsNext(w) /\ Skips(w) /\ Path(w) \in OwnPaths => Readable(Path(w))

\* Every worker stops, each time it is launched.
WorkersStop == \A w \in Workers : []<>(pc[w] \in Stopped)

=============================================================================
