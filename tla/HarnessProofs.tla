--------------------------- MODULE HarnessProofs ---------------------------
(***************************************************************************)
(* Proofs about the result directory, for every joblist, however many      *)
(* workers it has, however their slices overlap, and however often they    *)
(* are killed and launched again, with the analysis running beside.        *)
(***************************************************************************)
EXTENDS Rq1, FiniteSetTheorems, WellFoundedInduction, TLAPS

\* A worker that has an episode's record in hand, or its file open, is at a
\* position of its slice.
WriterInSlice ==
  \A w \in Workers : pc[w] \in {"record", "open"} => at[w] \in Positions(w)

\* ... and if that position is resumable its record is not at the path yet.
HoleBeforeWriter ==
  \A w \in Workers : \A k \in Resumable[w] : k = at[w] =>
    /\ pc[w] = "record" => file[PathOf(JobOf(w, k))].state = "absent"
    /\ pc[w] = "open"   => file[PathOf(JobOf(w, k))].state = "empty"

WorkersInv == HarnessTypeOK /\ WriterInSlice /\ HoleBeforeWriter

\* A path of its own is written by the worker at that position only.
LEMMA OwnPathsAreApart ==
  ASSUME NEW v \in Workers, at[v] \in Positions(v),
         NEW w \in Workers, NEW k \in Positions(w), PathOf(JobOf(w, k)) \in OwnPaths,
         Path(v) = PathOf(JobOf(w, k))
  PROVE  v = w /\ at[v] = k
<1>1. PathOf(JobOf(v, at[v])) = PathOf(JobOf(w, k))
  BY DEF Path, Job
<1> QED  BY <1>1, Zenon DEF OwnPaths

\* Steps of the whole are steps of the workers or leave them alone.
LEMMA WorkersOrAnalysis ==
  [Next]_vars => [HarnessNext]_harnessVars
BY DEF Next, vars, harnessVars

\* Path(w) is the path of a job.
LEMMA PathsOfJobs ==
  ASSUME NEW w \in Workers, NEW k \in Positions(w)
  PROVE  JobOf(w, k) \in Jobs /\ PathOf(JobOf(w, k)) \in Paths
<1>1. JobOf(w, k) \in {JobOf(w, j) : j \in Positions(w)}  OBVIOUS
<1>2. JobOf(w, k) \in Jobs  BY <1>1, Zenon DEF Jobs
<1> QED  BY <1>2, Zenon DEF Paths

\* Every step of a worker, kill and launch keeps the types.
LEMMA WorkersTypeStep ==
  HarnessTypeOK /\ WriterInSlice /\ [HarnessNext]_harnessVars => HarnessTypeOK'
<1> SUFFICES ASSUME HarnessTypeOK, WriterInSlice, [HarnessNext]_harnessVars
             PROVE  HarnessTypeOK'
  OBVIOUS
<1>1. CASE UNCHANGED harnessVars
  BY <1>1 DEF harnessVars, HarnessTypeOK
<1>2. ASSUME NEW w \in Workers, StopAtLimit(w) PROVE HarnessTypeOK'
  BY <1>2 DEF StopAtLimit, HarnessTypeOK, AfterSlice, Stopped
<1>3. ASSUME NEW w \in Workers, SkipExisting(w) PROVE HarnessTypeOK'
  BY <1>3 DEF SkipExisting, HarnessTypeOK
<1>4. ASSUME NEW w \in Workers, RunEpisode(w) PROVE HarnessTypeOK'
  BY <1>4 DEF RunEpisode, HarnessTypeOK, Stopped
<1>5. ASSUME NEW w \in Workers, OpenFile(w) PROVE HarnessTypeOK'
  <2>1. Empty \in FileType  BY DEF Empty, FileType
  <2> QED  BY <1>5, <2>1 DEF OpenFile, HarnessTypeOK, Stopped
<1>6. ASSUME NEW w \in Workers, WriteRecord(w) PROVE HarnessTypeOK'
  <2>1. Written(w) \subseteq FileType
    <3>1. Job(w) \in Jobs  BY <1>6, PathsOfJobs DEF Job, WriteRecord, WriterInSlice
    <3>2. Whole(Job(w)) \in FileType /\ Torn \in FileType
      BY <3>1 DEF Whole, Torn, FileType
    <3> QED  BY <3>2 DEF Written
  <2>2. PICK written \in Written(w) : file' = [file EXCEPT ![Path(w)] = written]
    BY <1>6 DEF WriteRecord
  <2>3. file' \in [Paths -> FileType]
    BY <2>1, <2>2 DEF HarnessTypeOK
  <2> QED  BY <1>6, <2>3 DEF WriteRecord, HarnessTypeOK, Stopped
<1>7. ASSUME NEW w \in Workers, EndOfSlice(w) PROVE HarnessTypeOK'
  BY <1>7 DEF EndOfSlice, HarnessTypeOK, AfterSlice, Stopped
<1>8. ASSUME NEW w \in Workers, OpenShard(w) PROVE HarnessTypeOK'
  <2>1. [by |-> {w} \cup CopyingTo(ShardPath(w)), lines |-> {}] \in ShardType
    BY DEF ShardType, CopyingTo
  <2>2. shard' \in [ShardPaths -> ShardType]
    BY <1>8, <2>1 DEF OpenShard, HarnessTypeOK
  <2>3. todo' \in [Workers -> SUBSET Paths]
    BY <1>8 DEF OpenShard, HarnessTypeOK, Sources
  <2> QED  BY <1>8, <2>2, <2>3 DEF OpenShard, HarnessTypeOK, Stopped
<1>9. ASSUME NEW w \in Workers, CopyLine(w) PROVE HarnessTypeOK'
  <2>1. PICK p \in todo[w] :
          /\ todo' = [todo EXCEPT ![w] = @ \ {p}]
          /\ shard' = [shard EXCEPT ![ShardPath(w)] = WithLines(@, w, file[p].of)]
    BY <1>9 DEF CopyLine
  <2>2. file[p].of \subseteq Jobs
    BY <2>1 DEF HarnessTypeOK, FileType
  <2>3. \A content \in ShardType : WithLines(content, w, file[p].of) \in ShardType
    BY <2>2 DEF WithLines, ShardType
  <2>4. shard' \in [ShardPaths -> ShardType]
    BY <2>1, <2>3 DEF HarnessTypeOK
  <2>5. todo' \in [Workers -> SUBSET Paths]
    BY <2>1 DEF HarnessTypeOK
  <2> QED  BY <1>9, <2>4, <2>5 DEF CopyLine, HarnessTypeOK
<1>10. ASSUME NEW w \in Workers, FailToCopy(w) \/ CloseShard(w) PROVE HarnessTypeOK'
  BY <1>10 DEF FailToCopy, CloseShard, HarnessTypeOK, Stopped
<1>11. ASSUME NEW w \in Workers, Kill(w) PROVE HarnessTypeOK'
  <2>1. shard' \in [ShardPaths -> ShardType]
    <3>1. CASE shard' = shard  BY <3>1 DEF HarnessTypeOK
    <3>2. ASSUME NEW kept \in SUBSET shard[ShardPath(w)].lines,
                 shard' = [shard EXCEPT ![ShardPath(w)] = [@ EXCEPT !.lines = kept]]
          PROVE  shard' \in [ShardPaths -> ShardType]
      <4>1. ASSUME ShardPath(w) \in ShardPaths
            PROVE  [shard[ShardPath(w)] EXCEPT !.lines = kept] \in ShardType
        BY <4>1 DEF HarnessTypeOK, ShardType
      <4> QED  BY <3>2, <4>1 DEF HarnessTypeOK
    <3> QED  BY <1>11, <3>1, <3>2 DEF Kill, LoseBuffer
  <2> QED  BY <1>11, <2>1 DEF Kill, HarnessTypeOK, Stopped
<1>12. ASSUME NEW w \in Workers, Relaunch(w) PROVE HarnessTypeOK'
  BY <1>12 DEF Relaunch, HarnessTypeOK, Stopped
<1> QED  BY <1>1, <1>2, <1>3, <1>4, <1>5, <1>6, <1>7, <1>8, <1>9, <1>10, <1>11, <1>12
         DEF HarnessNext, Step

\* A worker gets a record in hand, or a file open, by its own step only.
LEMMA WorkerMoves ==
  ASSUME HarnessTypeOK, [HarnessNext]_harnessVars, NEW w \in Workers
  PROVE  \/ OpenFile(w) \/ RunEpisode(w)
         \/ pc'[w] \notin {"record", "open"}
         \/ pc'[w] = pc[w] /\ at'[w] = at[w]
<1>1. CASE UNCHANGED harnessVars
  BY <1>1 DEF harnessVars
<1>2. ASSUME NEW v \in Workers, StopAtLimit(v) \/ EndOfSlice(v)
      PROVE  pc'[w] \notin {"record", "open"} \/ (pc'[w] = pc[w] /\ at'[w] = at[w])
  BY <1>2 DEF StopAtLimit, EndOfSlice, AfterSlice, HarnessTypeOK
<1>3. ASSUME NEW v \in Workers, SkipExisting(v) \/ WriteRecord(v)
      PROVE  pc'[w] \notin {"record", "open"} \/ (pc'[w] = pc[w] /\ at'[w] = at[w])
  BY <1>3 DEF SkipExisting, WantsNext, WriteRecord, HarnessTypeOK
<1>4. ASSUME NEW v \in Workers, RunEpisode(v) \/ OpenFile(v), v # w
      PROVE  pc'[w] = pc[w] /\ at'[w] = at[w]
  BY <1>4 DEF RunEpisode, OpenFile, HarnessTypeOK
<1>5. ASSUME NEW v \in Workers, OpenShard(v) \/ CopyLine(v) \/ FailToCopy(v)
                    \/ CloseShard(v) \/ Kill(v) \/ Relaunch(v)
      PROVE  pc'[w] \notin {"record", "open"} \/ (pc'[w] = pc[w] /\ at'[w] = at[w])
  BY <1>5 DEF OpenShard, CopyLine, FailToCopy, CloseShard, Kill, Relaunch, HarnessTypeOK
<1> QED  BY <1>1, <1>2, <1>3, <1>4, <1>5 DEF HarnessNext, Step

\* The file at a path of its own changes by its worker's step only, from that
\* position.
LEMMA OwnFileStep ==
  ASSUME HarnessTypeOK, WriterInSlice, [HarnessNext]_harnessVars,
         NEW w \in Workers, NEW k \in Positions(w), PathOf(JobOf(w, k)) \in OwnPaths,
         file'[PathOf(JobOf(w, k))] # file[PathOf(JobOf(w, k))]
  PROVE  at[w] = k /\ (OpenFile(w) \/ WriteRecord(w))
<1> DEFINE P == PathOf(JobOf(w, k))
<1>1. P \in Paths  BY PathsOfJobs
<1>2. PICK v \in Workers : OpenFile(v) \/ WriteRecord(v)
  BY DEF HarnessNext, Step, harnessVars, StopAtLimit, SkipExisting, RunEpisode, EndOfSlice,
         OpenShard, CopyLine, FailToCopy, CloseShard, Kill, Relaunch
<1>3. Path(v) = P
  <2> SUFFICES ASSUME Path(v) # P PROVE file'[P] = file[P]
    OBVIOUS
  <2> HIDE DEF P
  <2>1. PICK new : file' = [file EXCEPT ![Path(v)] = new]
    BY <1>2 DEF OpenFile, WriteRecord
  <2> QED  BY <1>1, <2>1 DEF HarnessTypeOK
<1>4. at[v] \in Positions(v)
  BY <1>2 DEF OpenFile, WriteRecord, WriterInSlice
<1>5. v = w /\ at[v] = k
  BY <1>3, <1>4, OwnPathsAreApart
<1> QED  BY <1>2, <1>5

\* Types, writers within their slices and holes before writers are kept.
LEMMA WorkersInvariant == Spec => []WorkersInv
<1>1. Init => WorkersInv
  <2> SUFFICES ASSUME HarnessInit PROVE WorkersInv
    BY DEF Init
  <2>1. Absent \in FileType /\ NoShard \in ShardType
    BY DEF Absent, FileType, NoShard, ShardType
  <2>2. HarnessTypeOK
    BY <2>1, JobsAssumption DEF HarnessInit, HarnessTypeOK
  <2> QED  BY <2>2 DEF HarnessInit, WorkersInv, WriterInSlice, HoleBeforeWriter
<1>2. WorkersInv /\ [Next]_vars => WorkersInv'
  <2> SUFFICES ASSUME WorkersInv, [HarnessNext]_harnessVars PROVE WorkersInv'
    BY WorkersOrAnalysis
  <2> USE DEF WorkersInv
  <2>1. HarnessTypeOK'  BY WorkersTypeStep
  <2>2. WriterInSlice'
    <3> SUFFICES ASSUME NEW w \in Workers, pc'[w] \in {"record", "open"}
                 PROVE  at'[w] \in Positions(w)
      BY Zenon DEF WriterInSlice, Positions, Slice
    <3>1. CASE OpenFile(w)  BY <3>1 DEF OpenFile, WriterInSlice
    <3>2. CASE RunEpisode(w)  BY <3>2 DEF RunEpisode, WantsNext
    <3>3. CASE pc'[w] = pc[w] /\ at'[w] = at[w]  BY <3>3 DEF WriterInSlice
    <3> QED  BY <3>1, <3>2, <3>3, WorkerMoves
  <2>3. HoleBeforeWriter'
    <3> SUFFICES ASSUME NEW w \in Workers, NEW k \in Resumable[w], k = at'[w],
                        pc'[w] \in {"record", "open"}
                 PROVE  /\ pc'[w] = "record" => file'[PathOf(JobOf(w, k))].state = "absent"
                        /\ pc'[w] = "open"   => file'[PathOf(JobOf(w, k))].state = "empty"
      BY Zenon DEF HoleBeforeWriter, PathOf, JobOf, Slice
    <3> DEFINE P == PathOf(JobOf(w, k))
    <3>1. k \in Positions(w) /\ P \in OwnPaths /\ RunSpec[w].skip
      BY DEF Resumable
    <3>2. P \in Paths  BY <3>1, PathsOfJobs
    <3>3. CASE OpenFile(w)
      <4>1. Path(w) = P  BY <3>3 DEF OpenFile, Path, Job
      <4>2. file' = [file EXCEPT ![P] = Empty]  BY <3>3, <4>1, Zenon DEF OpenFile
      <4> HIDE DEF P
      <4>3. file'[P] = Empty  BY <3>2, <4>2 DEF HarnessTypeOK
      <4>4. pc'[w] = "open"  BY <3>3 DEF OpenFile, HarnessTypeOK
      <4> QED  BY <4>3, <4>4 DEF Empty, P
    <3>4. CASE RunEpisode(w)
      <4>1. Path(w) = P  BY <3>4 DEF RunEpisode, Path, Job
      <4>2. ~Exists(P)  BY <3>1, <3>4, <4>1, Zenon DEF RunEpisode, Skips
      <4> HIDE DEF P
      <4>3. file'[P].state = "absent"  BY <3>4, <4>2 DEF Exists, RunEpisode
      <4>4. pc'[w] # "open"  BY <3>4 DEF RunEpisode, HarnessTypeOK
      <4> QED  BY <4>3, <4>4 DEF P
    <3>5. CASE pc'[w] = pc[w] /\ at'[w] = at[w] /\ ~OpenFile(w)
      <4>1. ~WriteRecord(w)  BY <3>5 DEF WriteRecord, HarnessTypeOK
      <4>2. file'[P] = file[P]  BY <3>1, <3>5, <4>1, OwnFileStep
      <4> QED  BY <3>5, <4>2 DEF HoleBeforeWriter
    <3> QED  BY <3>3, <3>4, <3>5, WorkerMoves
  <2> QED  BY <2>1, <2>2, <2>3
<1> QED  BY <1>1, <1>2, PTL DEF Spec

\* Resuming is idempotent (run's skip_existing): under any interleaving, any
\* kills and any launches, a readable record at a path of its own stays.
THEOREM ReadableRecordsAreKept == Spec => RecordsAreKept
<1>1. WorkersInv /\ [Next]_vars => [KeepsRecords]_harnessVars
  <2> SUFFICES ASSUME WorkersInv, [HarnessNext]_harnessVars,
                      NEW w \in Workers, NEW k \in Resumable[w],
                      Readable(PathOf(JobOf(w, k)))
               PROVE  file'[PathOf(JobOf(w, k))] = file[PathOf(JobOf(w, k))]
    BY WorkersOrAnalysis DEF KeepsRecords
  <2>1. k \in Positions(w) /\ PathOf(JobOf(w, k)) \in OwnPaths
    BY DEF Resumable
  <2>2. ~(at[w] = k /\ pc[w] \in {"record", "open"})
    BY DEF WorkersInv, HoleBeforeWriter, Readable
  <2> QED  BY <2>1, <2>2, OwnFileStep DEF WorkersInv, OpenFile, WriteRecord
<1>2. Spec => []WorkersInv  BY WorkersInvariant
<1> QED  BY <1>1, <1>2, PTL DEF Spec, RecordsAreKept

\* A readable file holds the record of a job whose path it is.
RecordAtItsPath ==
  \A p \in Paths : Readable(p) => \E job \in Jobs : file[p].of = {job} /\ PathOf(job) = p

\* Records are written by workers, at the path of the job they ran.
LEMMA RecordsAtTheirPaths == Spec => []RecordAtItsPath
<1>1. Init => RecordAtItsPath
  BY DEF Init, HarnessInit, RecordAtItsPath, Readable, Absent
<1>2. WorkersInv /\ RecordAtItsPath /\ [Next]_vars => RecordAtItsPath'
  <2> SUFFICES ASSUME WorkersInv, RecordAtItsPath, [HarnessNext]_harnessVars,
                      NEW p \in Paths, file'[p].state = "whole"
               PROVE  \E job \in Jobs : file'[p].of = {job} /\ PathOf(job) = p
    BY WorkersOrAnalysis, Zenon DEF RecordAtItsPath, Readable, Paths, Jobs, JobOf, PathOf,
       Slice, Positions
  <2>1. CASE file'[p] = file[p]
    BY <2>1 DEF RecordAtItsPath, Readable
  <2>2. CASE file'[p] # file[p]
    <3>1. PICK v \in Workers : OpenFile(v) \/ WriteRecord(v)
      BY <2>2 DEF HarnessNext, Step, harnessVars, StopAtLimit, SkipExisting, RunEpisode,
             EndOfSlice, OpenShard, CopyLine, FailToCopy, CloseShard, Kill, Relaunch
    <3>2. PICK new \in {Empty, Torn, Whole(Job(v))} : file' = [file EXCEPT ![Path(v)] = new]
      BY <3>1 DEF OpenFile, WriteRecord, Written
    <3>3. Path(v) = p /\ file'[p] = new
      BY <2>2, <3>2 DEF WorkersInv, HarnessTypeOK
    <3>4. new = Whole(Job(v))
      BY <3>3 DEF Empty, Torn
    <3>5. Job(v) \in Jobs
      BY <3>1, PathsOfJobs DEF WorkersInv, WriterInSlice, OpenFile, WriteRecord, Job
    <3> QED  BY <3>3, <3>4, <3>5 DEF Whole, Path
  <2> QED  BY <2>1, <2>2
<1>3. Spec => []WorkersInv  BY WorkersInvariant
<1> QED  BY <1>1, <1>2, <1>3, PTL DEF Spec

\* All of a worker's slice has paths of its own.
OwnSlice(w) == \A k \in Positions(w) : PathOf(JobOf(w, k)) \in OwnPaths

Has(w, k) == Exists(PathOf(JobOf(w, k)))

\* n_done counts the positions passed; each passed one has its file; what is
\* being written is within the limit and did not raise; the loop is left at the
\* end of the slice or at the limit; and files are there from the front.
SliceInvOf(w) ==
  /\ nDone[w] + 1 = at[w]
  /\ pc[w] \in {"record", "open"} => at[w] <= RunSpec[w].limit /\ Job(w) \notin poison
  /\ pc[w] \in {"concat", "copy", "done"} =>
       at[w] \notin Positions(w) \/ nDone[w] >= RunSpec[w].limit
  /\ pc[w] = "open" => Has(w, at[w])
  /\ \A k \in Positions(w) : k < at[w] => Has(w, k)
  /\ \A k \in Positions(w) : Has(w, k) =>
       /\ k <= RunSpec[w].limit
       /\ \A j \in 1 .. k : Has(w, j) /\ JobOf(w, j) \notin poison

SliceInv == \A w \in Workers : OwnSlice(w) => SliceInvOf(w)

\* Results are the beginning of the slice (run's loop): no kill, launch, skip,
\* failure or other worker leaves a hole in it or takes it past the limit.
THEOREM ResultsArePrefixes == Spec => []ResultsAreAPrefix
<1>1. Init => SliceInv
  <2> SUFFICES ASSUME HarnessInit, NEW w \in Workers PROVE SliceInvOf(w)
    BY DEF Init, SliceInv
  <2>1. \A k \in Positions(w) : PathOf(JobOf(w, k)) \in Paths  BY PathsOfJobs
  <2>2. \A k \in Positions(w) : ~Has(w, k) /\ ~(k < 1)
    BY <2>1 DEF HarnessInit, Has, Exists, Absent, Positions
  <2> QED  BY <2>2 DEF HarnessInit, SliceInvOf
<1>2. WorkersInv /\ SliceInv /\ [Next]_vars => SliceInv'
  <2> SUFFICES ASSUME WorkersInv, [HarnessNext]_harnessVars,
                      NEW w \in Workers, OwnSlice(w), SliceInvOf(w)
               PROVE  SliceInvOf(w)'
    BY WorkersOrAnalysis, Zenon DEF SliceInv, OwnSlice, OwnPaths, Positions, Slice, PathOf,
                                    JobOf,
       Paths, Jobs
  <2> DEFINE limit == RunSpec[w].limit
             Old(k) == file[PathOf(JobOf(w, k))].state # "absent"
             New(k) == file'[PathOf(JobOf(w, k))].state # "absent"
             Calm(k) == JobOf(w, k) \notin poison
  <2>1. limit \in Nat /\ Len(Slice(w)) \in Nat
    BY HarnessAssumption DEF Slice
  <2>2. \A k \in Positions(w) : k \in Nat \ {0} /\ \A j \in 1 .. k : j \in Positions(w)
    BY <2>1 DEF Positions
  <2>3. at[w] \in Nat \ {0} /\ nDone[w] \in Nat
    BY DEF WorkersInv, HarnessTypeOK
  <2>4. poison' = poison
    BY DEF HarnessNext, Step, harnessVars, StopAtLimit, SkipExisting, RunEpisode, OpenFile,
           WriteRecord, EndOfSlice, OpenShard, CopyLine, FailToCopy, CloseShard, Kill, Relaunch
  <2>5. ASSUME NEW k \in Positions(w), ~OpenFile(w), ~WriteRecord(w)
        PROVE  New(k) <=> Old(k)
    <3>1. file'[PathOf(JobOf(w, k))] = file[PathOf(JobOf(w, k))]
      BY <2>5, OwnFileStep DEF WorkersInv, OwnSlice
    <3> QED  BY <3>1
  <2>6. /\ nDone[w] + 1 = at[w]
        /\ pc[w] \in {"record", "open"} => at[w] <= limit /\ Calm(at[w])
        /\ pc[w] \in {"concat", "copy", "done"} => at[w] \notin Positions(w) \/ nDone[w] >= limit
        /\ pc[w] = "open" => Old(at[w])
        /\ \A k \in Positions(w) : k < at[w] => Old(k)
        /\ \A k \in Positions(w) : Old(k) => k <= limit /\ \A j \in 1 .. k : Old(j) /\ Calm(j)
    BY DEF SliceInvOf, Has, Exists, Job
  <2> SUFFICES
        /\ nDone'[w] + 1 = at'[w]
        /\ pc'[w] \in {"record", "open"} => at'[w] <= limit /\ Calm(at'[w])
        /\ pc'[w] \in {"concat", "copy", "done"} =>
             at'[w] \notin Positions(w) \/ nDone'[w] >= limit
        /\ pc'[w] = "open" => New(at'[w])
        /\ \A k \in Positions(w) : k < at'[w] => New(k)
        /\ \A k \in Positions(w) : New(k) => k <= limit /\ \A j \in 1 .. k : New(j) /\ Calm(j)
    BY <2>4 DEF SliceInvOf, Has, Exists, Job, JobOf, PathOf, Slice, Positions
  <2>7. CASE ~OpenFile(w) /\ ~WriteRecord(w)
    <3>1. \A k \in Positions(w) : New(k) <=> Old(k)  BY <2>5, <2>7
    <3>2. CASE SkipExisting(w)
      <4>1. at[w] \in Positions(w) /\ Old(at[w])
        BY <3>2 DEF SkipExisting, WantsNext, Skips, Exists, Path, Job
      <4> HIDE DEF Old, New, Calm, limit
      <4>2. nDone'[w] = nDone[w] + 1 /\ at'[w] = at[w] + 1 /\ pc'[w] = pc[w] /\ pc[w] = "loop"
        BY <3>2 DEF SkipExisting, WantsNext, WorkersInv, HarnessTypeOK
      <4> QED  BY <2>1, <2>2, <2>3, <2>6, <3>1, <4>1, <4>2
    <3>3. CASE RunEpisode(w)
      <4>1. pc'[w] = "record" => Calm(at[w])
        BY <3>3 DEF RunEpisode, Job, WorkersInv, HarnessTypeOK
      <4>2. nDone[w] < limit  BY <3>3 DEF RunEpisode, WantsNext
      <4> HIDE DEF Old, New, Calm, limit
      <4>3. nDone'[w] = nDone[w] /\ at'[w] = at[w] /\ pc'[w] \in {"failed", "record"}
        BY <3>3 DEF RunEpisode, WorkersInv, HarnessTypeOK
      <4> QED  BY <2>1, <2>2, <2>3, <2>6, <3>1, <4>1, <4>2, <4>3
    <3>4. CASE StopAtLimit(w) \/ EndOfSlice(w)
      <4>1. at[w] \notin Positions(w) \/ nDone[w] >= limit
        BY <3>4 DEF StopAtLimit, EndOfSlice
      <4> HIDE DEF Old, New, Calm, limit
      <4>2. nDone'[w] = nDone[w] /\ at'[w] = at[w] /\ pc'[w] \in {"concat", "done"}
        BY <3>4 DEF StopAtLimit, EndOfSlice, AfterSlice, WorkersInv, HarnessTypeOK
      <4> QED  BY <2>1, <2>2, <2>3, <2>6, <3>1, <4>1, <4>2
    <3>5. CASE OpenShard(w) \/ CopyLine(w) \/ FailToCopy(w) \/ CloseShard(w) \/ Kill(w)
      <4> HIDE DEF Old, New, Calm, limit
      <4>1. /\ nDone'[w] = nDone[w] /\ at'[w] = at[w]
            /\ pc'[w] \in {"copy", "done"} => pc[w] \in {"concat", "copy"}
            /\ pc'[w] \in {"copy", "done", "failed", "killed"}
        BY <3>5 DEF OpenShard, CopyLine, FailToCopy, CloseShard, Kill, WorkersInv, HarnessTypeOK
      <4> QED  BY <2>1, <2>2, <2>3, <2>6, <3>1, <4>1
    <3>6. CASE Relaunch(w)
      <4> HIDE DEF Old, New, Calm, limit
      <4>1. nDone'[w] = 0 /\ at'[w] = 1 /\ pc'[w] = "loop"
        BY <3>6 DEF Relaunch, WorkersInv, HarnessTypeOK
      <4> QED  BY <2>1, <2>2, <2>3, <2>6, <3>1, <4>1
    <3>7. CASE nDone'[w] = nDone[w] /\ at'[w] = at[w] /\ pc'[w] = pc[w]
      <4> HIDE DEF Old, New, Calm, limit
      <4>1. pc[w] = "open" => at[w] \in Positions(w)
        BY DEF WorkersInv, WriterInSlice
      <4> QED  BY <2>1, <2>2, <2>3, <2>6, <3>1, <3>7, <4>1
    <3>8. ASSUME NEW v \in Workers, v # w, Step(v) \/ Kill(v) \/ Relaunch(v)
          PROVE  nDone'[w] = nDone[w] /\ at'[w] = at[w] /\ pc'[w] = pc[w]
      BY <3>8 DEF Step, StopAtLimit, SkipExisting, RunEpisode, OpenFile, WriteRecord,
                  EndOfSlice,
                  OpenShard, CopyLine, FailToCopy, CloseShard, Kill, Relaunch, WorkersInv,
                  HarnessTypeOK
    <3> HIDE DEF Old, New, Calm, limit
    <3> QED  BY <2>7, <3>2, <3>3, <3>4, <3>5, <3>6, <3>7, <3>8 DEF HarnessNext, Step,
                                                                   harnessVars
  <2>8. ASSUME OpenFile(w) \/ WriteRecord(w), NEW k \in Positions(w)
        PROVE  IF k = at[w] THEN New(k) ELSE New(k) <=> Old(k)
    <3>1. CASE k # at[w]
      BY <3>1, OwnFileStep DEF WorkersInv, OwnSlice
    <3>2. CASE k = at[w]
      <4>1. Path(w) = PathOf(JobOf(w, k)) /\ PathOf(JobOf(w, k)) \in Paths
        BY <3>2, PathsOfJobs DEF Path, Job
      <4>2. PICK new \in {Empty, Torn, Whole(Job(w))} : file' = [file EXCEPT ![Path(w)] = new]
        BY <2>8 DEF OpenFile, WriteRecord, Written
      <4>3. file'[PathOf(JobOf(w, k))] = new
        BY <4>1, <4>2 DEF WorkersInv, HarnessTypeOK
      <4>4. new.state # "absent"  BY DEF Empty, Torn, Whole
      <4> QED  BY <3>2, <4>3, <4>4
    <3> QED  BY <3>1, <3>2
  <2>9. CASE OpenFile(w) \/ WriteRecord(w)
    <3>1. at[w] \in Positions(w) /\ pc[w] \in {"record", "open"}
      BY <2>9 DEF OpenFile, WriteRecord, WorkersInv, WriterInSlice
    <3> HIDE DEF Old, New, Calm, limit
    <3>2. \/ nDone'[w] = nDone[w] /\ at'[w] = at[w] /\ pc'[w] = "open"
          \/ nDone'[w] = nDone[w] + 1 /\ at'[w] = at[w] + 1 /\ pc'[w] = "loop"
      BY <2>9 DEF OpenFile, WriteRecord, WorkersInv, HarnessTypeOK
    <3>3. \A k \in Positions(w) : IF k = at[w] THEN New(k) ELSE New(k) <=> Old(k)
      BY <2>8, <2>9
    <3> QED  BY <2>1, <2>2, <2>3, <2>6, <3>1, <3>2, <3>3
  <2> HIDE DEF Old, New, Calm, limit
  <2> QED  BY <2>7, <2>9
<1>3. WorkersInv /\ SliceInv => ResultsAreAPrefix
  <2> SUFFICES ASSUME WorkersInv, SliceInv, NEW w \in Workers, OwnSlice(w),
                      NEW k \in Positions(w)
               PROVE  /\ Has(w, k) => /\ k <= RunSpec[w].limit
                                      /\ \A j \in 1 .. k : Has(w, j) /\ JobOf(w, j) \notin poison
                      /\ pc[w] = "done" /\ k <= RunSpec[w].limit => Has(w, k)
    BY DEF ResultsAreAPrefix, OwnSlice, Has
  <2>1. RunSpec[w].limit \in Nat /\ Len(Slice(w)) \in Nat
    BY HarnessAssumption DEF Slice
  <2>2. pc[w] = "done" /\ k <= RunSpec[w].limit => k < at[w]
    <3>1. /\ nDone[w] + 1 = at[w] /\ nDone[w] \in Nat
          /\ pc[w] = "done" => at[w] \notin Positions(w) \/ nDone[w] >= RunSpec[w].limit
      BY DEF SliceInv, SliceInvOf, WorkersInv, HarnessTypeOK
    <3> QED  BY <2>1, <3>1 DEF Positions
  <2> QED  BY <2>2 DEF SliceInv, SliceInvOf
<1>4. Spec => []WorkersInv  BY WorkersInvariant
<1> QED  BY <1>1, <1>2, <1>3, <1>4, PTL DEF Spec

-----------------------------------------------------------------------------
BeingWritten == {Path(w) : w \in {v \in Workers : pc[v] = "open"}}

\* Files at paths of their own that cannot be read and that nobody is writing.
Damaged == {p \in OwnPaths : Exists(p) /\ ~Readable(p)} \ BeingWritten

\* A file that is open at a path of its own is still empty: no other worker has
\* written to it.
OpenIsEmpty ==
  \A w \in Workers : pc[w] = "open" /\ Path(w) \in OwnPaths => file[Path(w)].state = "empty"

DamageInv == OpenIsEmpty /\ Cardinality(Damaged) <= kills

\* There are finitely many paths.
LEMMA FinitePaths == IsFiniteSet(Paths)
<1> DEFINE P == [job \in Jobs |-> PathOf(job)]
<1>1. P \in Surjection(Jobs, Paths)
  BY DEF Surjection, Paths
<1> HIDE DEF P
<1> QED
  BY <1>1, JobsAssumption, FS_Surjection

\* A step can add to the damage only the file a killed worker had open.
LEMMA DamageGrows ==
  ASSUME WorkersInv, OpenIsEmpty, [HarnessNext]_harnessVars
  PROVE  \/ Damaged' \subseteq Damaged
         \/ \E w \in Workers : Kill(w) /\ Damaged' \subseteq Damaged \cup {Path(w)}
<1>1. OwnPaths' = OwnPaths /\ OwnPaths \subseteq Paths
  BY Zenon DEF OwnPaths, Paths, Jobs, JobOf, PathOf, Slice, Positions
<1>2. ASSUME NEW w \in Workers, pc[w] = "open", pc'[w] = "open", at'[w] = at[w]
      PROVE  Path(w)' = Path(w) /\ Path(w) \in BeingWritten'
  <2>1. Path(w)' = Path(w)
    BY <1>2 DEF Path, Job, JobOf, PathOf, Slice
  <2>2. Path(w)' \in BeingWritten'
    BY <1>2 DEF BeingWritten
  <2> QED  BY <2>1, <2>2
<1>3. ASSUME file' = file, NEW D, \A p \in BeingWritten : p \in BeingWritten' \/ p \in D
      PROVE  Damaged' \subseteq Damaged \cup D
  BY <1>1, <1>3 DEF Damaged, Exists, Readable
<1>4. ASSUME NEW v \in Workers, OpenFile(v) \/ WriteRecord(v)
      PROVE  Damaged' \subseteq Damaged
  <2>1. PICK new \in {Empty, Torn, Whole(Job(v))} : file' = [file EXCEPT ![Path(v)] = new]
    BY <1>4 DEF OpenFile, WriteRecord, Written
  <2>2. \A p \in Paths : p # Path(v) => file'[p] = file[p]
    BY <2>1 DEF WorkersInv, HarnessTypeOK
  <2>3. at[v] \in Positions(v)
    BY <1>4 DEF OpenFile, WriteRecord, WorkersInv, WriterInSlice
  <2>4. Path(v) \in Paths
    BY <2>3, PathsOfJobs DEF Path, Job
  <2>5. \A u \in Workers : u # v /\ pc[u] = "open" => Path(u) \in BeingWritten'
    <3> SUFFICES ASSUME NEW u \in Workers, u # v, pc[u] = "open" PROVE Path(u) \in BeingWritten'
      OBVIOUS
    <3>1. pc'[u] = "open" /\ at'[u] = at[u]
      BY <1>4 DEF OpenFile, WriteRecord, WorkersInv, HarnessTypeOK
    <3> QED  BY <1>2, <3>1
  <2>6. CASE OpenFile(v)
    <3>1. Path(v) \in BeingWritten'
      <4>1. pc'[v] = "open" /\ at'[v] = at[v]
        BY <2>6 DEF OpenFile, WorkersInv, HarnessTypeOK
      <4>2. Path(v)' = Path(v)
        BY <4>1 DEF Path, Job, JobOf, PathOf, Slice
      <4> QED  BY <4>1, <4>2 DEF BeingWritten
    <3>2. \A p \in BeingWritten : p \in BeingWritten'
      BY <2>5, <3>1 DEF BeingWritten
    <3> QED  BY <1>1, <2>2, <3>1, <3>2 DEF Damaged, Exists, Readable
  <2>7. CASE WriteRecord(v)
    <3>1. Path(v) \in OwnPaths => file'[Path(v)].state = "whole"
      <4> SUFFICES ASSUME Path(v) \in OwnPaths PROVE file'[Path(v)].state = "whole"
        OBVIOUS
      <4>1. file[Path(v)].state = "empty"
        BY <2>7 DEF OpenIsEmpty, WriteRecord
      <4>2. file' = [file EXCEPT ![Path(v)] = Whole(Job(v))]
        BY <2>7, <4>1 DEF WriteRecord, Written
      <4>3. file'[Path(v)] = Whole(Job(v))
        BY <2>4, <4>2 DEF WorkersInv, HarnessTypeOK
      <4> QED  BY <4>3 DEF Whole
    <3>2. \A p \in BeingWritten : p \in BeingWritten' \/ p = Path(v)
      BY <2>5 DEF BeingWritten
    <3> QED  BY <1>1, <2>2, <3>1, <3>2 DEF Damaged, Exists, Readable
  <2> QED  BY <1>4, <2>6, <2>7
<1>5. ASSUME NEW v \in Workers,
             StopAtLimit(v) \/ EndOfSlice(v) \/ SkipExisting(v) \/ RunEpisode(v)
               \/ OpenShard(v) \/ CopyLine(v) \/ FailToCopy(v) \/ CloseShard(v) \/ Relaunch(v)
      PROVE  Damaged' \subseteq Damaged
  <2>1. file' = file /\ pc[v] # "open"
    BY <1>5 DEF StopAtLimit, EndOfSlice, SkipExisting, RunEpisode, OpenShard, CopyLine,
                FailToCopy, CloseShard,
                Relaunch, WantsNext, Stopped
  <2>2. \A u \in Workers : u # v => pc'[u] = pc[u] /\ at'[u] = at[u]
    BY <1>5 DEF StopAtLimit, EndOfSlice, SkipExisting, RunEpisode, OpenShard, CopyLine,
                FailToCopy, CloseShard,
                Relaunch, WorkersInv, HarnessTypeOK
  <2>3. \A p \in BeingWritten : p \in BeingWritten'
    BY <1>2, <2>1, <2>2 DEF BeingWritten
  <2> QED  BY <1>3, <2>1, <2>3
<1>6. ASSUME NEW v \in Workers, Kill(v)
      PROVE  Damaged' \subseteq Damaged \cup {Path(v)}
  <2>1. file' = file
    BY <1>6 DEF Kill
  <2>2. \A u \in Workers : u # v => pc'[u] = pc[u] /\ at'[u] = at[u]
    BY <1>6 DEF Kill, WorkersInv, HarnessTypeOK
  <2>3. \A p \in BeingWritten : p \in BeingWritten' \/ p \in {Path(v)}
    BY <1>2, <2>2 DEF BeingWritten
  <2> QED  BY <1>3, <2>1, <2>3
<1>7. CASE UNCHANGED harnessVars
  <2>1. file' = file /\ pc' = pc /\ at' = at
    BY <1>7 DEF harnessVars
  <2>2. \A p \in BeingWritten : p \in BeingWritten'
    BY <1>2, <2>1 DEF BeingWritten
  <2> QED  BY <1>3, <2>1, <2>2
<1> QED
  BY <1>4, <1>5, <1>6, <1>7 DEF HarnessNext, Step

\* A kill is counted; nothing takes the count back.
LEMMA KillsCount ==
  ASSUME HarnessTypeOK, [HarnessNext]_harnessVars
  PROVE  /\ kills' = kills \/ kills' = kills + 1
         /\ \A w \in Workers : Kill(w) => kills' = kills + 1
BY DEF HarnessTypeOK, HarnessNext, Step, harnessVars, StopAtLimit, SkipExisting, RunEpisode,
       OpenFile, WriteRecord, EndOfSlice, OpenShard, CopyLine, FailToCopy, CloseShard, Kill,
       Relaunch

\* A file opened at a path of its own stays empty until its worker writes it.
LEMMA OpenIsEmptyStep ==
  ASSUME WorkersInv, OpenIsEmpty, [HarnessNext]_harnessVars
  PROVE  OpenIsEmpty'
<1>1. OwnPaths' = OwnPaths
  BY Zenon DEF OwnPaths, Paths, Jobs, JobOf, PathOf, Slice, Positions
<1> SUFFICES ASSUME NEW w \in Workers, pc'[w] = "open", Path(w)' \in OwnPaths
             PROVE  file'[Path(w)'].state = "empty"
  BY <1>1 DEF OpenIsEmpty
<1>2. CASE OpenFile(w)
  <2>1. at'[w] = at[w] /\ at[w] \in Positions(w)
    BY <1>2 DEF OpenFile, WorkersInv, WriterInSlice
  <2>2. Path(w)' = Path(w)
    BY <2>1 DEF Path, Job, JobOf, PathOf, Slice
  <2>3. Path(w) \in Paths
    BY <2>1, PathsOfJobs DEF Path, Job
  <2>4. file'[Path(w)] = Empty
    BY <1>2, <2>3 DEF OpenFile, WorkersInv, HarnessTypeOK
  <2> QED  BY <2>2, <2>4 DEF Empty
<1>3. CASE RunEpisode(w)
  BY <1>3 DEF RunEpisode, WorkersInv, HarnessTypeOK
<1>4. CASE pc'[w] = pc[w] /\ at'[w] = at[w] /\ ~OpenFile(w)
  <2>1. at[w] \in Positions(w)
    BY <1>4 DEF WorkersInv, WriterInSlice
  <2>2. Path(w)' = PathOf(JobOf(w, at[w])) /\ Path(w) = PathOf(JobOf(w, at[w]))
    BY <1>4 DEF Path, Job, JobOf, PathOf, Slice
  <2>3. ~WriteRecord(w)
    BY <1>4 DEF WriteRecord, WorkersInv, HarnessTypeOK
  <2>4. file'[PathOf(JobOf(w, at[w]))] = file[PathOf(JobOf(w, at[w]))]
    BY <1>4, <2>1, <2>2, <2>3, OwnFileStep DEF WorkersInv
  <2> QED  BY <1>4, <2>2, <2>4 DEF OpenIsEmpty
<1> QED
  BY <1>2, <1>3, <1>4, WorkerMoves DEF WorkersInv

LEMMA DamageInvariant == Spec => []DamageInv
<1>1. Init => DamageInv
  <2> SUFFICES ASSUME HarnessInit PROVE DamageInv
    BY DEF Init
  <2>1. OpenIsEmpty
    BY DEF HarnessInit, OpenIsEmpty
  <2>2. OwnPaths \subseteq Paths
    BY DEF OwnPaths
  <2>3. Damaged = {}
    BY <2>2 DEF HarnessInit, Damaged, Exists, Absent
  <2>4. Cardinality(Damaged) = 0 /\ kills = 0
    BY <2>3, FS_EmptySet DEF HarnessInit
  <2> QED  BY <2>1, <2>4 DEF DamageInv
<1>2. WorkersInv /\ DamageInv /\ [Next]_vars => DamageInv'
  <2> SUFFICES ASSUME WorkersInv, DamageInv, [HarnessNext]_harnessVars PROVE DamageInv'
    BY WorkersOrAnalysis
  <2>1. OpenIsEmpty'
    BY OpenIsEmptyStep DEF DamageInv
  <2>2. Damaged \subseteq Paths /\ IsFiniteSet(Damaged)
    <3>1. Damaged \subseteq Paths
      BY DEF Damaged, OwnPaths
    <3> QED  BY <3>1, FinitePaths, FS_Subset
  <2>3. Cardinality(Damaged) \in Nat /\ kills \in Nat /\ Cardinality(Damaged) <= kills
    BY <2>2, FS_CardinalityType DEF WorkersInv, HarnessTypeOK, DamageInv
  <2>4. kills' \in Nat /\ kills <= kills'
    BY <2>3, KillsCount DEF WorkersInv
  <2>5. CASE Damaged' \subseteq Damaged
    <3>1. IsFiniteSet(Damaged') /\ Cardinality(Damaged') <= Cardinality(Damaged)
      BY <2>2, <2>5, FS_Subset
    <3>2. Cardinality(Damaged') \in Nat
      BY <3>1, FS_CardinalityType
    <3>3. Cardinality(Damaged') <= kills'
      BY <2>3, <2>4, <3>1, <3>2
    <3> QED  BY <2>1, <3>3 DEF DamageInv
  <2>6. ASSUME NEW w \in Workers, Kill(w), Damaged' \subseteq Damaged \cup {Path(w)}
        PROVE  DamageInv'
    <3> DEFINE More == Damaged \cup {Path(w)}
    <3>1. IsFiniteSet(More) /\ Cardinality(More) <= Cardinality(Damaged) + 1
          /\ Cardinality(More) \in Nat
      BY <2>2, <2>3, FS_AddElement
    <3>2. Damaged' \subseteq More
      BY <2>6
    <3> HIDE DEF More
    <3>3. IsFiniteSet(Damaged') /\ Cardinality(Damaged') <= Cardinality(More)
      BY <3>1, <3>2, FS_Subset
    <3>4. Cardinality(Damaged') \in Nat
      BY <3>3, FS_CardinalityType
    <3>5. kills' = kills + 1
      BY <2>6, KillsCount DEF WorkersInv
    <3>6. Cardinality(Damaged') <= kills'
      BY <2>3, <3>1, <3>3, <3>4, <3>5
    <3> QED  BY <2>1, <3>6 DEF DamageInv
  <2> QED  BY <2>5, <2>6, DamageGrows DEF DamageInv
<1>3. Spec => []WorkersInv  BY WorkersInvariant
<1> QED  BY <1>1, <1>2, <1>3, PTL DEF Spec

\* The damage a kill can do (write_text: open, then write): a worker killed while it
\* has a file open leaves that one unreadable, and nothing else ever makes a file
\* at a path of its own unreadable.
THEOREM DamageIsBoundedByKills == Spec => []DamageWithinKills
<1>1. DamageInv => DamageWithinKills
  BY DEF DamageInv, DamageWithinKills, Damaged, BeingWritten
<1> QED  BY <1>1, DamageInvariant, PTL

\* What eval/harness.py:11-12 says of skip_existing is true of a batch that never
\* kills a worker: what a worker finds at a path of its own is then a record that
\* can be read.  An episode that raises, or a relaunch, does no harm.
THEOREM WithoutKillsSkippedIsRecorded == Spec => [](kills = 0 => SkippedIsRecorded)
<1>1. WorkersInv /\ DamageInv => (kills = 0 => SkippedIsRecorded)
  <2> SUFFICES ASSUME WorkersInv, DamageInv, kills = 0,
                      NEW w \in Workers, WantsNext(w), Skips(w), Path(w) \in OwnPaths,
                      ~Readable(Path(w))
               PROVE  FALSE
    BY DEF SkippedIsRecorded
  <2>1. Damaged = {}
    <3>1. Damaged \subseteq Paths
      BY DEF Damaged, OwnPaths
    <3>2. IsFiniteSet(Damaged) /\ Cardinality(Damaged) \in Nat
      BY <3>1, FinitePaths, FS_Subset, FS_CardinalityType
    <3>3. Cardinality(Damaged) = 0
      BY <3>2 DEF DamageInv
    <3> QED  BY <3>2, <3>3, FS_EmptySet
  <2>2. PICK v \in Workers : pc[v] = "open" /\ Path(v) = Path(w)
    BY <2>1 DEF Damaged, BeingWritten, Skips
  <2>3. at[v] \in Positions(v)
    BY <2>2 DEF WorkersInv, WriterInSlice
  <2>4. /\ pc[w] = "loop" /\ at[w] \in Positions(w)
        /\ Path(w) = PathOf(JobOf(w, at[w]))
    BY DEF WantsNext, Path, Job
  <2>5. v = w
    BY <2>2, <2>3, <2>4, OwnPathsAreApart
  <2> QED  BY <2>2, <2>4, <2>5
<1> QED  BY <1>1, WorkersInvariant, DamageInvariant, PTL

-----------------------------------------------------------------------------
\* A worker has passed the positions before it, each of which has a file, and
\* leaves its slice at the end or at the limit.
PassedOf(w) ==
  /\ nDone[w] + 1 = at[w]
  /\ \A k \in Positions(w) : k < at[w] => Has(w, k)
  /\ pc[w] = "open" => Has(w, at[w])
  /\ pc[w] \in {"concat", "copy"} => at[w] \notin Positions(w) \/ nDone[w] >= RunSpec[w].limit

Passed == \A w \in Workers : PassedOf(w)

\* No file is ever removed.
LEMMA FilesStay ==
  ASSUME HarnessTypeOK, [HarnessNext]_harnessVars, NEW p \in Paths, Exists(p)
  PROVE  Exists(p)'
<1>1. CASE file' = file
  BY <1>1 DEF Exists
<1>2. ASSUME NEW v \in Workers, OpenFile(v) \/ WriteRecord(v)
      PROVE  Exists(p)'
  <2>1. PICK new \in {Empty, Torn, Whole(Job(v))} : file' = [file EXCEPT ![Path(v)] = new]
    BY <1>2 DEF OpenFile, WriteRecord, Written
  <2>2. new.state # "absent"
    BY DEF Empty, Torn, Whole
  <2> QED  BY <2>1, <2>2 DEF HarnessTypeOK, Exists
<1> QED
  BY <1>1, <1>2 DEF HarnessNext, Step, harnessVars, StopAtLimit, SkipExisting, RunEpisode,
                    EndOfSlice, OpenShard, CopyLine, FailToCopy, CloseShard, Kill, Relaunch

\* Its own steps keep a worker's count of what it passed.
LEMMA PassedStep ==
  ASSUME WorkersInv, Passed, [HarnessNext]_harnessVars
  PROVE  Passed'
<1> SUFFICES ASSUME NEW w \in Workers, PassedOf(w) PROVE PassedOf(w)'
  BY DEF Passed
<1> DEFINE limit == RunSpec[w].limit
           Old(k) == file[PathOf(JobOf(w, k))].state # "absent"
           New(k) == file'[PathOf(JobOf(w, k))].state # "absent"
<1>1. /\ limit \in Nat /\ \A k \in Positions(w) : k \in Nat
      /\ at[w] \in Nat \ {0} /\ nDone[w] \in Nat
  BY HarnessAssumption DEF Positions, Slice, WorkersInv, HarnessTypeOK
<1>2. \A k \in Positions(w) : Old(k) => New(k)
  <2> SUFFICES ASSUME NEW k \in Positions(w), Old(k) PROVE New(k)
    OBVIOUS
  <2>1. PathOf(JobOf(w, k)) \in Paths
    BY PathsOfJobs
  <2> QED  BY <2>1, FilesStay DEF WorkersInv, Exists
<1>3. /\ nDone[w] + 1 = at[w]
      /\ \A k \in Positions(w) : k < at[w] => Old(k)
      /\ pc[w] = "open" => Old(at[w])
      /\ pc[w] \in {"concat", "copy"} => at[w] \notin Positions(w) \/ nDone[w] >= limit
  BY DEF PassedOf, Has, Exists
<1>4. pc[w] \in {"record", "open"} => at[w] \in Positions(w)
  BY DEF WorkersInv, WriterInSlice
<1> SUFFICES /\ nDone'[w] + 1 = at'[w]
             /\ \A k \in Positions(w) : k < at'[w] => New(k)
             /\ pc'[w] = "open" => New(at'[w])
             /\ pc'[w] \in {"concat", "copy"} =>
                  at'[w] \notin Positions(w) \/ nDone'[w] >= limit
  BY DEF PassedOf, Has, Exists, JobOf, PathOf, Slice, Positions
<1>5. CASE SkipExisting(w)
  <2>1. at[w] \in Positions(w) /\ Old(at[w])
    BY <1>5 DEF SkipExisting, WantsNext, Skips, Exists, Path, Job
  <2> HIDE DEF Old, New, limit
  <2>2. nDone'[w] = nDone[w] + 1 /\ at'[w] = at[w] + 1 /\ pc'[w] = "loop"
    BY <1>5 DEF SkipExisting, WantsNext, WorkersInv, HarnessTypeOK
  <2> QED  BY <1>1, <1>2, <1>3, <2>1, <2>2
<1>6. CASE RunEpisode(w)
  <2> HIDE DEF Old, New, limit
  <2>1. nDone'[w] = nDone[w] /\ at'[w] = at[w] /\ pc'[w] \in {"failed", "record"}
    BY <1>6 DEF RunEpisode, WorkersInv, HarnessTypeOK
  <2> QED  BY <1>1, <1>2, <1>3, <2>1
<1>7. CASE StopAtLimit(w) \/ EndOfSlice(w)
  <2>1. at[w] \notin Positions(w) \/ nDone[w] >= limit
    BY <1>7 DEF StopAtLimit, EndOfSlice
  <2> HIDE DEF Old, New, limit
  <2>2. nDone'[w] = nDone[w] /\ at'[w] = at[w] /\ pc'[w] \in {"concat", "done"}
    BY <1>7 DEF StopAtLimit, EndOfSlice, AfterSlice, WorkersInv, HarnessTypeOK
  <2> QED  BY <1>1, <1>2, <1>3, <2>1, <2>2
<1>8. CASE OpenShard(w) \/ CopyLine(w) \/ FailToCopy(w) \/ CloseShard(w) \/ Kill(w)
  <2> HIDE DEF Old, New, limit
  <2>1. /\ nDone'[w] = nDone[w] /\ at'[w] = at[w]
        /\ pc'[w] = "copy" => pc[w] \in {"concat", "copy"}
        /\ pc'[w] \in {"copy", "done", "failed", "killed"}
    BY <1>8 DEF OpenShard, CopyLine, FailToCopy, CloseShard, Kill, WorkersInv, HarnessTypeOK
  <2> QED  BY <1>1, <1>2, <1>3, <2>1
<1>9. CASE Relaunch(w)
  <2> HIDE DEF Old, New, limit
  <2>1. nDone'[w] = 0 /\ at'[w] = 1 /\ pc'[w] = "loop"
    BY <1>9 DEF Relaunch, WorkersInv, HarnessTypeOK
  <2>2. \A k \in Positions(w) : ~(k < 1)
    BY DEF Positions
  <2> QED  BY <2>1, <2>2
<1>10. CASE OpenFile(w) \/ WriteRecord(w)
  <2>1. at[w] \in Positions(w)
    BY <1>4, <1>10 DEF OpenFile, WriteRecord
  <2>2. New(at[w])
    <3>1. Path(w) = PathOf(JobOf(w, at[w])) /\ PathOf(JobOf(w, at[w])) \in Paths
      BY <2>1, PathsOfJobs DEF Path, Job
    <3>2. PICK new \in {Empty, Torn, Whole(Job(w))} : file' = [file EXCEPT ![Path(w)] = new]
      BY <1>10 DEF OpenFile, WriteRecord, Written
    <3>3. file'[PathOf(JobOf(w, at[w]))] = new
      BY <3>1, <3>2 DEF WorkersInv, HarnessTypeOK
    <3> QED  BY <3>3 DEF Empty, Torn, Whole
  <2> HIDE DEF Old, New, limit
  <2>3. \/ nDone'[w] = nDone[w] /\ at'[w] = at[w] /\ pc'[w] = "open"
        \/ nDone'[w] = nDone[w] + 1 /\ at'[w] = at[w] + 1 /\ pc'[w] = "loop"
    BY <1>10 DEF OpenFile, WriteRecord, WorkersInv, HarnessTypeOK
  <2> QED  BY <1>1, <1>2, <1>3, <2>1, <2>2, <2>3
<1>11. CASE nDone'[w] = nDone[w] /\ at'[w] = at[w] /\ pc'[w] = pc[w]
  <2> HIDE DEF Old, New, limit
  <2> QED  BY <1>1, <1>2, <1>3, <1>4, <1>11
<1>12. ASSUME NEW v \in Workers, v # w, Step(v) \/ Kill(v) \/ Relaunch(v)
       PROVE  nDone'[w] = nDone[w] /\ at'[w] = at[w] /\ pc'[w] = pc[w]
  BY <1>12 DEF Step, StopAtLimit, SkipExisting, RunEpisode, OpenFile, WriteRecord, EndOfSlice,
               OpenShard, CopyLine, FailToCopy, CloseShard, Kill, Relaunch, WorkersInv,
               HarnessTypeOK
<1> HIDE DEF Old, New, limit
<1> QED
  BY <1>5, <1>6, <1>7, <1>8, <1>9, <1>10, <1>11, <1>12 DEF HarnessNext, Step, harnessVars

\* What generate asks of run: a slice of one environment, not cut by a limit.
ShardsAreOfOneCell ==
  \A w \in Workers : RunSpec[w].shard =>
    /\ Len(Slice(w)) <= RunSpec[w].limit
    /\ \A k \in Positions(w) : Slice(w)[k].env = Slice(w)[1].env

\* What the directory of a model config rests on: no other config of the joblist
\* has its tag.
TagsTellConfigsApart ==
  \A job \in Jobs, w \in Workers : Tag[job.config] = Tag[RunSpec[w].config] => job.config = RunSpec[w].config

\* Only a worker that makes a shard concatenates, has it open and has sources left.
OnlySharders ==
  \A w \in Workers : pc[w] \in {"concat", "copy"} =>
    RunSpec[w].shard /\ (pc[w] = "copy" => w \in shard[ShardPath(w)].by)

\* A record, and a path, of the worker's cell and teacher.
JobOfCell(job, w) ==
  /\ job.config = RunSpec[w].config
  /\ job.fault = RunSpec[w].fault
  /\ job.method = RunSpec[w].method
  /\ job.episode.env = Slice(w)[1].env

PathOfCell(p, w) ==
  /\ p.tag = Tag[RunSpec[w].config]
  /\ p.fault = RunSpec[w].fault
  /\ p.method = RunSpec[w].method
  /\ p.episode.env = Slice(w)[1].env

\* What a worker has open, while it is alone with it, has a line for each of its
\* resumable positions whose file is not among the sources left to copy.
CopiedOf(w) ==
  pc[w] = "copy" =>
    /\ todo[w] \subseteq {p \in Paths : PathOfCell(p, w)}
    /\ shard[ShardPath(w)].by = {w} =>
         /\ \A k \in Resumable[w] :
              JobOf(w, k) \in shard[ShardPath(w)].lines \/ PathOf(JobOf(w, k)) \in todo[w]
         /\ \A job \in shard[ShardPath(w)].lines : JobOfCell(job, w)

Copied == \A w \in Workers : CopiedOf(w)

HoldsCell(w) ==
  RunSpec[w].shard /\ pc[w] = "done" /\ shard[ShardPath(w)].by = {w} =>
    /\ \A k \in Resumable[w] : JobOf(w, k) \in shard[ShardPath(w)].lines
    /\ \A job \in shard[ShardPath(w)].lines : JobOfCell(job, w)

Sharding == OnlySharders /\ Copied /\ \A w \in Workers : HoldsCell(w)

\* The sources listed have a file for each position that can be resumed.
LEMMA SourcesAreComplete ==
  ASSUME ShardsAreOfOneCell, WorkersInv, Passed, OnlySharders,
         NEW w \in Workers, pc[w] = "concat", NEW k \in Resumable[w]
  PROVE  PathOf(JobOf(w, k)) \in Sources(w)
<1> DEFINE p == PathOf(JobOf(w, k))
<1>1. k \in Positions(w) /\ p \in Paths
  BY PathsOfJobs DEF Resumable
<1>2. Exists(p)
  <2>1. at[w] \notin Positions(w) \/ nDone[w] >= RunSpec[w].limit
    BY DEF Passed, PassedOf
  <2>2. nDone[w] + 1 = at[w] /\ nDone[w] \in Nat /\ Len(Slice(w)) \in Nat /\ RunSpec[w].limit \in Nat
    BY HarnessAssumption DEF Passed, PassedOf, WorkersInv, HarnessTypeOK, Slice
  <2>3. Len(Slice(w)) <= RunSpec[w].limit
    BY DEF ShardsAreOfOneCell, OnlySharders
  <2>4. k < at[w]
    BY <1>1, <2>1, <2>2, <2>3 DEF Positions
  <2> QED  BY <1>1, <2>4 DEF Passed, PassedOf, Has
<1>3. Slice(w)[k].env = Slice(w)[1].env
  BY <1>1 DEF ShardsAreOfOneCell, OnlySharders
<1> QED  BY <1>1, <1>2, <1>3 DEF Sources, PathOf, JobOf

\* What can be read at a path of the cell is a record of the cell, and at the path of
\* a resumable position that position's own.
LEMMA SourceIsOfCell ==
  ASSUME TagsTellConfigsApart, RecordAtItsPath,
         NEW w \in Workers, NEW p \in Paths, PathOfCell(p, w), Readable(p)
  PROVE  /\ \A job \in file[p].of : JobOfCell(job, w)
         /\ \A k \in Resumable[w] : PathOf(JobOf(w, k)) = p => JobOf(w, k) \in file[p].of
<1>1. PICK job \in Jobs : file[p].of = {job} /\ PathOf(job) = p
  BY Zenon DEF RecordAtItsPath
<1>2. JobOfCell(job, w)
  <2>1. /\ Tag[job.config] = Tag[RunSpec[w].config] /\ job.fault = RunSpec[w].fault
        /\ job.method = RunSpec[w].method /\ job.episode.env = Slice(w)[1].env
    BY <1>1 DEF PathOf, PathOfCell
  <2> QED  BY <2>1 DEF TagsTellConfigsApart, JobOfCell
<1>3. ASSUME NEW k \in Resumable[w], PathOf(JobOf(w, k)) = p
      PROVE  JobOf(w, k) = job
  <2>1. k \in Positions(w) /\ p \in OwnPaths
    BY <1>3 DEF Resumable
  <2>2. PICK v \in Workers : \E i \in Positions(v) : job = JobOf(v, i)
    BY <1>1, Zenon DEF Jobs
  <2>3. PICK i \in Positions(v) : job = JobOf(v, i)
    BY <2>2
  <2> QED  BY <1>1, <1>3, <2>1, <2>3, Zenon DEF OwnPaths
<1> QED  BY <1>1, <1>2, <1>3

\* Another worker's step: either it leaves this one's shard as it is, or this one is
\* not the only one to have had it open.
LEMMA OthersAndTheShard ==
  ASSUME WorkersInv, OnlySharders, NEW w \in Workers, RunSpec[w].shard,
         NEW v \in Workers, v # w, Step(v) \/ Kill(v) \/ Relaunch(v)
  PROVE  /\ pc'[w] = pc[w] /\ todo'[w] = todo[w]
         /\ \/ shard'[ShardPath(w)] = shard[ShardPath(w)]
            \/ shard'[ShardPath(w)].by # {w}
         /\ pc[w] = "copy" => w \in shard'[ShardPath(w)].by
<1> DEFINE s == ShardPath(w)
<1>1. s \in ShardPaths
  BY DEF ShardPaths
<1>2. pc'[w] = pc[w] /\ todo'[w] = todo[w]
  BY DEF Step, StopAtLimit, SkipExisting, RunEpisode, OpenFile, WriteRecord, EndOfSlice,
         OpenShard, CopyLine, FailToCopy, CloseShard, Kill, Relaunch, WorkersInv, HarnessTypeOK
<1>3. pc[w] = "copy" => w \in shard[s].by
  BY DEF OnlySharders
<1>4. CASE OpenShard(v)
  <2>1. CASE ShardPath(v) = s
    <3>1. shard'[s].by = {v} \cup CopyingTo(s)
      BY <1>1, <1>4, <2>1 DEF OpenShard, WorkersInv, HarnessTypeOK
    <3>2. pc[w] = "copy" => w \in CopyingTo(s)
      BY DEF CopyingTo
    <3> QED  BY <1>2, <3>1, <3>2
  <2>2. CASE ShardPath(v) # s
    <3>1. shard'[s] = shard[s]
      BY <1>1, <1>4, <2>2 DEF OpenShard, WorkersInv, HarnessTypeOK
    <3> QED  BY <1>2, <1>3, <3>1
  <2> QED  BY <2>1, <2>2
<1>5. CASE CopyLine(v)
  <2>1. PICK p : shard' = [shard EXCEPT ![ShardPath(v)] = WithLines(@, v, file[p].of)]
    BY <1>5 DEF CopyLine
  <2>2. shard'[s] = IF ShardPath(v) = s THEN WithLines(shard[s], v, file[p].of) ELSE shard[s]
    BY <1>1, <2>1 DEF WorkersInv, HarnessTypeOK
  <2>3. shard[s] \in ShardType
    BY <1>1 DEF WorkersInv, HarnessTypeOK
  <2>4. \/ shard'[s] = shard[s]
        \/ shard[s].by = {v} /\ shard'[s].by = {v}
    BY <2>2, <2>3 DEF WithLines, ShardType
  <2> QED  BY <1>2, <1>3, <2>4
<1>6. CASE Kill(v)
  <2>1. CASE pc[v] = "copy" /\ ShardPath(v) = s
    <3>1. PICK kept : shard' = [shard EXCEPT ![s] = [@ EXCEPT !.lines = kept]]
      BY <1>6, <2>1 DEF Kill, LoseBuffer
    <3>2. shard'[s].by = shard[s].by
      BY <1>1, <3>1 DEF WorkersInv, HarnessTypeOK, ShardType
    <3>3. v \in shard[s].by
      BY <2>1 DEF OnlySharders
    <3> QED  BY <1>2, <1>3, <3>2, <3>3
  <2>2. CASE ~(pc[v] = "copy" /\ ShardPath(v) = s)
    <3>1. shard'[s] = shard[s]
      BY <1>1, <1>6, <2>2 DEF Kill, LoseBuffer, WorkersInv, HarnessTypeOK
    <3> QED  BY <1>2, <1>3, <3>1
  <2> QED  BY <2>1, <2>2
<1>7. CASE UNCHANGED shard
  BY <1>2, <1>3, <1>7
<1> QED
  BY <1>4, <1>5, <1>6, <1>7 DEF Step, StopAtLimit, SkipExisting, RunEpisode, OpenFile,
     WriteRecord, EndOfSlice, FailToCopy, CloseShard, Relaunch

\* A worker's own step at its shard.
LEMMA OwnShardStep ==
  ASSUME ShardsAreOfOneCell, TagsTellConfigsApart, WorkersInv, RecordAtItsPath, Passed, Sharding,
         NEW w \in Workers, RunSpec[w].shard, Step(w) \/ Kill(w) \/ Relaunch(w)
  PROVE  /\ pc'[w] = "copy" => w \in shard'[ShardPath(w)].by
         /\ pc'[w] = "copy" => todo'[w] \subseteq {p \in Paths : PathOfCell(p, w)}
         /\ pc'[w] \in {"copy", "done"} /\ shard'[ShardPath(w)].by = {w} =>
              /\ \A k \in Resumable[w] :
                   \/ JobOf(w, k) \in shard'[ShardPath(w)].lines
                   \/ pc'[w] = "copy" /\ PathOf(JobOf(w, k)) \in todo'[w]
              /\ \A job \in shard'[ShardPath(w)].lines : JobOfCell(job, w)
<1> USE DEF Sharding
<1> DEFINE s == ShardPath(w)
<1>1. s \in ShardPaths
  BY DEF ShardPaths
<1>2. CASE OpenShard(w)
  <2>1. /\ shard'[s].by = {w} \cup CopyingTo(s) /\ shard'[s].lines = {}
        /\ todo'[w] = Sources(w) /\ pc'[w] = "copy" /\ pc[w] = "concat"
    BY <1>1, <1>2 DEF OpenShard, WorkersInv, HarnessTypeOK
  <2>2. Sources(w) \subseteq {p \in Paths : PathOfCell(p, w)}
    BY DEF Sources, PathOfCell
  <2> QED  BY <2>1, <2>2, SourcesAreComplete
<1>3. CASE CopyLine(w)
  <2>1. PICK p \in todo[w] :
          /\ Readable(p)
          /\ todo' = [todo EXCEPT ![w] = @ \ {p}]
          /\ shard' = [shard EXCEPT ![s] = WithLines(@, w, file[p].of)]
    BY <1>3 DEF CopyLine
  <2>2. shard[s] \in ShardType /\ shard'[s] = WithLines(shard[s], w, file[p].of)
    BY <1>1, <2>1 DEF WorkersInv, HarnessTypeOK
  <2>3. /\ pc[w] = "copy" /\ pc'[w] = "copy" /\ todo'[w] = todo[w] \ {p}
    BY <1>3, <2>1 DEF CopyLine, WorkersInv, HarnessTypeOK
  <2>4. /\ w \in shard[s].by /\ p \in Paths /\ PathOfCell(p, w)
        /\ todo[w] \subseteq {q \in Paths : PathOfCell(q, w)}
    BY <2>1, <2>3 DEF OnlySharders, Copied, CopiedOf
  <2>5. shard'[s].by = shard[s].by
    BY <2>2 DEF WithLines, ShardType
  <2>6. ASSUME shard[s].by = {w}
        PROVE  shard'[s].lines = shard[s].lines \cup file[p].of
    BY <2>2, <2>6 DEF WithLines, ShardType
  <2>7. /\ \A job \in file[p].of : JobOfCell(job, w)
        /\ \A k \in Resumable[w] : PathOf(JobOf(w, k)) = p => JobOf(w, k) \in file[p].of
    BY <2>1, <2>4, SourceIsOfCell
  <2>8. shard[s].by = {w} =>
          /\ \A k \in Resumable[w] : JobOf(w, k) \in shard[s].lines \/ PathOf(JobOf(w, k)) \in todo[w]
          /\ \A job \in shard[s].lines : JobOfCell(job, w)
    BY <2>3 DEF Copied, CopiedOf
  <2> QED  BY <2>3, <2>4, <2>5, <2>6, <2>7, <2>8
<1>4. CASE CloseShard(w)
  <2>1. /\ pc[w] = "copy" /\ pc'[w] = "done" /\ todo[w] = {} /\ shard'[s] = shard[s]
    BY <1>4 DEF CloseShard, WorkersInv, HarnessTypeOK
  <2> QED  BY <2>1 DEF Copied, CopiedOf
<1>5. CASE ~OpenShard(w) /\ ~CopyLine(w) /\ ~CloseShard(w)
  <2>1. pc'[w] \notin {"copy", "done"}
    BY <1>5 DEF Step, StopAtLimit, SkipExisting, RunEpisode, OpenFile, WriteRecord, EndOfSlice,
           AfterSlice, WantsNext, FailToCopy, Kill, Relaunch, WorkersInv, HarnessTypeOK
  <2> QED  BY <2>1
<1> QED  BY <1>2, <1>3, <1>4, <1>5

\* A worker gets to its shard by the steps of its own that only a generating one takes.
LEMMA OnlyShardersStep ==
  ASSUME WorkersInv, Sharding, [HarnessNext]_harnessVars, NEW w \in Workers,
         pc'[w] \in {"concat", "copy"}
  PROVE  RunSpec[w].shard
<1>1. CASE pc'[w] = pc[w]
  BY <1>1 DEF Sharding, OnlySharders
<1>2. CASE OpenShard(w)
  BY <1>2 DEF Sharding, OnlySharders, OpenShard
<1>3. CASE StopAtLimit(w) \/ EndOfSlice(w)
  <2>1. pc'[w] = AfterSlice(w)
    BY <1>3 DEF StopAtLimit, EndOfSlice, WorkersInv, HarnessTypeOK
  <2> QED  BY <2>1 DEF AfterSlice
<1>4. ASSUME pc'[w] # pc[w]
      PROVE  OpenShard(w) \/ StopAtLimit(w) \/ EndOfSlice(w)
  BY <1>4 DEF HarnessNext, Step, harnessVars, StopAtLimit, SkipExisting, RunEpisode, OpenFile,
              WriteRecord, EndOfSlice, OpenShard, CopyLine, FailToCopy, CloseShard, Kill,
              Relaunch, WorkersInv, HarnessTypeOK
<1> QED  BY <1>1, <1>2, <1>3, <1>4

\* What generate's shards hold, however many teachers of a cell share one file, and
\* whatever was killed or found unreadable on the way: where every generating worker
\* runs one cell and the tags tell the teachers apart, a worker that has reported
\* success and had the file to itself has left a line for each position that can be
\* resumed, and none of another cell or teacher.
THEOREM ShardsAreOfTheirCell ==
  ASSUME ShardsAreOfOneCell, TagsTellConfigsApart
  PROVE  Spec => []ShardsHoldTheirCell
<1>1. Init => Passed /\ Sharding
  <2> SUFFICES ASSUME HarnessInit PROVE Passed /\ Sharding
    BY DEF Init
  <2>1. \A w \in Workers : \A k \in Positions(w) : ~(k < 1)
    BY DEF Positions
  <2>2. \A w \in Workers : pc[w] = "loop"
    BY DEF HarnessInit
  <2>3. Passed
    BY <2>1 DEF HarnessInit, Passed, PassedOf
  <2> QED  BY <2>2, <2>3 DEF Sharding, OnlySharders, Copied, CopiedOf, HoldsCell
<1>2. WorkersInv /\ RecordAtItsPath /\ Passed /\ Sharding /\ [Next]_vars => Passed' /\ Sharding'
  <2> SUFFICES ASSUME WorkersInv, RecordAtItsPath, Passed, Sharding, [HarnessNext]_harnessVars
               PROVE  Passed' /\ Sharding'
    BY WorkersOrAnalysis
  <2>1. Passed'
    BY PassedStep
  <2>2. \A w \in Workers : pc'[w] \in {"concat", "copy"} => RunSpec[w].shard
    BY OnlyShardersStep
  <2>3. ASSUME NEW w \in Workers, RunSpec[w].shard
        PROVE  /\ pc'[w] = "copy" => w \in shard'[ShardPath(w)].by
               /\ pc'[w] = "copy" => todo'[w] \subseteq {p \in Paths : PathOfCell(p, w)}
               /\ pc'[w] \in {"copy", "done"} /\ shard'[ShardPath(w)].by = {w} =>
                    /\ \A k \in Resumable[w] :
                         \/ JobOf(w, k) \in shard'[ShardPath(w)].lines
                         \/ pc'[w] = "copy" /\ PathOf(JobOf(w, k)) \in todo'[w]
                    /\ \A job \in shard'[ShardPath(w)].lines : JobOfCell(job, w)
    <3>1. CASE Step(w) \/ Kill(w) \/ Relaunch(w)
      BY <2>3, <3>1, OwnShardStep
    <3>2. /\ pc[w] = "copy" => w \in shard[ShardPath(w)].by
          /\ pc[w] = "copy" => todo[w] \subseteq {p \in Paths : PathOfCell(p, w)}
          /\ pc[w] \in {"copy", "done"} /\ shard[ShardPath(w)].by = {w} =>
               /\ \A k \in Resumable[w] :
                    \/ JobOf(w, k) \in shard[ShardPath(w)].lines
                    \/ pc[w] = "copy" /\ PathOf(JobOf(w, k)) \in todo[w]
               /\ \A job \in shard[ShardPath(w)].lines : JobOfCell(job, w)
      BY <2>3 DEF Sharding, OnlySharders, Copied, CopiedOf, HoldsCell
    <3>3. ASSUME NEW v \in Workers, v # w, Step(v) \/ Kill(v) \/ Relaunch(v)
          PROVE  /\ pc'[w] = pc[w] /\ todo'[w] = todo[w]
                 /\ \/ shard'[ShardPath(w)] = shard[ShardPath(w)]
                    \/ shard'[ShardPath(w)].by # {w}
                 /\ pc[w] = "copy" => w \in shard'[ShardPath(w)].by
      BY <2>3, <3>3, OthersAndTheShard DEF Sharding
    <3>4. CASE UNCHANGED harnessVars
      <4>1. pc' = pc /\ todo' = todo /\ shard' = shard
        BY <3>4 DEF harnessVars
      <4> QED  BY <3>2, <4>1
    <3>5. ASSUME NEW v \in Workers, v # w, Step(v) \/ Kill(v) \/ Relaunch(v)
          PROVE  /\ pc'[w] = "copy" => w \in shard'[ShardPath(w)].by
                 /\ pc'[w] = "copy" => todo'[w] \subseteq {p \in Paths : PathOfCell(p, w)}
                 /\ pc'[w] \in {"copy", "done"} /\ shard'[ShardPath(w)].by = {w} =>
                      /\ \A k \in Resumable[w] :
                           \/ JobOf(w, k) \in shard'[ShardPath(w)].lines
                           \/ pc'[w] = "copy" /\ PathOf(JobOf(w, k)) \in todo'[w]
                      /\ \A job \in shard'[ShardPath(w)].lines : JobOfCell(job, w)
      BY <3>2, <3>3, <3>5
    <3> QED  BY <3>1, <3>4, <3>5 DEF HarnessNext
  <2>4. OnlySharders'
    BY <2>2, <2>3, Zenon DEF OnlySharders, ShardPath, Slice
  <2>5. Copied'
    <3> SUFFICES ASSUME NEW w \in Workers, pc'[w] = "copy"
                 PROVE  /\ todo'[w] \subseteq {p \in Paths : PathOfCell(p, w)}
                        /\ shard'[ShardPath(w)].by = {w} =>
                             /\ \A k \in Resumable[w] :
                                  \/ JobOf(w, k) \in shard'[ShardPath(w)].lines
                                  \/ PathOf(JobOf(w, k)) \in todo'[w]
                             /\ \A job \in shard'[ShardPath(w)].lines : JobOfCell(job, w)
      BY Zenon DEF Copied, CopiedOf, Resumable, OwnPaths, Paths, Jobs, JobOf, PathOf, Slice,
         Positions, ShardPath, JobOfCell, PathOfCell
    <3>1. RunSpec[w].shard
      BY <2>2
    <3> QED  BY <2>3, <3>1
  <2>6. ASSUME NEW w \in Workers PROVE HoldsCell(w)'
    <3> SUFFICES ASSUME RunSpec[w].shard, pc'[w] = "done", shard'[ShardPath(w)].by = {w}
                 PROVE  /\ \A k \in Resumable[w] : JobOf(w, k) \in shard'[ShardPath(w)].lines
                        /\ \A job \in shard'[ShardPath(w)].lines : JobOfCell(job, w)
      BY Zenon DEF HoldsCell, Resumable, OwnPaths, Paths, Jobs, JobOf, PathOf, Slice,
         Positions, ShardPath, JobOfCell
    <3> QED  BY <2>3
  <2> QED  BY <2>1, <2>4, <2>5, <2>6 DEF Sharding
<1>3. Sharding => ShardsHoldTheirCell
  BY DEF Sharding, HoldsCell, ShardsHoldTheirCell, JobOfCell
<1> QED
  BY <1>1, <1>2, <1>3, WorkersInvariant, RecordsAtTheirPaths, PTL DEF Spec

-----------------------------------------------------------------------------
\* Of some files one is met last in a walk.
LEMMA OneIsMetLast ==
  ASSUME NEW order \in Walks, NEW files, files \subseteq Paths, files # {}
  PROVE  /\ LastOf(files, order) \in files
         /\ \A q \in files : order[LastOf(files, order)] <= order[q]
<1> DEFINE ranks == {order[p] : p \in files}
<1>1. ranks \subseteq Nat /\ ranks # {}
  BY WalksAssumption
<1>2. PICK r \in ranks : \A n \in ranks : ~(<<n, r>> \in OpToRel(<, Nat))
  <2> HIDE DEF ranks
  <2> QED  BY <1>1, NatLessThanWellFounded, WFMin
<1>3. \A n \in ranks : r <= n
  <2> SUFFICES ASSUME NEW n \in ranks PROVE r <= n
    OBVIOUS
  <2>0. n \in Nat /\ r \in Nat
    BY <1>1
  <2> SUFFICES ASSUME n < r PROVE FALSE
    BY <2>0
  <2>1. <<n, r>> \in Nat \X Nat
    BY <2>0
  <2>2. <<n, r>> \in OpToRel(<, Nat)
    BY <2>1 DEF OpToRel
  <2> QED  BY <1>2, <2>2
<1>4. PICK p \in files : order[p] = r
  OBVIOUS
<1>5. \A q \in files : order[p] <= order[q]
  BY <1>3, <1>4
<1> HIDE DEF ranks
<1> QED  BY <1>5, Zenon DEF LastOf

\* ... and no other one is.
LEMMA OnlyOneIsMetLast ==
  ASSUME NEW order \in Walks, NEW files, files \subseteq Paths,
         NEW p \in files, \A q \in files : order[p] <= order[q]
  PROVE  LastOf(files, order) = p
<1> DEFINE l == LastOf(files, order)
<1>1. l \in files /\ order[l] <= order[p]
  BY OneIsMetLast
<1>2. order[l] \in Nat /\ order[p] \in Nat /\ order[p] <= order[l]
  BY <1>1, WalksAssumption
<1> HIDE DEF l
<1>3. order[l] = order[p]
  BY <1>1, <1>2
<1>4. l = p
  BY <1>1, <1>3, WalksAssumption
<1> QED  BY <1>4 DEF l

\* The record in a readable file is a job's, of the episode the path names.
LEMMA RecordInFile ==
  ASSUME RecordAtItsPath, NEW p \in Paths, Readable(p)
  PROVE  /\ RecordIn(p) \in Jobs /\ file[p].of = {RecordIn(p)}
         /\ RecordIn(p).episode = p.episode
<1>1. PICK job \in Jobs : file[p].of = {job} /\ PathOf(job) = p
  BY Zenon DEF RecordAtItsPath
<1>2. RecordIn(p) \in Jobs /\ file[p].of = {RecordIn(p)}
  BY <1>1, Zenon DEF RecordIn
<1>3. RecordIn(p) = job
  BY <1>1, <1>2
<1> QED  BY <1>1, <1>2, <1>3 DEF PathOf

\* p is the file of its episode that is met last in the arm.
IsLast(p, tag) == \A q \in FilesWith(tag, p.episode) : walk[p] <= walk[q]

\* One record for each id of a readable arm: the one that is met last.
LEMMA ByIdHasTheLast ==
  ASSUME RecordAtItsPath, NEW tag, Loads(tag), NEW order \in Walks, NEW e \in DOMAIN ById(tag, order)
  PROVE  /\ ById(tag, order)[e] \in Jobs /\ ById(tag, order)[e].episode = e
         /\ \E p \in FilesWith(tag, e) :
              /\ file[p].of = {ById(tag, order)[e]}
              /\ \A q \in FilesWith(tag, e) : order[p] <= order[q]
<1> DEFINE p == LastOf(FilesWith(tag, e), order)
<1>1. FilesWith(tag, e) \subseteq Paths /\ FilesWith(tag, e) \subseteq FilesOf(tag)
  BY DEF FilesWith, FilesOf
<1>2. e \in {q.episode : q \in FilesOf(tag)} /\ ById(tag, order)[e] = RecordIn(p)
  BY DEF ById
<1>3. FilesWith(tag, e) # {}
  BY <1>2 DEF FilesWith
<1>4. p \in FilesWith(tag, e) /\ \A q \in FilesWith(tag, e) : order[p] <= order[q]
  BY <1>1, <1>3, OneIsMetLast
<1>5. p \in Paths /\ Readable(p) /\ p.episode = e
  BY <1>1, <1>4 DEF Loads, FilesWith
<1> HIDE DEF p
<1> QED  BY <1>2, <1>4, <1>5, RecordInFile

\* The family of a call in the last file is the one its arm is checked with.
LEMMA FamilyOfTheLast ==
  ASSUME walk \in Walks, NEW tag, NEW p \in FilesOf(tag), IsLast(p, tag),
         NEW call \in DOMAIN FaultsIn(p)
  PROVE  FamilyAt(tag, p.episode, call) = FaultsIn(p)[call]
<1> DEFINE faulted == {q \in FilesWith(tag, p.episode) : call \in DOMAIN FaultsIn(q)}
<1>1. faulted \subseteq Paths /\ p \in faulted /\ \A q \in faulted : walk[p] <= walk[q]
  BY DEF FilesWith, FilesOf, IsLast
<1>2. FamilyAt(tag, p.episode, call) = FaultsIn(LastOf(faulted, walk))[call]
  BY DEF FamilyAt
<1> HIDE DEF faulted
<1>3. LastOf(faulted, walk) = p
  BY <1>1, OnlyOneIsMetLast
<1> QED  BY <1>2, <1>3

-----------------------------------------------------------------------------
\* The anchor's episodes are records of jobs, each under its own id.
BaseById == \A e \in DOMAIN base : base[e] \in Jobs /\ base[e].episode = e

\* The analysis' own part of TypeOK; "base" is a function from ids to jobs.
AnalysisTypeOK ==
  /\ BaseById /\ base \in [DOMAIN base -> Jobs]
  /\ step \in {"start", "levels", "compare", "reported", "raised"}
  /\ step \in {"levels", "compare"} => walk \in Walks
  /\ left \subseteq DOMAIN Levels
  /\ verdict \in {"none", "REFRAME", "GO", "SUSPECT"}
  /\ grounds \subseteq Jobs \X Jobs
  /\ quiet \in BOOLEAN

\* A comparison keeps the types: what it pairs are records of jobs.
LEMMA ConcludeTypes ==
  ASSUME AnalysisTypeOK, step = "compare", quiet' = quiet, NEW comp,
         \A e \in DOMAIN comp : comp[e] \in Jobs, Conclude(comp)
  PROVE  AnalysisTypeOK'
<1> DEFINE ids == DOMAIN base \cap DOMAIN comp
           b   == {base[e] : e \in ids}
           c   == {comp[e] : e \in ids}
           gs  == {<<base[e], comp[e]>> : e \in ids}
<1>1. CASE ids = {}
  BY <1>1 DEF Conclude, Fail, AnalysisTypeOK, BaseById
<1>2. CASE ids # {}
  <2>1. /\ step' = "levels" /\ left' = left \ {NextLevel} /\ base' = base /\ walk' = walk
        /\ \E side \in Sides :
             /\ verdict' = IF IsGo(b, c, side) THEN "GO"
                           ELSE IF IsSuspect(b, c, side) /\ verdict # "GO" THEN "SUSPECT"
                           ELSE verdict
             /\ grounds' = IF IsGo(b, c, side) THEN grounds \cup gs ELSE grounds
    BY <1>2 DEF Conclude
  <2>2. gs \subseteq Jobs \X Jobs
    BY DEF AnalysisTypeOK, BaseById
  <2> HIDE DEF b, c, ids, gs
  <2>3. verdict' \in {"none", "REFRAME", "GO", "SUSPECT"}
    BY <2>1 DEF AnalysisTypeOK
  <2>4. grounds' \subseteq Jobs \X Jobs
    BY <2>1, <2>2 DEF AnalysisTypeOK
  <2> QED  BY <2>1, <2>3, <2>4 DEF AnalysisTypeOK, BaseById
<1> QED  BY <1>1, <1>2

LEMMA AnalysisTypes == Spec => []AnalysisTypeOK
<1>1. Init => AnalysisTypeOK
  <2> SUFFICES ASSUME Init PROVE AnalysisTypeOK
    OBVIOUS
  <2>1. DOMAIN base = {} /\ base \in [DOMAIN base -> Jobs]
    BY DEF Init
  <2>2. grounds \subseteq Jobs \X Jobs /\ left \subseteq DOMAIN Levels
    BY DEF Init
  <2> QED  BY <2>1, <2>2 DEF Init, AnalysisTypeOK, BaseById
<1>2. RecordAtItsPath /\ AnalysisTypeOK /\ [Next]_vars => AnalysisTypeOK'
  <2> SUFFICES ASSUME RecordAtItsPath, AnalysisTypeOK, [Next]_vars PROVE AnalysisTypeOK'
    OBVIOUS
  <2>1. CASE UNCHANGED analysisVars /\ quiet' \in {quiet, FALSE}
    BY <2>1 DEF analysisVars, AnalysisTypeOK, BaseById
  <2>2. CASE Fail /\ quiet' \in {quiet, TRUE}
    <3>1. DOMAIN base' = {} /\ base' \in [DOMAIN base' -> Jobs]
      BY <2>2 DEF Fail
    <3>2. grounds' \subseteq Jobs \X Jobs /\ left' \subseteq DOMAIN Levels
      BY <2>2 DEF Fail
    <3>3. step' = "raised" /\ verdict' = "none" /\ quiet' \in BOOLEAN
      BY <2>2 DEF Fail, AnalysisTypeOK
    <3> QED
      BY <3>1, <3>2, <3>3 DEF AnalysisTypeOK, BaseById
  <2>3. CASE LoadAnchor /\ ~Fail
    <3>1. /\ Loads(Anchor) /\ step' = "levels" /\ UNCHANGED <<verdict, grounds>>
          /\ left' = {i \in DOMAIN Levels : FilesOf(Levels[i]) # {}}
          /\ quiet' = TRUE
      BY <2>3 DEF LoadAnchor
    <3>2. PICK order \in Walks : walk' = order /\ base' = ById(Anchor, order)
      BY <2>3 DEF LoadAnchor
    <3>3. \A e \in DOMAIN base' : base'[e] \in Jobs /\ base'[e].episode = e
      BY <3>1, <3>2, ByIdHasTheLast
    <3>4. base' \in [DOMAIN base' -> Jobs]
      <4>1. base' = [e \in DOMAIN base' |-> base'[e]]
        BY <3>2 DEF ById
      <4> QED  BY <3>3, <4>1
    <3>5. BaseById'
      BY <3>3, Zenon DEF BaseById, Jobs, JobOf, Positions, Slice
    <3> QED
      BY <3>1, <3>2, <3>4, <3>5 DEF AnalysisTypeOK, Jobs, JobOf, Positions, Slice
  <2>4. CASE AssertPaired /\ ~Fail
    BY <2>4 DEF AssertPaired, AnalysisTypeOK, BaseById
  <2>5. CASE Report
    BY <2>5 DEF Report, AnalysisTypeOK, BaseById
  <2>6. CASE CompareLevel /\ ~Fail
    <3>1. /\ step = "compare" /\ quiet' = quiet /\ Loads(Level)
          /\ Conclude(ById(Level, walk))
      BY <2>6 DEF CompareLevel
    <3>2. walk \in Walks
      BY <3>1 DEF AnalysisTypeOK
    <3>3. \A e \in DOMAIN ById(Level, walk) : ById(Level, walk)[e] \in Jobs
      BY <3>1, <3>2, ByIdHasTheLast
    <3> QED  BY <3>1, <3>3, ConcludeTypes
  <2>7. ASSUME Analyze PROVE quiet' \in {quiet, TRUE}
    BY <2>7 DEF Analyze, LoadAnchor, AssertPaired, CompareLevel, Report
  <2>8. CASE Meanwhile
    BY <2>1, <2>8 DEF Meanwhile
  <2>9. CASE UNCHANGED vars
    BY <2>1, <2>9 DEF vars
  <2> QED  BY <2>2, <2>3, <2>4, <2>5, <2>6, <2>7, <2>8, <2>9 DEF Next, Analyze
<1> QED  BY <1>1, <1>2, RecordsAtTheirPaths, PTL DEF Spec

\* The workers, the directory and the analysis that reads it have their types
\* (rq1's analyze over the files of eval/harness).
THEOREM AnalysisTypeCorrect == Spec => []TypeOK
<1>1. WorkersInv /\ AnalysisTypeOK => TypeOK
  <2> SUFFICES ASSUME WorkersInv, AnalysisTypeOK
               PROVE  base \in UNION {[es -> Jobs] : es \in SUBSET {job.episode : job \in Jobs}}
    BY DEF TypeOK, WorkersInv, AnalysisTypeOK
  <2>1. DOMAIN base \subseteq {job.episode : job \in Jobs}
    BY DEF AnalysisTypeOK, BaseById
  <2> QED  BY <2>1 DEF AnalysisTypeOK
<1> QED  BY <1>1, WorkersInvariant, AnalysisTypes, PTL

-----------------------------------------------------------------------------
\* Two records agree on every call both record a fault of.
Agree(i, j) ==
  \A call \in DOMAIN outcome[i].faults \cap DOMAIN outcome[j].faults :
    outcome[i].faults[call] = outcome[j].faults[call]

\* The record kept of an id of the anchor is the one that is met last.
BaseIsLast ==
  /\ Loads(Anchor)
  /\ \A e \in DOMAIN base : \E p \in FilesWith(Anchor, e) :
       file[p].of = {base[e]} /\ \A q \in FilesWith(Anchor, e) : walk[p] <= walk[q]

\* Records met last of one id, in the anchor and in another arm, agree.
LastOnesAgree(tag) ==
  \A p \in FilesOf(Anchor), q \in FilesOf(tag) :
    p.episode = q.episode /\ IsLast(p, Anchor) /\ IsLast(q, tag) =>
      \A i, j \in Jobs : file[p].of = {i} /\ file[q].of = {j} => Agree(i, j)

CheckedInv ==
  /\ step = "start" => grounds = {}
  /\ quiet /\ step \in {"levels", "compare"} => BaseIsLast
  /\ quiet /\ step = "compare" => LastOnesAgree(Level)
  /\ GoRestsOnCheckedPairs

\* What assert_paired has found of a readable pair of arms.
LEMMA PairedAgree ==
  ASSUME RecordAtItsPath, walk \in Walks, NEW tag, Loads(Anchor), Loads(tag), Paired(tag)
  PROVE  LastOnesAgree(tag)
<1> SUFFICES ASSUME NEW p \in FilesOf(Anchor), NEW q \in FilesOf(tag), p.episode = q.episode,
                    IsLast(p, Anchor), IsLast(q, tag),
                    NEW i \in Jobs, NEW j \in Jobs, file[p].of = {i}, file[q].of = {j},
                    NEW call \in DOMAIN outcome[i].faults \cap DOMAIN outcome[j].faults
             PROVE  outcome[i].faults[call] = outcome[j].faults[call]
  BY DEF LastOnesAgree, Agree
<1>1. p \in Paths /\ q \in Paths /\ Readable(p) /\ Readable(q)
  BY DEF FilesOf, Loads
<1>2. RecordIn(p) = i /\ RecordIn(q) = j
  BY <1>1, RecordInFile
<1>3. FaultsIn(p) = outcome[i].faults /\ FaultsIn(q) = outcome[j].faults
  BY <1>2 DEF FaultsIn
<1>4. FamilyAt(Anchor, p.episode, call) = FamilyAt(tag, p.episode, call)
  BY <1>3 DEF Paired
<1>5. FamilyAt(Anchor, p.episode, call) = FaultsIn(p)[call]
  BY <1>3, FamilyOfTheLast
<1>6. FamilyAt(tag, q.episode, call) = FaultsIn(q)[call]
  BY <1>3, FamilyOfTheLast
<1> QED  BY <1>3, <1>4, <1>5, <1>6

LEMMA AgreementStays ==
  ASSUME file' = file, outcome' = outcome, walk' = walk, left' = left, LastOnesAgree(Level)
  PROVE  LastOnesAgree(Level)'
<1>1. Level' = Level
  BY DEF Level, NextLevel
<1>2. FilesOf(Level)' = FilesOf(Level) /\ FilesOf(Anchor)' = FilesOf(Anchor)
  BY <1>1 DEF FilesOf, Exists, Paths, Jobs, JobOf, PathOf, Slice, Positions
<1>3. \A e : FilesWith(Anchor, e)' = FilesWith(Anchor, e)
  BY <1>2 DEF FilesWith
<1>4. \A e : FilesWith(Level, e)' = FilesWith(Level, e)
  BY <1>2 DEF FilesWith
<1>5. \A p : IsLast(p, Anchor)' <=> IsLast(p, Anchor)
  BY <1>3 DEF IsLast
<1>6. \A q : IsLast(q, Level)' <=> IsLast(q, Level)
  BY <1>4 DEF IsLast
<1>7. \A i, j : Agree(i, j)' <=> Agree(i, j)
  BY DEF Agree
<1>8. Jobs' = Jobs
  BY DEF Jobs, JobOf, Slice, Positions
<1> QED  BY <1>2, <1>5, <1>6, <1>7, <1>8 DEF LastOnesAgree

\* While no file changes, what was found of the files holds.
LEMMA FoundStays ==
  ASSUME file' = file, UNCHANGED analysisVars
  PROVE  /\ BaseIsLast => BaseIsLast'
         /\ LastOnesAgree(Level) => LastOnesAgree(Level)'
         /\ GoRestsOnCheckedPairs /\ quiet' = quiet => GoRestsOnCheckedPairs'
<1>1. BaseIsLast => BaseIsLast'
  BY DEF analysisVars, BaseIsLast, Loads, Readable, FilesWith, FilesOf, Exists, Paths, Jobs, JobOf,
         PathOf, Slice, Positions
<1>2. LastOnesAgree(Level) => LastOnesAgree(Level)'
  BY AgreementStays DEF analysisVars
<1>3. GoRestsOnCheckedPairs /\ quiet' = quiet => GoRestsOnCheckedPairs'
  BY DEF analysisVars, GoRestsOnCheckedPairs
<1> QED  BY <1>1, <1>2, <1>3

\* A comparison with a checked arm adds pairs of records that agree.
LEMMA ConcludeOnChecked ==
  ASSUME RecordAtItsPath, walk \in Walks, BaseById, BaseIsLast, LastOnesAgree(Level), Loads(Level),
         NEW e \in DOMAIN base \cap DOMAIN ById(Level, walk)
  PROVE  Agree(base[e], ById(Level, walk)[e])
<1> DEFINE d == ById(Level, walk)
<1>1. PICK p \in FilesWith(Anchor, e) :
        file[p].of = {base[e]} /\ \A q \in FilesWith(Anchor, e) : walk[p] <= walk[q]
  BY DEF BaseIsLast
<1>2. /\ d[e] \in Jobs
      /\ \E q \in FilesWith(Level, e) :
           file[q].of = {d[e]} /\ \A o \in FilesWith(Level, e) : walk[q] <= walk[o]
  BY ByIdHasTheLast
<1> HIDE DEF d
<1>3. PICK q \in FilesWith(Level, e) :
        file[q].of = {d[e]} /\ \A o \in FilesWith(Level, e) : walk[q] <= walk[o]
  BY <1>2
<1>4. /\ p \in FilesOf(Anchor) /\ q \in FilesOf(Level)
      /\ p.episode = e /\ q.episode = e
      /\ IsLast(p, Anchor) /\ IsLast(q, Level)
  BY <1>1, <1>3 DEF FilesWith, IsLast
<1>5. base[e] \in Jobs
  BY DEF BaseById
<1> QED  BY <1>1, <1>2, <1>3, <1>4, <1>5 DEF LastOnesAgree, d

\* What the go/no-go verdict rests on (rq1's analyze): if nobody wrote a file since
\* it began, then the records a GO was concluded from agree on every fault both
\* record, whatever fault configurations and methods share an id, in whatever
\* order the directory walk meets their files, and however the episodes come out.
THEOREM GoRestsOnCheckedPairsAlways == Spec => []GoRestsOnCheckedPairs
<1>1. Init => CheckedInv
  BY DEF Init, CheckedInv, GoRestsOnCheckedPairs
<1>2. RecordAtItsPath /\ AnalysisTypeOK /\ CheckedInv /\ [Next]_vars => CheckedInv'
  <2> SUFFICES ASSUME RecordAtItsPath, AnalysisTypeOK, CheckedInv, [Next]_vars PROVE CheckedInv'
    OBVIOUS
  <2>1. CASE Meanwhile
    <3>1. CASE file' = file
      <4>1. quiet' = quiet /\ step' = step /\ grounds' = grounds /\ UNCHANGED analysisVars
        BY <2>1, <3>1 DEF Meanwhile, analysisVars
      <4> QED  BY <3>1, <4>1, FoundStays DEF CheckedInv
    <3>2. CASE file' # file
      <4>1. quiet' = FALSE /\ step' = step /\ grounds' = grounds
        BY <2>1, <3>2 DEF Meanwhile, analysisVars
      <4> QED  BY <4>1 DEF CheckedInv, GoRestsOnCheckedPairs
    <3> QED  BY <3>1, <3>2
  <2>2. CASE UNCHANGED vars
    <3>1. file' = file /\ UNCHANGED analysisVars /\ quiet' = quiet /\ step' = step
          /\ grounds' = grounds
      BY <2>2 DEF vars, harnessVars, analysisVars
    <3> QED  BY <3>1, FoundStays DEF CheckedInv
  <2>3. CASE Fail
    BY <2>3 DEF Fail, CheckedInv, GoRestsOnCheckedPairs
  <2>4. CASE LoadAnchor /\ ~Fail /\ file' = file
    <3>1. /\ Loads(Anchor) /\ step = "start" /\ step' = "levels" /\ grounds' = grounds
      BY <2>4 DEF LoadAnchor
    <3>2. PICK order \in Walks : walk' = order /\ base' = ById(Anchor, order)
      BY <2>4 DEF LoadAnchor
    <3>3. \A e \in DOMAIN base' : \E p \in FilesWith(Anchor, e) :
            file[p].of = {base'[e]} /\ \A q \in FilesWith(Anchor, e) : walk'[p] <= walk'[q]
      BY <3>1, <3>2, ByIdHasTheLast
    <3>4. BaseIsLast'
      BY <2>4, <3>1, <3>3 DEF BaseIsLast, Loads, Readable, FilesWith, FilesOf, Exists, Paths, Jobs,
         JobOf, PathOf, Slice, Positions
    <3> QED  BY <3>1, <3>4 DEF CheckedInv, GoRestsOnCheckedPairs
  <2>5. CASE AssertPaired /\ ~Fail /\ file' = file
    <3>1. /\ step = "levels" /\ step' = "compare" /\ quiet' = quiet
          /\ UNCHANGED <<outcome, walk, base, left, verdict, grounds>>
          /\ Loads(Anchor) /\ Loads(Level) /\ Paired(Level)
      BY <2>5 DEF AssertPaired
    <3>2. LastOnesAgree(Level)
      BY <3>1, PairedAgree DEF AnalysisTypeOK
    <3>3. LastOnesAgree(Level)'
      BY <2>5, <3>1, <3>2, AgreementStays
    <3>4. BaseIsLast => BaseIsLast'
      BY <2>5, <3>1 DEF BaseIsLast, Loads, Readable, FilesWith, FilesOf, Exists, Paths, Jobs, JobOf,
         PathOf, Slice, Positions
    <3>5. GoRestsOnCheckedPairs'
      BY <3>1 DEF CheckedInv, GoRestsOnCheckedPairs
    <3> QED  BY <3>1, <3>3, <3>4, <3>5 DEF CheckedInv
  <2>6. CASE CompareLevel /\ ~Fail /\ file' = file
    <3>1. /\ step = "compare" /\ quiet' = quiet /\ Loads(Level)
          /\ Conclude(ById(Level, walk))
      BY <2>6 DEF CompareLevel
    <3> DEFINE comp == ById(Level, walk)
               ids  == DOMAIN base \cap DOMAIN comp
    <3>2. /\ step' = "levels" /\ UNCHANGED <<outcome, walk, base>>
          /\ grounds' \subseteq grounds \cup {<<base[e], comp[e]>> : e \in ids}
      <4> HIDE DEF comp
      <4>1. Conclude(comp)
        BY <3>1 DEF comp
      <4> QED  BY <2>6, <4>1 DEF Conclude
    <3>3. ASSUME quiet PROVE \A e \in ids : Agree(base[e], comp[e])
      BY <3>1, <3>3, ConcludeOnChecked DEF CheckedInv, AnalysisTypeOK
    <3>4. ASSUME quiet PROVE \A g \in grounds : Agree(g[1], g[2])
      BY <3>4 DEF CheckedInv, GoRestsOnCheckedPairs, Agree
    <3> HIDE DEF comp, ids
    <3>5. ASSUME quiet PROVE \A g \in grounds' : Agree(g[1], g[2])
      BY <3>2, <3>3, <3>4, <3>5
    <3>6. GoRestsOnCheckedPairs'
      BY <3>1, <3>2, <3>5 DEF GoRestsOnCheckedPairs, Agree
    <3>7. BaseIsLast => BaseIsLast'
      BY <2>6, <3>2 DEF BaseIsLast, Loads, Readable, FilesWith, FilesOf, Exists, Paths, Jobs, JobOf,
         PathOf, Slice, Positions
    <3> QED  BY <3>1, <3>2, <3>6, <3>7 DEF CheckedInv
  <2>7. CASE Report
    BY <2>7 DEF Report, CheckedInv, GoRestsOnCheckedPairs
  <2>8. ASSUME Analyze, UNCHANGED harnessVars PROVE file' = file
    BY <2>8 DEF harnessVars
  <2> QED
    BY <2>1, <2>2, <2>3, <2>4, <2>5, <2>6, <2>7, <2>8 DEF Next, Analyze
<1>3. CheckedInv => GoRestsOnCheckedPairs
  BY DEF CheckedInv
<1> QED  BY <1>1, <1>2, <1>3, RecordsAtTheirPaths, AnalysisTypes, PTL DEF Spec
=============================================================================
