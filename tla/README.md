# mcp-guardlite in TLA+

A verification project for mcp-guardlite, the benchmark that injects seeded
faults between a tool-using agent and simulated MCP tool servers, and measures
how recovery methods and model compression cope with them.  The paired design
of the experiment rests on a few properties of stateful, asynchronous code: that
the fault schedule of an episode can be replayed, that a lasting fault lasts,
that a cap counts what it says, that recovery spends no more than its budget
and never turns a failure into a confident wrong answer.  This directory models
that code, and around it the servers, the silent faults, the chat plumbing and
the result files; it checks properties of all of them with TLC and proves every
safety property of the runs with TLAPS, for every value of the constants
(section 5).

All paths below are relative to `src/src/mcpguardlite/`.

## 1. The system

| part | state it keeps | operations | talks to |
|---|---|---|---|
| fault taxonomy (`faults/taxonomy.py`) | none | families, default lifetime, ground-truth operator | read by all |
| fault scheduler (`faults/injector.py`) | `_persist` (a latch per episode and family), `_counts` | `decide`, `reset_episode` | called by the proxy; a keyed PRF supplies its randomness |
| fault proxy (`faults/proxy.py`) | `drift_map`, `stats`, tap log | `call_tool`, `list_tools`, `reset_episode` | scheduler, one server, the loop |
| tool servers (`envs/servers.py`) | one small state machine each: versioned files and keys, events with a counter for ids, alarms; its digest | `call_tool`, `digest` | proxy |
| silent mutators (`envs/mutators.py`) | none | applicability, typed mutation of a result | `apply_fault` |
| task suite, verifier (`envs/tasks.py`) | none | plans, `resolve_args`, `derive_answer`, `verify` | policy, harness |
| recovery controller (`agent/recovery.py`) | `BudgetState` | `step`, the operators, the substitution and cross-check tables | loop |
| detectors (`agent/sentinel.py`) | latency windows, tool schemas | `rule_baseline`, `Sentinel.predict`, features | loop |
| agent loop (`agent/loop.py`) | `call_idx`, records, fault events | `run`, `_predict`, `_recover`, `_reconcile` and the adapters | policy, proxy, controller |
| scripted policy (`agent/policy.py`) | step, results, retries, rename | `start_episode`, `next_action` | loop |
| chat policies (`agent/policy.py`) | chat history | `next_action` with truncation | an external model |
| harness (`eval/harness.py`) | the result directory | `run_episode`, `run`, `assert_paired`, workers | everything above |
| metrics, RQ1 (`eval/`) | none | `analyze`: pairing by episode id, rates, the gap and its bootstrap interval, the verdict | episode files |
| data generation (`data/`) | one shard for each environment and fault configuration | `generate`: the harness's run, then a concatenation | the harness |
| compression, audit, command line, edge profiles | files | drivers of external tools, reports, stubs | the harness |

How a turn runs: the loop asks the policy for an action; the proxy asks the
scheduler whether a fault fires at `(seed, episode, turn, tool)`, forwards the
call to the server **first**, then applies the fault to the response; the
detector sees the response, and if it proposes an operator the controller may
make one more call through the same proxy, before the policy observes anything.

What is hard in it, each entry a hazard of PROJECT.json with its line:

* *State behind the PRF.*  The draw is a pure function of the coordinate, the
  decision is not: it depends on latches and on a count, which depend on the
  calls before.  Pairing, replay and the cap are properties of histories.
* *State that outlives its cause.*  A drift stays in `drift_map` after the
  scheduler's latch has moved to another tool; a rename stays in the policy
  after its step was given up.
* *Partial failure.*  The server has executed what the caller is told has
  failed; a recovery call can itself be struck; a substitute has another shape.
* *Limits.*  The fault cap, the recovery budget over the whole episode, the
  turns, and retries that use them up.
* *Ending.*  The policy recurses over steps whose arguments cannot be resolved,
  and retries; the episode must end, with a claim if there are turns enough.
* *Versions and boundaries.*  Versions are counted by length and ids by a
  counter while entries are deleted and set again; staleness is clipped to a
  history, perturbations are rounded, hours clamped to the day: a fault that is
  recorded as fired may leave its result as it was.
* *Files.*  Workers that stride over one job list, results written in place and
  skipped if they exist, workers that are killed or stopped by an exception and
  launched again, teachers that share a shard, and an analysis that reads an arm
  several times and may look at any moment.

There is no parallelism inside an episode: `run` awaits each call before the
next.  Episodes of one process are awaited one after the other, each with its
own scheduler and proxy; the scheduler's interface, keyed by episode, promises
more than that use, and `PairedSchedule` checks the promise.  Processes meet
only in the result directory, which is where `Harness` interleaves them.

## 2. The modules

```
FaultTaxonomy <- FaultScheduler <- PairedSchedule <- MCPairedSchedule
                       |                 \__ PairedScheduleProofs  (uses FaultSchedulerProofs)
                       |  \__ FaultSchedulerProofs
ToolCatalog  --> FaultProxy <- ProxyCaller <- MCProxyCaller
                       |  |        \__ ProxyCallerProofs  (uses FaultProxyProofs)
                       |   \__ FaultProxyProofs  (uses FaultSchedulerProofs)
                   Recovery
                       |
TaskSuite    --> AgentLoop <- MCAgentLoop
                       |  \__ AgentLoopProofs
                       |  \__ EpisodeProofs  (uses AgentLoopProofs, FaultProxyProofs)
                       \__ Ledger == INSTANCE EpisodeLedger

ToolServers <- SilentMutators <- ToolSession <- MCToolSession
                  ChatPolicy <--/    \__ ToolSessionProofs

Harness <- Rq1 <- MCHarness
              \__ HarnessProofs
```

* **FaultTaxonomy** is the table of families: scope, default lifetime, silence,
  the operator the oracle knows, and where a silent family applies.
* **FaultScheduler** has the scheduler's two variables, `latched` (`_persist`)
  and `counts` (`_counts`), and its two operations.  `Decision` is the value
  `decide` returns, `Decide` what it leaves, both for a given draw: the set of
  configured families whose `prf_unit` is under the configured rate.  Priority
  is the position in `cfg.families`.  Latched families are looked at first and
  ignore the cap.  `ResetEpisode` is `reset_episode`.
* **PairedSchedule** composes the scheduler with the experiment: episodes share
  it, each is run by several arms one after another, calls of different
  episodes interleave.  The PRF is a lazily filled table `prf`: any answer at
  the first question, the same ever after, which is all that determinism of a
  keyed hash gives.  `trace` is the log of the arm in progress with the books
  after each call, `first` the log of the first arm.
* **ToolCatalog** has, for each tool of the six servers, its parameters, the
  one a drift renames, the result fields something downstream reads, and
  whether a write appends to or assigns the digested state.
* **FaultProxy** is `call_tool` whole: decide, translate an adapted call,
  forward, drop the event where there is nothing to corrupt or the caller has
  adapted, apply the family, remember a drift, count.  A response is what tells
  outcomes apart: kind, fields lost, fields wrong, whether the schema is broken,
  and the rename a drift error names.  A payload's values are not modelled.
* **ProxyCaller** runs the proxy under an arbitrary caller.
* **Recovery** has the detectors (`rule_baseline`, the oracle, and a learned
  sentinel that may predict anything), the controller (budget, operator sets)
  and the operators with their two capability tables and adapters.
* **TaskSuite** lists the 24 task shapes: tools in order, where each step's
  arguments come from, what the answer reads, whether the state is verified.
* **AgentLoop** is one episode: `pc` names the places in `run` between two of
  which state changes.  `observe`: the policy takes the response in
  (`FirstTurn`, `ObserveResult`, `ObserveError`, `OutOfTurns`); `decide`: it
  skips a step it cannot resolve, calls, or answers (`SkipStep`, `EmitCall`,
  `Answer`); `call`: the proxy answers and the detector judges
  (`CallAndJudge`); `judge`: recovery acts (`NoRecovery`, `Stop`, `Replan`,
  `Recall` for the same tool again, `CallOther` for another) and the turn's
  record is written; `done`, or `crashed` when an adapter raises.
* **EpisodeLedger** is the abstract specification of an episode: policy calls
  within a turn limit, at most one recovery call after each within a recovery
  limit, and an account that is closed.  `AgentLoop` implements it under the
  mapping `Ledger`.
* **ToolServers** is the six servers in full: `files` and `store` keep each
  entry's versions, `events` and `nextId` are the calendar's `events` and `_next`,
  `alarms` the sensor's.  One operator or action
  for each `op_...`; `reply` says whether it answered, refused (a `ToolError`,
  which reaches the caller in an envelope) or raised something nothing catches.
  `Seed` is what `reset` builds, with what `reset` guarantees for every seed as
  `SeedAssumption`.  Texts are reduced to size, words a search finds and digit
  runs a locale could misread; an hour that `int()` cannot read is `Unreadable`.
  Numbers are exact: a float is counted in hundredths, and `compute.convert` gives
  a fraction, for temperatures (C, F, K), lengths and weights.
* **SilentMutators** gives, for each server and silent family, the set of results
  the PRF's choices can make of a right one: all 24 mutators, for every operation
  they apply to.  Sensor readings are the seed's, rounded to hundredths and not told
  apart by their place: two of a device may be equal.
* **ChatPolicy** has the messages of an episode, `Truncate` (`_truncate`), and what
  `next_action` reads a reply as; the model may say anything.
* **ToolSession** composes the three: a model's reply (`NextAction`), then the
  call it holds (`Execute`), whose result's size is the next observation.  Unlike
  the scripted policy of `AgentLoop`, whose servers are only a catalogue, it calls
  any operation with any arguments.  `written` is history: the acknowledged
  writes that nothing has overwritten or deleted.
* **Harness** is the workers of `run` and `generate` over one result directory
  `file`, indexed by `PathOf` (`episode_path`).  A worker is at `loop` (before
  an episode: `StopAtLimit`, `SkipExisting`, `RunEpisode`, `EndOfSlice`), has a
  `record` in hand (`OpenFile`), has the file `open` (`WriteRecord`), or makes its
  shard: `OpenShard` truncates `<env>__<fault>.jsonl` and lists the sources,
  `CopyLine` reads one and writes its line, `FailToCopy` meets one that does not
  parse, `CloseShard`.  A worker may be killed anywhere and launched again;
  what of a shard was still in its buffer is lost then (`LoseBuffer`).  The shard is
  a file of the directory, `shard[ShardPath(w)]`, and not of a worker: its path has
  no teacher in it, and `by` tells who has had it open since it was last truncated
  with nobody else at it.  `write_text` is two steps, opening and writing, since
  between them the file exists and is empty.  A record is known by its job,
  for an episode is deterministic; `poison` are the jobs whose episode raises.
* **Rq1** adds `analyze` to it: it reads the anchor (`LoadAnchor`), and for each
  other arm both again for the pair check (`AssertPaired`) and the arm once more
  for the comparison (`CompareLevel`), with workers writing in between.  An arm may
  hold one episode id several times, under several fault configurations: the pair
  check takes for each call the family of the last record met that has a fault there
  (`FamilyAt`), the comparison the last record of each id (`ById`), both in the order
  of a directory walk that is the same as long as no file is added.  `quiet` is
  history: no file has changed since the analysis began.  Rates are exact, as
  integers times their denominators; of the bootstrap interval only its side of zero
  is told, and it is any.
* **MC...** give the constants small values.  Definitions with a comment
  starting "Mutant" are variants with one plausible bug each, used to see that
  a property notices; no specification uses them.

## 3. What each run checks

| run | question | states (about) |
|---|---|---|
| PairedArms | Are the scheduler's books what its log says, also where a drift starts anew on another tool, and do equal calls meet equal faults, over interleaved episodes and repeated arms? | 910,000 |
| ProxySensor | Does drift, once told, never strike an adapted caller again; is it advertised; are reports within the cap? | 8,000 |
| EpisodeBaselines | What can an episode end in under each baseline, and does it end? | 60,000 |
| EpisodeRecovery | Is recovery accounted: its calls, their coordinates, their faults, the shapes it hands back? Does the loop implement the ledger? | 160,000 |
| ResultFiles | What is in the result directory after any interleaving of workers, kills and launches, what does a shard hold that two teachers share, and is what a GO compares what was checked? | 270,000 |
| ToolSession | Do servers keep what they acknowledged, which results do silent faults leave as they are, does the prompt keep what matters? | 1,190,000 |
| PairCheck, FullReplan, RepeatedWrite, StaleRename, AdapterCrash, TruncatedResult | one finding each, section 4 | |

The scheduler's properties: `CountIsFaultsStarted` (the cap counts faults
started, however long they last), `LatchIsLastStart` (the books can be rebuilt
from the log: a family is latched where it started last), `ServerWideFaultLasts` (a persistent server-wide fault is felt on
every later call, past the cap), `SameCallsSameFaults` (replay).

The proxy's: `AdaptedCallerIsServed`, `LatchedDriftIsAdvertised`,
`ReportedWithinCap`.

The episode's: `CleanEpisodesSucceed`, `OvertFaultsNeverMislead` (only a silent
fault can end in a confident wrong answer), `DriftAloneIsSurvivable`,
`BoundedFaultsAreOutlasted`, `PolicyGetsToAnswer`, `Termination`; of recovery,
`RecoveryCallsWithinBudget`, `CoordinatesAreUsedOnce`, `EveryFaultIsReported` (the
proxy counts what it fires, the loop reports it at two places of its own),
`RecordsMissRecoveryFaultsOnly`, `ResultsFollowPlan`, `KeepsLedger`.

The result directory's: `RecordsAreKept` (no step changes a readable record that is
resumable), `DamageWithinKills` (a kill spoils one file at most, nothing else any),
`ResultsAreAPrefix` (no holes, nothing past the limit or past an episode that
raises), `ShardsHoldTheirCell` (a worker that reports success has made its shard
whole and has nothing of another teacher in it, unless another opened the file at the
same time or since), `WorkersStop`.  All but the shard's and the last speak of *paths
of their own*, those of one position of one worker; what shares a path is section 4's.

The analysis's: `GoRestsOnCheckedPairs`, as long as no file changes meanwhile the
records that a GO compares agree on every call both have a fault of.  It is not
what the code does word for word: the check reads both arms anew, call by call over
all the records of an id, and the comparison takes one record of an id.

The session's: `AcknowledgedWritesLast` (every acknowledged write is found under
the version or id it was given, and in the listings, until it is deleted or
overwritten), `SilentNoOps` (in every reachable server state, which results some
choice of the PRF leaves as they are, by server, family and operation, and that a stale
answer is one the call once gave), `PromptKeepsTheLatest`.

### Bounds, and why they are enough

* *PairedArms.* Two episodes over two tools: arms of one make three calls
  (`ArmCalls`, at most `MaxCalls`), those of the other one, in between; one arm
  over.  P3 is persistent and tool-scoped, T1 persistent and server-wide, and the cap
  is 2: a drift starts on one tool, anew on the other, which moves its latch, and
  fires, or no longer does, on the third call; or the cap is used up and an outage lasts
  past it.  Two arms agree or differ before a common call.  The proofs cover every
  larger instance.
* *ProxySensor.* Two tools that share a drifting parameter name and one without
  a parameter; four calls are a drift on each, an adapted call and one more,
  with a reset anywhere.  `MaxCalls` bounds the PRF's turn keys.
* *EpisodeBaselines.* `MaxRetries` 2 and `MaxTurns` 7, one more than the retries
  of a two-step plan need (no plan is longer), so that `EnoughTurns` holds and the
  properties conditional on it are not vacuous.  Families: T1, an outage
  that lasts; T3, transient; P3, drift; P5, which damages results but never
  silently.  The cap of 3 exceeds the retries of a step.  Every task shape and baseline.
* *EpisodeRecovery.* The budget of 2 is reached by plans of two steps, with
  `MaxTurns` 4, so refusals and running out of turns happen.  The tasks are
  those with a substitute, a cross-check, a dependent step; the families an
  outage, a schema break, two silent ones and an eviction.
* A call draws at most one family in `AgentLoop` (coordinates are independent
  and the first of several would win; the scheduler's own modules draw any set),
  and latency z-scores saturate at the four observations they need.

* *ResultFiles.* Three workers: two teachers, F16 and Q4, generate the same two
  episodes of one cell into one directory, hence two arms of files and one shard;
  a third fills the F16 arm, the anchor, with a second fault configuration,
  with a limit of one on a slice of two, so that the limit stops it and one episode id
  is there twice.  F16's second episode may raise.  One kill and one relaunch,
  of any worker at any step (`MaxKills`, `MaxRelaunches`): a spoiled file is met
  by a launch, and a launch follows a failure.  Outcomes are chosen so that there is
  a GO, and that the pair check passes or fails by which of the anchor's two records
  it goes by; one level has no directory at all.  The walk meets the second fault
  configuration last; the proof is for any walk.
* *ToolSession.* `MaxTurns` 5: a key or event is made, deleted, made again and
  read, with one call to spare.  Seeds have entries with two and with three
  versions, as `reset` builds them, and a page whose oldest snapshot is its newest;
  numbers lie on both sides of the bound below
  which a perturbation rounds back, hours at both ends of the day, and one cannot
  be read; a device's last reading is that of one, ten or eleven steps before, the
  last of which staleness cannot reach.  Result sizes 2, 5 and 9 of a budget of 9: the
  prompt holds all, drops pairs, holds the newest alone, or not even that.  http and
  compute keep no state, so they have one server state each.  Not reached in five
  turns: a day with all its eight hours taken, for S3 of `cal.free`; the proof
  covers it.

Deadlock is checked in the runs of `ProxyCaller` and `AgentLoop`.  It is not in
those of `PairedSchedule`, where all calls and arms are used up, nor in
ResultFiles, TruncatedResult and ToolSession, whose workers, analysis and
sessions stop.

### Fairness

`Spec` of `AgentLoop` has `WF_vars(Next)` and nothing else: the event loop runs
an episode's coroutine as long as it has a step to take, and no awaited call
can wait forever, for servers are in-process and a timed-out call is a response
(T2's envelope).  No choice is fair: a fault may strike at every opportunity.
`Ended` is the stuttering of a finished episode.  The ledger's own fairness
(`WF` of settling a call and of closing the account) is implied, and checked as
part of `KeepsLedger`.

`Rq1`'s `Spec` (like `HarnessSpec`, for the workers alone) has weak fairness of each
worker's own steps: each is a process of its own, and the operating system
runs it until it stops or is killed.  Kills and relaunches are not fair, and
nobody promises that the analysis is ever started.  `WorkersStop` therefore
says that every launch comes to an end, not that the results get complete.
The other specifications state safety only and assume no fairness.

## 4. Where code and comments disagree

Each is a run that TLC ends with a counterexample, together with what is true in
place of the claim: a theorem of section 5 says under which condition it holds.

* **PairCheck** (`eval/harness.py:186`).  `assert_paired` takes a mismatch for a
  proof that the schedule is not a pure function of its coordinates.  It can
  mismatch although it is: a fault latched in one arm takes the place of the
  fresh one the other arm meets there, when their earlier calls differ.  That is
  the only way: where both arms meet faults that start there, they meet the same
  (`FreshFaultsPair`), so without persistent families the check cannot fail
  (`PairCheckWithoutPersistence`).
* **FullReplan** (`agent/recovery.py:216`).  The method pairs the rule detector,
  which proposes only retries, with an operator set without them: the proposal
  becomes ABSTAIN, so full_replan never replans, and notes an exhausted budget
  on its first detection.  The refused proposal is charged like a granted one
  (lines 233-234): one unit of three is spent in the trace when it stops.  Under every other method the note is true
  (`StoppingMeansExhausted`).
* **RepeatedWrite** (`faults/proxy.py:62`).  A write reported as timed out has
  taken effect; its retry adds a second version or event and the digest check
  rejects the episode, which `envs/servers.py` says must not happen.  The second
  write is all that is punished: an episode that wrote once and has a result for
  each step succeeds, whatever overt faults and recovery it has been through
  (`OnlyRepeatedWritesArePunished`).
* **StaleRename** (`agent/policy.py:112`).  Giving up a step keeps its rename,
  which is then applied to the next step's tool; that tool never drifted and
  refuses it.  With one retry or more, drifts alone give up no step, and the claim
  holds (`DriftAloneSparesOtherTools`).
* **AdapterCrash** (`agent/recovery.py:168`).  A history whose unit a P5 fault
  removed raises out of the adapter, and out of the run.  No other family can make
  it do so (`OnlyP5MakesAdaptersRaise`).
* **TruncatedResult** (`eval/harness.py:152`).  The result file is opened before it
  is written and `skip_existing` asks only whether it exists: a worker killed in
  between leaves a file every later launch counts as done and no reader can
  parse, where lines 11-12 call the layout idempotent.  It is, as long as no worker
  is killed (`WithoutKillsSkippedIsRecorded`): an episode that raises, a limit or
  a relaunch does no harm.

Seen while modelling, and part of the model, without a run of their own.  Of the
scheduler, the comments at `faults/injector.py:22-23` and 107 say that a latched P3 or
P4 keeps firing for the "ORIGINAL tool only" and that the latch holds the "first
turn, tool it latched on"; the code writes the latch at each fresh start, so a drift
that starts anew on a second tool takes the latch with it and no longer lasts on the
first (`LatchIsLastStart`, whose mutant `DecideKeepsFirstLatch` is what the comments
describe).  A transient family can be drawn again on the retry meant to clear
it; `recovery_actions` counts refused steps too; a fault on a recovery call is
in the episode's events but in no turn record; `_reconcile` compares a reading
with a history in their own shapes, so it always disagrees; a sentinel threshold
above the loop's turns "nothing is wrong" into a retry; `reset_episode` clears
the drift of every episode that shares the proxy.

Of the servers and the chat plumbing:

* `envs/mutators.py:21-23` says that "an inapplicable silent family never 'fires' as a
  no-op and never pollutes the fault-present labels".  Applicability is by operation
  and not by result, and a fault that fires can be a no-op: `SilentNoOps` lists where,
  and that it is nowhere else.  S1 does nothing to an entry with one version, which
  the agent has just made, to an event that never moved, a page with an equal older
  snapshot, a reading equal to one of those staleness reaches, a list of one number;
  S2 to a text without a run of three digits, a value that is no integer, the index
  page, an event whose hours the day's end clamps, a value that is the same in both units;
  S3 to what is empty already: a listing, a search, a scan, the links of a page,
  a calendar day, the free slots of a full one, statistics of nothing; S4 to a number
  so small that the perturbation rounds back, an hour at an end of the day, a day
  without events.  `tests/test_silent_faults_are_wellformed.py` asks that each family
  changes one operation's result at least, and the audit (`envs/audit.py:91-93`)
  skips the samples that nothing changed.
* What a server raises that is not a `ToolError` ends the process: a `cal.create`
  at a start such as "9:30" makes every later `cal.free` of its day raise, and S2
  and S4 on its listing; so do a division by zero in `compute.calc`, numerals
  that are none, and a call whose "arguments" are text (`agent/policy.py:254`).
* `cal.free` looks at the hour an event starts in, however long it lasts.
* An observation that does not fit the window with its call alone is dropped, and
  the model is shown the task without it.

Of the files and the analysis:

* `analyze` reads the anchor before the pair check and the other arm after it, so
  what is compared need not be what was checked while workers are writing.
  With no worker writing it is, for every call both records have a fault of
  (`GoRestsOnCheckedPairs`).
* Pairs are keyed by episode id, which has no fault configuration in it
  (`eval/harness.py:8`), and `configs/runs/rq1.yaml` runs `clean` and `mixed_r15` into
  one arm: of the records of one id the comparison takes the last that the directory
  walk meets, so a pair can be of a clean and a faulted episode, which no check
  tells.  An arm is found by a part of its directory's name, the last such directory
  is taken.
* Profile and turn limit are in a record and not in its path
  (`eval/harness.py:121-124`): the second of two runs that differ in nothing else skips
  the first's records as its own, or writes over them.
* Two workers that have one episode in hand write one file, and what is left may be
  neither's record (`Written`).
* The shard's path has no teacher (`data/generate.py:31`), so "each writes its own
  JSONL shard so nothing needs a shared writer" (lines 3-4) holds for one teacher in a
  directory.  A second one that runs later overwrites the first's shard; two at once
  write over each other.  `scripts/gen_data.slurm` gives each cell a directory of its
  own and all of them one teacher, so that it does not happen there.
* A shard that a kill or an unreadable source cut short has nothing that tells it from
  a whole one; only the exit status of its worker does.
* REFRAME is also the verdict for a gap that is not a number and for a
  significant gap of three points or less, not only when "every CI covers zero".

## 5. What is proved

| module | proves the properties of | for every |
|---|---|---|
| `PairedScheduleProofs`, on `FaultSchedulerProofs` | PairedArms, all five | set of episodes and tools, list of families in any priority order, cap, override, bound |
| `ProxyCallerProofs`, on `FaultProxyProofs` | ProxySensor, all four | set of catalogued tools, configuration, number of calls |
| `AgentLoopProofs`, `EpisodeProofs` | EpisodeBaselines and EpisodeRecovery, all safety | set of tasks and methods, configuration, limit |
| `HarnessProofs` | ResultFiles, all safety | joblist, workers, kills, launches, outcomes of the episodes |
| `ToolSessionProofs` | ToolSession, all four | seed, set of arguments, number of turns, window and message sizes |

Besides, for each violation of section 4 these modules prove under which
condition the claim does hold (the last table).

| theorem | states |
|---|---|
| `TypeCorrect` | `Spec => []TypeOK` of `PairedSchedule` |
| `CapCountsFaultsStarted` | `Spec => []CountIsFaultsStarted` |
| `LatchReconstructible` | `Spec => []LatchIsLastStart` |
| `ServerWideFaultsPersist` | `Spec => []ServerWideFaultLasts` |
| `PairedReplay` | `Spec => []SameCallsSameFaults` |
| `ProxyTypeCorrect` | `Spec => []TypeOK` of `ProxyCaller` |
| `RenamesStayUsable` | `Spec => []AdaptedCallerIsServed` |
| `LastingDriftsAreReadable` | `ProxyPerEpisode` gives `Spec => []LatchedDriftIsAdvertised` |
| `LogsStayWithinCap` | `Spec => []ReportedWithinCap` |
| `CoordinatesFresh` | `Spec => []CoordinatesAreUsedOnce` |
| `FaultsReported` | `Spec => []EveryFaultIsReported` |
| `RecoveryIsBounded` | `Spec => []RecoveryCallsWithinBudget` |
| `KeepsLedgerSafely` | `AgentLoop`'s `Spec` implies `EpisodeLedger`'s initial condition and `[][LedgerNext]_ledger`, under the mapping `Ledger` |
| `EpisodeTypeCorrect` | `Spec => []TypeOK` of `AgentLoop` |
| `ResultsKeepToPlan` | `Spec => []ResultsFollowPlan` |
| `RecordsMissOnlyRecovery` | `Spec => []RecordsMissRecoveryFaultsOnly` |
| `OvertFaultsDoNotMislead` | `Spec => []OvertFaultsNeverMislead` |
| `PolicyAnswersInTime` | `Spec => []PolicyGetsToAnswer` |
| `BoundedFaultsDoNotPrevail` | `Spec => []BoundedFaultsAreOutlasted` |
| `DriftDoesNotPrevail` | `FiveTurns` gives `Spec => []DriftAloneIsSurvivable` |
| `CleanEpisodesDoSucceed` | `ThreeTurns` gives `Spec => []CleanEpisodesSucceed` |
| `ReadableRecordsAreKept` | `Spec => RecordsAreKept` |
| `ResultsArePrefixes` | `Spec => []ResultsAreAPrefix` |
| `DamageIsBoundedByKills` | `Spec => []DamageWithinKills` |
| `ShardsAreOfTheirCell` | `ShardsAreOfOneCell`, `TagsTellConfigsApart` give `Spec => []ShardsHoldTheirCell` |
| `GoRestsOnCheckedPairsAlways` | `Spec => []GoRestsOnCheckedPairs` |
| `SessionTypeCorrect` | `Spec => []TypeOK` of `ToolSession` |
| `AcknowledgedWritesDoLast` | `Spec => []AcknowledgedWritesLast` |
| `PromptsKeepTheLatest` | `Spec => []PromptKeepsTheLatest` |
| `SilentNoOpsAreThese` | `Spec => []SilentNoOps` |
| `AnalysisTypeCorrect` | `Spec => []TypeOK` of `Rq1` |

| theorem | states, as an invariant of `Spec` |
|---|---|
| `FreshFaultsPair` | `NoneLasting => PairCheckPasses` |
| `PairCheckWithoutPersistence` | no configured family is persistent `=> PairCheckPasses` |
| `StoppingMeansExhausted` | `method # "full_replan" => StopMeansExhausted` |
| `OnlyRepeatedWritesArePunished` | no silent family has struck and `Len(stored) <= 1` `=> RecoveryIsNotPunished` |
| `DriftAloneSparesOtherTools` | only P3 has struck, `MaxRetries > 0`, `method # "guardlite"` `=> DriftSparesOtherTools` |
| `OnlyP5MakesAdaptersRaise` | P5 has not struck `=> AdaptersNeverRaise` |
| `WithoutKillsSkippedIsRecorded` | `kills = 0 => SkippedIsRecorded` |

### What they rest on

Assumptions: `ConfigAssumption` (families are a sequence of taxonomy families,
the cap and the number of turn keys are naturals, the override is a lifetime or
none), `ArmsAssumption` (`MaxArms` is a natural, an arm makes at most `MaxCalls` calls), `BudgetAssumption` and
`LoopAssumption` (the limits are naturals), `HarnessAssumption` (slices have a
length; limits, kills and relaunches are naturals), `JobsAssumption` (there
are finitely many jobs, and `poison` is a set of them), `WalksAssumption` (a walk meets
no two files at once), `ToolsAssumption` (tools
are catalogued), `OfferedAssumption` (the proxy offers what the plans and the
substitutes of recovery call), `SeedAssumption` (what `reset` builds for any
seed), `ArgAssumption` (arguments have the types the operations expect of them;
an hour, version or number that cannot be read is among them), `PathAssumption` (a path is a sequence), `ChatAssumption` and
`MaxTurnsAssumption` (sizes are naturals, and there is a turn).  TLC evaluates
them all.

Four theorems have a hypothesis that the code meets in its own use and a
configuration could break:

* `ProxyPerEpisode`: one episode.  `run_episode` builds a proxy for each; on a
  shared one, `reset_episode` of another episode forgets the drift and the latch
  stays.
* `FiveTurns` (two turns for each of two steps and one to answer in) and
  `ThreeTurns` (one for each): `LoopConfig.max_turns` is 12 unless set.
* `ShardsAreOfOneCell`: `generate` asks `run` for a slice of one environment
  without a limit; `TagsTellConfigsApart`: `model_tag` folds no two configs of the
  joblist into one.

### The argument

*The scheduler.*  `FirstHit` says that a non-empty set of positions has a least
one, so the priority choice is a configured family; `LeastNatural` gets the least
number from the well-foundedness of inclusion among the finite sets `1 .. i`.  `DecisionForms` then splits `decide` into
three outcomes, nothing, a lasting fault, a fresh one, each with what it
implies, and `DecideForms` adds what each leaves behind; every later proof goes
by these cases and never opens `decide` again.

* The count is inductive with `TypeOK`: the calls at which a fault started gain
  the new call exactly when the event is fresh, which is when `decide` counts.
* `LatchIsLastStart` is inductive with `TypeOK`: a fresh start is the last one,
  a lasting fault starts nothing.
* `ServerWideFaultLasts` is not inductive: it does not say that the fault is
  still latched when the next call comes.  `FeltFaultsAreLatched` does, for
  fresh and lasting faults alike.
* `SameCallsSameFaults` is not inductive either: the agreement of two logs says
  nothing of the present books, nor of the PRF.  The strengthening `Replayable`
  says that each record of a log is `Outcome` of the books before it and of the
  draw *on record* for its coordinate, that the present books are those the last
  record left, and that logs stay within the turn keys.  `DecisionFromBook` and
  `DecideFromBook` rewrite `decide` as a function of the episode's own books
  (so other episodes cannot disturb it), `DrawsAreKept` says that a draw once
  recorded stays.  A new call then has the same books before it as the first
  arm's, by the agreement on the calls before, and the same draw.
* `PairCheckPasses` compares arms whose earlier calls differ.  `Replayable` still
  gives what it needs: a fresh event is of the first family drawn at its
  coordinate (`FreshIsFirstDrawn`), whatever the books before, and the draw on
  record is the same for both arms (`FreshPair`).

*The proxy.*  `FaultedForms` goes once through what each family makes of a
response, `ResponseForms` and `CallToolForms` say what a caller can tell: damage
is a fault's or was asked for, a hint is a drift's and names the parameter that
was renamed, one event at most is kept of a call.  `AdaptedCallerIsServed` speaks
of the last exchange only; `ToldIsDrifted`, that a rename once told is of a tool
still in `drift` unless a reset forgot both, makes it inductive.

*The loop's accounts.*  `LoopSteps` folds the thirteen actions into seven kinds of
step by what they do to `pc`, the turns and the accounts.  Coordinates and reports
are then inductive almost as they stand (`Numbered` adds that indices are
numbers; `ReportedCall` is a call through the proxy with the report its place in the
loop makes of it, `ReportPolicyFault` or `ReportRecoveryFault`, which the proof takes
one by one).  The budget is not: `Charged` adds where `pc` may be, that a turn
has begun when a call is decided, that a verdict comes with `done` only, and
that the policy's calls are among those made.  `Charged` also carries the
refinement: a policy call has turns left, a recovery call follows one and has
budget left.

*What an episode ends in.*  All of it stands on `EpisodeInv`: the types,
`ResultsFollowPlan`, `Charged`, `OnPlan` (the call in hand is the plan's next, and
what answers it is that tool's, which needs recovery's substitutes to be adapted
back) and `Paced` (at most two calls a turn, so that coordinates do not run out).
What the proofs know of the suite is `PlanFacts`: plans have one or two steps, read
from earlier ones, write in the last.  Each outcome then has an invariant of its own:

* `Truthful`, while no silent family has struck: no result or response has a wrong
  field (a lost one it may), the call's arguments are right, and so is an answer
  that is given.  Recovery is the hard part: a
  substitute or a second opinion is a call of its own, which another fault may strike.
* `Spared`: turns are at most those of the steps that are over and of the retries of
  the one in hand.  Giving up a step takes its retries first, which is why
  `PolicyGetsToAnswer` needs a turn for every retry of every step.
* `Survivable => Sound`, for faults that leave results alone: every step so far has
  its result (`Whole`), a rename in force is the next tool's and that tool has
  drifted (`Helped`), calls are right and spelled with it (`InHand`), a failure
  is a fault's (`Answered`), and turns and retries are paid for by faults
  (`Afforded`), so that no step is given up.  With `Spared` and enough turns this
  gives `BoundedFaultsAreOutlasted`; `Afforded` says more of drifts, which cost a
  step one retry at most, whence `DriftAloneIsSurvivable`.
* `Spotless`, while nothing was fired: nothing is proposed, hence nothing repeated,
  and a writing task has written exactly once when its last step is over.
* `Recorded`: the faults that turn records lack are at most recovery's calls, and,
  within a turn, the policy's own.
* `Deposited`, while no silent family has struck: what the writes left is right, and
  there is something as soon as a write has been answered, in a result or in the
  response still to be observed.  It leans on `Truthful` for the arguments.  At
  the end the last step, which writes, has been answered, so that the state can
  differ from that of a clean episode by a repeated write only.
* `Unstopped` and `Adapting` are what the stop and the crash need at the place before
  them: that no detector proposes to stop and only full_replan's set of operators
  falls back on it, and that no family but P5 leaves a history its readings and
  takes its unit (`OnlyP5TakesTheUnit`).  `DriftSparesOtherTools` is read off `Sound`:
  an answer is missing only where the call was spelled as before the drift.

*The files.*

* For the files, `WorkersInv` is inductive: besides the types it says that a worker
  with a record in hand or a file open is at a position of its slice
  (`WriterInSlice`), and that if this position is resumable the record is not at
  the path yet (`HoleBeforeWriter`).  Without the latter a record could be
  rewritten by a worker that found it missing earlier.  `OwnFileStep` says that a
  file at a path of its own is changed only by its worker, at that position.
* `ResultsAreAPrefix` needs `SliceInv`: `n_done` counts the positions passed, each
  passed one has its file, the loop is left only at the end or the limit, and
  what is being written is within the limit and did not raise.
* `DamageWithinKills` needs that a file open at a path of its own is still empty
  (`OpenIsEmpty`), so that its writer leaves it readable: the files that are spoiled
  for good are then those that a kill left, and `DamageGrows` says that a step adds one at most, a kill.  That there
  are finitely many to count is `FinitePaths`.
* `ShardsHoldTheirCell` needs that the positions a worker has passed have a file and
  that it leaves its slice at the end or the limit (`Passed`), that what is
  readable is the record of a job of that path (`RecordAtItsPath`), that only a
  worker that makes a shard concatenates, and is among those `by` names
  (`OnlySharders`), and, while it is alone at the shard, that each of its resumable
  positions is a line already or a source still to copy (`Copied`).  `OwnShardStep`
  says what a step of its own does to that, `OthersAndTheShard` what another's: to the
  lines nothing, or `by` is no longer it alone.  The hypothesis on tags keeps other
  configs' records out.
* `SkippedIsRecorded`, without kills: by `DamageGrows` nothing is spoiled for good
  then, and what is unreadable is open, by the one worker whose path it is.
* `GoRestsOnCheckedPairs` is strengthened to `CheckedInv`: as long as `quiet` holds, the
  anchor's table has the records met last (`BaseIsLast`), and between the check and the
  comparison the last records of each id agree (`LastOnesAgree`).  The step that needs
  an argument is the check: `FamilyAt` of a call that the last record of an id faults
  is the family that record has (`FamilyOfTheLast`), and there is one last record
  (`OneIsMetLast`, `OnlyOneIsMetLast`), whence `PairedAgree`.

*The session.*  `CallKinds` says that a call reads, and changes nothing, or is one of
six writes.  An acknowledged write is in `Kept`: the version it was given is among
those its entry has had, with its value.  That needs `ServerShape`: versions are
counted by length and only appended to (`AppendedFacts`), ids lie behind the
counter that gives them out, so no entry is written over, and one that was deleted
is no longer counted as kept.  `KeptHolds` reads the listings off it.
For the prompt, `TruncateFacts` says that the fewest pairs are dropped which leave
what fits (`MinOfNaturals`), `WithoutFacts` that dropping pairs leaves a chat, and
`ChatGrows` that a reply is always generated from whole pairs.  `Fits` is never
opened: the proof holds for any measure of what fits, and needs no monotonicity.

`SilentNoOps` speaks of the present state only, but of all that a family can
make of a result in it.  `ServerShape` gives what must hold of the state: versions
are numbered by their place, a calendar event's history does not hold its present
start.  The rest is arithmetic, both ways, one lemma a server (`FilesNoOps`,
`ValuesNoOps`, `PagesNoOps`, `EventsNoOps`, `ReadingsNoOps`, `ResultsNoOps`):
`PercentFacts` bounds what the rounding of a percentage leaves, so that a number of 17
or more is moved by at least 1 and one below can stay (`PerturbedMoves`,
`PerturbedSizeFacts`), `ShiftMoves` that an hour inside the day is not clamped back,
`StaleStepsAsDrawn` that a history as long as the sensor's clips no step, and
`KindFacts` that no reading within its kind's range is the same in the wrong unit.

### Only model-checked

* Liveness: `Termination`, `WorkersStop`, and the fairness in `KeepsLedger`.  Liveness
  under fairness and `ENABLED` are outside the prover's reach, and so would be
  what a recursive definition computes for every input.
* The disagreements of section 4, which are counterexamples; what holds in their
  place is proved.

## 6. What is not modelled, and why

* Values of payloads, answers and arguments in `AgentLoop`: a field is right, wrong
  or absent.  A wrong field may lead to a wrong answer, none, or the right one;
  the answer's stack machine is not run.  The servers and mutators have their
  values in `ToolServers` and `SilentMutators`, apart from the loop: the product
  is out of TLC's reach.
* Floats beyond their hundredths, and the digits of a text beyond the runs of digits it
  has: S4 of a float is counted in hundredths, S2 of a text tells which run it took.
* Latencies: R1 and R2 change no payload; whether a response is slow enough to
  alarm the rule detector is a free choice once there is a window to judge by.
* R3 does not reset a server in the source; it is a failed call like the others.
* The learned sentinel's features, weights and training: any prediction is allowed.
* The scripted policy's synthetic decoder statistics; token, time and energy
  budgets, which the source never charges.
* The two chat back ends, the grammar `make_policy` builds and the decoder statistics:
  they drive libraries; a reply may be anything.
* The bootstrap (any interval), `holm_correct`, `paired_wilcoxon`, `rcg_by_family`, energy and
  detection metrics, which nothing in the source calls, and `make_tables`, which
  is layout.
* Compression tooling drives an external converter, or raises
  `NotImplementedError`.  Its one piece of control, reusing an F16 file that
  exists, has the hazard of the result files and no more to it.
* The mutation audit samples into a report for a human; what it asks by sampling is
  what `SilentNoOps` answers.  Its bound on tries (`envs/audit.py:98`) is looked at
  only after a sample that counts; the six seeded servers always offer one.
* Reading an arm's files is one step of the analysis, making a directory one with
  opening the first file in it: a worker's write in the middle of a directory walk
  is not told from one before or after it.
* Edge profiles, which raise `NotImplementedError`, and the command line.

## 7. What could follow

A proxy shared between episodes has no use in the source yet; if it gets one,
`reset_episode` (`faults/proxy.py:128`) is what to model again, and
`LastingDriftsAreReadable` loses its hypothesis.  Whether the numbers each task
reads are among those that `SilentNoOps` lets a fault leave is a question about
what `reset` draws, which the seed's assumptions do not bound.  The scheduler's part of `EpisodeProofs` assumes one family
drawn at a call, as `AgentLoop` does; `FaultSchedulerProofs` does not need it.
