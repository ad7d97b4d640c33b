---------------------------- MODULE ToolServers ----------------------------
(***************************************************************************)
(* The six tool servers (envs/servers.py): the state each keeps and what   *)
(* each operation does to it.  An episode has one of them (eval/harness).  *)
(* Numbers, sizes and hours are kept; of a text, what a search finds in it *)
(* and how many of its digit runs a locale could misread.  Entries carry   *)
(* their history, which is what the silent faults of SilentMutators serve. *)
(***************************************************************************)
EXTENDS Integers, Sequences, SequencesExt

CONSTANTS
  Seed,   \* what reset() builds: files, store, events, nextId, devices, their kinds
          \* and readings, pages
  Arg     \* what callers pass, by server: see the operations

\* Text where int() or float() wants a numeral; hours are read from two digits,
\* so "9:30" is one.
Unreadable == -1

NReadings == 24

\* What files and keys hold, as reset() builds them and as they are written.
Contents == {w.content : w \in Arg.fs.writes}
              \cup UNION {Range(Seed.files[path]) : path \in DOMAIN Seed.files}
Values == {w.value : w \in Arg.kv.writes}
            \cup UNION {Range(Seed.store[key]) : key \in DOMAIN Seed.store}

\* "runs" counts the digit runs a locale could misread, "misread" tells which one
\* was, if one was.
Texts == [size : Nat, runs : Nat, misread : {0}, words : SUBSET STRING]
TypedValues == [kind : STRING, n : Int]
Bodies == [kind : {"item", "article", "index"}, runs : Nat, misread : {0}, n : Int, length : Nat]

\* What reset() guarantees of each server's entries, whatever the seed: at least
\* two versions, for S1 to have a history; and of an event its prior start.
FilesAsReset ==
  /\ Seed.files \in [DOMAIN Seed.files -> Seq(Contents)]
  /\ \A path \in DOMAIN Seed.files : Len(Seed.files[path]) \in 2 .. 3
StoreAsReset ==
  /\ Seed.store \in [DOMAIN Seed.store -> Seq(Values)]
  /\ \A key \in DOMAIN Seed.store : Len(Seed.store[key]) \in 2 .. 4
PagesAsReset ==
  /\ Seed.pages \in [DOMAIN Seed.pages -> Seq(Bodies)]
  /\ \A url \in DOMAIN Seed.pages : Len(Seed.pages[url]) \in 2 .. 3
EventsAsReset ==
  /\ Seed.nextId \in Nat /\ DOMAIN Seed.events \subseteq Nat
  /\ \A id \in DOMAIN Seed.events : LET event == Seed.events[id] IN
       /\ id < Seed.nextId
       /\ event.start \in {9, 10, 11, 13, 14, 15, 16} /\ event.end = event.start
       /\ \E by \in 1 .. 3 : event.history = <<Max({event.start - by, 8})>>

\* _KINDS, in hundredths: a reading lies within sig of mu.
Kinds == [temp     |-> [mu |-> 1800, sig |-> 600],  humidity |-> [mu |-> 4500, sig |-> 1500],
          pressure |-> [mu |-> 101300, sig |-> 800], light   |-> [mu |-> 30000, sig |-> 15000]]
Within(mu, sig) == mu - sig .. mu + sig
SensorsAsReset ==
  \A device \in Seed.devices : LET kind == Seed.kinds[device] IN
    /\ kind \in DOMAIN Kinds
    /\ \A k \in 1 .. NReadings :
         Seed.readings[device][k] \in Within(Kinds[kind].mu, Kinds[kind].sig)

\* Paths are sequences of components.
ASSUME PathAssumption == \A w \in Arg.fs.writes : w.path \in Seq(Range(w.path))

\* Numbers are numbers; text where one is wanted is Unreadable.
ASSUME ArgAssumption ==
  /\ Contents \subseteq Texts /\ Values \subseteq TypedValues
  /\ \A w \in Arg.cal.writes : w.start \in Int /\ w.end \in Int
  /\ Arg.compute.numbers \subseteq Int /\ Arg.compute.lists \subseteq Seq(Int)
  /\ Arg.sensor.counts \subseteq Int
  /\ \A e \in Arg.compute.expressions : e.n \in Int

ASSUME SeedAssumption ==
  FilesAsReset /\ StoreAsReset /\ PagesAsReset /\ EventsAsReset /\ SensorsAsReset

VARIABLES
  env,     \* the server of the episode
  files,   \* fs: by path, the contents it has had
  store,   \* kv: by key, the values it has had
  events,  \* cal: by id
  nextId,  \* cal: _next
  alarms,  \* sensor: by device, the threshold that was set, if one was
  reply    \* to the last call

entries == <<files, store, events, nextId, alarms>>
serverVars == <<env, entries, reply>>

\* A result, a ToolError that reaches the caller in an envelope, or an exception
\* that nothing between the server and the process catches.  "made" is the entry
\* a write acknowledges, "gone" the keys whose entries it ends.
Result(made, gone) == [status |-> "result", made |-> made, gone |-> gone]
Answered == Result({}, {})
Refused == [Answered EXCEPT !.status = "error"]
Raised == [Answered EXCEPT !.status = "raised"]

Entry(key, version, value) == [key |-> key, version |-> version, value |-> value]

Statuses == {"result", "error", "raised"}

\* A call that reads.
Answer(answer) ==
  /\ reply' = answer
  /\ UNCHANGED <<env, entries>>

\* Reads give a set: the result, or nothing when it is a ToolError.
OrRefused(found) == IF found = {} THEN Refused ELSE Answered

\* An unknown method, another server's tool, or parameters the operation does
\* not have: call_tool turns the TypeError into a ToolError.
Misaddressed == Answer(Refused)

-----------------------------------------------------------------------------
(* fs.  A path is the sequence of its components. *)

FsListed(dir) == {path[Len(dir) + 1] : path \in {p \in DOMAIN files : IsStrictPrefix(dir, p)}}

FsRead(path) ==
  IF path \in DOMAIN files
  THEN {[content |-> Last(files[path]), version |-> Len(files[path])]} ELSE {}

FsStat(path) ==
  IF path \in DOMAIN files
  THEN [exists |-> TRUE, size |-> Last(files[path]).size, version |-> Len(files[path])]
  ELSE [exists |-> FALSE, size |-> 0, version |-> 0]

FsFound(word) == {path \in DOMAIN files : word \in Last(files[path]).words}

FsReads ==
  /\ env = "fs"
  /\ \/ \E path \in Arg.fs.paths : Answer(OrRefused(FsRead(path)))
     \/ Answer(Answered)  \* stat, list and search
     \/ Answer(Raised)    \* rstrip() of list and lower() of search, of what is no text

\* Both kinds of store: the versions an entry has had, oldest first.
Appended(history, key, value) ==
  [k \in DOMAIN history \cup {key} |->
     IF k # key THEN history[k]
     ELSE IF key \in DOMAIN history THEN Append(history[key], value) ELSE <<value>>]

FsWrite(path, content) ==
  /\ env = "fs"
  /\ files' = Appended(files, path, content)
  /\ reply' = Result({Entry(path, Len(files'[path]), content)}, {})
  /\ UNCHANGED <<env, store, events, nextId, alarms>>

-----------------------------------------------------------------------------
(* kv.  A key is a namespace and a name; a value has a kind and a number. *)

KvGet(key) ==
  IF key \in DOMAIN store
  THEN {[value |-> Last(store[key]), version |-> Len(store[key])]} ELSE {}

KvGetv(key, version) ==
  IF key \in DOMAIN store /\ version \in DOMAIN store[key]
  THEN {[value |-> store[key][version], version |-> version]} ELSE {}

KvScanned(namespace) == {key \in DOMAIN store : key[1] = namespace}

KvReads ==
  /\ env = "kv"
  /\ \/ \E key \in Arg.kv.keys :
          \/ Answer(OrRefused(KvGet(key)))
          \/ \E version \in Arg.kv.versions : Answer(OrRefused(KvGetv(key, version)))
     \/ Answer(Answered)  \* scan

KvSet(key, value) ==
  /\ env = "kv"
  /\ store' = Appended(store, key, value)
  /\ reply' = Result({Entry(key, Len(store'[key]), value)}, {})
  /\ UNCHANGED <<env, files, events, nextId, alarms>>

\* Mutant: the values go, the key stays.
KvDeleteEmptied(key) ==
  /\ env = "kv"
  /\ store' = IF key \in DOMAIN store THEN [store EXCEPT ![key] = <<>>] ELSE store
  /\ reply' = IF key \in DOMAIN store THEN Result({}, {key}) ELSE Refused
  /\ UNCHANGED <<env, files, events, nextId, alarms>>

\* The history goes too: a key that is set again starts at version 1.
KvDelete(key) ==
  /\ env = "kv"
  /\ store' = Restrict(store, DOMAIN store \ {key})
  /\ reply' = IF key \in DOMAIN store THEN Result({}, {key}) ELSE Refused
  /\ UNCHANGED <<env, files, events, nextId, alarms>>

-----------------------------------------------------------------------------
(* http.  A recorded page has its snapshots, the newest last; nothing writes. *)

Pages == Seed.pages

HttpFetch(url) == IF url \in DOMAIN Pages THEN {[body |-> Last(Pages[url])]} ELSE {}
HttpHead(url) == IF url \in DOMAIN Pages THEN {[length |-> Last(Pages[url]).length]} ELSE {}

\* Every recorded page, on the index; no other page has links.
HttpLinks(url) ==
  IF url \in DOMAIN Pages
  THEN {[links |-> IF Last(Pages[url]).kind = "index" THEN DOMAIN Pages ELSE {}]} ELSE {}

HttpReads ==
  /\ env = "http"
  /\ \E url \in Arg.http.urls :
       \/ Answer(OrRefused(HttpFetch(url)))
       \/ Answer(OrRefused(HttpHead(url)))
       \/ Answer(OrRefused(HttpLinks(url)))

-----------------------------------------------------------------------------
(* cal.  Times are kept to the hour; "history" is the prior start, if any. *)

CalOn(day) == {id \in DOMAIN events : events[id].day = day}

CalListed(day) ==
  [id \in CalOn(day) |-> [start |-> events[id].start, end |-> events[id].end]]

CalGet(id) ==
  IF id \in DOMAIN events
  THEN {[start |-> events[id].start, end |-> events[id].end]} ELSE {}

\* An hour is taken if an event starts in it, however long one lasts.
CalFree(day) == (9 .. 16) \ {events[id].start : id \in CalOn(day)}
CalFreeRaises(day) == \E id \in CalOn(day) : events[id].start = Unreadable

CalReads ==
  /\ env = "cal"
  /\ \/ \E id \in Arg.cal.ids : Answer(OrRefused(CalGet(id)))
     \/ \E day \in Arg.cal.days : Answer(IF CalFreeRaises(day) THEN Raised ELSE Answered)
     \/ Answer(Answered)  \* list

\* Mutant: ids are given out by the number of events there are.
CalCreateByCount(day, start, end) ==
  LET event == [day |-> day, start |-> start, end |-> end, history |-> <<>>]
      id    == 100 + Cardinality(DOMAIN events)
  IN  /\ env = "cal"
      /\ nextId' = nextId + 1
      /\ events' = (id :> event) @@ events
      /\ reply' = Result({Entry(id, 1, event)}, {})
      /\ UNCHANGED <<env, files, store, alarms>>

CalCreate(day, start, end) ==
  LET event == [day |-> day, start |-> start, end |-> end, history |-> <<>>]
  IN  /\ env = "cal"
      /\ nextId' = nextId + 1
      /\ events' = [id \in DOMAIN events \cup {nextId} |->
                     IF id = nextId THEN event ELSE events[id]]
      /\ reply' = Result({Entry(nextId, 1, event)}, {})
      /\ UNCHANGED <<env, files, store, alarms>>

CalDelete(id) ==
  /\ env = "cal"
  /\ events' = Restrict(events, DOMAIN events \ {id})
  /\ reply' = IF id \in DOMAIN events THEN Result({}, {id}) ELSE Refused
  /\ UNCHANGED <<env, files, store, nextId, alarms>>

-----------------------------------------------------------------------------
(* sensor.  A reading is a pure function of the device and its index, 1 for  *)
(* the oldest: its value, rounded to hundredths and kept in ten-thousandths, *)
(* and its time.                                                             *)

Reading(device, k) == [value |-> 100 * Seed.readings[device][k], at |-> k]

SensorRead(device) ==
  IF device \in Seed.devices THEN {Reading(device, NReadings)} ELSE {}

\* The last n readings, oldest first; n is clipped.
SensorHistory(device, n) ==
  IF device \in Seed.devices
  THEN LET last == Max({1, Min({n, NReadings})})
       IN  {[i \in 1 .. last |-> Reading(device, NReadings - last + i)]}
  ELSE {}

SensorReads ==
  /\ env = "sensor"
  /\ \/ \E device \in Arg.sensor.devices :
          \/ Answer(OrRefused(SensorRead(device)))
          \/ \E n \in Arg.sensor.counts :
               Answer(IF device \in Seed.devices /\ n = Unreadable THEN Raised
                      ELSE OrRefused(SensorHistory(device, n)))
     \/ Answer(Answered)  \* list

\* float() comes before the assignment.
SensorAlarm(device, threshold) ==
  /\ env = "sensor"
  /\ IF device \notin Seed.devices THEN Answer(Refused)
     ELSE IF threshold = Unreadable THEN Answer(Raised)
     ELSE /\ alarms' = [alarms EXCEPT ![device] = {threshold}]
          /\ reply' = Result({Entry(device, 1, threshold)}, {device})
          /\ UNCHANGED <<env, files, store, events, nextId>>

-----------------------------------------------------------------------------
(* compute.  Pure. *)

Fraction(num, den) == [num |-> num, den |-> den]

\* Celsius is the unit temperatures are converted through, here in 900ths of a
\* degree, so that what comes out is exact in 4500ths.
Temperatures == {"C", "F", "K"}
Celsius(value, unit) ==
  IF unit = "C" THEN 900 * value
  ELSE IF unit = "F" THEN 500 * (value - 32) ELSE 900 * value - 245835
FromCelsius(c, unit) ==
  IF unit = "C" THEN 5 * c
  ELSE IF unit = "F" THEN 9 * c + 144000 ELSE 5 * (c + 245835)

\* _LINEAR_UNITS
Linear(large, small, num, den) ==
  {[from |-> large, to |-> small, by |-> Fraction(num, den)],
   [from |-> small, to |-> large, by |-> Fraction(den, num)]}
Linears ==
  Linear("km", "m", 1000, 1) \cup Linear("s", "ms", 1000, 1)
    \cup Linear("mi", "m", 1609344, 1000) \cup Linear("kg", "lb", 2204623, 1000000)

\* The rounding to six digits, which moves no integer onto another, is left out.
Convert(value, from, to) ==
  IF from = to THEN {Fraction(value, 1)}
  ELSE IF {from, to} \subseteq Temperatures
       THEN {Fraction(FromCelsius(Celsius(value, from), to), 4500)}
  ELSE {Fraction(value * u.by.num, u.by.den) : u \in {v \in Linears : v.from = from /\ v.to = to}}

\* What an expression comes to: a number in hundredths, a node the walk does not
\* allow, or an exception of eval (a division by zero).
Calc(expression) ==
  IF expression.does = "disallowed" THEN Refused
  ELSE IF expression.does = "divides by zero" THEN Raised ELSE Answered

Aggregates == {"mean", "max", "min", "sum"}

\* The empty list has a result whatever the operation.
Stats(values, op) ==
  IF Unreadable \in Range(values) THEN Raised
  ELSE IF values # <<>> /\ op \notin Aggregates THEN Refused ELSE Answered

StatsResult(values) == [over |-> values, n |-> Len(values)]

ComputeReads ==
  /\ env = "compute"
  /\ \/ \E value \in Arg.compute.numbers \cup {Unreadable}, from, to \in Arg.compute.units :
          Answer(IF value = Unreadable THEN Raised ELSE OrRefused(Convert(value, from, to)))
     \/ \E expression \in Arg.compute.expressions : Answer(Calc(expression))
     \/ \E values \in Arg.compute.lists, op \in Arg.compute.ops : Answer(Stats(values, op))
     \/ \E a, b \in Arg.compute.numbers \cup {Unreadable} :  \* compare
          Answer(IF Unreadable \in {a, b} THEN Raised ELSE Answered)

-----------------------------------------------------------------------------
\* Any call of any operation; the proxy asks the episode's server only.
ServerCall ==
  \/ Misaddressed
  \/ FsReads \/ KvReads \/ HttpReads \/ CalReads \/ SensorReads \/ ComputeReads
  \/ \E w \in Arg.fs.writes : FsWrite(w.path, w.content)
  \/ \E w \in Arg.kv.writes : KvSet(w.key, w.value)
  \/ \E key \in Arg.kv.keys : KvDelete(key)
  \/ \E w \in Arg.cal.writes : CalCreate(w.day, w.start, w.end)
  \/ \E id \in Arg.cal.ids : CalDelete(id)
  \/ \E w \in Arg.sensor.writes : SensorAlarm(w.device, w.threshold)

Servers == {"fs", "kv", "http", "cal", "sensor", "compute"}

\* make_server: reset() of the episode's server.
ServerInit ==
  /\ env \in Servers
  /\ files = IF env = "fs" THEN Seed.files ELSE <<>>
  /\ store = IF env = "kv" THEN Seed.store ELSE <<>>
  /\ events = IF env = "cal" THEN Seed.events ELSE <<>>
  /\ nextId = IF env = "cal" THEN Seed.nextId ELSE 0
  /\ alarms = IF env = "sensor" THEN [device \in Seed.devices |-> {}] ELSE <<>>
  /\ reply = Answered

\* Whatever is called, an entry has at least one version and ids lie behind the
\* counter that gives them out.
ServerTypeOK ==
  /\ env \in Servers
  /\ \A path \in DOMAIN files : files[path] # <<>>
  /\ \A key \in DOMAIN store : store[key] # <<>>
  /\ \A id \in DOMAIN events : id < nextId /\ Len(events[id].history) <= 1
  /\ \A device \in DOMAIN alarms : Cardinality(alarms[device]) <= 1
  /\ reply.status \in Statuses

=============================================================================
