------------------------- MODULE ToolSessionProofs -------------------------
(***************************************************************************)
(* Proofs about a session of a model with its server, for every seed, every *)
(* set of arguments a model may call with, and any number of turns: what    *)
(* the servers keep of acknowledged writes, and what the model is shown.    *)
(***************************************************************************)
EXTENDS ToolSession, SequenceTheorems, FiniteSetTheorems, TLAPS

-----------------------------------------------------------------------------
(***************************************************************************)
(* The servers.                                                            *)
(***************************************************************************)

\* An event has not moved, or has moved from another hour.
EventShape(event) ==
  /\ event.start \in Int /\ event.end \in Int
  /\ event.history = <<>> \/ \E old \in Int : event.history = <<old>> /\ old # event.start

\* The entries have the shapes the operations rely on.
ServerShape ==
  /\ files \in [DOMAIN files -> Seq(Contents)]
  /\ \A path \in DOMAIN files : files[path] # <<>>
  /\ store \in [DOMAIN store -> Seq(Values)]
  /\ \A key \in DOMAIN store : store[key] # <<>>
  /\ nextId \in Nat /\ DOMAIN events \subseteq Nat
  /\ \A id \in DOMAIN events : id < nextId /\ Len(events[id].history) <= 1
  /\ \A id \in DOMAIN events : EventShape(events[id])
  /\ \A device \in DOMAIN alarms : Cardinality(alarms[device]) <= 1
  /\ env = "sensor" => /\ DOMAIN alarms = Seed.devices
                       /\ alarms = [device \in Seed.devices |-> alarms[device]]

Reads == UNCHANGED <<env, entries>> /\ reply' \in {Answered, Refused, Raised}

\* A call reads, or is one of the writes.
LEMMA CallKinds ==
  ASSUME ServerCall
  PROVE  \/ Reads
         \/ \E w \in Arg.fs.writes : FsWrite(w.path, w.content)
         \/ \E w \in Arg.kv.writes : KvSet(w.key, w.value)
         \/ \E key \in Arg.kv.keys : KvDelete(key)
         \/ \E w \in Arg.cal.writes : CalCreate(w.day, w.start, w.end)
         \/ \E id \in Arg.cal.ids : CalDelete(id)
         \/ \E w \in Arg.sensor.writes : SensorAlarm(w.device, w.threshold)
<1>1. ASSUME NEW answer \in {Answered, Refused, Raised}, Answer(answer)
      PROVE  Reads
  BY <1>1 DEF Answer, Reads
<1>2. \A found : OrRefused(found) \in {Answered, Refused, Raised}
  BY DEF OrRefused
<1>3. \A e \in Arg.compute.expressions : Calc(e) \in {Answered, Refused, Raised}
  BY DEF Calc
<1>4. \A values, op : Stats(values, op) \in {Answered, Refused, Raised}
  BY DEF Stats
<1>5. CASE Misaddressed
  BY <1>1, <1>5 DEF Misaddressed
<1>6. CASE FsReads
  BY <1>1, <1>2, <1>6, Zenon DEF FsReads
<1>7. CASE KvReads
  BY <1>1, <1>2, <1>7, Zenon DEF KvReads
<1>8. CASE HttpReads
  BY <1>1, <1>2, <1>8, Zenon DEF HttpReads
<1>9. CASE CalReads
  <2>1. CASE \E id \in Arg.cal.ids : Answer(OrRefused(CalGet(id)))
    BY <1>1, <1>2, <2>1, Zenon
  <2>2. ASSUME NEW day \in Arg.cal.days, Answer(IF CalFreeRaises(day) THEN Raised ELSE Answered)
        PROVE  Reads
    BY <1>1, <2>2
  <2>3. CASE Answer(Answered)
    BY <1>1, <2>3
  <2> QED  BY <1>9, <2>1, <2>2, <2>3 DEF CalReads
<1>10. CASE SensorReads
  <2>1. \A device, n : (IF device \in Seed.devices /\ n = Unreadable THEN Raised
                        ELSE OrRefused(SensorHistory(device, n))) \in {Answered, Refused, Raised}
    BY <1>2
  <2> QED  BY <1>1, <1>2, <1>10, <2>1, Zenon DEF SensorReads
<1>11. CASE ComputeReads
  <2>1. \A value, from, to : (IF value = Unreadable THEN Raised ELSE OrRefused(Convert(value, from, to)))
                               \in {Answered, Refused, Raised}
    BY <1>2
  <2>2. \A a, b : (IF Unreadable \in {a, b} THEN Raised ELSE Answered) \in {Answered, Refused, Raised}
    OBVIOUS
  <2> QED  BY <1>1, <1>3, <1>4, <1>11, <2>1, <2>2, Zenon DEF ComputeReads
<1> QED
  BY <1>5, <1>6, <1>7, <1>8, <1>9, <1>10, <1>11 DEF ServerCall

\* What a write makes of a history: the same versions and one more.
OneMore(history, key, value, S, new) ==
  /\ DOMAIN new = DOMAIN history \cup {key}
  /\ new \in [DOMAIN new -> Seq(S)]
  /\ \A k \in DOMAIN history : k # key => new[k] = history[k]
  /\ new[key] # <<>> /\ Len(new[key]) \in Nat \ {0} /\ new[key][Len(new[key])] = value
  /\ key \in DOMAIN history =>
       /\ Len(history[key]) \in Nat /\ Len(new[key]) = Len(history[key]) + 1
       /\ \A v \in 1 .. Len(history[key]) : new[key][v] = history[key][v]

LEMMA AppendedFacts ==
  ASSUME NEW S, NEW history, history \in [DOMAIN history -> Seq(S)],
         NEW key, NEW value \in S
  PROVE  OneMore(history, key, value, S, Appended(history, key, value))
<1> DEFINE D    == DOMAIN history
           new  == Appended(history, key, value)
           last == IF key \in D THEN Append(history[key], value) ELSE <<value>>
<1>1. /\ DOMAIN new = D \cup {key} /\ new[key] = last
      /\ \A k \in D : k # key => new[k] = history[k]
      /\ new = [k \in D \cup {key} |-> new[k]]
  BY DEF Appended
<1> HIDE DEF new
<1>2. /\ last \in Seq(S) /\ last # <<>> /\ Len(last) \in Nat \ {0} /\ last[Len(last)] = value
      /\ key \in D => /\ Len(history[key]) \in Nat /\ Len(last) = Len(history[key]) + 1
                      /\ \A v \in 1 .. Len(history[key]) : last[v] = history[key][v]
  <2>1. CASE key \in D
    <3>1. history[key] \in Seq(S) /\ Len(history[key]) \in Nat /\ last = Append(history[key], value)
      BY <2>1
    <3> HIDE DEF last
    <3>2. /\ last \in Seq(S) /\ Len(last) = Len(history[key]) + 1
          /\ last[Len(history[key]) + 1] = value
          /\ \A v \in 1 .. Len(history[key]) : last[v] = history[key][v]
      BY <3>1, AppendProperties
    <3> QED  BY <3>1, <3>2
  <2>2. CASE key \notin D
    <3>1. last = <<value>>
      BY <2>2
    <3> HIDE DEF last
    <3> QED  BY <2>2, <3>1
  <2> QED  BY <2>1, <2>2
<1> HIDE DEF last
<1>3. \A k \in D \cup {key} : new[k] \in Seq(S)
  BY <1>1, <1>2
<1>4. new \in [DOMAIN new -> Seq(S)]
  BY <1>1, <1>3
<1>5. OneMore(history, key, value, S, new)
  BY <1>1, <1>2, <1>4 DEF OneMore
<1> QED
  BY <1>5 DEF new

\* What is written has the values the histories are made of.
LEMMA WrittenValues ==
  /\ \A w \in Arg.fs.writes : w.content \in Contents
  /\ \A w \in Arg.kv.writes : w.value \in Values
<1>1. ASSUME NEW w \in Arg.fs.writes PROVE w.content \in Contents
  <2>1. w.content \in {x.content : x \in Arg.fs.writes}
    OBVIOUS
  <2> QED  BY <2>1 DEF Contents
<1>2. ASSUME NEW w \in Arg.kv.writes PROVE w.value \in Values
  <2>1. w.value \in {x.value : x \in Arg.kv.writes}
    OBVIOUS
  <2> QED  BY <2>1 DEF Values
<1> QED
  BY <1>1, <1>2

\* Every call leaves the entries in shape.
LEMMA ShapeCall ==
  ASSUME ServerShape, ServerCall
  PROVE  ServerShape'
<1>1. CASE Reads
  BY <1>1 DEF Reads, entries, ServerShape
<1>2. ASSUME NEW w \in Arg.fs.writes, FsWrite(w.path, w.content)
      PROVE  ServerShape'
  <2>1. /\ files' = Appended(files, w.path, w.content)
        /\ UNCHANGED <<env, store, events, nextId, alarms>>
    BY <1>2 DEF FsWrite
  <2>2. files \in [DOMAIN files -> Seq(Contents)] /\ w.content \in Contents
    BY WrittenValues DEF ServerShape
  <2>3. OneMore(files, w.path, w.content, Contents, files')
    BY <2>1, <2>2, AppendedFacts, Zenon
  <2>4. \A path \in DOMAIN files' : files'[path] # <<>>
    BY <2>3 DEF ServerShape, OneMore
  <2> QED  BY <2>1, <2>3, <2>4 DEF ServerShape, OneMore
<1>3. ASSUME NEW w \in Arg.kv.writes, KvSet(w.key, w.value)
      PROVE  ServerShape'
  <2>1. /\ store' = Appended(store, w.key, w.value)
        /\ UNCHANGED <<env, files, events, nextId, alarms>>
    BY <1>3 DEF KvSet
  <2>2. store \in [DOMAIN store -> Seq(Values)] /\ w.value \in Values
    BY WrittenValues DEF ServerShape
  <2>3. OneMore(store, w.key, w.value, Values, store')
    BY <2>1, <2>2, AppendedFacts, Zenon
  <2>4. \A key \in DOMAIN store' : store'[key] # <<>>
    BY <2>3 DEF ServerShape, OneMore
  <2> QED  BY <2>1, <2>3, <2>4 DEF ServerShape, OneMore
<1>4. ASSUME NEW key \in Arg.kv.keys, KvDelete(key)
      PROVE  ServerShape'
  <2>1. /\ store' = [k \in DOMAIN store \ {key} |-> store[k]]
        /\ UNCHANGED <<env, files, events, nextId, alarms>>
    BY <1>4 DEF KvDelete, Restrict
  <2>2. /\ store' \in [DOMAIN store' -> Seq(Values)]
        /\ \A k \in DOMAIN store' : store'[k] # <<>>
    BY <2>1 DEF ServerShape
  <2> QED  BY <2>1, <2>2 DEF ServerShape
<1>5. ASSUME NEW w \in Arg.cal.writes, CalCreate(w.day, w.start, w.end)
      PROVE  ServerShape'
  <2>1. PICK event : /\ event.history = <<>> /\ event.start = w.start /\ event.end = w.end
                     /\ events' = [id \in DOMAIN events \cup {nextId} |->
                                     IF id = nextId THEN event ELSE events[id]]
    BY <1>5 DEF CalCreate
  <2>2. nextId' = nextId + 1 /\ UNCHANGED <<env, files, store, alarms>>
    BY <1>5 DEF CalCreate
  <2>3. nextId \in Nat /\ DOMAIN events \subseteq Nat
    BY DEF ServerShape
  <2>4. nextId' \in Nat /\ DOMAIN events' \subseteq Nat
    BY <2>1, <2>2, <2>3
  <2>5. \A id \in DOMAIN events' : id < nextId' /\ Len(events'[id].history) <= 1
    BY <2>1, <2>2, <2>3 DEF ServerShape
  <2>6. EventShape(event)
    BY <2>1, ArgAssumption DEF EventShape
  <2>7. \A id \in DOMAIN events' : EventShape(events'[id])
    BY <2>1, <2>6 DEF ServerShape
  <2> QED  BY <2>2, <2>4, <2>5, <2>7 DEF ServerShape
<1>6. ASSUME NEW id \in Arg.cal.ids, CalDelete(id)
      PROVE  ServerShape'
  <2>1. /\ events' = [k \in DOMAIN events \ {id} |-> events[k]]
        /\ UNCHANGED <<env, files, store, nextId, alarms>>
    BY <1>6 DEF CalDelete, Restrict
  <2> QED  BY <2>1 DEF ServerShape
<1>7. ASSUME NEW w \in Arg.sensor.writes, SensorAlarm(w.device, w.threshold)
      PROVE  ServerShape'
  <2>1. CASE Answer(Refused) \/ Answer(Raised)
    BY <2>1 DEF Answer, entries, ServerShape
  <2>2. CASE /\ w.device \in Seed.devices
             /\ alarms' = [alarms EXCEPT ![w.device] = {w.threshold}]
             /\ UNCHANGED <<env, files, store, events, nextId>>
    <3>1. env = "sensor"
      BY <1>7 DEF SensorAlarm
    <3>2. alarms = [device \in Seed.devices |-> alarms[device]] /\ DOMAIN alarms = Seed.devices
      BY <3>1 DEF ServerShape
    <3>3. /\ DOMAIN alarms' = Seed.devices
          /\ alarms' = [device \in Seed.devices |-> alarms'[device]]
          /\ \A device \in Seed.devices :
               alarms'[device] = IF device = w.device THEN {w.threshold} ELSE alarms[device]
      BY <2>2, <3>2
    <3>4. Cardinality({w.threshold}) <= 1
      <4>1. Cardinality({w.threshold}) = 1
        BY FS_Singleton, Zenon
      <4> QED  BY <4>1
    <3>5. \A device \in Seed.devices : Cardinality(alarms'[device]) <= 1
      BY <3>2, <3>3, <3>4 DEF ServerShape
    <3> QED  BY <2>2, <3>3, <3>5 DEF ServerShape
  <2> QED  BY <1>7, <2>1, <2>2 DEF SensorAlarm
<1> QED
  BY <1>1, <1>2, <1>3, <1>4, <1>5, <1>6, <1>7, CallKinds

\* The larger of two.
LEMMA MaxOfTwo ==
  \A a, b \in Int : Max({a, b}) = IF a >= b THEN a ELSE b
<1> SUFFICES ASSUME NEW a \in Int, NEW b \in Int
             PROVE  Max({a, b}) = IF a >= b THEN a ELSE b
  OBVIOUS
<1> DEFINE m == IF a >= b THEN a ELSE b
<1>1. /\ m \in {a, b} /\ \A y \in {a, b} : m >= y
      /\ \A x \in {a, b} : (\A y \in {a, b} : x >= y) => x = m
  OBVIOUS
<1> QED  BY <1>1 DEF Max

\* No call changes the server, and every call is answered.
LEMMA CallShape ==
  ASSUME ServerCall
  PROVE  env' = env /\ reply'.status \in Statuses
<1> USE DEF Statuses, Result, Answered, Refused, Raised
<1>1. CASE Reads
  BY <1>1 DEF Reads
<1>2. ASSUME NEW w \in Arg.fs.writes, FsWrite(w.path, w.content)
      PROVE  env' = env /\ reply'.status \in Statuses
  BY <1>2 DEF FsWrite
<1>3. ASSUME NEW w \in Arg.kv.writes, KvSet(w.key, w.value)
      PROVE  env' = env /\ reply'.status \in Statuses
  BY <1>3 DEF KvSet
<1>4. ASSUME NEW key \in Arg.kv.keys, KvDelete(key)
      PROVE  env' = env /\ reply'.status \in Statuses
  BY <1>4 DEF KvDelete
<1>5. ASSUME NEW w \in Arg.cal.writes, CalCreate(w.day, w.start, w.end)
      PROVE  env' = env /\ reply'.status \in Statuses
  BY <1>5 DEF CalCreate
<1>6. ASSUME NEW id \in Arg.cal.ids, CalDelete(id)
      PROVE  env' = env /\ reply'.status \in Statuses
  BY <1>6 DEF CalDelete
<1>7. ASSUME NEW w \in Arg.sensor.writes, SensorAlarm(w.device, w.threshold)
      PROVE  env' = env /\ reply'.status \in Statuses
  BY <1>7 DEF SensorAlarm, Answer
<1> QED
  BY <1>1, <1>2, <1>3, <1>4, <1>5, <1>6, <1>7, CallKinds

\* The servers are reset into shape.
LEMMA ShapeInit == ServerInit => ServerShape
<1> SUFFICES ASSUME ServerInit PROVE ServerShape
  OBVIOUS
<1>1. \A S : <<>> \in [DOMAIN <<>> -> S] /\ DOMAIN <<>> = {}
  OBVIOUS
<1>6. \A s : Len(s) \in 2 .. 3 \/ Len(s) \in 2 .. 4 => s # <<>>
  OBVIOUS
<1>2. files \in [DOMAIN files -> Seq(Contents)] /\ \A path \in DOMAIN files : files[path] # <<>>
  <2>1. CASE env = "fs"
    <3>1. files = Seed.files
      BY <2>1 DEF ServerInit
    <3>2. /\ Seed.files \in [DOMAIN Seed.files -> Seq(Contents)]
          /\ \A path \in DOMAIN Seed.files : Len(Seed.files[path]) \in 2 .. 3
      BY SeedAssumption DEF FilesAsReset
    <3>3. \A path \in DOMAIN Seed.files : Seed.files[path] # <<>>
      BY <1>6, <3>2, Zenon
    <3> QED  BY <3>1, <3>2, <3>3
  <2>2. CASE env # "fs"
    BY <1>1, <2>2 DEF ServerInit
  <2> QED  BY <2>1, <2>2
<1>3. store \in [DOMAIN store -> Seq(Values)] /\ \A key \in DOMAIN store : store[key] # <<>>
  <2>1. CASE env = "kv"
    <3>1. store = Seed.store
      BY <2>1 DEF ServerInit
    <3>2. /\ Seed.store \in [DOMAIN Seed.store -> Seq(Values)]
          /\ \A key \in DOMAIN Seed.store : Len(Seed.store[key]) \in 2 .. 4
      BY SeedAssumption DEF StoreAsReset
    <3>3. \A key \in DOMAIN Seed.store : Seed.store[key] # <<>>
      BY <1>6, <3>2, Zenon
    <3> QED  BY <3>1, <3>2, <3>3
  <2>2. CASE env # "kv"
    BY <1>1, <2>2 DEF ServerInit
  <2> QED  BY <2>1, <2>2
<1>4. /\ nextId \in Nat /\ DOMAIN events \subseteq Nat
      /\ \A id \in DOMAIN events : id < nextId /\ Len(events[id].history) <= 1
      /\ \A id \in DOMAIN events : EventShape(events[id])
  <2>1. CASE env = "cal"
    <3>1. events = Seed.events /\ nextId = Seed.nextId
      BY <2>1 DEF ServerInit
    <3>2. /\ Seed.nextId \in Nat /\ DOMAIN Seed.events \subseteq Nat
          /\ \A id \in DOMAIN Seed.events :
               id < Seed.nextId /\ \E prior : Seed.events[id].history = <<prior>>
      BY SeedAssumption, Zenon DEF EventsAsReset
    <3>3. \A prior : Len(<<prior>>) <= 1
      OBVIOUS
    <3>4. \A id \in DOMAIN Seed.events : Len(Seed.events[id].history) <= 1
      BY <3>2, <3>3, Zenon
    <3>5. /\ DOMAIN events \subseteq Nat /\ nextId \in Nat
          /\ \A id \in DOMAIN events : id < nextId
      BY <3>1, <3>2, Zenon
    <3>6. \A id \in DOMAIN events : Len(events[id].history) <= 1
      BY <3>1, <3>4, Zenon
    <3>7. ASSUME NEW id \in DOMAIN Seed.events
          PROVE  EventShape(Seed.events[id])
      <4>1. LET event == Seed.events[id] IN
              /\ event.start \in {9, 10, 11, 13, 14, 15, 16} /\ event.end = event.start
              /\ \E by \in 1 .. 3 : event.history = <<Max({event.start - by, 8})>>
        BY SeedAssumption, Zenon DEF EventsAsReset
      <4>2. PICK by \in 1 .. 3 : Seed.events[id].history = <<Max({Seed.events[id].start - by, 8})>>
        BY <4>1
      <4> DEFINE old == Max({Seed.events[id].start - by, 8})
      <4>3. Seed.events[id].start \in 9 .. 16 /\ Seed.events[id].start - by \in Int /\ 8 \in Int
        BY <4>1
      <4>4. old = IF Seed.events[id].start - by >= 8 THEN Seed.events[id].start - by ELSE 8
        BY <4>3, MaxOfTwo, Zenon
      <4>5. old \in Int /\ old # Seed.events[id].start
        BY <4>3, <4>4
      <4> QED  BY <4>1, <4>2, <4>3, <4>5 DEF EventShape
    <3> QED  BY <3>1, <3>5, <3>6, <3>7, Zenon
  <2>2. CASE env # "cal"
    BY <1>1, <2>2 DEF ServerInit
  <2> QED  BY <2>1, <2>2
<1>5. /\ \A device \in DOMAIN alarms : Cardinality(alarms[device]) <= 1
      /\ env = "sensor" => /\ DOMAIN alarms = Seed.devices
                           /\ alarms = [device \in Seed.devices |-> alarms[device]]
  <2>1. CASE env = "sensor"
    <3>1. alarms = [device \in Seed.devices |-> {}]
      BY <2>1 DEF ServerInit
    <3> QED  BY <3>1, FS_EmptySet
  <2>2. CASE env # "sensor"
    BY <1>1, <2>2 DEF ServerInit
  <2> QED  BY <2>1, <2>2
<1> QED
  BY <1>2, <1>3, <1>4, <1>5 DEF ServerShape

-----------------------------------------------------------------------------
\* An acknowledged write is under its version or id, and only a server that writes
\* acknowledges any.
KeptFile(w) ==
  /\ w.key \in DOMAIN files /\ w.version \in 1 .. Len(files[w.key])
  /\ files[w.key][w.version] = w.value
  /\ w.key \in Seq(Range(w.key))

KeptValue(w) ==
  /\ w.key \in DOMAIN store /\ w.version \in 1 .. Len(store[w.key])
  /\ store[w.key][w.version] = w.value

KeptEvent(w) == w.key \in DOMAIN events /\ events[w.key] = w.value

KeptAlarm(w) == w.key \in Seed.devices /\ alarms[w.key] = {w.value}

Kept(w) ==
  /\ DOMAIN w = {"key", "version", "value"}
  /\ env \in {"fs", "kv", "cal", "sensor"}
  /\ env = "fs" => KeptFile(w)
  /\ env = "kv" => KeptValue(w)
  /\ env = "cal" => KeptEvent(w)
  /\ env = "sensor" => KeptAlarm(w)

Acknowledged == {w \in written : w.key \notin reply'.gone} \cup reply'.made

\* A write that is acknowledged is kept, and so is every earlier one it does not end.
LEMMA KeptCall ==
  ASSUME ServerShape, \A w \in written : Kept(w), ServerCall
  PROVE  \A w \in Acknowledged : Kept(w)'
<1>1. CASE Reads
  <2>1. reply'.made = {} /\ reply'.gone = {}
    BY <1>1 DEF Reads, Answered, Refused, Raised, Result
  <2>2. UNCHANGED <<env, files, store, events, alarms>>
    BY <1>1 DEF Reads, entries
  <2> QED  BY <2>1, <2>2 DEF Acknowledged, Kept, KeptFile, KeptValue, KeptEvent, KeptAlarm
<1>2. ASSUME NEW x \in Arg.fs.writes, FsWrite(x.path, x.content)
      PROVE  \A w \in Acknowledged : Kept(w)'
  <2>1. /\ env = "fs" /\ env' = "fs" /\ files' = Appended(files, x.path, x.content)
        /\ reply'.made = {Entry(x.path, Len(files'[x.path]), x.content)} /\ reply'.gone = {}
    BY <1>2 DEF FsWrite, Result
  <2>2. files \in [DOMAIN files -> Seq(Contents)] /\ x.content \in Contents
    BY WrittenValues DEF ServerShape
  <2>3. OneMore(files, x.path, x.content, Contents, files')
    BY <2>1, <2>2, AppendedFacts, Zenon
  <2>4. ASSUME NEW w \in written
        PROVE  Kept(w)'
    <3>1. Kept(w)
      OBVIOUS
    <3>2. KeptFile(w)
      BY <2>1, <3>1 DEF Kept
    <3>3. KeptFile(w)'
      <4>1. CASE w.key = x.path
        BY <2>3, <3>2, <4>1 DEF KeptFile, OneMore
      <4>2. CASE w.key # x.path
        BY <2>3, <3>2, <4>2 DEF KeptFile, OneMore
      <4> QED  BY <4>1, <4>2
    <3> QED  BY <2>1, <3>1, <3>3 DEF Kept
  <2>5. ASSUME NEW e, e = Entry(x.path, Len(files'[x.path]), x.content)
        PROVE  Kept(e)'
    <3>1. /\ e.key = x.path /\ e.version = Len(files'[x.path]) /\ e.value = x.content
          /\ DOMAIN e = {"key", "version", "value"}
      BY <2>5 DEF Entry
    <3>2. x.path \in Seq(Range(x.path))
      BY PathAssumption
    <3>3. KeptFile(e)'
      BY <2>3, <3>1, <3>2 DEF KeptFile, OneMore
    <3> QED  BY <2>1, <3>1, <3>3 DEF Kept
  <2> QED  BY <2>1, <2>4, <2>5 DEF Acknowledged
<1>3. ASSUME NEW x \in Arg.kv.writes, KvSet(x.key, x.value)
      PROVE  \A w \in Acknowledged : Kept(w)'
  <2>1. /\ env = "kv" /\ env' = "kv" /\ store' = Appended(store, x.key, x.value)
        /\ reply'.made = {Entry(x.key, Len(store'[x.key]), x.value)} /\ reply'.gone = {}
    BY <1>3 DEF KvSet, Result
  <2>2. store \in [DOMAIN store -> Seq(Values)] /\ x.value \in Values
    BY WrittenValues DEF ServerShape
  <2>3. OneMore(store, x.key, x.value, Values, store')
    BY <2>1, <2>2, AppendedFacts, Zenon
  <2>4. ASSUME NEW w \in written
        PROVE  Kept(w)'
    <3>1. Kept(w)
      OBVIOUS
    <3>2. KeptValue(w)
      BY <2>1, <3>1 DEF Kept
    <3>3. KeptValue(w)'
      <4>1. CASE w.key = x.key
        BY <2>3, <3>2, <4>1 DEF KeptValue, OneMore
      <4>2. CASE w.key # x.key
        BY <2>3, <3>2, <4>2 DEF KeptValue, OneMore
      <4> QED  BY <4>1, <4>2
    <3> QED  BY <2>1, <3>1, <3>3 DEF Kept
  <2>5. ASSUME NEW e, e = Entry(x.key, Len(store'[x.key]), x.value)
        PROVE  Kept(e)'
    <3>1. /\ e.key = x.key /\ e.version = Len(store'[x.key]) /\ e.value = x.value
          /\ DOMAIN e = {"key", "version", "value"}
      BY <2>5 DEF Entry
    <3>3. KeptValue(e)'
      BY <2>3, <3>1 DEF KeptValue, OneMore
    <3> QED  BY <2>1, <3>1, <3>3 DEF Kept
  <2> QED  BY <2>1, <2>4, <2>5 DEF Acknowledged
<1>4. ASSUME NEW key \in Arg.kv.keys, KvDelete(key)
      PROVE  \A w \in Acknowledged : Kept(w)'
  <2>1. /\ env = "kv" /\ env' = "kv" /\ store' = [k \in DOMAIN store \ {key} |-> store[k]]
        /\ reply'.made = {}
        /\ key \in DOMAIN store => reply'.gone = {key}
    BY <1>4 DEF KvDelete, Restrict, Result, Refused, Answered
  <2>2. ASSUME NEW w \in written, w.key \notin reply'.gone
        PROVE  Kept(w)'
    <3>1. Kept(w) /\ KeptValue(w)
      BY <2>1 DEF Kept
    <3>2. w.key # key
      BY <2>1, <2>2, <3>1 DEF KeptValue
    <3>3. KeptValue(w)'
      BY <2>1, <3>1, <3>2 DEF KeptValue
    <3> QED  BY <2>1, <3>1, <3>3 DEF Kept
  <2> QED  BY <2>1, <2>2 DEF Acknowledged
<1>5. ASSUME NEW x \in Arg.cal.writes, CalCreate(x.day, x.start, x.end)
      PROVE  \A w \in Acknowledged : Kept(w)'
  <2>1. PICK event : /\ events' = [id \in DOMAIN events \cup {nextId} |->
                                     IF id = nextId THEN event ELSE events[id]]
                     /\ reply' = Result({Entry(nextId, 1, event)}, {})
    BY <1>5 DEF CalCreate
  <2>2. env = "cal" /\ env' = "cal"
    BY <1>5 DEF CalCreate
  <2>3. reply'.made = {Entry(nextId, 1, event)} /\ reply'.gone = {}
    BY <2>1 DEF Result
  <2>4. nextId \notin DOMAIN events
    BY DEF ServerShape
  <2>5. ASSUME NEW w \in written
        PROVE  Kept(w)'
    <3>1. Kept(w) /\ KeptEvent(w)
      BY <2>2 DEF Kept
    <3>2. KeptEvent(w)'
      BY <2>1, <2>4, <3>1 DEF KeptEvent
    <3> QED  BY <2>2, <3>1, <3>2 DEF Kept
  <2>6. ASSUME NEW e, e = Entry(nextId, 1, event)
        PROVE  Kept(e)'
    <3>1. e.key = nextId /\ e.value = event /\ DOMAIN e = {"key", "version", "value"}
      BY <2>6 DEF Entry
    <3>2. KeptEvent(e)'
      BY <2>1, <3>1 DEF KeptEvent
    <3> QED  BY <2>2, <3>1, <3>2 DEF Kept
  <2> QED  BY <2>3, <2>5, <2>6 DEF Acknowledged
<1>6. ASSUME NEW id \in Arg.cal.ids, CalDelete(id)
      PROVE  \A w \in Acknowledged : Kept(w)'
  <2>1. /\ env = "cal" /\ env' = "cal" /\ events' = [k \in DOMAIN events \ {id} |-> events[k]]
        /\ reply'.made = {}
        /\ id \in DOMAIN events => reply'.gone = {id}
    BY <1>6 DEF CalDelete, Restrict, Result, Refused, Answered
  <2>2. ASSUME NEW w \in written, w.key \notin reply'.gone
        PROVE  Kept(w)'
    <3>1. Kept(w) /\ KeptEvent(w)
      BY <2>1 DEF Kept
    <3>2. w.key # id
      BY <2>1, <2>2, <3>1 DEF KeptEvent
    <3>3. KeptEvent(w)'
      BY <2>1, <3>1, <3>2 DEF KeptEvent
    <3> QED  BY <2>1, <3>1, <3>3 DEF Kept
  <2> QED  BY <2>1, <2>2 DEF Acknowledged
<1>7. ASSUME NEW x \in Arg.sensor.writes, SensorAlarm(x.device, x.threshold)
      PROVE  \A w \in Acknowledged : Kept(w)'
  <2>1. CASE Answer(Refused) \/ Answer(Raised)
    BY <1>1, <2>1 DEF Answer, Reads
  <2>2. CASE /\ x.device \in Seed.devices
             /\ alarms' = [alarms EXCEPT ![x.device] = {x.threshold}]
             /\ reply' = Result({Entry(x.device, 1, x.threshold)}, {x.device})
             /\ UNCHANGED <<env, files, store, events, nextId>>
    <3>1. env = "sensor" /\ env' = "sensor"
      BY <1>7, <2>2 DEF SensorAlarm
    <3>2. /\ reply'.made = {Entry(x.device, 1, x.threshold)} /\ reply'.gone = {x.device}
          /\ DOMAIN alarms = Seed.devices
      BY <2>2, <3>1 DEF Result, ServerShape
    <3>3. ASSUME NEW w \in written, w.key \notin reply'.gone
          PROVE  Kept(w)'
      <4>1. Kept(w) /\ KeptAlarm(w)
        BY <3>1 DEF Kept
      <4>2. KeptAlarm(w)'
        BY <2>2, <3>2, <3>3, <4>1 DEF KeptAlarm
      <4> QED  BY <3>1, <4>1, <4>2 DEF Kept
    <3>4. ASSUME NEW e, e = Entry(x.device, 1, x.threshold)
          PROVE  Kept(e)'
      <4>1. e.key = x.device /\ e.value = x.threshold /\ DOMAIN e = {"key", "version", "value"}
        BY <3>4 DEF Entry
      <4>2. KeptAlarm(e)'
        BY <2>2, <3>2, <4>1 DEF KeptAlarm
      <4> QED  BY <3>1, <4>1, <4>2 DEF Kept
    <3> QED  BY <3>2, <3>3, <3>4 DEF Acknowledged
  <2> QED  BY <1>7, <2>1, <2>2 DEF SensorAlarm
<1> QED
  BY <1>1, <1>2, <1>3, <1>4, <1>5, <1>6, <1>7, CallKinds

\* What is kept is what the reads and the listings show.
LEMMA KeptHolds ==
  ASSUME ServerShape, NEW w, Kept(w)
  PROVE  Holds(w)
<1>1. CASE env = "fs"
  <2> DEFINE key  == w.key
             path == files[key]
  <2>1. /\ key \in DOMAIN files /\ w.version \in 1 .. Len(path) /\ path[w.version] = w.value
        /\ key \in Seq(Range(key)) /\ Len(key) \in Nat
    BY <1>1 DEF Kept, KeptFile
  <2>2. Len(key) > 1 => Last(key) \in FsListed(Front(key))
    <3> SUFFICES ASSUME Len(key) > 1 PROVE Last(key) \in FsListed(Front(key))
      OBVIOUS
    <3> HIDE DEF key
    <3>1. \A i \in 1 .. Len(key) - 1 : key[i] \in Range(key)
      BY <2>1, ElementOfSeq
    <3>2. Front(key) = SubSeq(key, 1, Len(key) - 1) /\ Len(Front(key)) = Len(key) - 1
      BY <2>1, <3>1, SubSeqProperties DEF Front
    <3>3. IsStrictPrefix(Front(key), key)
      BY <2>1, <3>2 DEF IsStrictPrefix, IsPrefix
    <3>4. Last(key) = key[Len(Front(key)) + 1]
      BY <2>1, <3>2 DEF Last
    <3> QED  BY <2>1, <3>3, <3>4 DEF FsListed
  <2>3. w.version = FsStat(key).version => \A word \in w.value.words : key \in FsFound(word)
    BY <2>1 DEF FsStat, FsFound, Last
  <2> QED  BY <1>1, <2>1, <2>2, <2>3 DEF Holds
<1>2. CASE env = "kv"
  <2>1. /\ w.key \in DOMAIN store /\ w.version \in DOMAIN store[w.key]
        /\ store[w.key][w.version] = w.value
    BY <1>2 DEF Kept, KeptValue, ServerShape
  <2> QED  BY <1>2, <2>1 DEF Holds, KvGetv, KvScanned
<1>3. CASE env = "cal"
  <2>1. w.key \in DOMAIN events /\ events[w.key] = w.value
    BY <1>3 DEF Kept, KeptEvent
  <2>2. w.key \in CalOn(w.value.day)
    BY <2>1 DEF CalOn
  <2> QED  BY <1>3, <2>1, <2>2 DEF Holds, CalListed, CalFree
<1>4. CASE env = "sensor"
  BY <1>4 DEF Kept, KeptAlarm, Holds
<1> QED
  BY <1>1, <1>2, <1>3, <1>4 DEF Kept

-----------------------------------------------------------------------------
(***************************************************************************)
(* What the model is shown.                                                *)
(***************************************************************************)

\* A nonempty set of naturals has a least element: the sets 1 .. i are finite and
\* inclusion of finite sets is well founded.
LEMMA MinOfNaturals ==
  ASSUME NEW S \in SUBSET Nat, S # {}
  PROVE  Min(S) \in S /\ \A j \in S : Min(S) <= j
<1> DEFINE T == {1 .. i : i \in S}
<1>1. T \subseteq FiniteSubsetsOf(Nat)
  BY FS_Interval DEF FiniteSubsetsOf
<1>2. PICK x \in T : \A y \in T : <<y, x>> \notin StrictSubsetOrdering(Nat)
  <2> HIDE DEF T
  <2>1. T # {}
    BY DEF T
  <2> QED  BY <1>1, <2>1, FS_StrictSubsetOrderingWellFounded, WFMin
<1>3. PICK i \in S : x = 1 .. i
  OBVIOUS
<1>4. ASSUME NEW j \in S, j < i
      PROVE  FALSE
  <2>1. 1 .. j \subseteq 1 .. i /\ i \in 1 .. i /\ i \notin 1 .. j
    BY <1>4
  <2>2. <<1 .. j, 1 .. i>> \in StrictSubsetOrdering(Nat)
    BY <2>1, 1 .. j \in SUBSET Nat, 1 .. i \in SUBSET Nat DEF StrictSubsetOrdering
  <2> QED  BY <1>2, <1>3, <2>2, 1 .. j \in T
<1>5. \E least \in S : \A j \in S : least <= j
  BY <1>4
<1> QED
  BY <1>5 DEF Min

\* A chat as next_action generates from it: the head, and pairs of a call and its result.
RoleAt(i) == IF i = 1 THEN "system" ELSE IF i = 2 THEN "user"
             ELSE IF i % 2 = 1 THEN "assistant" ELSE "user"

Chat(ms) ==
  /\ ms \in Seq(MessageType) /\ Len(ms) >= 2
  /\ \A i \in 1 .. Len(ms) : ms[i].role = RoleAt(i)

\* Without the oldest messages it is still one, if they are dropped in pairs.
LEMMA WithoutFacts ==
  ASSUME NEW ms, Chat(ms), NEW k \in Nat, k % 2 = 0, 2 + k <= Len(ms)
  PROVE  /\ Chat(Without(ms, k)) /\ Len(Without(ms, k)) = Len(ms) - k
         /\ 2 + k < Len(ms) => Last(Without(ms, k)) = Last(ms)
<1> DEFINE head == SubSeq(ms, 1, 2)
           tail == SubSeq(ms, 3 + k, Len(ms))
           left == head \o tail
<1>1. Len(ms) \in Nat /\ Len(ms) >= 2 /\ ms \in Seq(MessageType)
  BY DEF Chat
<1>2. \A i \in 1 .. Len(ms) : ms[i] \in MessageType
  BY <1>1, ElementOfSeq
<1>3. /\ head \in Seq(MessageType) /\ Len(head) = 2
      /\ \A i \in 1 .. 2 : head[i] = ms[i]
  <2>1. \A i \in 1 .. 2 : ms[i] \in MessageType
    BY <1>1, <1>2
  <2> QED  BY <2>1, SubSeqProperties
<1>4. /\ tail \in Seq(MessageType) /\ Len(tail) = Len(ms) - 2 - k
      /\ \A i \in 1 .. Len(tail) : tail[i] = ms[i + 2 + k]
  <2>1. \A i \in 3 + k .. Len(ms) : ms[i] \in MessageType
    BY <1>1, <1>2
  <2>2. /\ tail \in Seq(MessageType)
        /\ Len(tail) = IF 3 + k <= Len(ms) THEN Len(ms) - (3 + k) + 1 ELSE 0
        /\ \A i \in 1 .. Len(ms) - (3 + k) + 1 : tail[i] = ms[(3 + k) + i - 1]
    BY <1>1, <2>1, SubSeqProperties
  <2> HIDE DEF tail
  <2>3. Len(tail) = Len(ms) - 2 - k
    BY <1>1, <2>2
  <2>4. ASSUME NEW i \in 1 .. Len(tail)
        PROVE  tail[i] = ms[i + 2 + k]
    <3>1. i \in 1 .. Len(ms) - (3 + k) + 1 /\ (3 + k) + i - 1 = i + 2 + k
      BY <1>1, <2>3
    <3> QED  BY <2>2, <3>1
  <2> QED  BY <2>2, <2>3, <2>4
<1> HIDE DEF head, tail
<1>5. /\ left \in Seq(MessageType) /\ Len(left) = Len(ms) - k
      /\ \A i \in 1 .. 2 : left[i] = ms[i]
      /\ \A i \in 3 .. Len(left) : left[i] = ms[i + k]
  <2>1. /\ left \in Seq(MessageType) /\ Len(left) = Len(head) + Len(tail)
        /\ \A i \in 1 .. Len(head) + Len(tail) :
             left[i] = IF i <= Len(head) THEN head[i] ELSE tail[i - Len(head)]
    BY <1>3, <1>4, ConcatProperties
  <2> HIDE DEF left
  <2>2. Len(left) = Len(ms) - k
    BY <1>1, <1>3, <1>4, <2>1
  <2>3. ASSUME NEW i \in 1 .. 2
        PROVE  left[i] = ms[i]
    <3>1. i \in 1 .. Len(head) + Len(tail) /\ i <= Len(head)
      BY <1>1, <1>3, <1>4
    <3> QED  BY <1>3, <2>1, <3>1
  <2>4. ASSUME NEW i \in 3 .. Len(left)
        PROVE  left[i] = ms[i + k]
    <3>1. i \in 1 .. Len(head) + Len(tail) /\ ~(i <= Len(head)) /\ i - Len(head) \in 1 .. Len(tail)
      BY <1>1, <1>3, <1>4, <2>2
    <3>2. (i - Len(head)) + 2 + k = i + k
      BY <1>3
    <3>3. left[i] = tail[i - Len(head)]
      BY <2>1, <3>1
    <3> QED  BY <1>4, <3>1, <3>2, <3>3
  <2> QED  BY <2>1, <2>2, <2>3, <2>4
<1>6. Without(ms, k) = left
  BY DEF Without, head, tail
<1> HIDE DEF left
<1>7. ASSUME NEW i \in 1 .. Len(left)
      PROVE  left[i].role = RoleAt(i)
  <2>1. CASE i <= 2
    BY <1>1, <1>5, <2>1 DEF Chat
  <2>2. CASE i > 2
    <3>1. i + k \in 3 .. Len(ms) /\ i \in 3 .. Len(left) /\ i + k \in 1 .. Len(ms)
      BY <1>1, <1>5, <2>2
    <3>2. (i + k) % 2 = i % 2
      BY <3>1
    <3>3. left[i].role = RoleAt(i + k)
      BY <1>5, <3>1 DEF Chat
    <3> QED  BY <3>1, <3>2, <3>3 DEF RoleAt
  <2> QED  BY <1>1, <1>5, <2>1, <2>2
<1>8. 2 + k < Len(ms) => Last(left) = Last(ms)
  <2> SUFFICES ASSUME 2 + k < Len(ms) PROVE left[Len(left)] = ms[Len(ms)]
    BY DEF Last
  <2>1. Len(left) \in 3 .. Len(left) /\ Len(left) + k = Len(ms)
    BY <1>1, <1>5
  <2> QED  BY <1>5, <2>1
<1>9. Len(left) >= 2
  BY <1>1, <1>5
<1>10. Chat(left)
  BY <1>5, <1>7, <1>9 DEF Chat
<1> QED
  BY <1>5, <1>6, <1>8, <1>10

\* What _truncate returns: the fewest pairs are dropped that leave what fits.
LEMMA TruncateFacts ==
  ASSUME NEW ms, Chat(ms), NEW pairs \in Nat, Len(ms) = 2 + 2 * pairs
  PROVE  \E d \in 0 .. pairs :
           /\ Truncate(ms) = Without(ms, 2 * d)
           /\ d < pairs => Fits(Without(ms, 2 * d))
           /\ \A e \in 0 .. pairs : e < d => ~Fits(Without(ms, 2 * e))
           /\ pairs > 0 /\ Fits(Without(ms, 2 * (pairs - 1))) => d < pairs
<1> DEFINE fitting == {d \in 0 .. pairs : d = pairs \/ Fits(Without(ms, 2 * d))}
<1>1. (Len(ms) - 2) \div 2 = pairs
  OBVIOUS
<1>2. Truncate(ms) = Without(ms, 2 * Min(fitting))
  BY <1>1, Zenon DEF Truncate
<1>3. /\ fitting \in SUBSET Nat /\ fitting \subseteq 0 .. pairs /\ pairs \in fitting
      /\ \A d \in fitting : d = pairs \/ Fits(Without(ms, 2 * d))
      /\ \A d \in 0 .. pairs : Fits(Without(ms, 2 * d)) => d \in fitting
  <2>1. 0 .. pairs \subseteq Nat /\ pairs \in 0 .. pairs
    OBVIOUS
  <2> QED  BY <2>1, Zenon
<1> HIDE DEF fitting
<1>4. PICK d \in fitting : d = Min(fitting) /\ \A j \in fitting : d <= j
  BY <1>3, MinOfNaturals
<1>5. d \in 0 .. pairs
  BY <1>3
<1>6. d < pairs => Fits(Without(ms, 2 * d))
  BY <1>3, <1>5
<1>7. \A e \in 0 .. pairs : e < d => ~Fits(Without(ms, 2 * e))
  BY <1>3, <1>4, <1>5
<1>8. ASSUME pairs > 0, Fits(Without(ms, 2 * (pairs - 1)))
      PROVE  d < pairs
  <2>1. pairs - 1 \in 0 .. pairs
    BY <1>8
  <2>2. d <= pairs - 1
    BY <1>3, <1>4, <1>8, <2>1
  <2> QED  BY <1>5, <2>2
<1>9. Truncate(ms) = Without(ms, 2 * d)
  BY <1>2, <1>4
<1> QED
  BY <1>5, <1>6, <1>7, <1>8, <1>9

\* Adding what is said next leaves a chat one.
LEMMA SaidFacts ==
  ASSUME NEW ms, Chat(ms), NEW role \in Roles, NEW size \in Nat,
         role = RoleAt(Len(ms) + 1)
  PROVE  /\ Chat(Said(ms, role, size)) /\ Len(Said(ms, role, size)) = Len(ms) + 1
         /\ Front(Said(ms, role, size)) = ms
<1> DEFINE message == Message(role, size, Len(ms) + 1)
           said    == Append(ms, message)
<1>1. ms \in Seq(MessageType) /\ Len(ms) \in Nat /\ Len(ms) >= 2
  BY DEF Chat
<1>2. message \in MessageType /\ message.role = role
  BY <1>1 DEF Message, MessageType
<1> HIDE DEF message
<1>3. /\ said \in Seq(MessageType) /\ Len(said) = Len(ms) + 1
      /\ \A i \in 1 .. Len(ms) : said[i] = ms[i]
      /\ said[Len(ms) + 1] = message
  BY <1>1, <1>2, AppendProperties
<1> HIDE DEF said
<1>4. ASSUME NEW i \in 1 .. Len(said)
      PROVE  said[i].role = RoleAt(i)
  <2>1. CASE i = Len(ms) + 1
    BY <1>2, <1>3, <2>1
  <2>2. CASE i \in 1 .. Len(ms)
    BY <1>3, <2>2 DEF Chat
  <2> QED  BY <1>1, <1>3, <2>1, <2>2
<1>5. Chat(said)
  BY <1>1, <1>3, <1>4 DEF Chat
<1>6. Front(said) = ms
  <2>1. \A i \in 1 .. Len(ms) : said[i] \in MessageType
    BY <1>1, <1>3, ElementOfSeq
  <2>2. /\ SubSeq(said, 1, Len(ms)) \in Seq(MessageType)
        /\ Len(SubSeq(said, 1, Len(ms))) = Len(ms)
        /\ \A i \in 1 .. Len(ms) : SubSeq(said, 1, Len(ms))[i] = said[i]
    <3>1. /\ SubSeq(said, 1, Len(ms)) \in Seq(MessageType)
          /\ Len(SubSeq(said, 1, Len(ms))) = IF 1 <= Len(ms) THEN Len(ms) - 1 + 1 ELSE 0
          /\ \A i \in 1 .. Len(ms) - 1 + 1 : SubSeq(said, 1, Len(ms))[i] = said[1 + i - 1]
      BY <1>1, <2>1, SubSeqProperties
    <3> QED  BY <1>1, <3>1
  <2>3. SubSeq(said, 1, Len(ms)) = ms
    BY <1>1, <1>3, <2>2, SeqEqual
  <2> QED  BY <1>1, <1>3, <2>3 DEF Front
<1> QED
  BY <1>3, <1>5, <1>6 DEF Said, said, message

\* What PromptKeepsTheLatest says of a prompt and the chat it was cut from.
KeepsTheLatest(shown, heard) ==
  LET tail == Len(shown) - 2
  IN  /\ shown = Without(heard, Len(heard) - 2 - tail)
      /\ \A i \in 3 .. Len(shown) : shown[i].role = IF i % 2 = 1 THEN "assistant" ELSE "user"
      /\ Last(shown).role = "user"
      /\ tail > 0 => Fits(shown)
      /\ Len(shown) < Len(heard) => ~Fits(Without(heard, Len(heard) - 2 - tail - 2))
      /\ Len(heard) > 2 /\ Fits(Without(heard, Len(heard) - 4)) => Last(shown) = Last(heard)

\* _truncate keeps the latest.
LEMMA TruncateKeeps ==
  ASSUME NEW ms, Chat(ms), NEW pairs \in Nat, Len(ms) = 2 + 2 * pairs
  PROVE  Chat(Truncate(ms)) /\ KeepsTheLatest(Truncate(ms), ms)
<1>1. PICK d \in 0 .. pairs :
           /\ Truncate(ms) = Without(ms, 2 * d)
           /\ d < pairs => Fits(Without(ms, 2 * d))
           /\ \A e \in 0 .. pairs : e < d => ~Fits(Without(ms, 2 * e))
           /\ pairs > 0 /\ Fits(Without(ms, 2 * (pairs - 1))) => d < pairs
  BY TruncateFacts
<1> DEFINE shown == Without(ms, 2 * d)
           tail  == Len(shown) - 2
<1>2. d \in Nat /\ 2 * d \in Nat /\ (2 * d) % 2 = 0 /\ 2 + 2 * d <= Len(ms) /\ Len(ms) \in Nat
  OBVIOUS
<1>3. /\ Chat(shown) /\ Len(shown) = Len(ms) - 2 * d
      /\ 2 + 2 * d < Len(ms) => Last(shown) = Last(ms)
  BY <1>2, WithoutFacts
<1> HIDE DEF shown
<1>4. tail = 2 * (pairs - d) /\ Len(shown) = 2 + 2 * (pairs - d) /\ Len(ms) - 2 - tail = 2 * d
  BY <1>2, <1>3
<1>5. \A i \in 3 .. Len(shown) : shown[i].role = IF i % 2 = 1 THEN "assistant" ELSE "user"
  BY <1>3, <1>4 DEF Chat, RoleAt
<1>6. Last(shown).role = "user"
  <2>1. Len(shown) \in 1 .. Len(shown) /\ Len(shown) # 1 /\ Len(shown) % 2 = 0
    BY <1>2, <1>4
  <2>2. RoleAt(Len(shown)) = "user"
    BY <2>1 DEF RoleAt
  <2> QED  BY <1>3, <2>1, <2>2 DEF Chat, Last
<1>7. tail > 0 => Fits(shown)
  <2>1. tail > 0 => d < pairs
    BY <1>2, <1>4
  <2> QED  BY <1>1, <2>1 DEF shown
<1>8. Len(shown) < Len(ms) => ~Fits(Without(ms, Len(ms) - 2 - tail - 2))
  <2> SUFFICES ASSUME Len(shown) < Len(ms)
               PROVE  ~Fits(Without(ms, Len(ms) - 2 - tail - 2))
    OBVIOUS
  <2>1. d - 1 \in 0 .. pairs /\ d - 1 < d /\ Len(ms) - 2 - tail - 2 = 2 * (d - 1)
    BY <1>2, <1>4
  <2>2. ~Fits(Without(ms, 2 * (d - 1)))
    BY <1>1, <2>1
  <2> QED  BY <2>1, <2>2
<1>9. Len(ms) > 2 /\ Fits(Without(ms, Len(ms) - 4)) => Last(shown) = Last(ms)
  <2> SUFFICES ASSUME Len(ms) > 2, Fits(Without(ms, Len(ms) - 4))
               PROVE  Last(shown) = Last(ms)
    OBVIOUS
  <2>1. pairs > 0 /\ Len(ms) - 4 = 2 * (pairs - 1)
    BY <1>2
  <2>2. d < pairs
    BY <1>1, <2>1
  <2>3. 2 + 2 * d < Len(ms)
    BY <1>2, <2>2
  <2> QED  BY <1>3, <2>3
<1>10. shown = Without(ms, Len(ms) - 2 - tail)
  BY <1>4 DEF shown
<1>11. KeepsTheLatest(shown, ms)
  BY <1>5, <1>6, <1>7, <1>8, <1>9, <1>10 DEF KeepsTheLatest
<1> QED
  BY <1>1, <1>3, <1>11 DEF shown

-----------------------------------------------------------------------------
(***************************************************************************)
(* The session.                                                            *)
(***************************************************************************)

Phases == {"reply", "call", "answered", "abstained", "raised", "out of turns"}

\* What Execute does besides the call: the last turn ends the episode, any other
\* leaves an observation.
LEMMA ExecuteForms ==
  ASSUME Execute
  PROVE  /\ phase = "call" /\ ServerCall /\ written' = Acknowledged
         /\ turn' = turn + 1 /\ phase' \in Phases /\ phase' # "call"
         /\ phase' = "reply" => turn' # MaxTurns /\ \E size \in ResultSizes : observed' = {size}
         /\ observed' = observed \/ \E size \in ResultSizes : observed' = {size}
         /\ UNCHANGED chatVars
<1>1. /\ phase = "call" /\ ServerCall /\ written' = Acknowledged
      /\ turn' = turn + 1 /\ UNCHANGED chatVars
  BY DEF Execute, Acknowledged
<1>2. CASE reply'.status = "raised"
  <2>1. phase' = "raised" /\ observed' = observed
    BY <1>2 DEF Execute
  <2> QED  BY <1>1, <2>1 DEF Phases
<1>3. CASE reply'.status # "raised"
  <2>1. /\ phase' = IF turn' = MaxTurns THEN "out of turns" ELSE "reply"
        /\ \E size \in ResultSizes : observed' = {size}
    BY <1>3 DEF Execute
  <2> QED  BY <1>1, <2>1 DEF Phases
<1> QED
  BY <1>2, <1>3

\* What NextAction does: the reply is generated from the truncated chat.
LEMMA NextActionForms ==
  ASSUME NextAction
  PROVE  /\ phase = "reply" /\ phase' \in Phases \ {"reply"} /\ observed' = {}
         /\ UNCHANGED <<serverVars, turn, written>>
         /\ \E heard :
              /\ observed = {} => heard = messages
              /\ observed # {} => heard = Said(messages, "user", CHOOSE size \in observed : TRUE)
              /\ prompt' = Truncate(heard)
              /\ messages' = Said(heard, "assistant", ReplySize)
<1>1. PICK said \in Replies : Generate(observed, said) /\ phase' = ReadAs(said)
  BY DEF NextAction
<1>2. ReadAs(said) \in {"call", "raised", "abstained", "answered"}
  <2>1. said.call \in {"none", "object", "absent", "text"} /\ said.abstains \in BOOLEAN
    BY DEF Replies
  <2>2. CASE said.call \in {"object", "absent"}
    BY <2>2, Zenon DEF ReadAs
  <2>3. CASE said.call = "text"
    BY <2>3, Zenon DEF ReadAs
  <2>4. CASE said.call = "none" /\ said.abstains
    BY <2>4, Zenon DEF ReadAs
  <2>5. CASE said.call = "none" /\ ~said.abstains
    BY <2>5, Zenon DEF ReadAs
  <2> QED  BY <2>1, <2>2, <2>3, <2>4, <2>5
<1>3. PICK heard : /\ heard = IF observed = {} THEN messages
                              ELSE Said(messages, "user", CHOOSE size \in observed : TRUE)
                   /\ prompt' = Truncate(heard)
                   /\ messages' = Said(heard, "assistant", ReplySize)
  BY <1>1 DEF Generate
<1>4. phase' \in Phases \ {"reply"}
  BY <1>1, <1>2 DEF Phases
<1> QED
  BY <1>3, <1>4 DEF NextAction

\* The chat is as many messages long as the phase says: an observation is due when
\* the last message is the model's.
ChatGrows ==
  /\ Chat(messages) /\ prompt \in Seq(MessageType)
  /\ prompt # <<>> => KeepsTheLatest(prompt, Front(messages))
  /\ observed # {} => \E size \in ResultSizes : observed = {size}
  /\ phase = "reply" /\ observed = {} => Len(messages) = 2
  /\ phase = "call" \/ observed # {} => Len(messages) % 2 = 1

\* Turns are left to whoever is about to act, and every write acknowledged is kept.
TurnsLeft ==
  /\ phase \in Phases /\ turn \in 0 .. MaxTurns
  /\ phase \in {"reply", "call"} => turn < MaxTurns

SessionInv ==
  /\ ServerShape /\ env \in Servers /\ reply.status \in Statuses
  /\ \A w \in written : Kept(w)
  /\ TurnsLeft /\ ChatGrows

LEMMA ChatStep ==
  ASSUME ChatGrows, NextAction
  PROVE  ChatGrows'
<1>1. PICK heard :
              /\ observed = {} => heard = messages
              /\ observed # {} => heard = Said(messages, "user", CHOOSE size \in observed : TRUE)
              /\ prompt' = Truncate(heard)
              /\ messages' = Said(heard, "assistant", ReplySize)
  BY NextActionForms
<1>2. phase = "reply" /\ phase' # "reply" /\ observed' = {}
  BY NextActionForms
<1>3. Chat(messages) /\ Len(messages) \in Nat /\ Len(messages) >= 2
  BY DEF ChatGrows, Chat
<1>4. ReplySize \in Nat /\ ResultSizes \subseteq Nat
  BY ChatAssumption
<1>5. Chat(heard) /\ Len(heard) \in Nat /\ Len(heard) >= 2 /\ Len(heard) % 2 = 0
  <2>1. CASE observed = {}
    <3>1. Len(messages) = 2 /\ heard = messages
      BY <1>1, <1>2, <2>1, Zenon DEF ChatGrows
    <3>2. 2 % 2 = 0
      OBVIOUS
    <3> QED  BY <1>3, <3>1, <3>2
  <2>2. CASE observed # {}
    <3>1. PICK size \in ResultSizes : observed = {size}
      BY <2>2 DEF ChatGrows
    <3>2. heard = Said(messages, "user", size)
      BY <1>1, <3>1
    <3>3. Len(messages) % 2 = 1 /\ Len(messages) # 1
      <4>1. Len(messages) % 2 = 1
        BY <2>2, Zenon DEF ChatGrows
      <4>2. Len(messages) # 1
        <5>1. \A n \in Nat : n >= 2 => n # 1
          OBVIOUS
        <5> QED  BY <1>3, <5>1, Zenon
      <4> QED  BY <4>1, <4>2, Zenon
    <3>4. "user" = RoleAt(Len(messages) + 1) /\ "user" \in Roles
      BY <1>3, <3>3 DEF RoleAt, Roles
    <3>5. Chat(heard) /\ Len(heard) = Len(messages) + 1
      BY <1>3, <1>4, <3>2, <3>4, SaidFacts
    <3> QED  BY <1>3, <3>3, <3>5
  <2> QED  BY <2>1, <2>2
<1>6. /\ Chat(messages') /\ Len(messages') = Len(heard) + 1 /\ Front(messages') = heard
  <2>1. "assistant" = RoleAt(Len(heard) + 1) /\ "assistant" \in Roles
    BY <1>5 DEF RoleAt, Roles
  <2> QED  BY <1>1, <1>4, <1>5, <2>1, SaidFacts
<1>7. PICK pairs \in Nat : Len(heard) = 2 + 2 * pairs
  <2>1. (Len(heard) - 2) \div 2 \in Nat /\ Len(heard) = 2 + 2 * ((Len(heard) - 2) \div 2)
    BY <1>5
  <2> QED  BY <2>1
<1>8. Chat(prompt') /\ KeepsTheLatest(prompt', heard)
  BY <1>1, <1>5, <1>7, TruncateKeeps
<1>9. Len(messages') % 2 = 1
  BY <1>5, <1>6
<1> QED
  BY <1>2, <1>6, <1>8, <1>9 DEF ChatGrows, Chat

LEMMA SessionInit == Init => SessionInv
<1> SUFFICES ASSUME Init PROVE SessionInv
  OBVIOUS
<1>1. ServerShape /\ env \in Servers
  BY ShapeInit DEF Init, ServerInit
<1>2. reply.status \in Statuses
  BY DEF Init, ServerInit, Answered, Result, Statuses
<1>3. TurnsLeft
  BY MaxTurnsAssumption DEF Init, TurnsLeft, Phases
<1>4. ChatGrows
  <2>1. HeadSize \in Nat
    BY ChatAssumption
  <2>2. /\ messages = <<Message("system", HeadSize, 1), Message("user", HeadSize, 2)>>
        /\ prompt = <<>>
    <3> DEFINE first  == Message("system", HeadSize, 1)
               second == Message("user", HeadSize, 2)
    <3>1. messages = Said(Said(<<>>, "system", HeadSize), "user", HeadSize) /\ prompt = <<>>
      BY DEF Init, ChatInit, StartOfEpisode
    <3>2. Said(<<>>, "system", HeadSize) = <<first>>
      <4>1. Len(<<>>) + 1 = 1
        OBVIOUS
      <4>2. Said(<<>>, "system", HeadSize) = Append(<<>>, first)
        BY <4>1 DEF Said
      <4> HIDE DEF first
      <4> QED  BY <4>2
    <3>3. Said(<<first>>, "user", HeadSize) = <<first, second>>
      <4>1. Len(<<first>>) + 1 = 2
        OBVIOUS
      <4>2. Said(<<first>>, "user", HeadSize) = Append(<<first>>, second)
        BY <4>1 DEF Said
      <4> HIDE DEF first, second
      <4> QED  BY <4>2
    <3> QED  BY <3>1, <3>2, <3>3
  <2>3. /\ Message("system", HeadSize, 1) \in MessageType
        /\ Message("user", HeadSize, 2) \in MessageType
    BY <2>1 DEF Message, MessageType, Roles
  <2>4. /\ messages \in Seq(MessageType) /\ Len(messages) = 2
        /\ messages[1].role = "system" /\ messages[2].role = "user"
    BY <2>2, <2>3 DEF Message
  <2>5. Chat(messages)
    BY <2>4 DEF Chat, RoleAt
  <2>6. prompt \in Seq(MessageType) /\ prompt = <<>>
    BY <2>2
  <2>7. phase = "reply" /\ observed = {}
    BY DEF Init
  <2> QED  BY <2>4, <2>5, <2>6, <2>7 DEF ChatGrows
<1> QED
  BY <1>1, <1>2, <1>3, <1>4 DEF SessionInv, Init

LEMMA SessionStep == SessionInv /\ [Next]_vars => SessionInv'
<1> SUFFICES ASSUME SessionInv, [Next]_vars PROVE SessionInv'
  OBVIOUS
<1>1. CASE NextAction
  <2>1. ChatGrows'
    BY <1>1, ChatStep DEF SessionInv
  <2>2. UNCHANGED <<serverVars, turn, written>> /\ phase = "reply" /\ phase' \in Phases \ {"reply"}
    BY <1>1, NextActionForms
  <2>3. TurnsLeft'
    BY <2>2 DEF SessionInv, TurnsLeft
  <2>4. /\ ServerShape' /\ (env \in Servers)' /\ (reply.status \in Statuses)'
        /\ (\A w \in written : Kept(w))'
    BY <2>2 DEF SessionInv, serverVars, entries, ServerShape, Kept, KeptFile, KeptValue,
                KeptEvent, KeptAlarm
  <2> QED  BY <2>1, <2>3, <2>4 DEF SessionInv
<1>2. CASE Execute
  <2>1. ServerCall /\ written' = Acknowledged
    BY <1>2, ExecuteForms
  <2>2. ServerShape' /\ (\A w \in written : Kept(w))'
    <3>1. ServerShape'
      BY <2>1, ShapeCall DEF SessionInv
    <3>2. \A w \in Acknowledged : Kept(w)'
      BY <2>1, KeptCall DEF SessionInv
    <3> QED  BY <2>1, <3>1, <3>2
  <2>3. env' = env /\ reply'.status \in Statuses
    BY <2>1, CallShape DEF SessionInv
  <2>4. TurnsLeft'
    BY <1>2, ExecuteForms, MaxTurnsAssumption DEF SessionInv, TurnsLeft
  <2>5. ChatGrows'
    BY <1>2, ExecuteForms DEF SessionInv, ChatGrows, chatVars
  <2> QED  BY <2>2, <2>3, <2>4, <2>5 DEF SessionInv
<1>3. CASE UNCHANGED vars
  BY <1>3 DEF vars, serverVars, sessionVars, chatVars, entries, SessionInv, ServerShape,
              TurnsLeft, ChatGrows, Kept, KeptFile, KeptValue, KeptEvent, KeptAlarm
<1> QED
  BY <1>1, <1>2, <1>3 DEF Next

LEMMA SessionInvariant == Spec => []SessionInv
  BY SessionInit, SessionStep, PTL DEF Spec

-----------------------------------------------------------------------------
\* The variables of the session have the types the code gives them: entries have a
\* history, ids lie behind the counter that gives them out, and no episode takes
\* a turn more than it has.
THEOREM SessionTypeCorrect == Spec => []TypeOK
<1>1. ASSUME SessionInv PROVE TypeOK
  <2>1. ServerTypeOK
    BY <1>1 DEF SessionInv, ServerShape, ServerTypeOK
  <2>2. ChatTypeOK
    BY <1>1 DEF SessionInv, ChatGrows, Chat, ChatTypeOK
  <2>3. Cardinality(observed) <= 1
    <3>1. observed = {} \/ \E size : observed = {size}
      BY <1>1 DEF SessionInv, ChatGrows
    <3>2. Cardinality(observed) = 0 \/ Cardinality(observed) = 1
      BY <3>1, FS_EmptySet, FS_Singleton, Zenon
    <3> QED  BY <3>2
  <2>4. \A w \in written : DOMAIN w = {"key", "version", "value"}
    BY <1>1 DEF SessionInv, Kept
  <2>5. phase \in {"reply", "call", "answered", "abstained", "raised", "out of turns"}
    BY <1>1, Zenon DEF SessionInv, TurnsLeft, Phases
  <2>6. turn \in 0 .. MaxTurns
    BY <1>1 DEF SessionInv, TurnsLeft
  <2> QED  BY <2>1, <2>2, <2>3, <2>4, <2>5, <2>6, Zenon DEF TypeOK
<1> QED
  BY <1>1, SessionInvariant, PTL

\* What a server acknowledged stays under the version or id it was given, and in
\* the listings and the searches, whatever a model calls and with what arguments,
\* until it is deleted or, an alarm, set again (envs/servers.py).
THEOREM AcknowledgedWritesDoLast == Spec => []AcknowledgedWritesLast
<1>1. ASSUME SessionInv PROVE AcknowledgedWritesLast
  BY <1>1, KeptHolds, Zenon DEF SessionInv, AcknowledgedWritesLast
<1> QED
  BY <1>1, SessionInvariant, PTL

\* What the model is shown is the head and as much of the newest chat as fits,
\* however long the chat and whatever the sizes (policy.py:221-230).
THEOREM PromptsKeepTheLatest == Spec => []PromptKeepsTheLatest
<1>1. ASSUME SessionInv PROVE PromptKeepsTheLatest
  BY <1>1, Zenon DEF SessionInv, ChatGrows, KeepsTheLatest, PromptKeepsTheLatest
<1> QED
  BY <1>1, SessionInvariant, PTL

-----------------------------------------------------------------------------
(***************************************************************************)
(* What silent faults make of a result.                                    *)
(***************************************************************************)

\* The smaller of two.
LEMMA MinOfTwo ==
  \A a, b \in Int : Min({a, b}) = IF a <= b THEN a ELSE b
<1> SUFFICES ASSUME NEW a \in Int, NEW b \in Int
             PROVE  Min({a, b}) = IF a <= b THEN a ELSE b
  OBVIOUS
<1> DEFINE m == IF a <= b THEN a ELSE b
<1>1. /\ m \in {a, b} /\ \A y \in {a, b} : m =< y
      /\ \A x \in {a, b} : (\A y \in {a, b} : x =< y) => x = m
  OBVIOUS
<1> QED  BY <1>1 DEF Min

\* _stale_k clips to the history there is: never the present version, never before
\* the first.
LEMMA StaleStepsWithin ==
  ASSUME NEW k \in StalenessSteps, NEW available \in Nat, available >= 2
  PROVE  StaleSteps(k, available) \in 1 .. available - 1
<1> DEFINE clipped == Min({k, available - 1})
<1>1. k \in Int /\ k >= 1 /\ available - 1 \in Int /\ available - 1 >= 1
  BY DEF StalenessSteps
<1>2. clipped = IF k <= available - 1 THEN k ELSE available - 1
  BY <1>1, MinOfTwo, Zenon
<1>3. clipped \in Int /\ clipped >= 1 /\ clipped <= available - 1
  BY <1>1, <1>2
<1> HIDE DEF clipped
<1>4. Max({1, clipped}) = IF 1 >= clipped THEN 1 ELSE clipped
  BY <1>3, MaxOfTwo, 1 \in Int, Zenon
<1>5. Max({1, clipped}) \in 1 .. available - 1
  BY <1>1, <1>3, <1>4
<1> QED  BY <1>5 DEF StaleSteps, clipped

LEMMA StaledIsEarlier ==
  ASSUME NEW history, Len(history) \in Nat, Len(history) >= 2, NEW v \in Staled(history)
  PROVE  v \in 1 .. Len(history) - 1
<1>1. PICK k \in StalenessSteps : v = Len(history) - StaleSteps(k, Len(history))
  BY DEF Staled
<1>2. StaleSteps(k, Len(history)) \in 1 .. Len(history) - 1
  BY StaleStepsWithin
<1> QED  BY <1>1, <1>2

\* Rounding keeps three percent of seventeen and one percent of fifty, of less it
\* may keep nothing.
LEMMA PercentFacts ==
  ASSUME NEW n \in Nat
  PROVE  /\ \A p \in Nat : Percent(p, n) \in Nat
         /\ IF n <= 16 THEN Percent(3, n) = 0 ELSE Percent(3, n) >= 1
         /\ n >= 1 => Percent(12, n) < n
         /\ IF n < 50 THEN Percent(1, n) = 0 ELSE Percent(1, n) >= 1
<1>1. ASSUME NEW p \in Nat PROVE Percent(p, n) \in Nat
  <2>1. 2 * p * n + 100 \in Nat
    OBVIOUS
  <2>2. \A x \in Nat : x \div 200 \in Nat
    OBVIOUS
  <2> QED  BY <2>1, <2>2, Zenon DEF Percent
<1>2. IF n <= 16 THEN Percent(3, n) = 0 ELSE Percent(3, n) >= 1
  BY DEF Percent
<1>3. n >= 1 => Percent(12, n) < n
  BY DEF Percent
<1>4. IF n < 50 THEN Percent(1, n) = 0 ELSE Percent(1, n) >= 1
  BY DEF Percent
<1> QED  BY <1>1, <1>2, <1>3, <1>4

\* A number is perturbed by what the percentages allow, up or down.
LEMMA PerturbedFacts ==
  ASSUME NEW n \in Int, NEW lo \in Nat, NEW hi \in Nat, NEW m
  PROVE  m \in Perturbed(n, lo, hi) <=>
           \E d \in Nat : /\ Percent(lo, Magnitude(n)) <= d /\ d <= Percent(hi, Magnitude(n))
                          /\ m = n - d \/ m = n + d
<1>1. Magnitude(n) \in Nat
  BY DEF Magnitude
<1>2. Percent(lo, Magnitude(n)) \in Nat /\ Percent(hi, Magnitude(n)) \in Nat
  BY <1>1, PercentFacts
<1>3. m \in Perturbed(n, lo, hi) <=>
        \E d \in Percent(lo, Magnitude(n)) .. Percent(hi, Magnitude(n)) : m \in {n - d, n + d}
  BY DEF Perturbed
<1> QED  BY <1>2, <1>3

\* A number may be perturbed to itself just when the rounding restores it.
LEMMA PerturbedMoves ==
  ASSUME NEW n \in Int
  PROVE  /\ n \in Perturbed(n, 3, 12) <=> Rounded(n)
         /\ n \in PerturbedInt(n) <=> Rounded(n)
         /\ n \in Perturbed(n, 1, 5) <=> Magnitude(n) < 50
<1>1. Magnitude(n) \in Nat
  BY DEF Magnitude
<1>2. /\ Percent(3, Magnitude(n)) \in Nat /\ Percent(12, Magnitude(n)) \in Nat
      /\ Percent(1, Magnitude(n)) \in Nat /\ Percent(5, Magnitude(n)) \in Nat
      /\ Rounded(n) => Percent(3, Magnitude(n)) = 0
      /\ ~Rounded(n) => Percent(3, Magnitude(n)) >= 1 /\ Percent(12, Magnitude(n)) < Magnitude(n)
      /\ Magnitude(n) < 50 => Percent(1, Magnitude(n)) = 0
      /\ Magnitude(n) >= 50 => Percent(1, Magnitude(n)) >= 1
  <2>1. /\ \A p \in Nat : Percent(p, Magnitude(n)) \in Nat
        /\ IF Magnitude(n) <= 16 THEN Percent(3, Magnitude(n)) = 0 ELSE Percent(3, Magnitude(n)) >= 1
        /\ Magnitude(n) >= 1 => Percent(12, Magnitude(n)) < Magnitude(n)
        /\ IF Magnitude(n) < 50 THEN Percent(1, Magnitude(n)) = 0 ELSE Percent(1, Magnitude(n)) >= 1
    BY <1>1, PercentFacts, Zenon
  <2>2. Magnitude(n) >= 50 <=> ~(Magnitude(n) < 50)
    BY <1>1
  <2>3. Magnitude(n) <= 16 \/ Magnitude(n) >= 1
    BY <1>1
  <2>4. {1, 3, 5, 12} \subseteq Nat
    OBVIOUS
  <2> QED  BY <2>1, <2>2, <2>3, <2>4, Zenon DEF Rounded
<1>3. n \in Perturbed(n, 1, 5) <=> Magnitude(n) < 50
  <2>1. ASSUME Magnitude(n) >= 50, n \in Perturbed(n, 1, 5)
        PROVE  FALSE
    <3>1. PICK d \in Nat : Percent(1, Magnitude(n)) <= d /\ (n = n - d \/ n = n + d)
      BY <2>1, PerturbedFacts
    <3> QED  BY <1>2, <2>1, <3>1
  <2>2. ASSUME Magnitude(n) < 50
        PROVE  n \in Perturbed(n, 1, 5)
    <3>1. 0 \in Nat /\ Percent(1, Magnitude(n)) <= 0 /\ 0 <= Percent(5, Magnitude(n)) /\ n = n + 0
      BY <1>2, <2>2
    <3> QED  BY <3>1, PerturbedFacts
  <2> QED  BY <1>1, <2>1, <2>2
<1>4. ASSUME Rounded(n)
      PROVE  n \in Perturbed(n, 3, 12)
  <2>1. 0 \in Nat /\ Percent(3, Magnitude(n)) <= 0 /\ 0 <= Percent(12, Magnitude(n)) /\ n = n + 0
    BY <1>2, <1>4
  <2> QED  BY <2>1, PerturbedFacts
<1>5. ASSUME ~Rounded(n), NEW m \in Perturbed(n, 3, 12)
      PROVE  m \in Int /\ m # n /\ m # 0
  <2>1. PICK d \in Nat : /\ Percent(3, Magnitude(n)) <= d /\ d <= Percent(12, Magnitude(n))
                         /\ m = n - d \/ m = n + d
    BY PerturbedFacts
  <2>2. d >= 1 /\ d < Magnitude(n)
    BY <1>1, <1>2, <1>5, <2>1
  <2> QED  BY <2>1, <2>2 DEF Magnitude
<1>6. ASSUME Rounded(n)
      PROVE  n \in PerturbedInt(n)
  <2>1. n = IF n = 0 THEN n ELSE n
    OBVIOUS
  <2> QED  BY <1>4, <1>6, <2>1, Zenon DEF PerturbedInt
<1>7. ASSUME ~Rounded(n), n \in PerturbedInt(n)
      PROVE  FALSE
  <2>1. PICK m \in Perturbed(n, 3, 12) : n = IF m = 0 THEN n ELSE m
    BY <1>7, Zenon DEF PerturbedInt
  <2> QED  BY <1>5, <1>7, <2>1
<1> QED  BY <1>3, <1>4, <1>5, <1>6, <1>7

\* A size is perturbed to a size of at least one.
LEMMA PerturbedSizeFacts ==
  ASSUME NEW n \in Nat
  PROVE  /\ \A m \in PerturbedSize(n) : m \in Int /\ m >= 1
         /\ n \in PerturbedSize(n) <=> n > 0 /\ Rounded(n)
<1>1. ASSUME NEW m \in PerturbedInt(n) PROVE m \in Int
  <2>1. PICK x \in Perturbed(n, 3, 12) : m = IF x = 0 THEN n ELSE x
    BY <1>1 DEF PerturbedInt
  <2>2. x \in Int
    BY PerturbedFacts
  <2> QED  BY <2>1, <2>2
<1>2. ASSUME NEW m \in PerturbedInt(n)
      PROVE  Max({1, m}) = IF 1 >= m THEN 1 ELSE m
  BY <1>1, 1 \in Int, MaxOfTwo, Zenon
<1>3. \A m \in PerturbedSize(n) : m \in Int /\ m >= 1
  <2> SUFFICES ASSUME NEW m \in PerturbedInt(n) PROVE Max({1, m}) \in Int /\ Max({1, m}) >= 1
    BY DEF PerturbedSize
  <2> QED  BY <1>1, <1>2
<1>4. ASSUME ~Rounded(n), NEW m \in PerturbedInt(n)
      PROVE  Max({1, m}) # n
  <2>1. m # n
    BY <1>4, PerturbedMoves
  <2>2. n > 16
    BY <1>4 DEF Rounded, Magnitude
  <2> QED  BY <1>1, <1>2, <2>1, <2>2
<1>5. ASSUME n > 0, Rounded(n)
      PROVE  n \in PerturbedSize(n)
  <2>1. n \in PerturbedInt(n)
    BY <1>5, PerturbedMoves
  <2>2. n = Max({1, n})
    BY <1>2, <1>5, <2>1
  <2> QED  BY <2>1, <2>2, Zenon DEF PerturbedSize
<1>6. ASSUME n \in PerturbedSize(n)
      PROVE  n > 0 /\ Rounded(n)
  <2>1. n > 0
    BY <1>3, <1>6
  <2>2. PICK m \in PerturbedInt(n) : n = Max({1, m})
    BY <1>6, Zenon DEF PerturbedSize
  <2> QED  BY <1>4, <2>1, <2>2
<1> QED  BY <1>3, <1>5, <1>6

-----------------------------------------------------------------------------
\* fs.S1 serves an earlier version as it was, if there is one; S2 misreads a digit
\* run, if there is one; S3 leaves what is empty; S4 answers another size or another
\* version, but for a small first one.
LEMMA FilesNoOps == ServerShape => FsNoOps
<1> SUFFICES ASSUME ServerShape PROVE FsNoOps
  OBVIOUS
<1>1. ASSUME NEW path \in DOMAIN files
      PROVE  /\ files[path] \in Seq(Contents) /\ Len(files[path]) \in Nat /\ Len(files[path]) >= 1
             /\ Last(files[path]) \in Texts /\ Last(files[path]) = files[path][Len(files[path])]
             /\ Last(files[path]).size \in Nat /\ Last(files[path]).runs \in Nat
             /\ Last(files[path]).misread = 0
  <2>1. files[path] \in Seq(Contents) /\ Len(files[path]) \in Nat /\ Len(files[path]) >= 1
    BY DEF ServerShape
  <2>2. files[path][Len(files[path])] \in Texts
    BY <2>1, ArgAssumption
  <2> QED  BY <2>1, <2>2 DEF Last, Texts
<1>2. ASSUME NEW path \in DOMAIN files, NEW r \in FsRead(path)
      PROVE  /\ r \in FsStale(path, r) <=> Len(files[path]) = 1
             /\ Len(files[path]) > 1 => \A m \in FsStale(path, r) :
                  m.version \in 1 .. r.version - 1 /\ m.content = files[path][m.version]
             /\ r \in FsType(r) <=> r.content.runs = 0
  <2> DEFINE n    == Len(files[path])
             last == Last(files[path])
  <2>1. r = [content |-> last, version |-> n]
    BY DEF FsRead
  <2>2. ASSUME n > 1, NEW m \in FsStale(path, r)
        PROVE  m.version \in 1 .. r.version - 1 /\ m.content = files[path][m.version]
    <3>1. PICK v \in Staled(files[path]) : m = [content |-> files[path][v], version |-> v]
      BY <1>1, <2>2 DEF FsStale
    <3>2. v \in 1 .. n - 1
      BY <1>1, <2>2, StaledIsEarlier
    <3> QED  BY <2>1, <3>1, <3>2
  <2>3. r \in FsStale(path, r) <=> n = 1
    <3>1. ASSUME n = 1 PROVE r \in FsStale(path, r)
      BY <3>1 DEF FsStale
    <3>2. ASSUME n > 1, r \in FsStale(path, r) PROVE FALSE
      <4>1. r.version \in 1 .. r.version - 1 /\ r.version \in Nat
        BY <1>1, <2>1, <2>2, <3>2
      <4> QED  BY <4>1
    <3>3. n \in Nat /\ n >= 1
      BY <1>1
    <3>4. n = 1 <=> ~(n > 1)
      <4> HIDE DEF n
      <4> QED  BY <3>3
    <3> QED  BY <3>1, <3>2, <3>4, Zenon
  <2>4. last \in Texts /\ last.runs \in Nat /\ last.misread = 0
    BY <1>1
  <2> HIDE DEF last, n
  <2>5. r.content = last
    BY <2>1
  <2>6. ASSUME last.runs = 0 PROVE r \in FsType(r)
    <3>1. last \in Decimalize(last)
      BY <2>6 DEF Decimalize
    <3>2. r = [r EXCEPT !.content = last]
      BY <2>1
    <3> QED  BY <2>5, <3>1, <3>2, Zenon DEF FsType
  <2>7. ASSUME last.runs # 0, r \in FsType(r) PROVE FALSE
    <3>1. PICK text \in Decimalize(last) : r = [r EXCEPT !.content = text]
      BY <2>5, <2>7, Zenon DEF FsType
    <3>2. text = last
      BY <2>1, <3>1
    <3>3. PICK i \in 1 .. last.runs : text = [last EXCEPT !.misread = i]
      BY <2>7, <3>1 DEF Decimalize
    <3>4. text.misread = i /\ i # 0
      BY <2>4, <3>3 DEF Texts
    <3> QED  BY <2>4, <3>2, <3>4
  <2> QED  BY <2>2, <2>3, <2>5, <2>6, <2>7, Zenon DEF n
<1>3. ASSUME NEW path
      PROVE  /\ FsStat(path) \in FsContradict(FsStat(path)) <=>
                  FsStat(path).version = 1 /\ FsStat(path).size > 0 /\ Rounded(FsStat(path).size)
             /\ \A m \in FsContradict(FsStat(path)) : m.size >= 1
  <2> DEFINE r == FsStat(path)
  <2>1. /\ r.size \in Nat /\ r.version \in Nat /\ (r.version = 0 => r.size = 0)
        /\ r = [exists |-> r.exists, size |-> r.size, version |-> r.version]
    <3>1. CASE path \in DOMAIN files
      <4>1. r = [exists |-> TRUE, size |-> Last(files[path]).size, version |-> Len(files[path])]
        BY <3>1 DEF FsStat
      <4> HIDE DEF r
      <4>2. r.size = Last(files[path]).size /\ r.version = Len(files[path]) /\ r.exists
        BY <4>1
      <4>3. r.size \in Nat /\ r.version \in Nat /\ r.version # 0
        BY <1>1, <3>1, <4>2
      <4> QED  BY <4>1, <4>2, <4>3
    <3>2. CASE path \notin DOMAIN files
      <4>1. r = [exists |-> FALSE, size |-> 0, version |-> 0]
        BY <3>2 DEF FsStat
      <4> HIDE DEF r
      <4> QED  BY <4>1
    <3> QED  BY <3>1, <3>2
  <2> HIDE DEF r
  <2>2. ASSUME NEW m \in FsContradict(r)
        PROVE  /\ m.size \in PerturbedSize(r.size)
               /\ m.version = IF r.version > 1 THEN r.version - 1 ELSE r.version
    <3>1. PICK size \in PerturbedSize(r.size) :
            m = [r EXCEPT !.size = size, !.version = IF @ > 1 THEN @ - 1 ELSE @]
      BY <2>2, Zenon DEF FsContradict
    <3> QED  BY <2>1, <3>1
  <2>3. \A m \in FsContradict(r) : m.size >= 1
    BY <2>1, <2>2, PerturbedSizeFacts
  <2>4. ASSUME r \in FsContradict(r)
        PROVE  r.version = 1 /\ r.size > 0 /\ Rounded(r.size)
    <3>1. r.size \in PerturbedSize(r.size) /\ ~(r.version > 1)
      BY <2>1, <2>2, <2>4
    <3>2. r.size > 0 /\ Rounded(r.size)
      BY <2>1, <3>1, PerturbedSizeFacts
    <3> QED  BY <2>1, <3>1, <3>2
  <2>5. ASSUME r.version = 1, r.size > 0, Rounded(r.size)
        PROVE  r \in FsContradict(r)
    <3>1. r.size \in PerturbedSize(r.size)
      BY <2>1, <2>5, PerturbedSizeFacts
    <3> DEFINE version == IF r.version > 1 THEN r.version - 1 ELSE r.version
    <3>2. version = r.version
      BY <2>5
    <3> HIDE DEF version
    <3>3. r = [r EXCEPT !.size = r.size, !.version = version]
      BY <2>1, <3>2
    <3> QED  BY <3>1, <3>3, Zenon DEF FsContradict, version
  <2> QED  BY <2>3, <2>4, <2>5, Zenon DEF r
<1>4. ASSUME NEW dir
      PROVE  FsListed(dir) \in Emptied <=> \A path \in DOMAIN files : ~IsStrictPrefix(dir, path)
  BY Zenon DEF FsListed, Emptied
<1>5. ASSUME NEW word
      PROVE  FsFound(word) \in Emptied <=> \A path \in DOMAIN files : word \notin Last(files[path]).words
  BY Zenon DEF FsFound, Emptied
<1> QED  BY <1>2, <1>3, <1>4, <1>5, Zenon DEF FsNoOps

\* kv.S1 serves an earlier version as kv.getv answers it, if there is one; S2 makes
\* text of a number; S3 leaves what is empty; S4 answers another number, if it is
\* not too small.
LEMMA ValuesNoOps == ServerShape => KvNoOps
<1> SUFFICES ASSUME ServerShape PROVE KvNoOps
  OBVIOUS
<1>1. ASSUME NEW key \in DOMAIN store, NEW version \in DOMAIN store[key],
             NEW r \in KvGetv(key, version)
      PROVE  /\ r \in KvType(r) <=> r.value.kind \notin {"int", "user"}
             /\ r \in KvContradict(r) <=>
                  (r.value.kind \in {"int", "user", "float"} => Rounded(r.value.n))
  <2> DEFINE value == store[key][version]
  <2>1. value \in TypedValues
    <3>1. store[key] \in Seq(Values) /\ version \in 1 .. Len(store[key])
      BY DEF ServerShape
    <3> QED  BY <3>1, ArgAssumption
  <2>2. r = [value |-> value, version |-> version]
    BY DEF KvGetv
  <2> HIDE DEF value
  <2>3. value.n \in Int /\ r.value = value /\ value = [kind |-> value.kind, n |-> value.n]
    BY <2>1, <2>2 DEF TypedValues
  <2>4. ASSUME value.kind \in {"int", "user"}, r \in KvType(r)
        PROVE  FALSE
    <3> DEFINE kind == IF value.kind = "int" THEN "numeral" ELSE "user's numeral"
    <3>1. kind # value.kind
      BY <2>4
    <3>2. r = [r EXCEPT !.value.kind = kind]
      BY <2>3, <2>4 DEF KvType
    <3> HIDE DEF kind
    <3>3. r.value.kind = kind
      BY <2>2, <2>3, <3>2
    <3> QED  BY <2>3, <3>1, <3>3
  <2>5. ASSUME value.kind \notin {"int", "user"}
        PROVE  r \in KvType(r)
    BY <2>3, <2>5 DEF KvType
  <2>6. ASSUME NEW S
        PROVE  r \in {[r EXCEPT !.value.n = n] : n \in S} <=> value.n \in S
    <3>1. ASSUME NEW n \in S, r = [r EXCEPT !.value.n = n]
          PROVE  value.n = n
      BY <2>2, <2>3, <3>1
    <3>2. r = [r EXCEPT !.value.n = value.n]
      BY <2>2, <2>3
    <3> QED  BY <3>1, <3>2, Zenon
  <2>7. CASE value.kind \in {"int", "user"}
    <3>1. KvContradict(r) = {[r EXCEPT !.value.n = n] : n \in PerturbedInt(value.n)}
      BY <2>3, <2>7, Zenon DEF KvContradict
    <3> QED  BY <2>3, <2>4, <2>6, <2>7, <3>1, PerturbedMoves, Zenon
  <2>8. CASE value.kind = "float"
    <3>1. KvContradict(r) = {[r EXCEPT !.value.n = n] : n \in Perturbed(value.n, 3, 12)}
      BY <2>3, <2>8 DEF KvContradict
    <3>2. r \in KvContradict(r) <=> Rounded(value.n)
      BY <2>3, <2>6, <3>1, PerturbedMoves, Zenon
    <3> QED  BY <2>3, <2>5, <2>8, <3>2
  <2>9. CASE value.kind \notin {"int", "user", "float"}
    <3>1. r \in KvContradict(r)
      BY <2>3, <2>9 DEF KvContradict
    <3> QED  BY <2>3, <2>5, <2>9, <3>1
  <2> QED  BY <2>7, <2>8, <2>9, Zenon
<1>2. ASSUME NEW key \in DOMAIN store, NEW r \in KvGet(key)
      PROVE  /\ r \in KvStale(key, r) <=> r.version = 1
             /\ r.version > 1 => \A m \in KvStale(key, r) :
                  m.version \in 1 .. r.version - 1 /\ {m} = KvGetv(key, m.version)
  <2> DEFINE n == Len(store[key])
  <2>1. /\ store[key] \in Seq(Values) /\ n \in Nat /\ n >= 1 /\ DOMAIN store[key] = 1 .. n
        /\ r.version = n
    BY DEF ServerShape, KvGet
  <2>2. ASSUME n > 1, NEW m \in KvStale(key, r)
        PROVE  m.version \in 1 .. r.version - 1 /\ {m} = KvGetv(key, m.version)
    <3>1. PICK v \in Staled(store[key]) : m = [value |-> store[key][v], version |-> v]
      BY <2>1, <2>2 DEF KvStale
    <3>2. v \in 1 .. n - 1
      BY <2>1, <2>2, StaledIsEarlier
    <3>3. v \in DOMAIN store[key] /\ m.version = v
      BY <2>1, <3>1, <3>2
    <3>4. KvGetv(key, v) = {[value |-> store[key][v], version |-> v]}
      BY <3>3 DEF KvGetv
    <3> QED  BY <2>1, <3>1, <3>2, <3>3, <3>4
  <2>3. n = 1 => r \in KvStale(key, r)
    BY <2>1 DEF KvStale
  <2>4. ASSUME n > 1, r \in KvStale(key, r) PROVE FALSE
    <3>1. r.version \in 1 .. r.version - 1
      BY <2>2, <2>4
    <3> QED  BY <2>1, <3>1
  <2> HIDE DEF n
  <2>5. n > 1 \/ n = 1
    BY <2>1
  <2> QED  BY <2>1, <2>2, <2>3, <2>4, <2>5
<1>3. ASSUME NEW key
      PROVE  KvScanned(key[1]) \in Emptied <=> \A k \in DOMAIN store : k[1] # key[1]
  BY Zenon DEF KvScanned, Emptied
<1> QED  BY <1>1, <1>2, <1>3, Zenon DEF KvNoOps

\* With history enough, as many steps as are drawn.
LEMMA StaleStepsAsDrawn ==
  ASSUME NEW k \in Nat, NEW available \in Nat, 1 <= k, k < available
  PROVE  StaleSteps(k, available) = k
<1>1. k \in Int /\ available - 1 \in Int /\ 1 \in Int /\ k <= available - 1 /\ k >= 1
  OBVIOUS
<1>2. Min({k, available - 1}) = k
  <2>1. Min({k, available - 1}) = IF k <= available - 1 THEN k ELSE available - 1
    BY <1>1, MinOfTwo, Zenon
  <2> QED  BY <1>1, <2>1
<1>3. Max({1, k}) = k
  <2>1. Max({1, k}) = IF 1 >= k THEN 1 ELSE k
    BY <1>1, MaxOfTwo, Zenon
  <2> QED  BY <1>1, <2>1
<1> QED  BY <1>2, <1>3 DEF StaleSteps

\* http.S1 serves an earlier snapshot, which may equal the present one; S2 misreads
\* an item's numbers or one of an article's; S3 leaves what has no links; S4 answers
\* another length, if it is not too small.
LEMMA PagesNoOps == HttpNoOps
<1> SUFFICES ASSUME NEW url \in DOMAIN Pages
             PROVE  /\ \A r \in HttpFetch(url) :
                         /\ r \in HttpStale(url, r) <=> r.body \in Range(Front(Pages[url]))
                         /\ r \in HttpType(r) <=>
                              r.body.kind = "index" \/ (r.body.kind = "article" /\ r.body.runs = 0)
                         /\ r \notin HttpEmpty(r)
                    /\ \A r \in HttpHead(url) :
                         r \in HttpContradict(r) <=> r.length > 0 /\ Rounded(r.length)
                    /\ \A r \in HttpLinks(url) :
                         r.links \in Emptied <=> Last(Pages[url]).kind # "index"
  BY Zenon DEF HttpNoOps
<1> DEFINE page == Pages[url]
           last == Last(page)
<1>1. page \in Seq(Bodies) /\ Len(page) \in 2 .. 3
  BY SeedAssumption DEF PagesAsReset, Pages
<1>2. last \in Bodies
  BY <1>1 DEF Last
<1>3. /\ last.kind \in {"item", "article", "index"} /\ last.runs \in Nat /\ last.misread = 0
      /\ last.length \in Nat
  BY <1>2 DEF Bodies
<1>4. HttpFetch(url) = {[body |-> last]} /\ HttpHead(url) = {[length |-> last.length]}
      /\ HttpLinks(url) = {[links |-> IF last.kind = "index" THEN DOMAIN Pages ELSE {}]}
  BY Zenon DEF HttpFetch, HttpHead, HttpLinks
<1> HIDE DEF last
<1>5. ASSUME NEW r, r = [body |-> last]
      PROVE  r \in HttpStale(url, r) <=> r.body \in Range(Front(page))
  <2> DEFINE n == Len(page)
  <2>0. n \in Nat /\ n >= 2 /\ n <= 3
    BY <1>1
  <2>1. HttpStale(url, r) = {[body |-> page[v]] : v \in Staled(page)}
    BY <2>0 DEF HttpStale
  <2>2. Staled(page) = 1 .. Len(page) - 1
    <3>1. ASSUME NEW v \in Staled(page) PROVE v \in 1 .. Len(page) - 1
      BY <2>0, <3>1, StaledIsEarlier
    <3>2. ASSUME NEW v \in 1 .. n - 1 PROVE v \in Staled(page)
      <4>1. n - v \in StalenessSteps /\ n - v \in Nat /\ n - v < n /\ 1 <= n - v
        BY <2>0, <3>2 DEF StalenessSteps
      <4>2. StaleSteps(n - v, n) = n - v
        BY <2>0, <4>1, StaleStepsAsDrawn
      <4>3. v = n - StaleSteps(n - v, n)
        BY <2>0, <3>2, <4>2
      <4> QED  BY <4>1, <4>3 DEF Staled
    <3> QED  BY <3>1, <3>2, Zenon
  <2>3. Range(Front(page)) = {page[v] : v \in 1 .. n - 1}
    <3>1. DOMAIN Front(page) = 1 .. n - 1 /\ \A v \in 1 .. n - 1 : Front(page)[v] = page[v]
      BY <1>1, <2>0 DEF Front
    <3> HIDE DEF page, n
    <3> QED  BY <3>1 DEF Range
  <2>4. \A v : r = [body |-> page[v]] <=> last = page[v]
    BY <1>5
  <2> HIDE DEF page
  <2> QED  BY <1>5, <2>1, <2>2, <2>3, <2>4
<1>6. ASSUME NEW r, r = [body |-> last]
      PROVE  r \in HttpType(r) <=> last.kind = "index" \/ (last.kind = "article" /\ last.runs = 0)
  <2>1. r.body = last
    BY <1>6
  <2>2. last = [kind |-> last.kind, runs |-> last.runs, misread |-> 0, n |-> last.n,
                length |-> last.length]
    BY <1>2 DEF Bodies
  <2>3. ASSUME last.kind = "item", r \in HttpType(r)
        PROVE  FALSE
    <3>1. r = [r EXCEPT !.body.misread = 1]
      BY <2>1, <2>3 DEF HttpType
    <3>2. r.body.misread = 1
      BY <1>6, <2>2, <3>1
    <3> QED  BY <1>3, <2>1, <3>2
  <2>4. ASSUME last.kind = "index"
        PROVE  r \in HttpType(r)
    BY <2>1, <2>4 DEF HttpType
  <2>5. ASSUME last.kind = "article", last.runs = 0
        PROVE  r \in HttpType(r)
    <3>1. Decimalize(last) = {last}
      BY <2>5 DEF Decimalize
    <3>2. HttpType(r) = {[r EXCEPT !.body = b] : b \in {last}}
      BY <2>1, <2>5, <3>1 DEF HttpType
    <3>3. r = [r EXCEPT !.body = last]
      BY <1>6
    <3> QED  BY <3>2, <3>3
  <2>6. ASSUME last.kind = "article", last.runs # 0, r \in HttpType(r)
        PROVE  FALSE
    <3>1. PICK b \in Decimalize(last) : r = [r EXCEPT !.body = b]
      BY <2>1, <2>6 DEF HttpType
    <3>2. b = last
      BY <1>6, <3>1
    <3>3. PICK i \in 1 .. last.runs : b = [last EXCEPT !.misread = i]
      BY <2>6, <3>1 DEF Decimalize
    <3>4. b.misread = i /\ i # 0
      BY <1>3, <2>2, <3>3
    <3> QED  BY <1>3, <3>2, <3>4
  <2> QED  BY <1>3, <2>3, <2>4, <2>5, <2>6
<1>7. ASSUME NEW r, r = [body |-> last]
      PROVE  r \notin HttpEmpty(r)
  <2>1. ASSUME r = [r EXCEPT !.body = NoBody] PROVE FALSE
    <3>1. last = NoBody
      BY <1>7, <2>1
    <3> QED  BY <1>3, <3>1 DEF NoBody
  <2> QED  BY <2>1 DEF HttpEmpty
<1>8. ASSUME NEW r, r = [length |-> last.length]
      PROVE  r \in HttpContradict(r) <=> r.length > 0 /\ Rounded(r.length)
  <2>1. r.length \in Nat /\ \A n : r = [r EXCEPT !.length = n] <=> r.length = n
    BY <1>3, <1>8
  <2>2. r \in HttpContradict(r) <=> r.length \in PerturbedSize(r.length)
    BY <2>1, Zenon DEF HttpContradict
  <2> QED  BY <2>1, <2>2, PerturbedSizeFacts
<1>9. ASSUME NEW r, r = [links |-> IF last.kind = "index" THEN DOMAIN Pages ELSE {}]
      PROVE  r.links \in Emptied <=> last.kind # "index"
  <2>1. r.links = IF last.kind = "index" THEN DOMAIN Pages ELSE {}
    BY <1>9
  <2>2. DOMAIN Pages # {}
    OBVIOUS
  <2> QED  BY <2>1, <2>2 DEF Emptied
<1>10. ASSUME NEW r, r = [body |-> last] PROVE r.body = last
  BY <1>10
<1>11. \A r \in HttpFetch(url) : r = [body |-> last]
  BY <1>4
<1>12. \A r \in HttpHead(url) : r = [length |-> last.length]
  BY <1>4
<1>13. \A r \in HttpLinks(url) : r = [links |-> IF last.kind = "index" THEN DOMAIN Pages ELSE {}]
  BY <1>4
<1>14. \A r \in HttpFetch(url) :
         /\ r \in HttpStale(url, r) <=> r.body \in Range(Front(page))
         /\ r \in HttpType(r) <=>
              r.body.kind = "index" \/ (r.body.kind = "article" /\ r.body.runs = 0)
         /\ r \notin HttpEmpty(r)
  BY <1>5, <1>6, <1>7, <1>10, <1>11, Zenon
<1>15. \A r \in HttpHead(url) : r \in HttpContradict(r) <=> r.length > 0 /\ Rounded(r.length)
  BY <1>8, <1>12, Zenon
<1>16. \A r \in HttpLinks(url) : r.links \in Emptied <=> last.kind # "index"
  BY <1>9, <1>13, Zenon
<1> QED  BY <1>14, <1>15, <1>16 DEF last

\* A shift leaves an hour only at the end of the day it shifts towards.
LEMMA ShiftMoves ==
  ASSUME NEW hour \in Int, NEW by \in {-6, -5, -1, 1, 4, 5}
  PROVE  ShiftTime(hour, by) = hour <=> hour = IF by < 0 THEN 0 ELSE 23
<1> DEFINE late == Min({23, hour + by})
<1>1. hour + by \in Int /\ 23 \in Int /\ 0 \in Int
  OBVIOUS
<1>2. late = IF 23 <= hour + by THEN 23 ELSE hour + by
  BY <1>1, MinOfTwo, Zenon
<1>3. late \in Int
  BY <1>1, <1>2
<1>4. Max({0, late}) = IF 0 >= late THEN 0 ELSE late
  <2> HIDE DEF late
  <2> QED  BY <1>1, <1>3, MaxOfTwo, Zenon
<1>5. Max({0, late}) = hour <=> hour = IF by < 0 THEN 0 ELSE 23
  BY <1>2, <1>4
<1> QED  BY <1>5 DEF ShiftTime

\* Events as list and get answer them.
Listed(listed) ==
  /\ listed = [id \in DOMAIN listed |-> listed[id]]
  /\ \A id \in DOMAIN listed :
       /\ listed[id] = [start |-> listed[id].start, end |-> listed[id].end]
       /\ listed[id].start \in Int /\ listed[id].end \in Int

\* A time zone leaves events that are all at one end of the day.
LEMMA ListedMoves ==
  ASSUME NEW listed, Listed(listed)
  PROVE  listed \in CalTz(listed) <=> HoursOf(listed) \in {{}, {0}, {23}}
<1> DEFINE at(by) == IF by < 0 THEN 0 ELSE 23
<1>1. \A id \in DOMAIN listed : listed[id].start \in HoursOf(listed) /\ listed[id].end \in HoursOf(listed)
  BY Zenon DEF HoursOf
<1>2. \A hour \in HoursOf(listed) : \E id \in DOMAIN listed : hour \in {listed[id].start, listed[id].end}
  BY Zenon DEF HoursOf
<1>3. ASSUME NEW by \in {-5, -6, 4, 5}
      PROVE  listed = [id \in DOMAIN listed |-> Shift(listed[id], by)] <=> HoursOf(listed) \subseteq {at(by)}
  <2>1. ASSUME NEW id \in DOMAIN listed
        PROVE  listed[id] = Shift(listed[id], by) <=> listed[id].start = at(by) /\ listed[id].end = at(by)
    <3>1. listed[id].start \in Int /\ listed[id].end \in Int
      BY DEF Listed
    <3>2. /\ ShiftTime(listed[id].start, by) = listed[id].start <=> listed[id].start = at(by)
          /\ ShiftTime(listed[id].end, by) = listed[id].end <=> listed[id].end = at(by)
      BY <3>1, ShiftMoves
    <3>3. listed[id] = [start |-> listed[id].start, end |-> listed[id].end]
      BY DEF Listed
    <3>4. listed[id] = Shift(listed[id], by) <=>
            /\ listed[id].start = ShiftTime(listed[id].start, by)
            /\ listed[id].end = ShiftTime(listed[id].end, by)
      <4> DEFINE x == ShiftTime(listed[id].start, by)
                 y == ShiftTime(listed[id].end, by)
      <4>1. Shift(listed[id], by) = [start |-> x, end |-> y]
        BY DEF Shift
      <4> HIDE DEF x, y
      <4>2. listed[id] = [start |-> x, end |-> y] <=> listed[id].start = x /\ listed[id].end = y
        BY <3>3
      <4> QED  BY <4>1, <4>2 DEF x, y
    <3> HIDE DEF at
    <3> QED  BY <3>2, <3>4, Zenon
  <2>2. listed = [id \in DOMAIN listed |-> Shift(listed[id], by)] <=>
          \A id \in DOMAIN listed : listed[id] = Shift(listed[id], by)
    <3>1. listed = [id \in DOMAIN listed |-> listed[id]]
      BY DEF Listed
    <3> QED  BY <3>1
  <2> HIDE DEF at
  <2> QED  BY <1>1, <1>2, <2>1, <2>2
<1>4. ASSUME listed \in CalTz(listed)
      PROVE  HoursOf(listed) \in {{}, {0}, {23}}
  <2>1. PICK by \in {-5, -6, 4, 5} : listed = [id \in DOMAIN listed |-> Shift(listed[id], by)]
    BY <1>4, Zenon DEF CalTz
  <2>2. HoursOf(listed) \subseteq {at(by)} /\ at(by) \in {0, 23}
    BY <1>3, <2>1
  <2> QED  BY <2>2
<1>5. ASSUME HoursOf(listed) \in {{}, {0}, {23}}
      PROVE  listed \in CalTz(listed)
  <2>1. Unreadable \notin HoursOf(listed)
    BY <1>5 DEF Unreadable
  <2>2. HoursOf(listed) \subseteq {at(-5)} \/ HoursOf(listed) \subseteq {at(4)}
    BY <1>5
  <2>3. \E by \in {-5, -6, 4, 5} : listed = [id \in DOMAIN listed |-> Shift(listed[id], by)]
    <3>1. -5 \in {-5, -6, 4, 5} /\ 4 \in {-5, -6, 4, 5}
      OBVIOUS
    <3> QED  BY <1>3, <2>2, <3>1, Zenon
  <2> QED  BY <2>1, <2>3, Zenon DEF CalTz
<1> QED  BY <1>4, <1>5

\* cal.S1 serves the hour an event has moved from, if it has; S2 moves what is not
\* all at an end of the day; S3 leaves what is empty; S4 moves one event, if there is
\* one, and not from an end of the day.
LEMMA EventsNoOps == ServerShape => CalNoOps
<1> SUFFICES ASSUME ServerShape PROVE CalNoOps
  OBVIOUS
<1>1. ASSUME NEW id \in DOMAIN events, NEW r \in CalGet(id)
      PROVE  r \in CalStale(id, r) <=> events[id].history = <<>>
  <2>1. ASSUME events[id].history # <<>>, r \in CalStale(id, r) PROVE FALSE
    <3>1. PICK old \in Int : events[id].history = <<old>> /\ old # events[id].start
      BY <2>1 DEF ServerShape, EventShape
    <3>2. r.start = Head(events[id].history)
      BY <2>1 DEF CalStale
    <3>3. r.start = events[id].start
      BY DEF CalGet
    <3> QED  BY <3>1, <3>2, <3>3
  <2>2. ASSUME events[id].history = <<>> PROVE r \in CalStale(id, r)
    BY <2>2, Zenon DEF CalStale
  <2> QED  BY <2>1, <2>2
<1>2. ASSUME NEW id \in DOMAIN events, NEW r \in CalGet(id)
      PROVE  [i \in {id} |-> r] \in CalTz([i \in {id} |-> r]) <=> r.start = r.end /\ r.start \in {0, 23}
  <2> DEFINE one == [i \in {id} |-> r]
  <2>1. DOMAIN one = {id} /\ one[id] = r
    OBVIOUS
  <2>2. r = [start |-> r.start, end |-> r.end] /\ r.start \in Int /\ r.end \in Int
    BY DEF CalGet, ServerShape, EventShape
  <2>3. Listed(one)
    BY <2>1, <2>2 DEF Listed
  <2>4. HoursOf(one) = {r.start, r.end}
    <3> HIDE DEF one
    <3> QED  BY <2>1, Zenon DEF HoursOf
  <2> HIDE DEF one
  <2>5. one \in CalTz(one) <=> {r.start, r.end} \in {{}, {0}, {23}}
    BY <2>3, <2>4, ListedMoves
  <2>6. {r.start, r.end} \in {{}, {0}, {23}} <=> r.start = r.end /\ r.start \in {0, 23}
    BY <2>2
  <2> QED  BY <2>5, <2>6 DEF one
<1>3. ASSUME NEW day
      PROVE  LET listed == CalListed(day) IN
             /\ listed \in CalTz(listed) <=> HoursOf(listed) \in {{}, {0}, {23}}
             /\ listed \in CalEmpty(listed) <=> CalOn(day) = {}
             /\ listed \in CalContradict(listed) <=>
                  CalOn(day) = {} \/ \E id \in CalOn(day) : events[id].start \in {0, 23}
  <2> DEFINE listed == CalListed(day)
  <2>1. /\ DOMAIN listed = CalOn(day) /\ CalOn(day) \subseteq DOMAIN events
        /\ \A id \in CalOn(day) : listed[id].start = events[id].start
    BY DEF CalListed, CalOn
  <2>2. Listed(listed)
    BY <2>1 DEF CalListed, Listed, ServerShape, EventShape
  <2> HIDE DEF listed
  <2>3. listed \in CalTz(listed) <=> HoursOf(listed) \in {{}, {0}, {23}}
    BY <2>2, ListedMoves
  <2>4. listed \in CalEmpty(listed) <=> CalOn(day) = {}
    <3>1. CalEmpty(listed) = {[x \in {} |-> listed[x]]}
      BY DEF CalEmpty, Restrict
    <3>2. listed = [id \in DOMAIN listed |-> listed[id]]
      BY <2>2 DEF Listed
    <3>3. DOMAIN [x \in {} |-> listed[x]] = {}
      OBVIOUS
    <3>4. ASSUME DOMAIN listed = {} PROVE listed = [x \in {} |-> listed[x]]
      BY <3>2, <3>4, Zenon
    <3> QED  BY <2>1, <3>1, <3>3, <3>4, Zenon
  <2>5. CASE CalOn(day) = {}
    <3>1. listed \in CalContradict(listed)
      BY <2>1, <2>5 DEF CalContradict
    <3> QED  BY <2>3, <2>4, <2>5, <3>1, Zenon DEF listed
  <2>6. ASSUME CalOn(day) # {}, listed \in CalContradict(listed)
        PROVE  \E id \in CalOn(day) : events[id].start \in {0, 23}
    <3>1. PICK id \in DOMAIN listed, by \in {-1, 1} :
            listed = [listed EXCEPT ![id].start = ShiftTime(@, by)]
      BY <2>1, <2>6 DEF CalContradict
    <3>2. listed[id] = [listed[id] EXCEPT !.start = ShiftTime(listed[id].start, by)]
      BY <3>1
    <3>3. listed[id].start \in Int /\ listed[id] = [start |-> listed[id].start, end |-> listed[id].end]
      BY <2>2 DEF Listed
    <3>4. listed[id].start = ShiftTime(listed[id].start, by)
      <4> DEFINE x == ShiftTime(listed[id].start, by)
      <4>1. listed[id] = [listed[id] EXCEPT !.start = x]
        BY <3>2
      <4> HIDE DEF x
      <4>2. listed[id].start = x
        BY <3>3, <4>1
      <4> QED  BY <4>2 DEF x
    <3>5. listed[id].start \in {0, 23}
      BY <3>3, <3>4, ShiftMoves
    <3> QED  BY <2>1, <3>5
  <2>7. ASSUME CalOn(day) # {}, NEW id \in CalOn(day), events[id].start \in {0, 23}
        PROVE  listed \in CalContradict(listed)
    <3>1. PICK by \in {-1, 1} : ShiftTime(listed[id].start, by) = listed[id].start
      <4>1. listed[id].start \in {0, 23} /\ listed[id].start \in Int
        BY <2>1, <2>7
      <4>2. CASE listed[id].start = 0
        BY <4>1, <4>2, ShiftMoves, -1 \in {-1, 1}
      <4>3. CASE listed[id].start = 23
        BY <4>1, <4>3, ShiftMoves, 1 \in {-1, 1}
      <4> QED  BY <4>1, <4>2, <4>3
    <3>2. listed[id].start # Unreadable /\ id \in DOMAIN listed
      BY <2>1, <2>7 DEF Unreadable
    <3>3. listed = [listed EXCEPT ![id].start = ShiftTime(@, by)]
      <4>1. listed[id] = [listed[id] EXCEPT !.start = listed[id].start]
        BY <2>2, <3>2 DEF Listed
      <4>2. listed = [listed EXCEPT ![id] = listed[id]]
        BY <2>2, <3>2 DEF Listed
      <4> DEFINE x == ShiftTime(listed[id].start, by)
      <4>3. x = listed[id].start
        BY <3>1
      <4> HIDE DEF x
      <4>4. listed = [listed EXCEPT ![id].start = x]
        BY <4>1, <4>2, <4>3
      <4> QED  BY <4>4 DEF x
    <3> QED  BY <2>1, <2>7, <3>2, <3>3 DEF CalContradict
  <2> QED  BY <2>3, <2>4, <2>5, <2>6, <2>7, Zenon DEF listed
<1>4. ASSUME NEW day
      PROVE  CalFree(day) \in Emptied <=>
               \A hour \in 9 .. 16 : \E id \in CalOn(day) : events[id].start = hour
  BY DEF CalFree, Emptied
<1> QED  BY <1>1, <1>2, <1>3, <1>4, Zenon DEF CalNoOps

\* The kinds' ranges, and what a reading in them is misread as.
LEMMA KindFacts ==
  ASSUME NEW kind \in DOMAIN Kinds
  PROVE  /\ Kinds[kind].mu \in Int /\ Kinds[kind].sig \in Nat
         /\ Percent(40, Kinds[kind].sig) \in Nat /\ Percent(40, Kinds[kind].sig) >= 1
         /\ Percent(90, Kinds[kind].sig) \in Nat
         /\ \A v \in Within(Kinds[kind].mu, Kinds[kind].sig) :
              v \in Int /\ Confused(kind, 100 * v) # 100 * v
<1>1. kind \in {"temp", "humidity", "pressure", "light"}
  BY DEF Kinds
<1>2. CASE kind = "temp"
  <2>1. Kinds[kind].mu = 1800 /\ Kinds[kind].sig = 600
    BY <1>2 DEF Kinds
  <2>2. \A w : Confused(kind, w) = 100 * ((9 * w + 1600250) \div 500)
    BY <1>2 DEF Confused
  <2>3. \A v \in 1200 .. 2400 : 100 * ((9 * (100 * v) + 1600250) \div 500) # 100 * v
    OBVIOUS
  <2>4. /\ Percent(40, Kinds[kind].sig) \in Nat /\ Percent(40, Kinds[kind].sig) >= 1
        /\ Percent(90, Kinds[kind].sig) \in Nat
    BY <2>1 DEF Percent
  <2>5. Within(Kinds[kind].mu, Kinds[kind].sig) = 1200 .. 2400
    BY <2>1 DEF Within
  <2>6. \A v \in Within(Kinds[kind].mu, Kinds[kind].sig) : v \in Int /\ Confused(kind, 100 * v) # 100 * v
    BY <2>2, <2>3, <2>5
  <2>7. Kinds[kind].mu \in Int /\ Kinds[kind].sig \in Nat
    BY <2>1
  <2> QED  BY <2>4, <2>6, <2>7, Zenon
<1>3. CASE kind = "humidity"
  <2>1. Kinds[kind].mu = 4500 /\ Kinds[kind].sig = 1500
    BY <1>3 DEF Kinds
  <2>2. \A w : Confused(kind, w) = w \div 100
    BY <1>3 DEF Confused
  <2>3. \A v \in 3000 .. 6000 : (100 * v) \div 100 # 100 * v
    OBVIOUS
  <2>4. /\ Percent(40, Kinds[kind].sig) \in Nat /\ Percent(40, Kinds[kind].sig) >= 1
        /\ Percent(90, Kinds[kind].sig) \in Nat
    BY <2>1 DEF Percent
  <2>5. Within(Kinds[kind].mu, Kinds[kind].sig) = 3000 .. 6000
    BY <2>1 DEF Within
  <2>6. \A v \in Within(Kinds[kind].mu, Kinds[kind].sig) : v \in Int /\ Confused(kind, 100 * v) # 100 * v
    BY <2>2, <2>3, <2>5
  <2>7. Kinds[kind].mu \in Int /\ Kinds[kind].sig \in Nat
    BY <2>1
  <2> QED  BY <2>4, <2>6, <2>7, Zenon
<1>4. CASE kind = "pressure"
  <2>1. Kinds[kind].mu = 101300 /\ Kinds[kind].sig = 800
    BY <1>4 DEF Kinds
  <2>2. \A w : Confused(kind, w) = 100 * ((w + 500) \div 1000)
    BY <1>4 DEF Confused
  <2>3. \A v \in 100500 .. 102100 : 100 * ((100 * v + 500) \div 1000) # 100 * v
    OBVIOUS
  <2>4. /\ Percent(40, Kinds[kind].sig) \in Nat /\ Percent(40, Kinds[kind].sig) >= 1
        /\ Percent(90, Kinds[kind].sig) \in Nat
    BY <2>1 DEF Percent
  <2>5. Within(Kinds[kind].mu, Kinds[kind].sig) = 100500 .. 102100
    BY <2>1 DEF Within
  <2>6. \A v \in Within(Kinds[kind].mu, Kinds[kind].sig) : v \in Int /\ Confused(kind, 100 * v) # 100 * v
    BY <2>2, <2>3, <2>5
  <2>7. Kinds[kind].mu \in Int /\ Kinds[kind].sig \in Nat
    BY <2>1
  <2> QED  BY <2>4, <2>6, <2>7, Zenon
<1>5. CASE kind = "light"
  <2>1. Kinds[kind].mu = 30000 /\ Kinds[kind].sig = 15000
    BY <1>5 DEF Kinds
  <2>2. \A w : Confused(kind, w) = (w + 500) \div 1000
    BY <1>5 DEF Confused
  <2>3. /\ Percent(40, Kinds[kind].sig) \in Nat /\ Percent(40, Kinds[kind].sig) >= 1
        /\ Percent(90, Kinds[kind].sig) \in Nat
    BY <2>1 DEF Percent
  <2>4. \A v \in Within(Kinds[kind].mu, Kinds[kind].sig) : v \in Int /\ Confused(kind, 100 * v) # 100 * v
    <3> SUFFICES ASSUME NEW v \in Within(Kinds[kind].mu, Kinds[kind].sig)
                 PROVE  v \in Int /\ Confused(kind, 100 * v) # 100 * v
      OBVIOUS
    <3>1. v \in Int /\ v >= 15000
      BY <2>1 DEF Within
    <3>2. (100 * v + 500) \div 1000 # 100 * v
      BY <3>1
    <3>3. Confused(kind, 100 * v) = (100 * v + 500) \div 1000
      BY <2>2
    <3> QED  BY <3>1, <3>2, <3>3
  <2>5. Kinds[kind].mu \in Int /\ Kinds[kind].sig \in Nat
    BY <2>1
  <2> QED  BY <2>3, <2>4, <2>5, Zenon
<1> QED  BY <1>1, <1>2, <1>3, <1>4, <1>5

\* sensor.S1 serves an earlier value, which may equal the present one; S2 and S4
\* move every reading of reset()'s devices, and S3 empties every history.
LEMMA ReadingsNoOps == SensorNoOps
<1> SUFFICES ASSUME NEW device \in Seed.devices
             PROVE  /\ \A r \in SensorRead(device) :
                         /\ r \in SensorStale(device, r) <=>
                              \E k \in StalenessSteps :
                                Seed.readings[device][NReadings - k] = Seed.readings[device][NReadings]
                         /\ <<r>> \notin SensorUnit(device, <<r>>)
                         /\ r \notin SensorContradict(device, r)
                    /\ \A n \in Arg.sensor.counts : \A rs \in SensorHistory(device, n) :
                         rs \notin SensorUnit(device, rs) \cup SensorEmpty(rs)
  BY Zenon DEF SensorNoOps
<1> DEFINE R(k) == Seed.readings[device][k]
           kind == Seed.kinds[device]
<1>1. kind \in DOMAIN Kinds /\ \A k \in 1 .. 24 : R(k) \in Within(Kinds[kind].mu, Kinds[kind].sig)
  BY SeedAssumption DEF SensorsAsReset, NReadings
<1> HIDE DEF kind
<1>2. \A k \in 1 .. 24 : R(k) \in Int /\ Confused(kind, 100 * R(k)) # 100 * R(k)
  BY <1>1, KindFacts
<1>3. \A k : Reading(device, k) = [value |-> 100 * R(k), at |-> k]
  BY DEF Reading
<1> HIDE DEF R
<1>4. ASSUME NEW r \in SensorRead(device)
      PROVE  r = [value |-> 100 * R(24), at |-> 24]
  BY <1>3, <1>4 DEF SensorRead, NReadings
<1>5. ASSUME NEW r \in SensorRead(device)
      PROVE  r \in SensorStale(device, r) <=> \E k \in StalenessSteps : R(24 - k) = R(24)
  <2>1. \A k \in StalenessSteps : StaleSteps(k, 24) = k /\ 24 - k \in 1 .. 24
    BY StaleStepsAsDrawn DEF StalenessSteps
  <2>2. ASSUME NEW k \in StalenessSteps
        PROVE  Reading(device, NReadings - StaleSteps(k, NReadings)).value = 100 * R(24 - k)
    <3>1. NReadings - StaleSteps(k, NReadings) = 24 - k
      BY <2>1 DEF NReadings
    <3> QED  BY <1>3, <3>1
  <2>3. ASSUME NEW v
        PROVE  r = [r EXCEPT !.value = v] <=> v = 100 * R(24)
    BY <1>4
  <2>4. ASSUME NEW k \in StalenessSteps
        PROVE  100 * R(24 - k) = 100 * R(24) <=> R(24 - k) = R(24)
    <3>1. R(24 - k) \in Int /\ R(24) \in Int
      BY <1>2, <2>1
    <3>2. \A a, b \in Int : 100 * a = 100 * b <=> a = b
      OBVIOUS
    <3> QED  BY <3>1, <3>2, Zenon
  <2> QED  BY <2>2, <2>3, <2>4, Zenon DEF SensorStale
<1>6. ASSUME NEW rs, NEW i \in DOMAIN rs, NEW k \in 1 .. 24,
             rs[i] = [value |-> 100 * R(k), at |-> k]
      PROVE  rs \notin SensorUnit(device, rs)
  <2> SUFFICES ASSUME rs \in SensorUnit(device, rs) PROVE FALSE
    OBVIOUS
  <2>1. rs[i] = [rs[i] EXCEPT !.value = Confused(kind, @)]
    <3>1. rs = [j \in DOMAIN rs |-> [rs[j] EXCEPT !.value = Confused(kind, @)]]
      BY Zenon DEF SensorUnit, kind
    <3> DEFINE f == [j \in DOMAIN rs |-> [rs[j] EXCEPT !.value = Confused(kind, @)]]
    <3>2. f[i] = [rs[i] EXCEPT !.value = Confused(kind, @)]
      OBVIOUS
    <3> HIDE DEF f
    <3>3. rs = f
      BY <3>1 DEF f
    <3> QED  BY <3>2, <3>3
  <2>2. rs[i].value = 100 * R(k)
    BY <1>6
  <2>3. rs[i].value = Confused(kind, 100 * R(k))
    <3> DEFINE x == Confused(kind, rs[i].value)
    <3>1. rs[i] = [rs[i] EXCEPT !.value = x]
      BY <2>1
    <3> HIDE DEF x
    <3>2. rs[i].value = x
      BY <1>6, <3>1
    <3> QED  BY <2>2, <3>2 DEF x
  <2> QED  BY <1>2, <2>2, <2>3
<1>7. ASSUME NEW r \in SensorRead(device)
      PROVE  <<r>> \notin SensorUnit(device, <<r>>)
  <2>1. 1 \in DOMAIN <<r>> /\ <<r>>[1] = r /\ 24 \in 1 .. 24
    OBVIOUS
  <2> QED  BY <1>4, <1>6, <2>1
<1>8. ASSUME NEW r \in SensorRead(device), r \in SensorContradict(device, r)
      PROVE  FALSE
  <2> DEFINE sig == Kinds[kind].sig
  <2>1. /\ Percent(40, sig) \in Nat /\ Percent(40, sig) >= 1 /\ Percent(90, sig) \in Nat
    BY <1>1, KindFacts
  <2>2. PICK by \in (Percent(40, sig) .. Percent(90, sig)) \cup (-Percent(90, sig) .. -Percent(40, sig)) :
          r = [r EXCEPT !.value = @ + 100 * by]
    BY <1>8 DEF SensorContradict, kind
  <2> HIDE DEF sig
  <2>3. by \in Int /\ by # 0
    BY <2>1, <2>2
  <2>4. r.value = 100 * R(24) /\ 100 * R(24) \in Int
    BY <1>2, <1>4
  <2>5. r.value = r.value + 100 * by
    BY <1>4, <2>2
  <2> QED  BY <2>3, <2>4, <2>5
<1>9. ASSUME NEW n \in Arg.sensor.counts, NEW rs \in SensorHistory(device, n)
      PROVE  rs \notin SensorUnit(device, rs) \cup SensorEmpty(rs)
  <2> DEFINE last == Max({1, Min({n, NReadings})})
  <2>1. last \in 1 .. 24
    <3>1. n \in Int /\ 24 \in Int /\ 1 \in Int
      BY ArgAssumption
    <3>2. Min({n, 24}) = IF n <= 24 THEN n ELSE 24
      BY <3>1, MinOfTwo, Zenon
    <3>3. Min({n, 24}) \in Int /\ Min({n, 24}) <= 24
      BY <3>1, <3>2
    <3>4. Max({1, Min({n, 24})}) = IF 1 >= Min({n, 24}) THEN 1 ELSE Min({n, 24})
      BY <3>1, <3>3, MaxOfTwo, Zenon
    <3>5. Max({1, Min({n, 24})}) \in 1 .. 24
      BY <3>3, <3>4
    <3> QED  BY <3>5 DEF NReadings
  <2>2. rs = [i \in 1 .. last |-> Reading(device, NReadings - last + i)]
    BY <1>9 DEF SensorHistory
  <2> HIDE DEF last
  <2>3. 1 \in DOMAIN rs /\ rs[1] = Reading(device, 24 - last + 1)
    BY <2>1, <2>2 DEF NReadings
  <2>4. 24 - last + 1 \in 1 .. 24
    BY <2>1
  <2>5. rs[1] = [value |-> 100 * R(24 - last + 1), at |-> 24 - last + 1]
    BY <1>3, <2>3
  <2>6. rs \notin SensorUnit(device, rs)
    BY <1>6, <2>3, <2>4, <2>5
  <2>7. rs # <<>>
    BY <2>3
  <2> QED  BY <2>6, <2>7 DEF SensorEmpty
<1> QED  BY <1>5, <1>7, <1>8, <1>9 DEF NReadings, R

\* compute.S1 aggregates fewer values, of two at least; S2 leaves a number, which the
\* conversion may leave too; S3 leaves what is empty; S4 answers another number, if
\* it is not too small.
LEMMA ResultsNoOps == ComputeNoOps
<1>1. ASSUME NEW list \in Arg.compute.lists
      PROVE  /\ StatsResult(list) \in ComputeStale(StatsResult(list)) <=> StatsResult(list).n < 2
             /\ StatsResult(list) \in ComputeEmpty(StatsResult(list)) <=> StatsResult(list).n = 0
  <2>1. list \in Seq(Int) /\ Len(list) \in Nat
    BY ArgAssumption
  <2>2. StatsResult(list).n = Len(list) /\ StatsResult(list).over = list
    BY DEF StatsResult
  <2>3. ASSUME ~(Len(list) < 2), StatsResult(list) \in ComputeStale(StatsResult(list))
        PROVE  FALSE
    <3>1. StatsResult(list) = StatsResult(Front(list))
      BY <2>2, <2>3 DEF ComputeStale
    <3>2. Len(list) = Len(Front(list))
      BY <3>1 DEF StatsResult
    <3>3. Len(Front(list)) = Len(list) - 1
      BY <2>1, <2>3 DEF Front
    <3> QED  BY <2>1, <3>2, <3>3
  <2>4. Len(list) < 2 => StatsResult(list) \in ComputeStale(StatsResult(list))
    BY <2>2 DEF ComputeStale
  <2>5. StatsResult(list) = StatsResult(<<>>) <=> Len(list) = 0
    BY <2>1 DEF StatsResult
  <2>6. StatsResult(list) \in ComputeEmpty(StatsResult(list)) <=> Len(list) = 0
    BY <2>5, Zenon DEF ComputeEmpty
  <2> QED  BY <2>2, <2>3, <2>4, <2>6
<1>2. ASSUME NEW value \in Int, NEW from, NEW to, NEW right \in Convert(value, from, to)
      PROVE  right.num \in Int /\ (right.num = value * right.den <=> SameIn(value, from, to))
  <2>1. CASE from = to
    <3>1. right.num = value /\ right.den = 1
      BY <2>1 DEF Convert, Fraction
    <3> QED  BY <2>1, <3>1 DEF SameIn
  <2>2. CASE from # to /\ {from, to} \subseteq Temperatures
    <3> DEFINE converted == FromCelsius(Celsius(value, from), to)
               between(a, b) == from = a /\ to = b
    <3>1. right.num = converted /\ right.den = 4500
      BY <2>2 DEF Convert, Fraction
    <3>2. \/ between("C", "F") \/ between("F", "C") \/ between("C", "K")
          \/ between("K", "C") \/ between("F", "K") \/ between("K", "F")
      BY <2>2 DEF Temperatures
    <3>3. CASE between("C", "F")
      <4>1. converted = 9 * (900 * value) + 144000
        BY <3>3 DEF FromCelsius, Celsius
      <4>2. SameIn(value, from, to) <=> value = -40
        BY <3>3 DEF SameIn, Temperatures
      <4> QED  BY <3>1, <4>1, <4>2
    <3>4. CASE between("F", "C")
      <4>1. converted = 5 * (500 * (value - 32))
        BY <3>4 DEF FromCelsius, Celsius
      <4>2. SameIn(value, from, to) <=> value = -40
        BY <3>4 DEF SameIn, Temperatures
      <4> QED  BY <3>1, <4>1, <4>2
    <3>5. CASE between("C", "K")
      <4>1. converted = 5 * (900 * value + 245835)
        BY <3>5 DEF FromCelsius, Celsius
      <4>2. ~SameIn(value, from, to)
        BY <3>5 DEF SameIn, Temperatures
      <4> QED  BY <3>1, <4>1, <4>2
    <3>6. CASE between("K", "C")
      <4>1. converted = 5 * (900 * value - 245835)
        BY <3>6 DEF FromCelsius, Celsius
      <4>2. ~SameIn(value, from, to)
        BY <3>6 DEF SameIn, Temperatures
      <4> QED  BY <3>1, <4>1, <4>2
    <3>7. CASE between("F", "K")
      <4>1. converted = 5 * (500 * (value - 32) + 245835)
        BY <3>7 DEF FromCelsius, Celsius
      <4>2. ~SameIn(value, from, to)
        BY <3>7 DEF SameIn, Temperatures
      <4> QED  BY <3>1, <4>1, <4>2
    <3>8. CASE between("K", "F")
      <4>1. converted = 9 * (900 * value - 245835) + 144000
        BY <3>8 DEF FromCelsius, Celsius
      <4>2. ~SameIn(value, from, to)
        BY <3>8 DEF SameIn, Temperatures
      <4> QED  BY <3>1, <4>1, <4>2
    <3> QED  BY <3>2, <3>3, <3>4, <3>5, <3>6, <3>7, <3>8, Zenon
  <2>3. CASE from # to /\ ~({from, to} \subseteq Temperatures)
    <3>1. PICK u \in Linears : u.from = from /\ u.to = to /\ right = Fraction(value * u.by.num, u.by.den)
      BY <2>3 DEF Convert
    <3>2. u.by.num \in Nat /\ u.by.den \in Nat /\ u.by.num # u.by.den /\ u.from \notin Temperatures
      BY DEF Linears, Linear, Fraction, Temperatures
    <3>3. \A p, q \in Nat : value * p \in Int /\ (p # q => (value * p = value * q <=> value = 0))
      OBVIOUS
    <3>4. right.num = value * u.by.num /\ right.den = u.by.den
      BY <3>1 DEF Fraction
    <3>5. SameIn(value, from, to) <=> value = 0
      BY <2>3, <3>1, <3>2 DEF SameIn, Temperatures
    <3> QED  BY <3>2, <3>3, <3>4, <3>5, Zenon
  <2> QED  BY <2>1, <2>2, <2>3, Zenon
<1>3. ASSUME NEW value \in Arg.compute.numbers, NEW from, NEW to,
             NEW right \in Convert(value, from, to), NEW m \in ComputeNoConvert(value)
      PROVE  right.num * m.den = m.num * right.den <=> SameIn(value, from, to)
  <2>1. m.num = value /\ m.den = 1 /\ value \in Int
    BY ArgAssumption DEF ComputeNoConvert, Fraction
  <2>2. right.num \in Int
    BY <1>2, <2>1
  <2>3. right.num * m.den = m.num * right.den <=> right.num = value * right.den
    BY <2>1, <2>2
  <2> QED  BY <1>2, <2>1, <2>3, Zenon
<1>4. ASSUME NEW e \in Arg.compute.expressions
      PROVE  e.n \in ComputeOffBy(e.n) <=> Magnitude(e.n) < 50
  BY <1>4, ArgAssumption, PerturbedMoves DEF ComputeOffBy
<1> QED  BY <1>1, <1>3, <1>4, Zenon DEF ComputeNoOps

\* Where a silent fault that fires is a no-op, against mutators.py:21-23: in every
\* state a server can be brought to, whatever was written and deleted before, some
\* choice of the PRF leaves a result exactly where there is no other version or an
\* equal one, nothing to misrender or to empty, a number the rounding restores, or
\* an hour the ends of the day clamp; and what is served as stale is an earlier
\* version the server really had.
THEOREM SilentNoOpsAreThese == Spec => []SilentNoOps
<1>1. ASSUME SessionInv PROVE SilentNoOps
  BY <1>1, FilesNoOps, ValuesNoOps, PagesNoOps, EventsNoOps, ReadingsNoOps, ResultsNoOps
     DEF SessionInv, SilentNoOps
<1> QED
  BY <1>1, SessionInvariant, PTL

=============================================================================
