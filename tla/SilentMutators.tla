--------------------------- MODULE SilentMutators ---------------------------
(***************************************************************************)
(* What a silent fault makes of a server's result (envs/mutators.py): for  *)
(* each server and family the set of results the PRF's choices can give.   *)
(* S1 serves an earlier version, S2 misrenders a value, S3 answers that    *)
(* there is nothing, S4 makes the result contradict the rest.              *)
(***************************************************************************)
EXTENDS ToolServers

StalenessSteps == 1 .. 10

\* Mutant: wraps around the history where the code clips.
StaleStepsWrapped(k, available) == k % available

\* _stale_k: the steps back that a history has; used where it has two at least.
StaleSteps(k, available) == Max({1, Min({k, available - 1})})

Staled(history) == {Len(history) - StaleSteps(k, Len(history)) : k \in StalenessSteps}

\* percent of n, rounded to an integer.
Percent(percent, n) == (2 * percent * n + 100) \div 200

Magnitude(n) == IF n < 0 THEN -n ELSE n

\* _perturb: off by some fraction between the two, in units of the rounding
\* (integers, or hundredths of a float).
Perturbed(n, lo, hi) ==
  UNION {{n - d, n + d} : d \in Percent(lo, Magnitude(n)) .. Percent(hi, Magnitude(n))}

\* ... "or value": an integer is never perturbed to zero.
PerturbedInt(n) == {IF m = 0 THEN n ELSE m : m \in Perturbed(n, 3, 12)}

\* max(1, _perturb(...)) of a size.
PerturbedSize(n) == {Max({1, m}) : m \in PerturbedInt(n)}

-----------------------------------------------------------------------------
FsStale(path, result) ==
  IF Len(files[path]) < 2 THEN {result}
  ELSE {[content |-> files[path][v], version |-> v] : v \in Staled(files[path])}

\* _decimalize: one of the digit runs of the text; the other fields stay.
Decimalize(text) ==
  IF text.runs = 0 THEN {text} ELSE {[text EXCEPT !.misread = i] : i \in 1 .. text.runs}

FsType(result) == {[result EXCEPT !.content = text] : text \in Decimalize(result.content)}

\* S3 of list and search, of kv.scan, http.links and cal.free: sets here.
Emptied == {{}}

FsContradict(result) ==
  {[result EXCEPT !.size = size, !.version = IF @ > 1 THEN @ - 1 ELSE @] :
     size \in PerturbedSize(result.size)}

KvStale(key, result) ==
  IF Len(store[key]) < 2 THEN {result}
  ELSE {[value |-> store[key][v], version |-> v] : v \in Staled(store[key])}

\* An integer becomes text, with a separator from a thousand on; so does a user's
\* quota.
KvType(result) ==
  IF result.value.kind \in {"int", "user"}
  THEN {[result EXCEPT !.value.kind = IF @ = "int" THEN "numeral" ELSE "user's numeral"]}
  ELSE {result}

\* The n of a float is in hundredths.
KvContradict(result) ==
  IF result.value.kind \in {"int", "user"}
  THEN {[result EXCEPT !.value.n = n] : n \in PerturbedInt(result.value.n)}
  ELSE IF result.value.kind = "float"
  THEN {[result EXCEPT !.value.n = n] : n \in Perturbed(result.value.n, 3, 12)}
  ELSE {result}

HttpStale(url, result) ==
  IF Len(Pages[url]) < 2 THEN {result} ELSE {[body |-> Pages[url][v]] : v \in Staled(Pages[url])}

\* An item's numbers become text, an article is decimalized, an index stays.
HttpType(result) ==
  IF result.body.kind = "item" THEN {[result EXCEPT !.body.misread = 1]}
  ELSE IF result.body.kind = "article"
  THEN {[result EXCEPT !.body = b] : b \in Decimalize(result.body)}
  ELSE {result}

\* What there is in place of a page: {}, [] or "".
NoBody == [kind |-> "empty", runs |-> 0, misread |-> 0, n |-> 0, length |-> 0]
HttpEmpty(result) == {[result EXCEPT !.body = NoBody]}

HttpContradict(result) == {[result EXCEPT !.length = n] : n \in PerturbedSize(result.length)}

\* _shift_time: within the day.
ShiftTime(hour, by) == Max({0, Min({23, hour + by})})
Shift(event, by) == [start |-> ShiftTime(event.start, by), end |-> ShiftTime(event.end, by)]

\* The prior start, the event as long as it is now; the present one if it never
\* moved.
CalStale(id, result) ==
  IF events[id].history = <<>> THEN {result}
  ELSE LET old == Head(events[id].history)
       IN  {[start |-> old, end |-> ShiftTime(old, events[id].end - events[id].start)]}

\* There is no result where int() cannot read an hour: what it raises leaves the
\* proxy.
HoursOf(listed) == UNION {{listed[id].start, listed[id].end} : id \in DOMAIN listed}

CalTz(listed) ==
  IF Unreadable \in HoursOf(listed) THEN {}
  ELSE {[id \in DOMAIN listed |-> Shift(listed[id], by)] : by \in {-5, -6, 4, 5}}

\* S3 of list.
CalEmpty(listed) == {Restrict(listed, {})}

\* int() reads the hour of the event the PRF picks only.
CalContradict(listed) ==
  IF DOMAIN listed = {} THEN {listed}
  ELSE {[listed EXCEPT ![id].start = ShiftTime(@, by)] :
          id \in {i \in DOMAIN listed : listed[i].start # Unreadable}, by \in {-1, 1}}

\* The older value under the newest time.
SensorStale(device, result) ==
  {[result EXCEPT !.value = Reading(device, NReadings - StaleSteps(k, NReadings)).value] :
     k \in StalenessSteps}

\* _UNIT_CONFUSION: C as F, percent as fraction, hPa as kPa, lux as klux; rounded
\* to ten-thousandths, a temperature and a pressure to hundredths.
Confused(kind, value) ==
  IF kind = "temp" THEN 100 * ((9 * value + 1600250) \div 500)
  ELSE IF kind = "humidity" THEN value \div 100
  ELSE IF kind = "pressure" THEN 100 * ((value + 500) \div 1000) ELSE (value + 500) \div 1000

SensorUnit(device, readings) ==
  {[i \in DOMAIN readings |->
      [readings[i] EXCEPT !.value = Confused(Seed.kinds[device], @)]]}

\* S3 of history.
SensorEmpty(readings) == {<<>>}

\* Off by 0.4 to 0.9 of the deviation of its kind.
SensorContradict(device, result) ==
  LET sig == Kinds[Seed.kinds[device]].sig
  IN  {[result EXCEPT !.value = @ + 100 * by] :
         by \in (Percent(40, sig) .. Percent(90, sig)) \cup (-Percent(90, sig) .. -Percent(40, sig))}

ComputeStale(result) ==
  IF result.n < 2 THEN {result} ELSE {StatsResult(Front(result.over))}
ComputeEmpty(result) == {StatsResult(<<>>)}
\* The input under the target's label.
ComputeNoConvert(value) == {Fraction(value, 1)}
\* Of a value that has two decimals; more of them the rounding cuts off.
ComputeOffBy(hundredths) == Perturbed(hundredths, 1, 5)

-----------------------------------------------------------------------------
\* Too near to zero for three percent of it to survive the rounding.
Rounded(n) == Magnitude(n) <= 16

FsNoOps ==
  /\ \A path \in DOMAIN files : \A r \in FsRead(path) :
       /\ r \in FsStale(path, r) <=> Len(files[path]) = 1
       /\ Len(files[path]) > 1 => \A m \in FsStale(path, r) :
            m.version \in 1 .. r.version - 1 /\ m.content = files[path][m.version]
       /\ r \in FsType(r) <=> r.content.runs = 0
  /\ \A path \in DOMAIN files \cup Arg.fs.paths : LET r == FsStat(path) IN
       /\ r \in FsContradict(r) <=> r.version = 1 /\ r.size > 0 /\ Rounded(r.size)
       /\ \A m \in FsContradict(r) : m.size >= 1
  /\ \A dir \in Arg.fs.dirs :
       FsListed(dir) \in Emptied <=> \A path \in DOMAIN files : ~IsStrictPrefix(dir, path)
  /\ \A word \in Arg.fs.words :
       FsFound(word) \in Emptied <=> \A path \in DOMAIN files : word \notin Last(files[path]).words

KvNoOps ==
  /\ \A key \in DOMAIN store : \A version \in DOMAIN store[key] : \A r \in KvGetv(key, version) :
       /\ r \in KvType(r) <=> r.value.kind \notin {"int", "user"}
       /\ r \in KvContradict(r) <=>
            (r.value.kind \in {"int", "user", "float"} => Rounded(r.value.n))
  /\ \A key \in DOMAIN store : \A r \in KvGet(key) :
       /\ r \in KvStale(key, r) <=> r.version = 1
       /\ r.version > 1 => \A m \in KvStale(key, r) :
            m.version \in 1 .. r.version - 1 /\ {m} = KvGetv(key, m.version)
  /\ \A key \in Arg.kv.keys :
       KvScanned(key[1]) \in Emptied <=> \A k \in DOMAIN store : k[1] # key[1]

\* reset()'s pages have a history, and none is empty.
HttpNoOps ==
  \A url \in DOMAIN Pages :
    /\ \A r \in HttpFetch(url) :
         /\ r \in HttpStale(url, r) <=> r.body \in Range(Front(Pages[url]))
         /\ r \in HttpType(r) <=>
              r.body.kind = "index" \/ (r.body.kind = "article" /\ r.body.runs = 0)
         /\ r \notin HttpEmpty(r)
    /\ \A r \in HttpHead(url) : r \in HttpContradict(r) <=> r.length > 0 /\ Rounded(r.length)
    /\ \A r \in HttpLinks(url) : r.links \in Emptied <=> Last(Pages[url]).kind # "index"

CalNoOps ==
  /\ \A id \in DOMAIN events : \A r \in CalGet(id) : LET one == [i \in {id} |-> r] IN
       /\ r \in CalStale(id, r) <=> events[id].history = <<>>
       /\ one \in CalTz(one) <=> r.start = r.end /\ r.start \in {0, 23}
  /\ \A day \in Arg.cal.days : LET listed == CalListed(day) IN
       /\ listed \in CalTz(listed) <=> HoursOf(listed) \in {{}, {0}, {23}}
       /\ listed \in CalEmpty(listed) <=> CalOn(day) = {}
       /\ listed \in CalContradict(listed) <=>
            CalOn(day) = {} \/ \E id \in CalOn(day) : events[id].start \in {0, 23}
       /\ CalFree(day) \in Emptied <=>
            \A hour \in 9 .. 16 : \E id \in CalOn(day) : events[id].start = hour

SensorNoOps ==
  \A device \in Seed.devices :
    /\ \A r \in SensorRead(device) :
         /\ r \in SensorStale(device, r) <=>
              \E k \in StalenessSteps :
                Seed.readings[device][NReadings - k] = Seed.readings[device][NReadings]
         /\ <<r>> \notin SensorUnit(device, <<r>>)
         /\ r \notin SensorContradict(device, r)
    /\ \A n \in Arg.sensor.counts : \A rs \in SensorHistory(device, n) :
         rs \notin SensorUnit(device, rs) \cup SensorEmpty(rs)

\* What is the same in both units.
SameIn(value, from, to) ==
  \/ from = to
  \/ value = 0 /\ from \notin Temperatures
  \/ value = -40 /\ <<from, to>> \in {<<"C", "F">>, <<"F", "C">>}

ComputeNoOps ==
  /\ \A list \in Arg.compute.lists : LET r == StatsResult(list) IN
       /\ r \in ComputeStale(r) <=> r.n < 2
       /\ r \in ComputeEmpty(r) <=> r.n = 0
  /\ \A value \in Arg.compute.numbers, from, to \in Arg.compute.units :
       \A right \in Convert(value, from, to), m \in ComputeNoConvert(value) :
         right.num * m.den = m.num * right.den <=> SameIn(value, from, to)
  /\ \A e \in Arg.compute.expressions :
       e.does = "value" => (e.n \in ComputeOffBy(e.n) <=> Magnitude(e.n) < 50)

\* A silent fault that fires is no no-op (mutators.py:21-23), but for these: in
\* every state the calls can bring a server to, some choice of the PRF leaves a
\* result as it is exactly where there is no other version or an equal one,
\* nothing to misrender or to empty, a number the rounding restores, or an hour
\* the ends of the day clamp; and a stale answer is one that the same call once
\* gave, under the version it had then.
SilentNoOps ==
  /\ env = "fs" => FsNoOps
  /\ env = "kv" => KvNoOps
  /\ env = "http" => HttpNoOps
  /\ env = "cal" => CalNoOps
  /\ env = "sensor" => SensorNoOps
  /\ env = "compute" => ComputeNoOps

=============================================================================
