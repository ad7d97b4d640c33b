--------------------------- MODULE MCToolSession ---------------------------
(***************************************************************************)
(* Small servers: entries with two and with three versions, as reset()     *)
(* builds them; numbers on both sides of the bounds where a perturbation   *)
(* rounds back; hours at both ends of the day and one that cannot be read; *)
(* a last reading equal to one within the staleness steps and one beyond.  *)
(***************************************************************************)
EXTENDS ToolSession

Text(size, runs, words) == [size |-> size, runs |-> runs, misread |-> 0, words |-> words]
Value(kind, n) == [kind |-> kind, n |-> n]
Event(day, start, end, history) == [day |-> day, start |-> start, end |-> end, history |-> history]
Item(n) == [kind |-> "item", runs |-> 1, misread |-> 0, n |-> n, length |-> 58]
Article(n) == [kind |-> "article", runs |-> IF n < 100 THEN 0 ELSE 1, misread |-> 0, n |-> n,
               length |-> 90]
Index(n) == [kind |-> "index", runs |-> 0, misread |-> 0, n |-> n, length |-> 30 * n]

Report == <<"docs", "report_0.txt">>
Pointer == <<"notes", "pointer_0.txt">>
Draft == <<"docs", "draft">>

\* Readings go up from the lowest; the last one may be that of some steps before.
Device(kind, again) == [kind |-> kind, again |-> again]
Readings(device) ==
  LET kind == Kinds[device.kind]
      low  == kind.mu - kind.sig
  IN  [k \in 1 .. NReadings |-> low + 2 * IF k = NReadings THEN NReadings - device.again ELSE k]
Devices == "dev-0" :> Device("temp", 0) @@ "dev-1" :> Device("humidity", 1)
             @@ "dev-2" :> Device("pressure", 10) @@ "dev-3" :> Device("light", 11)

SmallSeed ==
  [files   |-> Report :> <<Text(120, 1, {"report"}), Text(130, 2, {}), Text(110, 1, {"report"})>>
               @@ Pointer :> <<Text(50, 0, {}), Text(52, 0, {})>>,
   store   |-> <<"inv", "node_0">> :> <<Value("int", 999), Value("int", 1001)>>
               @@ <<"user", "node_1">> :> <<Value("user", 100), Value("user", 107), Value("user", 102)>>,
   events  |-> 100 :> Event(8, 9, 9, <<8>>) @@ 101 :> Event(8, 16, 16, <<13>>),
   nextId  |-> 102,
   devices |-> DOMAIN Devices,
   kinds   |-> [device \in DOMAIN Devices |-> Devices[device].kind],
   readings |-> [device \in DOMAIN Devices |-> Readings(Devices[device])],
   pages   |-> "api.local/items/0" :> <<Item(5), Item(4001), Item(5)>>
               @@ "news.local/article-0" :> <<Article(4000), Article(60)>>
               @@ "news.local/article-1" :> <<Article(55), Article(120)>>
               @@ "index.local/" :> <<Index(3), Index(4)>>]

Inv0 == <<"inv", "node_0">>
New == <<"cache", "new">>

SmallArg ==
  [fs      |-> [paths  |-> {Report, Pointer, Draft},
               dirs   |-> {<<"docs">>, <<"attic">>}, words |-> {"report", "budget"},
                writes |-> {[path |-> Report, content |-> Text(0, 0, {})],
                            [path |-> Draft, content |-> Text(0, 0, {})],
                            [path |-> Draft, content |-> Text(16, 1, {"report"})]}],
   kv      |-> [keys |-> {Inv0, New}, versions |-> {0, 1, 2, 3, Unreadable},
                writes |-> {[key |-> Inv0, value |-> Value("int", 0)],
                            [key |-> New, value |-> Value("int", -17)],
                            [key |-> New, value |-> Value("float", 17)],
                            [key |-> New, value |-> Value("text", 0)]}],
   http    |-> [urls |-> DOMAIN SmallSeed.pages \cup {"elsewhere"}],
   cal     |-> [ids |-> {100, 102}, days |-> {8, 9},
                writes |-> {[day |-> 8, start |-> 0, end |-> 23],
                            [day |-> 8, start |-> Unreadable, end |-> 10],
                            [day |-> 9, start |-> 0, end |-> 0]}],
   sensor  |-> [devices |-> {"dev-0", "dev-9"}, counts |-> {Unreadable, 0, 4, 30},
                writes |-> {[device |-> "dev-0", threshold |-> 20],
                            [device |-> "dev-0", threshold |-> 25],
                            [device |-> "dev-0", threshold |-> Unreadable],
                            [device |-> "dev-1", threshold |-> 20],
                            [device |-> "dev-9", threshold |-> 20]}],
   compute |-> [numbers |-> {-41, -40, -39, 0, 5, 100}, units |-> {"C", "F", "K", "km", "m", "kg", "lb"},
                expressions |-> {[does |-> "value", n |-> 49], [does |-> "value", n |-> -50],
                                 [does |-> "value", n |-> 5300],
                                 [does |-> "disallowed", n |-> 0],
                                 [does |-> "divides by zero", n |-> 0]},
                lists |-> {<<>>, <<3>>, <<3, 4, 9>>, <<Unreadable>>}, ops |-> {"mean", "median"}]]

Sizes == {2, 5, 9}
=============================================================================
