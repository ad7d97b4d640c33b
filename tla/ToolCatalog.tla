---------------------------- MODULE ToolCatalog ----------------------------
(***************************************************************************)
(* What the rest of the system knows of the servers' tools (envs/servers): *)
(* the parameters of each, the required output fields that some task or    *)
(* recovery operator reads, and what a write leaves in the state that the  *)
(* server's digest covers.                                                 *)
(***************************************************************************)

AllTools ==
  {"fs.list", "fs.read", "fs.write", "fs.stat", "fs.search",
   "kv.get", "kv.getv", "kv.set", "kv.scan", "kv.delete",
   "http.fetch", "http.head", "http.links",
   "cal.list", "cal.get", "cal.create", "cal.free", "cal.delete",
   "sensor.list", "sensor.read", "sensor.history", "sensor.alarm",
   "compute.convert", "compute.calc", "compute.stats", "compute.compare"}

NoParam == "no parameter"

\* The first required input parameter, the one a schema drift renames.
FirstParam(tool) ==
  CASE tool \in {"fs.list", "fs.read", "fs.write", "fs.stat"}  -> "path"
    [] tool = "fs.search"                                      -> "query"
    [] tool \in {"kv.get", "kv.getv", "kv.set", "kv.delete"}   -> "key"
    [] tool = "kv.scan"                                        -> "prefix"
    [] tool \in {"http.fetch", "http.head", "http.links"}      -> "url"
    [] tool \in {"cal.list", "cal.free"}                       -> "date"
    [] tool \in {"cal.get", "cal.delete"}                      -> "event_id"
    [] tool = "cal.create"                                     -> "title"
    [] tool \in {"sensor.read", "sensor.history", "sensor.alarm"} -> "device_id"
    [] tool = "compute.convert"                                -> "value"
    [] tool = "compute.calc"                                   -> "expression"
    [] tool = "compute.stats"                                  -> "values"
    [] tool = "compute.compare"                                -> "a"
    [] OTHER                                                   -> NoParam

OtherParams(tool) ==
  CASE tool = "fs.write"        -> {"content"}
    [] tool = "kv.getv"         -> {"version"}
    [] tool = "kv.set"          -> {"value"}
    [] tool = "cal.create"      -> {"date", "start", "end"}
    [] tool = "sensor.history"  -> {"n"}
    [] tool = "sensor.alarm"    -> {"threshold"}
    [] tool = "compute.convert" -> {"from_unit", "to_unit"}
    [] tool = "compute.stats"   -> {"op"}
    [] tool = "compute.compare" -> {"b", "rel_tol"}
    [] OTHER                    -> {}

ParamsOf(tool) == ({FirstParam(tool)} \ {NoParam}) \cup OtherParams(tool)

Params == UNION {ParamsOf(tool) : tool \in AllTools}

\* The required output fields that are read downstream.
FieldsOf(tool) ==
  CASE tool = "fs.read"                                   -> {"content"}
    [] tool = "fs.stat"                                   -> {"size", "version"}
    [] tool \in {"kv.get", "kv.getv"}                     -> {"value", "version"}
    [] tool = "kv.scan"                                   -> {"count"}
    [] tool = "http.fetch"                                -> {"body"}
    [] tool = "http.head"                                 -> {"content_length"}
    [] tool = "cal.list"                                  -> {"events", "count"}
    [] tool = "cal.free"                                  -> {"slots", "count"}
    [] tool = "cal.get"                                   -> {"start", "location"}
    [] tool = "sensor.read"                               -> {"value"}
    [] tool = "sensor.history"                            -> {"readings", "unit"}
    [] tool = "sensor.alarm"                              -> {"threshold"}
    [] tool \in {"compute.convert", "compute.calc", "compute.stats"} -> {"value"}
    [] OTHER                                              -> {}

Fields == UNION {FieldsOf(tool) : tool \in AllTools}

\* Tools that always return a required field beside those of FieldsOf: for
\* these a missing field need not be one that anything reads.
HasUnreadField(tool) == tool \notin {"kv.get", "kv.getv", "cal.free", "cal.list",
                                     "compute.calc"}

\* Writes: some add an entry to the state the digest covers (a version, an
\* event), one overwrites a value there.
Appends == {"fs.write", "kv.set", "cal.create"}
Assigns == {"sensor.alarm"}

=============================================================================
