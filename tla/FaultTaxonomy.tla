--------------------------- MODULE FaultTaxonomy ---------------------------
(***************************************************************************)
(* The fault taxonomy: the families, what each declares about its lifetime *)
(* and its recovery operator, and the tools a silent family can act on.    *)
(* Pure data, as in the source; every other module reads it.               *)
(***************************************************************************)

TransportFamilies == {"T1", "T2", "T3", "T4"}
ProtocolFamilies  == {"P1", "P2", "P3", "P4", "P5"}
SemanticFamilies  == {"S1", "S2", "S3", "S4"}
ResourceFamilies  == {"R1", "R2", "R3"}

Family ==
  TransportFamilies \cup ProtocolFamilies \cup SemanticFamilies \cup ResourceFamilies

\* Declared detectability: only the semantic class is silent.
SilentFamilies == SemanticFamilies

Persistences == {"transient", "intermittent", "persistent"}

PersistentByDefault == {"T1", "P3", "P4", "R2"}
TransientByDefault  == {"T3", "T4", "P2", "R3"}

DefaultPersistence(f) ==
  CASE f \in PersistentByDefault -> "persistent"
    [] f \in TransientByDefault  -> "transient"
    [] OTHER                     -> "intermittent"

\* The ground-truth operator of each family, which the oracle baseline plays.
OracleOp(f) ==
  CASE f \in {"T1", "P4"}             -> "substitute"
    [] f \in {"T2", "R2"}             -> "retry_backoff"
    [] f \in {"T3", "T4", "P2"}       -> "retry"
    [] f \in {"P1", "P3", "P5"}       -> "reparameterize"
    [] f \in {"S1", "S2", "S4"}       -> "verify"
    [] f \in {"S3", "R1"}             -> "decompose"
    [] f = "R3"                       -> "replan"

\* A latched fault of these families keeps to the tool it latched on.
ToolScoped == {"P3", "P4"}

\* Families whose transform needs a result object to corrupt.
ResultFamilies == SemanticFamilies \cup {"P5", "R1"}

\* The tools whose result a silent family has a mutator for.
SilentTools ==
  [S1 |-> {"fs.read", "kv.get", "http.fetch", "cal.get", "sensor.read",
           "compute.stats"},
   S2 |-> {"fs.read", "kv.get", "kv.getv", "http.fetch", "cal.get", "cal.list",
           "sensor.read", "sensor.history", "compute.convert"},
   S3 |-> {"fs.list", "fs.search", "kv.scan", "http.fetch", "http.links",
           "cal.list", "cal.free", "sensor.history", "compute.stats"},
   S4 |-> {"fs.stat", "kv.get", "kv.getv", "http.head", "cal.list",
           "sensor.read", "compute.calc"}]

\* Overt families attack the envelope, so they apply to every tool.
Applicable(f, tool) == f \in SilentFamilies => tool \in SilentTools[f]

=============================================================================
