--------------------------- MODULE MCProxyCaller ---------------------------
(***************************************************************************)
(* A few tools of one environment: two that drift on the same parameter,   *)
(* one without a parameter, one that writes.                               *)
(***************************************************************************)
EXTENDS ProxyCaller

OneEpisode  == {"sensor:sensor-002:s0"}
SensorTools == {"sensor.list", "sensor.read", "sensor.alarm"}
DriftFirst   == <<"P3", "P5">>
=============================================================================
