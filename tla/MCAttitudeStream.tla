--------------------------- MODULE MCAttitudeStream ---------------------------
(* AttitudeStream with three sequence numbers.                             *)
EXTENDS AttitudeStream
=============================================================================
