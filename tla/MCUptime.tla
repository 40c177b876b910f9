------------------------------ MODULE MCUptime ------------------------------
(* Instances of Uptime for TLC: core probes itself and two others.         *)
EXTENDS Uptime

MCProbes == <<"core", "loki", "web">>
MCSelf == {"core"}
\* The wall clock is set back once.
MCWallClock == <<10, 12, 11, 14>>
==============================================================================
