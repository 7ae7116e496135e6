----------------------------- MODULE MCAttrMonitor -----------------------------
(* An instance of AttrMonitor for TLC: the monitor and a script. *)
EXTENDS AttrMonitor

MCSources == {{1, 3}}
=============================================================================
