-------------------------------- MODULE MCSystem --------------------------------
(***************************************************************************)
(* Several small systems share a run of TLC: each behaviour is about one.  *)
(***************************************************************************)
VARIABLE system    \* the one that runs
=================================================================================
