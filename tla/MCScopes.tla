-------------------------------- MODULE MCScopes --------------------------------
(***************************************************************************)
(* The scoper and its terminals as one of several systems that a behaviour *)
(* may be about: what a run says of them, and what is proved.              *)
(***************************************************************************)
EXTENDS MCSystem

CONSTANTS Addrs, MaxLaunches, MaxStops

VARIABLES
  inbox,                                                \* a thread's work queue
  term, scope, terms, units, bus, made, last, late      \* Scoper

Scopes == INSTANCE Scoper WITH queue <- inbox

(* Scoper: a child runs in its scope, the terminal is told its own child's  *)
(* scope, what the scoper points to is there, and no pipe stays open        *)
(* (scoper.cpp:90, 145, 178).                                               *)
ScopesTrue == system = "scopes" => Scopes!IInv /\ Scopes!ScopesTrue
=================================================================================
