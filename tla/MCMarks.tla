--------------------------------- MODULE MCMarks ---------------------------------
(***************************************************************************)
(* The regions of a terminal's main buffer as one of several systems that  *)
(* a behaviour may be about: what a run says of them, and what is proved.  *)
(***************************************************************************)
EXTENDS MCSystem, Integers

CONSTANTS Height, Capacity, Columns, MaxIds, MaxRow

(* A screen has rows and columns, and its buffer holds all of its rows. *)
ASSUME MarksAssumption ==
  /\ Height \in Nat /\ Capacity \in Nat /\ Height <= Capacity
  /\ Columns \in Nat \ {0}

VARIABLES main, job, child, jobState, alt, astray

Region == INSTANCE Regions WITH buf <- main

(* Regions: the buffer's three orders hold the same regions, the screen's  *)
(* references are to regions that exist, and the shell's regions of one    *)
(* kind stay apart (buffer.cpp:68, buffer.cpp:483).                        *)
RegionsTrue == system = "marks" => Region!IInv /\ Region!RegionsSound
=================================================================================
