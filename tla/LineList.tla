------------------------------ MODULE LineList ------------------------------
(***************************************************************************)
(* What a scrollback buffer promises: a list of lines, oldest first, whose *)
(* last "height" ones are the screen.  Only lines of the screen change;   *)
(* lines above it stay as they were until the list is longer than its     *)
(* capacity or is cut on purpose.  Empty lines are 0.                      *)
(* "crowded" gives the promise up: a screen has been shown that is longer  *)
(* than the lines that were kept.                                          *)
(***************************************************************************)
EXTENDS Integers, Sequences, SequencesExt

VARIABLES lines, cap, height, crowded

vars == <<lines, cap, height, crowded>>

OnScreen(l) == Len(l) - height + 1 .. Len(l)

(* An empty line goes in below the first k lines of the screen; the oldest *)
(* line goes when there are too many.                                      *)
ScrollAt(l, k) ==
  LET longer == InsertAt(l, Len(l) - height + k + 1, 0)
  IN IF Len(longer) > cap THEN Tail(longer) ELSE longer

Lasts(l, n) == SubSeq(l, Len(l) - n + 1, Len(l))

(* Lines of the screen are emptied, and one is rewritten. *)
Rewritten(l, m) ==
  /\ Len(m) = Len(l)
  /\ \E k \in OnScreen(l) :
       \A i \in DOMAIN l : i # k => m[i] = l[i] \/ (m[i] = 0 /\ i \in OnScreen(l))

Init == /\ lines = [i \in 1 .. height |-> 0]
        /\ height \in Nat /\ cap \in Nat /\ cap >= height
        /\ crowded = FALSE

Change == /\ \/ Rewritten(lines, lines')
             \/ \E k \in 1 .. height : Rewritten(ScrollAt(lines, k), lines')
             \/ \E n \in height .. Len(lines) : Rewritten(Lasts(lines, n), lines')
          /\ UNCHANGED <<cap, height, crowded>>

(* A line of the screen goes and another comes in, empty or already written. *)
Move == /\ Len(lines') = Len(lines)
        /\ \E i, j \in OnScreen(lines) :
             lines' = InsertAt(RemoveAt(lines, i), j, lines'[j])
        /\ UNCHANGED <<cap, height, crowded>>

(* The last lines stay.  A smaller capacity may bring back, as empty ones,  *)
(* lines whose place was taken by lines that were then chopped.            *)
SetCapacity ==
  /\ \E k \in 0 .. cap' : LET n == IF cap' < Len(lines) THEN cap' ELSE Len(lines)
                          IN /\ lines' = [i \in 1 .. k |-> 0] \o Lasts(lines, n)
                             /\ k > 0 => k + n <= cap' /\ cap' < cap
  /\ UNCHANGED <<height, crowded>>

(* A new height chops empty lines at the end or, when there are not enough *)
(* lines, adds some.                                                       *)
Resize ==
  /\ cap' >= cap
  /\ \/ /\ Len(lines) >= height'
        /\ \E n \in 0 .. Len(lines) - height' :
             /\ lines' = SubSeq(lines, 1, Len(lines) - n)
             /\ \A i \in Len(lines) - n + 1 .. Len(lines) : lines[i] = 0
     \/ /\ Len(lines) < height'
        /\ lines' = lines \o [i \in 1 .. height' - Len(lines) |-> 0]
  /\ UNCHANGED crowded

Next == Change \/ Move \/ SetCapacity \/ Resize

Spec == Init /\ [][crowded' \/ Next]_vars
=============================================================================
