------------------------------- MODULE Mailbox -------------------------------
(***************************************************************************)
(* What every thread of the multiplexer promises to the others: a mailbox. *)
(* Work posted to a thread is handled exactly once and in the order it was *)
(* posted, until the thread ends.  Nothing is said of events, locks or     *)
(* descriptors: WorkQueue implements this specification.                   *)
(***************************************************************************)
EXTENDS Sequences

CONSTANT Items       \* the work items that may be posted, each at most once

VARIABLES
  box,               \* items posted and not yet taken by the thread
  posted,            \* items posted so far
  open               \* FALSE once the thread has left its loop

vars == <<box, posted, open>>

Init ==
  /\ box = <<>>
  /\ posted = {}
  /\ open = TRUE

Post(i) ==
  /\ i \notin posted
  /\ box' = Append(box, i)
  /\ posted' = posted \cup {i}
  /\ UNCHANGED open

Take ==
  /\ open
  /\ box # <<>>
  /\ box' = Tail(box)
  /\ UNCHANGED <<posted, open>>

Close ==
  /\ open' = FALSE
  /\ UNCHANGED <<box, posted>>

Next == Take \/ Close \/ \E i \in Items : Post(i)

Spec == Init /\ [][Next]_vars /\ WF_vars(open /\ Take)
=============================================================================
