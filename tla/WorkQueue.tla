------------------------------ MODULE WorkQueue ------------------------------
(***************************************************************************)
(* The work queue every server thread inherits from ThreadBase             *)
(* (src/mux/base/threadbase.cpp): senders push under the thread's lock and *)
(* wake it through an event descriptor, usually after the lock is          *)
(* released; the thread polls the event together with its own descriptor.  *)
(*                                                                         *)
(* A critical section is one step.  What happens outside the lock (setting *)
(* and clearing the event, the poll itself) is a step of its own.          *)
(***************************************************************************)
EXTENDS Naturals, Sequences, FiniteSets

CONSTANTS
  Senders,           \* threads that post work to this one
  MaxPosts           \* bound: items each sender posts

ASSUME MaxPostsAssumption == MaxPosts \in Nat

Items == Senders \X (1..MaxPosts)

VARIABLES
  workFirst,         \* runDescriptorLoopMulti, not runDescriptorLoop: never changes
  queue,             \* m_workQueue
  event,             \* m_event: the thread has been, or is about to be, woken
  signalled,         \* the event descriptor is readable
  sendPc,            \* sender -> "idle", or "set" between unlock and osSetEvent
  count,             \* sender -> items posted so far
  fdReady,           \* the thread's own descriptor is readable
  revents,           \* what the last poll reported: subset of {"event", "fd"}
  pc                 \* where the thread is in its loop

vars == <<workFirst, queue, event, signalled, sendPc, count, fdReady, revents, pc>>
senderVars == <<sendPc, count>>
loopVars == <<workFirst, revents, pc>>

Init ==
  /\ workFirst \in BOOLEAN
  /\ queue = <<>>
  /\ event = FALSE
  /\ signalled = FALSE
  /\ sendPc = [s \in Senders |-> "idle"]
  /\ count = [s \in Senders |-> 0]
  /\ fdReady = FALSE
  /\ revents = {}
  /\ pc = "poll"

-----------------------------------------------------------------------------
(* Senders *)

Push(s) ==
  /\ count[s] < MaxPosts
  /\ sendPc[s] = "idle"
  /\ count' = [count EXCEPT ![s] = @ + 1]
  /\ queue' = Append(queue, <<s, count[s] + 1>>)
  /\ event' = TRUE

\* Mutant: every sender signals, whether or not the event was already raised.
SendWorkAlways(s) ==
  /\ Push(s)
  /\ sendPc' = [sendPc EXCEPT ![s] = "set"]
  /\ UNCHANGED <<signalled, fdReady, loopVars>>

\* sendWork, sendWorkAndUnlock: whoever raises m_event owes the osSetEvent.
SendWork(s) ==
  /\ Push(s)
  /\ sendPc' = [sendPc EXCEPT ![s] = IF event THEN "idle" ELSE "set"]
  /\ UNCHANGED <<signalled, fdReady, loopVars>>

SetEvent(s) ==
  /\ sendPc[s] = "set"
  /\ signalled' = TRUE
  /\ sendPc' = [sendPc EXCEPT ![s] = "idle"]
  /\ UNCHANGED <<queue, event, count, fdReady, loopVars>>

\* stageWork then commitWork: the event is set with the lock still held.
CommitWork(s) ==
  /\ Push(s)
  /\ signalled' = (signalled \/ ~event)
  /\ UNCHANGED <<sendPc, fdReady, loopVars>>

-----------------------------------------------------------------------------
(* The thread *)

\* Where the loop goes once poll has returned r, and once work is drained.
AfterPoll(r) ==
  IF workFirst THEN IF "event" \in r THEN "clear" ELSE "fd"
  ELSE IF "fd" \in r THEN "fd" ELSE "clear"

AfterDrain(r) == IF workFirst /\ "fd" \in r THEN "fd" ELSE "poll"

\* Mutant: the queue is drained after every poll, without asking whether the
\* event was among what poll reported.
AfterFdAnyway(r) == "clear"

AfterFd(r) == IF ~workFirst /\ "event" \in r THEN "clear" ELSE "poll"

Ready == (IF signalled THEN {"event"} ELSE {}) \cup (IF fdReady THEN {"fd"} ELSE {})

Poll ==
  /\ pc = "poll"
  /\ Ready # {}
  /\ revents' = Ready
  /\ pc' = AfterPoll(Ready)
  /\ UNCHANGED <<workFirst, queue, event, signalled, senderVars, fdReady>>

\* handleFd and handleMultiFd consume the input; FALSE ends the thread.
HandleFd ==
  /\ pc = "fd"
  /\ fdReady' = FALSE
  /\ pc' \in {AfterFd(revents), "ended"}
  /\ UNCHANGED <<workFirst, queue, event, signalled, senderVars, revents>>

\* Mutant: one item per wakeup, the loop goes back to poll after handling it.
HandleWorkOnce ==
  /\ pc = "handle"
  /\ pc' \in {"poll", "closed"}
  /\ UNCHANGED <<workFirst, queue, event, signalled, senderVars, fdReady, revents>>

ClearEvent ==
  /\ pc = "clear"
  /\ signalled' = FALSE
  /\ pc' = "next"
  /\ UNCHANGED <<workFirst, queue, event, senderVars, fdReady, revents>>

\* Mutant: m_event stays raised when the queue is found empty.
NextWorkItemKeepsEvent ==
  /\ pc = "next"
  /\ IF queue # <<>>
     THEN queue' = Tail(queue) /\ pc' = "handle"
     ELSE pc' = AfterDrain(revents) /\ UNCHANGED queue
  /\ UNCHANGED <<workFirst, event, signalled, senderVars, fdReady, revents>>

\* Mutant: the newest item is taken instead of the oldest.
NextWorkItemNewest ==
  /\ pc = "next"
  /\ IF queue # <<>>
     THEN /\ queue' = SubSeq(queue, 1, Len(queue) - 1)
          /\ pc' = "handle"
          /\ UNCHANGED event
     ELSE /\ event' = FALSE
          /\ pc' = AfterDrain(revents)
          /\ UNCHANGED queue
  /\ UNCHANGED <<workFirst, signalled, senderVars, fdReady, revents>>

\* The critical section of nextWorkItem.
NextWorkItem ==
  /\ pc = "next"
  /\ IF queue # <<>>
     THEN /\ queue' = Tail(queue)
          /\ pc' = "handle"
          /\ UNCHANGED event
     ELSE /\ event' = FALSE
          /\ pc' = AfterDrain(revents)
          /\ UNCHANGED queue
  /\ UNCHANGED <<workFirst, signalled, senderVars, fdReady, revents>>

\* A handler that returns FALSE ends the thread, whatever is still queued.
HandleWork ==
  /\ pc = "handle"
  /\ pc' \in {"clear", "closed"}
  /\ UNCHANGED <<workFirst, queue, event, signalled, senderVars, fdReady, revents>>

\* handleIdle (a poll timeout) and handleInterrupt (the death signal) may end
\* the thread; otherwise they only go back to poll.
HandleIdle ==
  /\ ~workFirst
  /\ pc = "poll"
  /\ Ready = {}
  /\ pc' = "ended"
  /\ UNCHANGED <<workFirst, queue, event, signalled, senderVars, fdReady, revents>>

HandleInterrupt ==
  /\ workFirst
  /\ pc = "poll"
  /\ pc' = "ended"
  /\ UNCHANGED <<workFirst, queue, event, signalled, senderVars, fdReady, revents>>

\* Input arrives on the thread's own descriptor.
FdInput ==
  /\ ~fdReady
  /\ fdReady' = TRUE
  /\ UNCHANGED <<queue, event, signalled, senderVars, loopVars>>

-----------------------------------------------------------------------------
ThreadStep == Poll \/ HandleFd \/ ClearEvent \/ NextWorkItem \/ HandleWork

Next ==
  \/ \E s \in Senders : SendWork(s) \/ SetEvent(s) \/ CommitWork(s)
  \/ ThreadStep
  \/ HandleIdle
  \/ HandleInterrupt
  \/ FdInput

\* The scheduler runs every thread that can run; posting and input are the
\* environment's choice and are not promised.
Fairness ==
  /\ WF_vars(ThreadStep)
  /\ \A s \in Senders : WF_vars(SetEvent(s))

Spec == Init /\ [][Next]_vars /\ Fairness

-----------------------------------------------------------------------------
Over == pc \in {"ended", "closed"}

TypeOK ==
  /\ workFirst \in BOOLEAN
  /\ queue \in Seq(Items)
  /\ event \in BOOLEAN
  /\ signalled \in BOOLEAN
  /\ sendPc \in [Senders -> {"idle", "set"}]
  /\ count \in [Senders -> 0..MaxPosts]
  /\ fdReady \in BOOLEAN
  /\ revents \in SUBSET {"event", "fd"}
  /\ pc \in {"poll", "fd", "clear", "next", "handle", "ended", "closed"}

\* A thread asleep in poll with work in its queue has been signalled, or a
\* sender is between its unlock and the osSetEvent that will signal it.
NoLostWakeup ==
  pc = "poll" /\ queue # <<>> => signalled \/ \E s \in Senders : sendPc[s] = "set"

\* osSetEvent runs after the unlock, on a thread object the handler of that
\* very item may cause to be deleted.  It is never late: a thread that ends
\* by handling work leaves no sender that still has to touch its event.
NoTouchAfterClose == pc \in {"next", "handle", "closed"} => \A s \in Senders : sendPc[s] = "idle"

\* Only one sender at a time owes the wakeup, and never on top of another one.
OneWaker ==
  /\ \A s, t \in Senders : sendPc[s] = "set" /\ sendPc[t] = "set" => s = t
  /\ \A s \in Senders : sendPc[s] = "set" => ~signalled

\* The inductive invariant the proofs use.  The thread sleeps when only the
\* event can bring it back to its queue, and drains from the moment poll has
\* reported the event until nextWorkItem finds the queue empty.
Owes(s) == sendPc[s] = "set"
Sleeping == pc = "poll" \/ (pc = "fd" /\ (workFirst \/ "event" \notin revents))
Draining == pc \in {"clear", "next", "handle", "closed"}
              \/ (pc = "fd" /\ ~workFirst /\ "event" \in revents)

RaisedInv == (queue # <<>> \/ signalled \/ Draining) => event
OwedInv == \A s \in Senders : Owes(s) => event /\ ~signalled /\ ~Draining
WakeInv == Sleeping /\ event => signalled \/ \E s \in Senders : Owes(s)
ClearedInv == pc \in {"next", "handle"} => ~signalled

IInv == TypeOK /\ RaisedInv /\ OwedInv /\ OneWaker /\ WakeInv /\ ClearedInv

\* What is posted is handled exactly once, in the order it was posted.
Abstract == INSTANCE Mailbox WITH
  box <- queue,
  posted <- {i \in Items : i[2] <= count[i[1]]},
  open <- ~Over
Implements == Abstract!Spec

\* Every item posted is taken, unless the thread ends first.
EventuallyDrained == queue # <<>> ~> (queue = <<>> \/ Over)
=============================================================================
