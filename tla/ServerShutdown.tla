---------------------------- MODULE ServerShutdown ----------------------------
(***************************************************************************)
(* The listener's life: the clients, terminals and tasks it keeps, the     *)
(* loop of runDescriptorLoopMulti in which it notices a signal, and the    *)
(* conditions under which it ends, and the server with it.                 *)
(*                                                                         *)
(* The signal handler only sets a flag.  A signal that finds the listener  *)
(* in poll ends the call; at any other time the flag waits to be looked at *)
(* after the next poll.  The work queue wakes poll (WorkQueue); how a      *)
(* terminal ends once it is told to is WatchLifecycle's subject.           *)
(***************************************************************************)
EXTENDS Naturals, Sequences, FiniteSets

CONSTANTS
  Readers, Terms, Tasks,   \* clients, terminals or connections, tasks
  Id,                      \* of each terminal and task, chosen by the client
  Target,                  \* of each task; None for one that takes no target
  None,
  MaxStarts                \* bound: clients that connect, terminals and tasks

ASSUME ThreadsAssumption ==
  /\ Readers # {}
  /\ Readers \cap Terms = {} /\ Readers \cap Tasks = {} /\ Terms \cap Tasks = {}
  /\ MaxStarts \in Nat

VARIABLES
  standalone,        \* m_standalone: one client, on standard input; never changes
  pc,                \* the listener in its loop
  interrupted,       \* m_interrupted
  signal,            \* s_deathSignal
  open,              \* the listening socket is open
  queue,             \* the listener's work queue
  readers, terms, taskMap, taskTargets,
  state,             \* each reader, terminal and task as a thread
  told,              \* threads with a stop in their queue
  late               \* history: added after the shutdown had begun

vars == <<standalone, pc, interrupted, signal, open, queue, readers, terms, taskMap, taskTargets,
          state, told, late>>

lists == <<readers, terms, taskMap, taskTargets>>

Threads == Readers \cup Terms \cup Tasks
First == CHOOSE r \in Readers : TRUE
Initial == IF standalone THEN {First} ELSE {}

Init ==
  /\ standalone \in BOOLEAN
  /\ pc = "start"
  /\ interrupted = FALSE
  /\ signal = FALSE
  /\ open = ~standalone
  /\ queue = <<>>
  /\ readers = Initial
  /\ terms = {} /\ taskMap = {} /\ taskTargets = {}
  /\ state = [x \in Threads |-> IF x \in Initial THEN "running" ELSE "none"]
  /\ told = {}
  /\ late = {}

-----------------------------------------------------------------------------
(* The other threads *)

Post(op, x) == queue' = Append(queue, [op |-> op, x |-> x])
Started(x) == state' = [state EXCEPT ![x] = "running"]
Unused(x) == state[x] = "none" /\ Cardinality({y \in Threads : state[y] # "none"}) < MaxStarts

\* A client connects to the server's socket.
Knock(r) ==
  /\ open
  /\ Unused(r)
  /\ state' = [state EXCEPT ![r] = "knocking"]
  /\ UNCHANGED <<standalone, pc, interrupted, signal, open, queue, lists, told, late>>

\* A client's command makes a terminal or a connection.
CreateTerm(r, t) ==
  /\ state[r] = "running" /\ Unused(t)
  /\ state' = [state EXCEPT ![t] = "new"]
  /\ Post("AddTerm", t)
  /\ UNCHANGED <<standalone, pc, interrupted, signal, open, lists, told, late>>

CreateTask(r, k) ==
  /\ state[r] = "running" /\ Unused(k)
  /\ state' = [state EXCEPT ![k] = "new"]
  /\ Post("AddTask", k)
  /\ UNCHANGED <<standalone, pc, interrupted, signal, open, lists, told, late>>

\* A ConnectTask hands one end of a socket pair to the listener as a client.
TaskConnects(k, r) ==
  /\ state[k] = "running" /\ Unused(r)
  /\ state' = [state EXCEPT ![r] = "new"]
  /\ Post("AddReader", r)
  /\ UNCHANGED <<standalone, pc, interrupted, signal, open, lists, told, late>>

RemoveOp(x) == IF x \in Readers THEN "RemoveReader" ELSE IF x \in Terms THEN "RemoveTerm" ELSE "RemoveTask"

\* A thread ends, by itself or because it was told to.
End(x) ==
  /\ state[x] = "running"
  /\ state' = [state EXCEPT ![x] = "ended"]
  /\ Post(RemoveOp(x), x)
  /\ UNCHANGED <<standalone, pc, interrupted, signal, open, lists, told, late>>

EndTold(x) == x \in told /\ End(x)

Signal ==
  /\ ~signal
  /\ signal' = TRUE
  /\ pc' = IF pc = "poll" THEN "woken" ELSE pc
  /\ UNCHANGED <<standalone, interrupted, open, queue, lists, state, told, late>>

-----------------------------------------------------------------------------
(* The listener *)

\* Mutant: the shutdown is over when the clients have gone.
CloseWithReaders(stopping, rs, ts, ks) == (stopping \/ standalone) /\ rs = {}

\* checkCloseConditions: whether the loop ends.
CloseConditions(stopping, rs, ts, ks) ==
  IF stopping THEN rs = {} /\ ts = {} /\ ks = {} ELSE standalone /\ rs = {}

Waiting(r) == state[r] = "knocking"

Start ==
  /\ pc = "start"
  /\ ~signal
  /\ pc' = "poll"
  /\ UNCHANGED <<standalone, interrupted, signal, open, queue, lists, state, told, late>>

Poll ==
  /\ pc = "poll"
  /\ queue # <<>> \/ (open /\ \E r \in Readers : Waiting(r))
  /\ pc' = "woken"
  /\ UNCHANGED <<standalone, interrupted, signal, open, queue, lists, state, told, late>>

\* Mutant: only the clients are told to stop.
TellReaders == told \cup readers

TellAll == told \cup readers \cup terms \cup taskMap

\* handleInterrupt.
Interrupt ==
  /\ pc \in {"start", "woken"}
  /\ signal /\ ~interrupted
  /\ interrupted' = TRUE
  /\ open' = FALSE
  /\ told' = TellAll
  /\ pc' = IF CloseConditions(TRUE, readers, terms, taskMap) THEN "exit" ELSE "poll"
  /\ UNCHANGED <<standalone, signal, queue, readers, terms, taskMap, taskTargets, state, late>>

Woken ==
  /\ pc = "woken"
  /\ ~signal \/ interrupted
  /\ pc' = "work"
  /\ UNCHANGED <<standalone, interrupted, signal, open, queue, lists, state, told, late>>

WorkDone ==
  /\ pc = "work"
  /\ queue = <<>>
  /\ pc' = "fds"
  /\ UNCHANGED <<standalone, interrupted, signal, open, queue, lists, state, told, late>>

Item(op) == pc = "work" /\ queue # <<>> /\ Head(queue).op = op
Subject == Head(queue).x
Next1 == queue' = Tail(queue)
LateIf(x) == late' = IF interrupted THEN late \cup {x} ELSE late

\* Mutant: ids are not looked up.
Unchecked(x, list) == FALSE

Duplicate(x, list) == \E y \in list : Id[y] = Id[x]

\* Mutant: the thread starts before the outcome is looked at.
RefuseStarted(x) == state' = [state EXCEPT ![x] = "running"]

Refuse(x) == state' = [state EXCEPT ![x] = "ended"]

\* handleAddTerm, handleAddConn.
HandleAddTerm ==
  /\ Item("AddTerm") /\ Next1
  /\ IF Duplicate(Subject, terms)
     THEN Refuse(Subject) /\ UNCHANGED <<standalone, terms, late>>
     ELSE terms' = terms \cup {Subject} /\ Started(Subject) /\ LateIf(Subject)
  /\ UNCHANGED <<standalone, pc, interrupted, signal, open, readers, taskMap, taskTargets, told>>

\* addReader, for an accepted connection or one a task made.
AddReader(r) ==
  /\ readers' = readers \cup {r}
  /\ Started(r)
  /\ LateIf(r)

\* handleMultiFd, and the end of the turn.
Accept(r) ==
  /\ pc = "fds" /\ open
  /\ Waiting(r)
  /\ AddReader(r)
  /\ pc' = "poll"
  /\ UNCHANGED <<standalone, interrupted, signal, open, queue, terms, taskMap, taskTargets, told>>

FdsDone ==
  /\ pc = "fds"
  /\ pc' = "poll"
  /\ UNCHANGED <<standalone, interrupted, signal, open, queue, lists, state, told, late>>

HandleAddReader ==
  /\ Item("AddReader") /\ Next1
  /\ AddReader(Subject)
  /\ UNCHANGED <<standalone, pc, interrupted, signal, open, terms, taskMap, taskTargets, told>>

\* Mutant: the target is not looked up.
TargetFree(k) == TRUE

TargetOk(k) == Target[k] \notin taskTargets

Take(k) == (taskTargets \cup {Target[k]}) \ {None}

\* handleAddTask: the target is taken before the task's id is looked up.
HandleAddTask ==
  /\ Item("AddTask") /\ Next1
  /\ LET k == Subject
         accepted == ~interrupted /\ TargetOk(k)
     IN /\ taskTargets' = IF accepted THEN Take(k) ELSE taskTargets
        /\ IF accepted /\ ~Duplicate(k, taskMap)
           THEN taskMap' = taskMap \cup {k} /\ Started(k)
           ELSE Refuse(k) /\ UNCHANGED taskMap
  /\ UNCHANGED <<standalone, pc, interrupted, signal, open, readers, terms, told, late>>

WithoutReader(x) == readers \ {x}
WithoutTerm(x) == terms \ {x}
WithoutTask(x) == taskMap \ {x}
GiveBack(x) == IF x \in Tasks THEN taskTargets \ {Target[x]} ELSE taskTargets

\* handleRemoveReader, handleRemoveTerm, handleRemoveTask: the thread is joined.
HandleRemove ==
  /\ pc = "work" /\ queue # <<>> /\ Head(queue).op = RemoveOp(Subject)
  /\ Next1
  /\ readers' = WithoutReader(Subject)
  /\ terms' = WithoutTerm(Subject)
  /\ taskMap' = WithoutTask(Subject)
  /\ taskTargets' = GiveBack(Subject)
  /\ pc' = IF CloseConditions(interrupted, readers', terms', taskMap') THEN "exit" ELSE "work"
  /\ UNCHANGED <<standalone, interrupted, signal, open, state, told, late>>

-----------------------------------------------------------------------------
ListenerStep == Start \/ Poll \/ Interrupt \/ Woken \/ WorkDone \/ FdsDone \/ HandleAddTerm \/ HandleAddReader
                  \/ HandleAddTask \/ HandleRemove

Next ==
  \/ ListenerStep \/ Signal
  \/ \E r \in Readers :
       \/ Accept(r) \/ Knock(r)
       \/ \E t \in Terms : CreateTerm(r, t)
       \/ \E k \in Tasks : CreateTask(r, k) \/ TaskConnects(k, r)
  \/ \E x \in Threads : End(x)

\* The listener's thread keeps running and a thread that is told to stop stops.
\* Clients and programs need not do anything, and no signal need come.
Fairness == WF_vars(ListenerStep) /\ \A x \in Threads : WF_vars(EndTold(x))

Spec == Init /\ [][Next]_vars /\ Fairness

-----------------------------------------------------------------------------
Ops == {"AddTerm", "AddTask", "AddReader", "RemoveReader", "RemoveTerm", "RemoveTask"}

TypeOK ==
  /\ standalone \in BOOLEAN
  /\ pc \in {"start", "poll", "woken", "work", "fds", "exit"}
  /\ {interrupted, signal, open} \subseteq BOOLEAN
  /\ queue \in Seq([op : Ops, x : Threads])
  /\ readers \subseteq Readers /\ terms \subseteq Terms /\ taskMap \subseteq Tasks
  /\ taskTargets \subseteq {Target[k] : k \in Tasks} \ {None}
  /\ state \in [Threads -> {"none", "knocking", "new", "running", "ended"}]
  /\ told \subseteq Threads /\ late \subseteq Threads

\* When a shutdown is over, no thread the server started is running or waiting
\* to be added, though clients and tasks were starting others until they ended.
NobodyLeftBehind ==
  pc = "exit" /\ interrupted => \A x \in Threads : state[x] \in {"none", "knocking", "ended"}

\* The listener has a running thread on its lists until it has joined it.
RunningIsListed ==
  \A x \in Threads : state[x] = "running" => x \in readers \cup terms \cup taskMap

\* Two terminals or two tasks never run under one id, and tasks that take a
\* target (a file to write, an address to bind) exclude each other.
NoTwins ==
  /\ \A s, t \in terms : s # t => Id[s] # Id[t]
  /\ \A j, k \in taskMap : j # k => Id[j] # Id[k] /\ (Target[j] = Target[k] => Target[j] = None)

\* The inductive invariant the proofs use.  A thread is in the queue once, as an
\* addition while it is new and as a removal while it is listed and ended.  An
\* addition is followed by the end of the thread that made it: what is left in
\* the queue when the lists are empty adds nothing.
Listed == readers \cup terms \cup taskMap
Removal(i) == queue[i].op = RemoveOp(queue[i].x)

QueuedOnce == \A i, j \in DOMAIN queue : queue[i].x = queue[j].x => i = j
QueuedState == \A i \in DOMAIN queue :
  \/ Removal(i) /\ state[queue[i].x] = "ended" /\ queue[i].x \in Listed
  \/ /\ state[queue[i].x] = "new"
     /\ \/ queue[i].op = "AddReader" /\ queue[i].x \in Readers
        \/ queue[i].op = "AddTerm" /\ queue[i].x \in Terms
        \/ queue[i].op = "AddTask" /\ queue[i].x \in Tasks
NewQueued == \A x \in Threads : state[x] = "new" => \E i \in DOMAIN queue : queue[i].x = x
ListedState == \A x \in Listed : state[x] \in {"running", "ended"}
Supported(i) == \E y \in Listed :
  \/ state[y] = "running"
  \/ \E j \in DOMAIN queue : i < j /\ queue[j].x = y
AdditionsSupported == \A i \in DOMAIN queue : ~Removal(i) => Supported(i)
TargetsHeld == \A k \in taskMap : Target[k] # None => Target[k] \in taskTargets
ClosedInv == (interrupted => ~open) /\ (pc = "exit" /\ interrupted => Listed = {})

IInv ==
  /\ TypeOK /\ RunningIsListed /\ NoTwins
  /\ QueuedOnce /\ QueuedState /\ NewQueued /\ ListedState /\ AdditionsSupported
  /\ TargetsHeld /\ ClosedInv

\* A shutdown the listener has noticed comes to its end, unless a thread was
\* added after it began.
ShutdownCompletes == interrupted ~> (pc = "exit" \/ late # {})

\* "the server exits on receipt of SIGTERM, SIGINT, or SIGHUP".
ServerExits == signal ~> pc = "exit"
===============================================================================
