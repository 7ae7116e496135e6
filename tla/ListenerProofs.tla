---------------------------- MODULE ListenerProofs ----------------------------
(***************************************************************************)
(* Proofs about the listener: ServerShutdown for any number of clients,    *)
(* terminals and tasks and any choice of ids and targets, and Ownership    *)
(* for any readers, clients, hops and terminals.                           *)
(***************************************************************************)
EXTENDS ServerShutdown, MCOwners, TLAPS, FiniteSetTheorems, SequenceTheorems, WellFoundedInduction

Entries == [op : Ops, x : Threads]

\* The queue after a post: the old entries keep their places.
LEMMA AppendFacts ==
  ASSUME NEW q \in Seq(Entries), NEW e \in Entries
  PROVE  /\ Append(q, e) \in Seq(Entries)
         /\ DOMAIN q = 1..Len(q) /\ Len(q) \in Nat
         /\ DOMAIN Append(q, e) = 1..Len(q) + 1
         /\ \A i \in DOMAIN q : Append(q, e)[i] = q[i]
         /\ Append(q, e)[Len(q) + 1] = e
  OBVIOUS

\* The queue after an item is taken: each entry moves up by one.
LEMMA TailFacts ==
  ASSUME NEW q \in Seq(Entries), q # <<>>
  PROVE  /\ Tail(q) \in Seq(Entries)
         /\ Len(q) \in Nat \ {0} /\ DOMAIN q = 1..Len(q) /\ 1 \in DOMAIN q
         /\ Head(q) = q[1] /\ q[1] \in Entries
         /\ DOMAIN Tail(q) = 1..Len(q) - 1
         /\ \A i \in DOMAIN Tail(q) : i + 1 \in DOMAIN q /\ Tail(q)[i] = q[i + 1]
  OBVIOUS

\* Additions and removals are told apart by their operation.
LEMMA RemoveOpFacts ==
  ASSUME NEW x \in Threads
  PROVE  RemoveOp(x) \in {"RemoveReader", "RemoveTerm", "RemoveTask"} /\ RemoveOp(x) \in Ops
  BY DEF RemoveOp, Ops

\* An addition is of a thread of its kind that is not on the lists yet.
LEMMA AdditionFacts ==
  ASSUME IInv, queue # <<>>, Head(queue).op \in {"AddReader", "AddTerm", "AddTask"}
  PROVE  /\ Subject \in Threads /\ state[Subject] = "new" /\ Subject \notin Listed
         /\ Head(queue).op = "AddReader" => Subject \in Readers
         /\ Head(queue).op = "AddTerm" => Subject \in Terms
         /\ Head(queue).op = "AddTask" => Subject \in Tasks
<1>1. queue \in Seq(Entries)
  BY DEF IInv, TypeOK, Entries
<1>2. Head(queue) = queue[1] /\ 1 \in DOMAIN queue /\ queue[1] \in Entries
  BY <1>1, TailFacts
<1>3. Subject \in Threads /\ ~Removal(1)
  BY <1>2, RemoveOpFacts DEF Subject, Removal, Entries
<1>4. state[Subject] = "new"
  BY <1>2, <1>3 DEF IInv, QueuedState, Subject
<1> QED BY <1>2, <1>3, <1>4 DEF IInv, QueuedState, ListedState, Subject

\* A removal is of a thread on the lists that has ended.
LEMMA RemovalFacts ==
  ASSUME IInv, queue # <<>>, Head(queue).op = RemoveOp(Subject)
  PROVE  Subject \in Threads /\ state[Subject] = "ended" /\ Subject \in Listed
<1>1. queue \in Seq(Entries)
  BY DEF IInv, TypeOK, Entries
<1>2. Head(queue) = queue[1] /\ 1 \in DOMAIN queue /\ queue[1] \in Entries
  BY <1>1, TailFacts
<1>3. Subject \in Threads /\ Head(queue).op \in {"RemoveReader", "RemoveTerm", "RemoveTask"}
  BY <1>2, RemoveOpFacts DEF Subject, Entries
<1> QED BY <1>2, <1>3 DEF IInv, QueuedState, Subject

\* The listener starts with no client or with the one on standard input.
LEMMA InitIInv == Init => IInv
<1> SUFFICES ASSUME Init PROVE IInv
  OBVIOUS
<1>1. Initial \subseteq Readers
  BY ThreadsAssumption DEF Initial, First
<1>2. queue = <<>> /\ queue \in Seq([op : Ops, x : Threads]) /\ DOMAIN queue = {}
  BY DEF Init
<1>3. TypeOK
  BY <1>1, <1>2 DEF Init, TypeOK, Threads
<1>4. RunningIsListed /\ NoTwins /\ ListedState /\ NewQueued
  BY <1>1 DEF Init, RunningIsListed, NoTwins, ListedState, NewQueued, Listed, Threads
<1>5. QueuedOnce /\ QueuedState /\ AdditionsSupported
  BY <1>2 DEF QueuedOnce, QueuedState, AdditionsSupported
<1>6. TargetsHeld /\ ClosedInv
  BY DEF Init, TargetsHeld, ClosedInv
<1> QED BY <1>3, <1>4, <1>5, <1>6 DEF IInv

\* Every step keeps every variable in its domain; taking an item needs the
\* inductive invariant to know what is in the queue.
LEMMA StepTypeOK == IInv /\ [Next]_vars => TypeOK'
<1> SUFFICES ASSUME IInv, [Next]_vars PROVE TypeOK'
  OBVIOUS
<1> USE DEF TypeOK, lists
<1>0. TypeOK
  BY DEF IInv
<1>1. queue \in Seq(Entries)
  BY <1>0 DEF Entries
<1>2. ASSUME NEW op \in Ops, NEW x \in Threads, Post(op, x) PROVE queue' \in Seq([op : Ops, x : Threads])
  <2>1. [op |-> op, x |-> x] \in Entries
    BY DEF Entries
  <2> QED BY <1>1, <1>2, <2>1, AppendFacts DEF Post, Entries
<1>3. ASSUME queue # <<>>, Next1 PROVE queue' \in Seq([op : Ops, x : Threads])
  BY <1>1, <1>3, TailFacts DEF Next1, Entries
<1>4. Readers \subseteq Threads /\ Terms \subseteq Threads /\ Tasks \subseteq Threads
  BY DEF Threads
<1>5. CASE Start \/ Poll \/ Woken \/ WorkDone \/ FdsDone \/ Signal
  BY <1>0, <1>5 DEF Start, Poll, Woken, WorkDone, FdsDone, Signal
<1>6. CASE Interrupt
  BY <1>0, <1>4, <1>6 DEF Interrupt, TellAll
<1>7. CASE HandleAddTerm
  BY <1>0, <1>3, <1>7, AdditionFacts DEF HandleAddTerm, Item, Refuse, Started, LateIf
<1>8. CASE HandleAddReader
  BY <1>0, <1>3, <1>8, AdditionFacts DEF HandleAddReader, AddReader, Item, Started, LateIf
<1>9. CASE HandleAddTask
  <2>1. Subject \in Tasks /\ Subject \in Threads
    BY <1>9, AdditionFacts DEF HandleAddTask, Item
  <2>2. taskTargets' \subseteq {Target[k] : k \in Tasks} \ {None}
    BY <1>0, <1>9, <2>1 DEF HandleAddTask, Take
  <2> QED BY <1>0, <1>3, <1>9, <2>1, <2>2 DEF HandleAddTask, Item, Refuse, Started
<1>10. CASE HandleRemove
  BY <1>0, <1>3, <1>10 DEF HandleRemove, WithoutReader, WithoutTerm, WithoutTask, GiveBack
<1>11. ASSUME NEW r \in Readers, Accept(r) \/ Knock(r) PROVE TypeOK'
  BY <1>0, <1>4, <1>11 DEF Accept, Knock, AddReader, Started, LateIf
<1>12. ASSUME NEW r \in Readers, NEW t \in Terms, CreateTerm(r, t) PROVE TypeOK'
  BY <1>0, <1>2, <1>4, <1>12 DEF CreateTerm, Ops
<1>13. ASSUME NEW r \in Readers, NEW k \in Tasks, CreateTask(r, k) \/ TaskConnects(k, r) PROVE TypeOK'
  BY <1>0, <1>2, <1>4, <1>13 DEF CreateTask, TaskConnects, Ops
<1>14. ASSUME NEW x \in Threads, End(x) PROVE TypeOK'
  <2>1. queue' \in Seq([op : Ops, x : Threads])
    BY <1>2, <1>14, RemoveOpFacts DEF End
  <2> QED BY <1>0, <1>14, <2>1 DEF End
<1>15. CASE UNCHANGED vars
  BY <1>0, <1>15 DEF vars
<1> QED BY <1>5, <1>6, <1>7, <1>8, <1>9, <1>10, <1>11, <1>12, <1>13, <1>14, <1>15 DEF Next, ListenerStep

\* Ids and targets stay distinct: an addition is looked up before it is listed,
\* and every listed task that takes a target holds it.
LEMMA StepTwins == IInv /\ [Next]_vars => NoTwins' /\ TargetsHeld'
<1> SUFFICES ASSUME IInv, [Next]_vars PROVE NoTwins' /\ TargetsHeld'
  OBVIOUS
<1> USE DEF NoTwins, TargetsHeld, lists
<1>0. NoTwins /\ TargetsHeld
  BY DEF IInv
<1>1. CASE Start \/ Poll \/ Woken \/ WorkDone \/ FdsDone \/ Signal \/ Interrupt \/ UNCHANGED vars
  BY <1>0, <1>1 DEF Start, Poll, Woken, WorkDone, FdsDone, Signal, Interrupt, vars
<1>2. CASE HandleAddTerm
  BY <1>0, <1>2 DEF HandleAddTerm, Duplicate
<1>3. CASE HandleAddReader
  BY <1>0, <1>3 DEF HandleAddReader, AddReader
<1>4. CASE HandleAddTask
  BY <1>0, <1>4 DEF HandleAddTask, Duplicate, TargetOk, Take
<1>5. CASE HandleRemove
  <2>1. Subject \in Tasks => Subject \in taskMap
    BY <1>5, RemovalFacts, ThreadsAssumption DEF HandleRemove, IInv, TypeOK, Listed
  <2>2. \A k \in taskMap' : k \in taskMap /\ k # Subject
    BY <1>5 DEF HandleRemove, WithoutTask
  <2>3. NoTwins'
    BY <1>0, <1>5, <2>2 DEF HandleRemove, WithoutTerm
  <2>4. ASSUME NEW k \in taskMap', Target[k] # None PROVE Target[k] \in taskTargets'
    BY <1>0, <1>5, <2>1, <2>2, <2>4 DEF HandleRemove, GiveBack
  <2> QED BY <2>3, <2>4
<1>6. ASSUME NEW r \in Readers, Accept(r) \/ Knock(r) PROVE NoTwins' /\ TargetsHeld'
  BY <1>0, <1>6 DEF Accept, Knock, AddReader
<1>7. ASSUME NEW r \in Readers, NEW t \in Terms, CreateTerm(r, t) PROVE NoTwins' /\ TargetsHeld'
  BY <1>0, <1>7 DEF CreateTerm
<1>8. ASSUME NEW r \in Readers, NEW k \in Tasks, CreateTask(r, k) \/ TaskConnects(k, r)
      PROVE NoTwins' /\ TargetsHeld'
  BY <1>0, <1>8 DEF CreateTask, TaskConnects
<1>9. ASSUME NEW x \in Threads, End(x) PROVE NoTwins' /\ TargetsHeld'
  BY <1>0, <1>9 DEF End
<1> QED BY <1>1, <1>2, <1>3, <1>4, <1>5, <1>6, <1>7, <1>8, <1>9 DEF Next, ListenerStep

\* The socket is closed when a shutdown begins, and nothing is listed at its end.
LEMMA StepClosed == IInv /\ [Next]_vars => ClosedInv'
<1> SUFFICES ASSUME IInv, [Next]_vars PROVE ClosedInv'
  OBVIOUS
<1> USE DEF ClosedInv, Listed, lists
<1>0. ClosedInv
  BY DEF IInv
<1>1. CASE Start \/ Poll \/ Woken \/ WorkDone \/ FdsDone \/ Signal \/ UNCHANGED vars
  BY <1>0, <1>1 DEF Start, Poll, Woken, WorkDone, FdsDone, Signal, vars
<1>2. CASE Interrupt
  BY <1>2 DEF Interrupt, CloseConditions
<1>3. CASE HandleAddTerm \/ HandleAddReader \/ HandleAddTask
  BY <1>0, <1>3 DEF HandleAddTerm, HandleAddReader, HandleAddTask, AddReader, Item
<1>4. CASE HandleRemove
  BY <1>0, <1>4 DEF HandleRemove, CloseConditions
<1>5. ASSUME NEW r \in Readers, Accept(r) \/ Knock(r) PROVE ClosedInv'
  BY <1>0, <1>5 DEF Accept, Knock, AddReader
<1>6. ASSUME NEW r \in Readers, NEW t \in Terms, CreateTerm(r, t) PROVE ClosedInv'
  BY <1>0, <1>6 DEF CreateTerm
<1>7. ASSUME NEW r \in Readers, NEW k \in Tasks, CreateTask(r, k) \/ TaskConnects(k, r) PROVE ClosedInv'
  BY <1>0, <1>7 DEF CreateTask, TaskConnects
<1>8. ASSUME NEW x \in Threads, End(x) PROVE ClosedInv'
  BY <1>0, <1>8 DEF End
<1> QED BY <1>1, <1>2, <1>3, <1>4, <1>5, <1>6, <1>7, <1>8 DEF Next, ListenerStep

QueueInv == RunningIsListed /\ QueuedOnce /\ QueuedState /\ NewQueued /\ ListedState /\ AdditionsSupported

Kind(e) ==
  \/ e.op = "AddReader" /\ e.x \in Readers
  \/ e.op = "AddTerm" /\ e.x \in Terms
  \/ e.op = "AddTask" /\ e.x \in Tasks

\* Posting an addition on behalf of a running thread keeps the queue in order:
\* the thread that posts it is listed, and its own removal comes later.
LEMMA PostAdditionKeeps ==
  ASSUME IInv, NEW e \in Entries, Kind(e), state[e.x] = "none",
         NEW y \in Threads, state[y] = "running",
         queue' = Append(queue, e), Listed' = Listed, state' = [state EXCEPT ![e.x] = "new"]
  PROVE  QueueInv'
<1>0. queue \in Seq(Entries) /\ state \in [Threads -> {"none", "knocking", "new", "running", "ended"}]
  BY DEF IInv, TypeOK, Entries
<1>1. /\ DOMAIN queue = 1..Len(queue) /\ Len(queue) \in Nat
      /\ DOMAIN queue' = 1..Len(queue) + 1
      /\ \A i \in DOMAIN queue : queue'[i] = queue[i] /\ queue[i] \in Entries
      /\ queue'[Len(queue) + 1] = e
  BY <1>0, AppendFacts
<1>2. e.x \in Threads /\ e.x # y /\ y \in Listed
  BY DEF Entries, IInv, RunningIsListed, Listed
<1>3. \A x \in Threads : state'[x] = IF x = e.x THEN "new" ELSE state[x]
  BY <1>0, <1>2
<1>4. \A i \in DOMAIN queue : queue[i].x \in Threads /\ queue[i].x # e.x
  BY <1>1 DEF IInv, QueuedState, Entries
<1>5. e.x \notin Listed /\ Listed \subseteq Threads
  BY DEF IInv, ListedState, Listed, TypeOK, Threads
<1>6. \A i \in DOMAIN queue' : i \in DOMAIN queue \/ i = Len(queue) + 1
  BY <1>1
<1>7. RunningIsListed' /\ ListedState'
  BY <1>3, <1>5 DEF IInv, RunningIsListed, ListedState, Listed
<1>8. QueuedOnce'
  BY <1>1, <1>4, <1>6 DEF IInv, QueuedOnce
<1>9. QueuedState'
  <2>1. ASSUME NEW i \in DOMAIN queue
        PROVE  queue'[i] = queue[i] /\ state'[queue[i].x] = state[queue[i].x] /\ (Removal(i) <=> Removal(i)')
    BY <1>1, <1>3, <1>4 DEF Removal
  <2>2. state'[e.x] = "new"
    BY <1>2, <1>3
  <2> QED BY <1>1, <1>6, <2>1, <2>2 DEF IInv, QueuedState, Kind
<1>10. NewQueued'
  BY <1>1, <1>3 DEF IInv, NewQueued
<1>11. AdditionsSupported'
  <2>1. y \in Listed' /\ state'[y] = "running"
    BY <1>2, <1>3
  <2> QED BY <2>1 DEF AdditionsSupported, Supported
<1> QED BY <1>7, <1>8, <1>9, <1>10, <1>11 DEF QueueInv

\* The end of a running thread posts its removal behind every addition it made.
LEMMA PostRemovalKeeps ==
  ASSUME IInv, NEW x \in Threads, End(x)
  PROVE  QueueInv'
<1> DEFINE e == [op |-> RemoveOp(x), x |-> x]
<1>0. queue \in Seq(Entries) /\ state \in [Threads -> {"none", "knocking", "new", "running", "ended"}]
  BY DEF IInv, TypeOK, Entries
<1>e. e \in Entries /\ e.x = x /\ e.op = RemoveOp(x) /\ queue' = Append(queue, e) /\ Listed' = Listed
  BY RemoveOpFacts DEF Entries, End, Post, Listed, lists
<1> HIDE DEF e
<1>1. /\ DOMAIN queue = 1..Len(queue) /\ Len(queue) \in Nat
      /\ DOMAIN queue' = 1..Len(queue) + 1
      /\ \A i \in DOMAIN queue : queue'[i] = queue[i] /\ queue[i] \in Entries
      /\ queue'[Len(queue) + 1] = e
  BY <1>0, <1>e, AppendFacts
<1>2. state[x] = "running" /\ x \in Listed
  BY DEF End, IInv, RunningIsListed, Listed
<1>3. \A z \in Threads : state'[z] = IF z = x THEN "ended" ELSE state[z]
  BY <1>0 DEF End
<1>4. \A i \in DOMAIN queue : queue[i].x \in Threads /\ queue[i].x # x
  BY <1>1, <1>2 DEF IInv, QueuedState, Entries
<1>5. Listed \subseteq Threads
  BY DEF IInv, Listed, TypeOK, Threads
<1>6. \A i \in DOMAIN queue' : i \in DOMAIN queue \/ i = Len(queue) + 1
  BY <1>1
<1>7. RunningIsListed' /\ ListedState'
  BY <1>3, <1>5, <1>e DEF IInv, RunningIsListed, ListedState, Listed
<1>8. QueuedOnce'
  BY <1>1, <1>4, <1>6, <1>e DEF IInv, QueuedOnce
<1>9. QueuedState'
  <2>1. ASSUME NEW i \in DOMAIN queue
        PROVE  queue'[i] = queue[i] /\ state'[queue[i].x] = state[queue[i].x] /\ (Removal(i) <=> Removal(i)')
    BY <1>1, <1>3, <1>4 DEF Removal
  <2>2. state'[e.x] = "ended" /\ e.x \in Listed' /\ e.op = RemoveOp(e.x)
    BY <1>2, <1>3, <1>e
  <2>3. ASSUME NEW i \in DOMAIN queue', i = Len(queue) + 1
        PROVE  Removal(i)' /\ state'[queue'[i].x] = "ended" /\ queue'[i].x \in Listed'
    BY <1>1, <2>2, <2>3 DEF Removal
  <2> QED BY <1>6, <1>e, <2>1, <2>3 DEF IInv, QueuedState
<1>10. NewQueued'
  BY <1>1, <1>3 DEF IInv, NewQueued
<1>11. AdditionsSupported'
  <2>1. ASSUME NEW i \in DOMAIN queue', ~Removal(i)' PROVE Supported(i)'
    <3>1. i \in DOMAIN queue
      BY <1>1, <1>6, <1>e, <2>1 DEF Removal
    <3>2. Len(queue) + 1 \in DOMAIN queue' /\ i < Len(queue) + 1
      BY <1>1, <3>1
    <3>3. queue'[Len(queue) + 1].x = x /\ x \in Listed'
      BY <1>1, <1>2, <1>e
    <3> QED BY <3>2, <3>3 DEF Supported
  <2> QED BY <2>1 DEF AdditionsSupported
<1> QED BY <1>7, <1>8, <1>9, <1>10, <1>11 DEF QueueInv

\* Taking an addition keeps the queue in order whether the thread is listed and
\* started or refused.
LEMMA TakeAdditionKeeps ==
  ASSUME IInv, queue # <<>>, Head(queue).op \in {"AddReader", "AddTerm", "AddTask"}, Next1,
         \/ state' = [state EXCEPT ![Subject] = "running"] /\ Listed' = Listed \cup {Subject}
         \/ state' = [state EXCEPT ![Subject] = "ended"] /\ Listed' = Listed
  PROVE  QueueInv'
<1>0. queue \in Seq(Entries) /\ state \in [Threads -> {"none", "knocking", "new", "running", "ended"}]
  BY DEF IInv, TypeOK, Entries
<1>1. /\ Len(queue) \in Nat \ {0} /\ DOMAIN queue = 1..Len(queue) /\ 1 \in DOMAIN queue
      /\ DOMAIN queue' = 1..Len(queue) - 1
      /\ \A i \in DOMAIN queue' : i \in Nat /\ i + 1 \in DOMAIN queue /\ queue'[i] = queue[i + 1]
      /\ queue[1].x = Subject
  BY <1>0, TailFacts DEF Next1, Subject
<1>2. Subject \in Threads /\ state[Subject] = "new" /\ Subject \notin Listed
  BY AdditionFacts
<1>3. \A z \in Threads : z # Subject => state'[z] = state[z]
  BY <1>0
<1>4. Listed \subseteq Listed' /\ Listed' \subseteq Listed \cup {Subject} /\ Listed \subseteq Threads
  BY DEF IInv, TypeOK, Listed, Threads
<1>5. \A i \in DOMAIN queue' : queue'[i].x \in Threads /\ queue'[i].x # Subject
  <2>1. ASSUME NEW i \in DOMAIN queue' PROVE queue[i + 1].x \in Threads /\ queue[i + 1].x # Subject
    <3>1. queue[i + 1] \in Entries /\ i + 1 # 1
      BY <1>0, <1>1
    <3> QED BY <1>1, <3>1 DEF IInv, QueuedOnce, Entries
  <2> QED BY <1>1, <2>1
<1>6. \A i \in DOMAIN queue : i = 1 \/ (i - 1 \in DOMAIN queue' /\ queue'[i - 1] = queue[i])
  BY <1>1
<1>s. \/ state'[Subject] = "running" /\ Listed' = Listed \cup {Subject}
      \/ state'[Subject] = "ended" /\ Listed' = Listed
  BY <1>0, <1>2
<1>7. RunningIsListed'
  <2>1. ASSUME NEW z \in Threads, state'[z] = "running" PROVE z \in Listed'
    BY <1>3, <1>4, <1>s, <2>1 DEF IInv, RunningIsListed, Listed
  <2> QED BY <2>1 DEF RunningIsListed, Listed
<1>8. ListedState'
  BY <1>2, <1>3, <1>4, <1>s DEF IInv, ListedState
<1>9. QueuedOnce'
  <2>1. ASSUME NEW i \in DOMAIN queue', NEW j \in DOMAIN queue', queue'[i].x = queue'[j].x PROVE i = j
    BY <1>1, <2>1 DEF IInv, QueuedOnce
  <2> QED BY <2>1 DEF QueuedOnce
<1>10. QueuedState'
  <2>1. ASSUME NEW i \in DOMAIN queue'
        PROVE  /\ queue'[i] = queue[i + 1] /\ i + 1 \in DOMAIN queue
               /\ state'[queue'[i].x] = state[queue[i + 1].x]
               /\ Removal(i)' <=> Removal(i + 1)
               /\ queue[i + 1].x \in Listed => queue'[i].x \in Listed'
    BY <1>1, <1>3, <1>4, <1>5 DEF Removal
  <2>2. ASSUME NEW i \in DOMAIN queue'
        PROVE  \/ Removal(i)' /\ state'[queue'[i].x] = "ended" /\ queue'[i].x \in Listed'
               \/ state'[queue'[i].x] = "new" /\ Kind(queue'[i])
    BY <2>1 DEF IInv, QueuedState, Kind
  <2> QED BY <2>2 DEF QueuedState, Kind
<1>11. NewQueued'
  <2>1. ASSUME NEW z \in Threads, state'[z] = "new" PROVE \E i \in DOMAIN queue' : queue'[i].x = z
    <3>1. z # Subject /\ state[z] = "new"
      BY <1>3, <1>s, <2>1
    <3>2. PICK i \in DOMAIN queue : queue[i].x = z
      BY <3>1 DEF IInv, NewQueued
    <3> QED BY <1>1, <1>6, <3>1, <3>2
  <2> QED BY <2>1 DEF NewQueued
<1>12. AdditionsSupported'
  <2>1. ASSUME NEW i \in DOMAIN queue', ~Removal(i)' PROVE Supported(i)'
    <3>1. i + 1 \in DOMAIN queue /\ ~Removal(i + 1) /\ i \in Nat
      BY <1>1, <2>1 DEF Removal
    <3>2. PICK y \in Listed : state[y] = "running" \/ \E j \in DOMAIN queue : i + 1 < j /\ queue[j].x = y
      BY <3>1 DEF IInv, AdditionsSupported, Supported
    <3>3. y \in Listed' /\ y # Subject /\ state'[y] = state[y]
      BY <1>2, <1>3, <1>4, <3>2
    <3>4. ASSUME NEW j \in DOMAIN queue, i + 1 < j, queue[j].x = y
          PROVE \E n \in DOMAIN queue' : i < n /\ queue'[n].x = y
      <4>1. j \in Nat /\ j # 1 /\ i < j - 1
        BY <1>1, <3>1, <3>4
      <4> QED BY <1>6, <3>4, <4>1
    <3> QED BY <3>2, <3>3, <3>4 DEF Supported
  <2> QED BY <2>1 DEF AdditionsSupported
<1> QED BY <1>7, <1>8, <1>9, <1>10, <1>11, <1>12 DEF QueueInv

\* Joining a thread takes its removal from the queue and the thread from its
\* list.  The removal was the first entry, so no addition in the queue relied on
\* this thread to end later.
LEMMA RemoveKeeps ==
  ASSUME IInv, HandleRemove
  PROVE  QueueInv'
<1>0. queue \in Seq(Entries)
  BY DEF IInv, TypeOK, Entries
<1>1. /\ Len(queue) \in Nat \ {0} /\ DOMAIN queue = 1..Len(queue) /\ 1 \in DOMAIN queue
      /\ DOMAIN queue' = 1..Len(queue) - 1
      /\ \A i \in DOMAIN queue' : i \in Nat /\ i + 1 \in DOMAIN queue /\ queue'[i] = queue[i + 1]
      /\ queue[1].x = Subject
  BY <1>0, TailFacts DEF HandleRemove, Next1, Subject
<1>2. Subject \in Threads /\ state[Subject] = "ended"
  BY RemovalFacts DEF HandleRemove
<1>3. state' = state /\ Listed' = Listed \ {Subject}
  BY DEF HandleRemove, WithoutReader, WithoutTerm, WithoutTask, Listed
<1>4. \A i \in DOMAIN queue : i # 1 => queue[i].x # Subject
  BY <1>1 DEF IInv, QueuedOnce
<1>5. \A i \in DOMAIN queue : i = 1 \/ (i - 1 \in DOMAIN queue' /\ queue'[i - 1] = queue[i])
  BY <1>1
<1>6. RunningIsListed'
  <2>1. ASSUME NEW z \in Threads, state'[z] = "running" PROVE z \in Listed'
    BY <1>2, <1>3, <2>1 DEF IInv, RunningIsListed, Listed
  <2> QED BY <2>1 DEF RunningIsListed, Listed
<1>7. ListedState'
  BY <1>3 DEF IInv, ListedState
<1>8. QueuedOnce'
  <2>1. ASSUME NEW i \in DOMAIN queue', NEW j \in DOMAIN queue', queue'[i].x = queue'[j].x PROVE i = j
    BY <1>1, <2>1 DEF IInv, QueuedOnce
  <2> QED BY <2>1 DEF QueuedOnce
<1>9. QueuedState'
  <2>1. ASSUME NEW i \in DOMAIN queue'
        PROVE  /\ queue'[i] = queue[i + 1] /\ i + 1 \in DOMAIN queue
               /\ Removal(i)' <=> Removal(i + 1)
               /\ queue[i + 1].x \in Listed => queue'[i].x \in Listed'
    BY <1>1, <1>3, <1>4 DEF Removal
  <2>2. ASSUME NEW i \in DOMAIN queue'
        PROVE  \/ Removal(i)' /\ state'[queue'[i].x] = "ended" /\ queue'[i].x \in Listed'
               \/ state'[queue'[i].x] = "new" /\ Kind(queue'[i])
    BY <1>3, <2>1 DEF IInv, QueuedState, Kind
  <2> QED BY <2>2 DEF QueuedState, Kind
<1>10. NewQueued'
  <2>1. ASSUME NEW z \in Threads, state'[z] = "new" PROVE \E i \in DOMAIN queue' : queue'[i].x = z
    <3>1. z # Subject /\ state[z] = "new"
      BY <1>2, <1>3, <2>1
    <3>2. PICK i \in DOMAIN queue : queue[i].x = z
      BY <3>1 DEF IInv, NewQueued
    <3> QED BY <1>1, <1>5, <3>1, <3>2
  <2> QED BY <2>1 DEF NewQueued
<1>11. AdditionsSupported'
  <2>1. ASSUME NEW i \in DOMAIN queue', ~Removal(i)' PROVE Supported(i)'
    <3>1. i + 1 \in DOMAIN queue /\ ~Removal(i + 1) /\ i \in Nat
      BY <1>1, <2>1 DEF Removal
    <3>2. PICK y \in Listed : state[y] = "running" \/ \E j \in DOMAIN queue : i + 1 < j /\ queue[j].x = y
      BY <3>1 DEF IInv, AdditionsSupported, Supported
    <3>3. CASE state[y] = "running"
      <4>1. y \in Listed' /\ state'[y] = "running"
        BY <1>2, <1>3, <3>2, <3>3
      <4> QED BY <4>1 DEF Supported
    <3>4. ASSUME NEW j \in DOMAIN queue, i + 1 < j, queue[j].x = y PROVE Supported(i)'
      <4>1. j \in Nat /\ j # 1 /\ i < j - 1
        BY <1>1, <3>1, <3>4
      <4>2. j - 1 \in DOMAIN queue' /\ queue'[j - 1].x = y
        BY <1>5, <3>4, <4>1
      <4>3. y \in Listed'
        BY <1>3, <1>4, <3>2, <3>4, <4>1
      <4> QED BY <4>1, <4>2, <4>3 DEF Supported
    <3> QED BY <3>2, <3>3, <3>4
  <2> QED BY <2>1 DEF AdditionsSupported
<1> QED BY <1>6, <1>7, <1>8, <1>9, <1>10, <1>11 DEF QueueInv

\* A thread that is not in the queue changes state without disturbing it: a
\* client knocks, or is accepted and listed at once.
LEMMA KnockKeeps ==
  ASSUME IInv, NEW r \in Readers, queue' = queue,
         \/ state[r] = "none" /\ state' = [state EXCEPT ![r] = "knocking"] /\ Listed' = Listed
         \/ state[r] = "knocking" /\ state' = [state EXCEPT ![r] = "running"] /\ Listed' = Listed \cup {r}
  PROVE  QueueInv'
<1>0. queue \in Seq(Entries) /\ state \in [Threads -> {"none", "knocking", "new", "running", "ended"}]
  BY DEF IInv, TypeOK, Entries
<1>1. r \in Threads /\ r \notin Listed
  BY DEF IInv, ListedState, Threads
<1>2. \A z \in Threads : z # r => state'[z] = state[z]
  BY <1>0
<1>3. Listed \subseteq Listed' /\ Listed' \subseteq Listed \cup {r} /\ Listed \subseteq Threads
  BY DEF IInv, TypeOK, Listed, Threads
<1>4. \/ state'[r] = "knocking" /\ Listed' = Listed
      \/ state'[r] = "running" /\ Listed' = Listed \cup {r}
  BY <1>0, <1>1
<1>5. \A i \in DOMAIN queue : queue[i].x \in Threads /\ queue[i].x # r
  <2>1. \A i \in DOMAIN queue : queue[i] \in Entries
    BY <1>0
  <2> QED BY <2>1 DEF IInv, QueuedState, Entries
<1>6. RunningIsListed'
  <2>1. ASSUME NEW z \in Threads, state'[z] = "running" PROVE z \in Listed'
    BY <1>2, <1>3, <1>4, <2>1 DEF IInv, RunningIsListed, Listed
  <2> QED BY <2>1 DEF RunningIsListed, Listed
<1>7. ListedState'
  BY <1>1, <1>2, <1>3, <1>4 DEF IInv, ListedState
<1>8. QueuedOnce' /\ NewQueued'
  BY <1>2, <1>4 DEF IInv, QueuedOnce, NewQueued
<1>9. QueuedState'
  BY <1>2, <1>3, <1>5 DEF IInv, QueuedState, Removal
<1>10. AdditionsSupported'
  <2>1. \A y \in Listed : y \in Listed' /\ state'[y] = state[y]
    BY <1>1, <1>2, <1>3
  <2> QED BY <2>1 DEF IInv, AdditionsSupported, Supported, Removal
<1> QED BY <1>6, <1>7, <1>8, <1>9, <1>10 DEF QueueInv

\* Nothing the queue invariants look at has changed.
LEMMA StutterKeeps ==
  ASSUME IInv, queue' = queue, state' = state, Listed' = Listed
  PROVE  QueueInv'
BY DEF QueueInv, IInv, RunningIsListed, QueuedOnce, QueuedState, NewQueued, ListedState, AdditionsSupported,
       Supported, Removal, Listed

\* Every step keeps the queue in order.
LEMMA StepQueue == IInv /\ [Next]_vars => QueueInv'
<1> SUFFICES ASSUME IInv, [Next]_vars PROVE QueueInv'
  OBVIOUS
<1> USE DEF lists, Listed
<1>1. CASE Start \/ Poll \/ Woken \/ WorkDone \/ FdsDone \/ Signal \/ Interrupt \/ UNCHANGED vars
  BY <1>1, StutterKeeps DEF Start, Poll, Woken, WorkDone, FdsDone, Signal, Interrupt, vars
<1>2. CASE HandleAddTerm
  <2>1. queue # <<>> /\ Head(queue).op \in {"AddReader", "AddTerm", "AddTask"} /\ Next1
    BY <1>2 DEF HandleAddTerm, Item
  <2>2. \/ state' = [state EXCEPT ![Subject] = "running"] /\ Listed' = Listed \cup {Subject}
        \/ state' = [state EXCEPT ![Subject] = "ended"] /\ Listed' = Listed
    BY <1>2 DEF HandleAddTerm, Refuse, Started
  <2> QED BY <2>1, <2>2, TakeAdditionKeeps
<1>3. CASE HandleAddReader
  <2>1. queue # <<>> /\ Head(queue).op \in {"AddReader", "AddTerm", "AddTask"} /\ Next1
    BY <1>3 DEF HandleAddReader, Item
  <2>2. state' = [state EXCEPT ![Subject] = "running"] /\ Listed' = Listed \cup {Subject}
    BY <1>3 DEF HandleAddReader, AddReader, Started
  <2> QED BY <2>1, <2>2, TakeAdditionKeeps
<1>4. CASE HandleAddTask
  <2>1. queue # <<>> /\ Head(queue).op \in {"AddReader", "AddTerm", "AddTask"} /\ Next1
    BY <1>4 DEF HandleAddTask, Item
  <2>2. \/ state' = [state EXCEPT ![Subject] = "running"] /\ Listed' = Listed \cup {Subject}
        \/ state' = [state EXCEPT ![Subject] = "ended"] /\ Listed' = Listed
    BY <1>4 DEF HandleAddTask, Refuse, Started
  <2> QED BY <2>1, <2>2, TakeAdditionKeeps
<1>5. CASE HandleRemove
  BY <1>5, RemoveKeeps
<1>6. ASSUME NEW r \in Readers, Accept(r) \/ Knock(r) PROVE QueueInv'
  <2>1. queue' = queue
    BY <1>6 DEF Accept, Knock
  <2>2. \/ state[r] = "none" /\ state' = [state EXCEPT ![r] = "knocking"] /\ Listed' = Listed
        \/ state[r] = "knocking" /\ state' = [state EXCEPT ![r] = "running"] /\ Listed' = Listed \cup {r}
    BY <1>6 DEF Accept, Knock, Waiting, AddReader, Started, Unused
  <2> QED BY <2>1, <2>2, KnockKeeps
<1>7. ASSUME NEW r \in Readers, NEW t \in Terms, CreateTerm(r, t) PROVE QueueInv'
  <2> DEFINE e == [op |-> "AddTerm", x |-> t]
  <2>1. e \in Entries /\ Kind(e) /\ e.x = t /\ r \in Threads
    BY DEF Entries, Ops, Kind, Threads
  <2>2. state[t] = "none" /\ state[r] = "running" /\ queue' = Append(queue, e) /\ Listed' = Listed
    BY <1>7 DEF CreateTerm, Post, Unused
  <2>3. state' = [state EXCEPT ![t] = "new"]
    BY <1>7 DEF CreateTerm
  <2> HIDE DEF e
  <2> QED BY <2>1, <2>2, <2>3, PostAdditionKeeps
<1>8. ASSUME NEW r \in Readers, NEW k \in Tasks, CreateTask(r, k) PROVE QueueInv'
  <2> DEFINE e == [op |-> "AddTask", x |-> k]
  <2>1. e \in Entries /\ Kind(e) /\ e.x = k /\ r \in Threads
    BY DEF Entries, Ops, Kind, Threads
  <2>2. state[k] = "none" /\ state[r] = "running" /\ queue' = Append(queue, e) /\ Listed' = Listed
    BY <1>8 DEF CreateTask, Post, Unused
  <2>3. state' = [state EXCEPT ![k] = "new"]
    BY <1>8 DEF CreateTask
  <2> HIDE DEF e
  <2> QED BY <2>1, <2>2, <2>3, PostAdditionKeeps
<1>9. ASSUME NEW r \in Readers, NEW k \in Tasks, TaskConnects(k, r) PROVE QueueInv'
  <2> DEFINE e == [op |-> "AddReader", x |-> r]
  <2>1. e \in Entries /\ Kind(e) /\ e.x = r /\ k \in Threads
    BY DEF Entries, Ops, Kind, Threads
  <2>2. state[r] = "none" /\ state[k] = "running" /\ queue' = Append(queue, e) /\ Listed' = Listed
    BY <1>9 DEF TaskConnects, Post, Unused
  <2>3. state' = [state EXCEPT ![r] = "new"]
    BY <1>9 DEF TaskConnects
  <2> HIDE DEF e
  <2> QED BY <2>1, <2>2, <2>3, PostAdditionKeeps
<1>10. ASSUME NEW x \in Threads, End(x) PROVE QueueInv'
  BY <1>10, PostRemovalKeeps
<1> QED BY <1>1, <1>2, <1>3, <1>4, <1>5, <1>6, <1>7, <1>8, <1>9, <1>10 DEF Next, ListenerStep

-----------------------------------------------------------------------------
\* The inductive invariant holds in every reachable state.
THEOREM Invariance == Spec => []IInv
<1>1. IInv /\ [Next]_vars => IInv'
  BY StepTypeOK, StepTwins, StepClosed, StepQueue DEF IInv, QueueInv
<1> QED BY InitIInv, <1>1, PTL DEF Spec

\* Type correctness of the listener.
THEOREM TypeCorrect == Spec => []TypeOK
<1>1. IInv => TypeOK
  BY DEF IInv
<1> QED BY <1>1, Invariance, PTL

\* A thread that runs is on the listener's lists: none runs that a shutdown
\* would not tell to stop or would not wait for.
THEOREM RunningListed == Spec => []RunningIsListed
<1>1. IInv => RunningIsListed
  BY DEF IInv
<1> QED BY <1>1, Invariance, PTL

\* No two terminals and no two tasks run under one id, and no two tasks on one
\* target, whatever ids the clients choose.
THEOREM NoTwinsRun == Spec => []NoTwins
<1>1. IInv => NoTwins
  BY DEF IInv
<1> QED BY <1>1, Invariance, PTL

\* When checkCloseConditions ends a shutdown, no thread is running and none
\* waits in the queue to be added.
THEOREM NobodyIsLeft == Spec => []NobodyLeftBehind
<1>1. IInv => NobodyLeftBehind
  <2> SUFFICES ASSUME IInv, pc = "exit", interrupted, NEW x \in Threads
               PROVE state[x] \in {"none", "knocking", "ended"}
    BY DEF NobodyLeftBehind
  <2>1. Listed = {}
    BY DEF IInv, ClosedInv
  <2>2. state[x] # "running"
    BY <2>1 DEF IInv, RunningIsListed, Listed
  <2>3. ASSUME state[x] = "new" PROVE FALSE
    <3>1. PICK i \in DOMAIN queue : queue[i].x = x
      BY <2>3 DEF IInv, NewQueued
    <3>2. queue[i].op \in {"AddReader", "AddTerm", "AddTask"}
      BY <2>3, <3>1 DEF IInv, QueuedState
    <3>3. ~Removal(i)
      BY <3>1, <3>2, RemoveOpFacts DEF Removal
    <3>4. Supported(i)
      BY <3>3 DEF IInv, AdditionsSupported
    <3> QED BY <2>1, <3>4 DEF Supported
  <2> QED BY <2>2, <2>3 DEF IInv, TypeOK
<1> QED BY <1>1, Invariance, PTL
-----------------------------------------------------------------------------
(* Ownership: the other half of the listener.                                *)

\* The places of a sequence with e put in at i, or with i taken out.
InsertedAt(s, i, e, p) ==
  \A j \in 1 .. Len(s) + 1 : p[j] = IF j < i THEN s[j] ELSE IF j = i THEN e ELSE s[j - 1]

LEMMA InsertFacts ==
  ASSUME NEW S, NEW s \in Seq(S), NEW e \in S, NEW i \in 1 .. Len(s) + 1
  PROVE  /\ Owning!InsertAt(s, i, e) \in Seq(S)
         /\ Len(Owning!InsertAt(s, i, e)) = Len(s) + 1
         /\ InsertedAt(s, i, e, Owning!InsertAt(s, i, e))
<1> DEFINE a == SubSeq(s, 1, i - 1)
           c == SubSeq(s, i, Len(s))
           p == a \o <<e>> \o c
<1>1. Len(s) \in Nat /\ i \in Nat /\ \A j \in 1 .. Len(s) : s[j] \in S
  OBVIOUS
<1>2. a \in Seq(S) /\ Len(a) = i - 1 /\ \A j \in 1 .. i - 1 : a[j] = s[j]
  BY <1>1, SubSeqProperties
<1>3. c \in Seq(S) /\ Len(c) = Len(s) + 1 - i /\ \A j \in 1 .. Len(s) + 1 - i : c[j] = s[i + j - 1]
  BY <1>1, SubSeqProperties
<1> HIDE DEF a, c
<1>4. <<e>> \in Seq(S) /\ Len(<<e>>) = 1 /\ <<e>>[1] = e
  OBVIOUS
<1>5. p \in Seq(S) /\ Len(p) = Len(s) + 1
  BY <1>1, <1>2, <1>3, <1>4
<1>6. ASSUME NEW j \in 1 .. Len(s) + 1
      PROVE  p[j] = IF j < i THEN s[j] ELSE IF j = i THEN e ELSE s[j - 1]
  <2>1. CASE j < i
    BY <1>1, <1>2, <1>3, <1>4, <2>1
  <2>2. CASE j = i
    BY <1>1, <1>2, <1>3, <1>4, <2>2
  <2>3. CASE j > i
    <3>1. j - i \in 1 .. Len(s) + 1 - i /\ i + (j - i) - 1 = j - 1
      BY <1>1, <2>3
    <3>2. (a \o <<e>>) \in Seq(S) /\ Len(a \o <<e>>) = i /\ j \in Nat /\ j <= i + Len(c)
      BY <1>1, <1>2, <1>3, <1>4
    <3> DEFINE d == a \o <<e>>
    <3> HIDE DEF d
    <3>3. (d \o c)[j] = c[j - i]
      BY <1>1, <1>3, <2>3, <3>2 DEF d
    <3>4. c[j - i] = s[j - 1] /\ ~(j < i) /\ j # i
      BY <1>1, <1>3, <2>3, <3>1
    <3> QED BY <3>3, <3>4 DEF d
  <2>4. j < i \/ j = i \/ j > i
    BY <1>1
  <2> QED BY <2>1, <2>2, <2>3, <2>4
<1> QED BY <1>5, <1>6 DEF Owning!InsertAt, InsertedAt, a, c

LEMMA RemoveFacts ==
  ASSUME NEW S, NEW s \in Seq(S), NEW i \in 1 .. Len(s)
  PROVE  /\ Owning!RemoveAt(s, i) \in Seq(S)
         /\ Len(Owning!RemoveAt(s, i)) = Len(s) - 1
         /\ \A j \in 1 .. Len(s) - 1 :
              Owning!RemoveAt(s, i)[j] = IF j < i THEN s[j] ELSE s[j + 1]
<1> DEFINE a == SubSeq(s, 1, i - 1)
           c == SubSeq(s, i + 1, Len(s))
           p == a \o c
<1>1. Len(s) \in Nat /\ i \in Nat /\ \A j \in 1 .. Len(s) : s[j] \in S
  OBVIOUS
<1>2. a \in Seq(S) /\ Len(a) = i - 1 /\ \A j \in 1 .. i - 1 : a[j] = s[j]
  BY <1>1, SubSeqProperties
<1>3. c \in Seq(S) /\ Len(c) = Len(s) - i /\ \A j \in 1 .. Len(s) - i : c[j] = s[i + j]
  BY <1>1, SubSeqProperties
<1> HIDE DEF a, c
<1>4. p \in Seq(S) /\ Len(p) = Len(s) - 1
  <2>1. a \in Seq(S) /\ c \in Seq(S)
    BY <1>2, <1>3
  <2>2. p \in Seq(S) /\ Len(p) = Len(a) + Len(c)
    BY <2>1
  <2> QED BY <1>1, <1>2, <1>3, <2>2
<1>5. ASSUME NEW j \in 1 .. Len(s) - 1
      PROVE  p[j] = IF j < i THEN s[j] ELSE s[j + 1]
  <2>1. CASE j < i
    BY <1>1, <1>2, <1>3, <2>1
  <2>2. CASE j >= i
    <3>1. j - i + 1 \in 1 .. Len(s) - i /\ i + (j - i + 1) = j + 1
      BY <1>1, <2>2
    <3>2. p[j] = c[j - i + 1]
      BY <1>1, <1>2, <1>3, <2>2
    <3>3. c[j - i + 1] = s[j + 1] /\ ~(j < i)
      BY <1>1, <1>3, <2>2, <3>1
    <3> QED BY <3>2, <3>3
  <2>3. j < i \/ j >= i
    BY <1>1
  <2> QED BY <2>1, <2>2, <2>3
<1> QED BY <1>4, <1>5 DEF Owning!RemoveAt, a, c

\* A set of naturals that is not empty has a least member.
LEMMA MinFacts ==
  ASSUME NEW S \in SUBSET Nat, S # {}
  PROVE  Owning!Min(S) \in S
<1>1. PICK x \in S : \A y \in S : ~ (<<y, x>> \in OpToRel(<, Nat))
  BY WFMin, NatLessThanWellFounded
<1>2. \A y \in S : ~(y < x)
  BY <1>1 DEF OpToRel
<1>3. \A y \in S : x <= y
  BY <1>2
<1> QED BY <1>3 DEF Owning!Min

\* A new client is put into m_clientOrder, and comes there once.
LEMMA InsertedFacts ==
  ASSUME order \in Seq(Clients), Owning!IsInjective(order), NEW x \in Clients, x \notin Owning!Registered
  PROVE  /\ Owning!Inserted(x) \in Seq(Clients) /\ Owning!IsInjective(Owning!Inserted(x))
         /\ Owning!ToSet(Owning!Inserted(x)) = Owning!Registered \cup {x}
<1> DEFINE farther == {i \in DOMAIN order : Distance[order[i]] > Distance[x]}
           at == Owning!Min(farther \cup {Len(order) + 1})
           s == Owning!Inserted(x)
<1>1. Len(order) \in Nat /\ DOMAIN order = 1 .. Len(order)
  OBVIOUS
<1>2. at \in 1 .. Len(order) + 1
  <2>1. (farther \cup {Len(order) + 1}) \in SUBSET Nat /\ farther \subseteq 1 .. Len(order)
    BY <1>1
  <2> HIDE DEF farther
  <2>2. at \in farther \cup {Len(order) + 1}
    BY <2>1, MinFacts
  <2> QED BY <1>1, <2>1, <2>2
<1>3. s = Owning!InsertAt(order, at, x)
  BY DEF Owning!Inserted
<1> HIDE DEF at, s
<1>4. /\ s \in Seq(Clients) /\ Len(s) = Len(order) + 1 /\ DOMAIN s = 1 .. Len(order) + 1
      /\ \A j \in 1 .. Len(order) + 1 :
           s[j] = IF j < at THEN order[j] ELSE IF j = at THEN x ELSE order[j - 1]
  <2>1. s \in Seq(Clients) /\ Len(s) = Len(order) + 1
    BY <1>2, <1>3, InsertFacts
  <2>2. InsertedAt(order, at, x, s)
    BY <1>2, <1>3, InsertFacts
  <2>3. DOMAIN s = 1 .. Len(s)
    BY <2>1
  <2> QED BY <2>1, <2>2, <2>3 DEF InsertedAt
<1>5. \A j \in DOMAIN order : order[j] # x
  BY DEF Owning!Registered, Owning!ToSet
<1>6. Owning!ToSet(s) = Owning!Registered \cup {x}
  <2>1. ASSUME NEW j \in DOMAIN s PROVE s[j] \in Owning!Registered \cup {x}
    <3>1. j < at => j \in DOMAIN order
      BY <1>1, <1>2, <1>4
    <3>2. j > at => j - 1 \in DOMAIN order
      BY <1>1, <1>2, <1>4
    <3> QED BY <1>1, <1>2, <1>4, <3>1, <3>2 DEF Owning!Registered, Owning!ToSet
  <2>2. ASSUME NEW j \in DOMAIN order PROVE order[j] \in Owning!ToSet(s)
    <3>1. CASE j < at
      <4>1. j \in DOMAIN s /\ s[j] = order[j]
        BY <1>1, <1>4, <3>1
      <4> QED BY <4>1 DEF Owning!ToSet
    <3>2. CASE j >= at
      <4>1. j + 1 \in DOMAIN s /\ s[j + 1] = order[j]
        BY <1>1, <1>2, <1>4, <3>2
      <4> QED BY <4>1 DEF Owning!ToSet
    <3> QED BY <1>1, <1>2, <3>1, <3>2
  <2>3. x \in Owning!ToSet(s)
    <3>1. at \in DOMAIN s /\ s[at] = x
      BY <1>2, <1>4
    <3> QED BY <3>1 DEF Owning!ToSet
  <2> QED BY <2>1, <2>2, <2>3 DEF Owning!ToSet, Owning!Registered
<1>7. ASSUME NEW j \in DOMAIN s, NEW k \in DOMAIN s, s[j] = s[k] PROVE j = k
  <2>1. \A n \in DOMAIN s : (n < at => n \in DOMAIN order) /\ (n > at => n - 1 \in DOMAIN order)
    BY <1>1, <1>2, <1>4
  <2>2. \A n \in DOMAIN s : s[n] = x <=> n = at
    BY <1>1, <1>2, <1>4, <1>5, <2>1
  <2>3. \A m, n \in DOMAIN order : order[m] = order[n] => m = n
    BY DEF Owning!IsInjective
  <2>4. \A n \in DOMAIN s : n # at => s[n] = order[IF n < at THEN n ELSE n - 1] /\ (IF n < at THEN n ELSE n - 1) \in DOMAIN order
    BY <1>2, <1>4, <2>1
  <2>5. CASE j # at /\ k # at
    <3>1. (IF j < at THEN j ELSE j - 1) = (IF k < at THEN k ELSE k - 1)
      BY <1>7, <2>3, <2>4, <2>5
    <3> QED BY <1>1, <1>2, <1>4, <2>5, <3>1
  <2> QED BY <1>7, <2>2, <2>5
<1> QED BY <1>4, <1>6, <1>7 DEF s, Owning!IsInjective

\* A client taken out of m_clientOrder is gone from it.
LEMMA RemainingFacts ==
  ASSUME order \in Seq(Clients), Owning!IsInjective(order), NEW x \in Owning!Registered
  PROVE  /\ Owning!Remaining(x) \in Seq(Clients) /\ Owning!IsInjective(Owning!Remaining(x))
         /\ Owning!ToSet(Owning!Remaining(x)) = Owning!Registered \ {x}
<1> DEFINE at == CHOOSE i \in DOMAIN order : order[i] = x
           s == Owning!Remaining(x)
<1>1. Len(order) \in Nat /\ DOMAIN order = 1 .. Len(order)
  OBVIOUS
<1>2. at \in 1 .. Len(order) /\ order[at] = x
  BY <1>1 DEF Owning!Registered, Owning!ToSet
<1>3. s = Owning!RemoveAt(order, at)
  BY DEF Owning!Remaining
<1> HIDE DEF at, s
<1>4. /\ s \in Seq(Clients) /\ Len(s) = Len(order) - 1 /\ DOMAIN s = 1 .. Len(order) - 1
      /\ \A j \in 1 .. Len(order) - 1 : s[j] = IF j < at THEN order[j] ELSE order[j + 1]
  <2>1. Len(order) - 1 \in Nat
    BY <1>1, <1>2
  <2>2. s \in Seq(Clients) /\ Len(s) = Len(order) - 1
    BY <1>2, <1>3, RemoveFacts
  <2>3. \A j \in 1 .. Len(order) - 1 : s[j] = IF j < at THEN order[j] ELSE order[j + 1]
    BY <1>2, <1>3, RemoveFacts
  <2>4. DOMAIN s = 1 .. Len(s)
    BY <2>2
  <2> QED BY <2>1, <2>2, <2>3, <2>4
<1>5. \A m, n \in DOMAIN order : order[m] = order[n] => m = n
  BY DEF Owning!IsInjective
<1>6. \A n \in DOMAIN s : /\ (IF n < at THEN n ELSE n + 1) \in DOMAIN order \ {at}
                          /\ s[n] = order[IF n < at THEN n ELSE n + 1]
  BY <1>1, <1>2, <1>4
<1>7. Owning!ToSet(s) = Owning!Registered \ {x}
  <2>1. ASSUME NEW j \in DOMAIN s PROVE s[j] \in Owning!Registered \ {x}
    BY <1>1, <1>2, <1>5, <1>6 DEF Owning!Registered, Owning!ToSet
  <2>2. ASSUME NEW j \in DOMAIN order, j # at PROVE order[j] \in Owning!ToSet(s)
    <3>1. CASE j < at
      <4>1. j \in DOMAIN s /\ s[j] = order[j]
        BY <1>1, <1>2, <1>4, <3>1
      <4> QED BY <4>1 DEF Owning!ToSet
    <3>2. CASE j > at
      <4>1. j - 1 \in DOMAIN s /\ s[j - 1] = order[j]
        BY <1>1, <1>2, <1>4, <3>2
      <4> QED BY <4>1 DEF Owning!ToSet
    <3> QED BY <1>1, <1>2, <2>2, <3>1, <3>2
  <2> QED BY <1>2, <2>1, <2>2 DEF Owning!ToSet, Owning!Registered
<1>8. ASSUME NEW j \in DOMAIN s, NEW k \in DOMAIN s, s[j] = s[k] PROVE j = k
  <2>1. (IF j < at THEN j ELSE j + 1) = (IF k < at THEN k ELSE k + 1)
    BY <1>5, <1>6, <1>8
  <2> QED BY <1>1, <1>2, <1>4, <2>1
<1> QED BY <1>4, <1>7, <1>8 DEF s, Owning!IsInjective

\* An heir takes ownership, if one of those there does.
LEMMA HeirFacts ==
  ASSUME NEW s \in Seq(Clients), Owning!ToSet(s) \cap TakeOwnership # {}
  PROVE  Owning!Heir(s) \in Owning!ToSet(s)
<1> DEFINE S == {i \in DOMAIN s : s[i] \in TakeOwnership}
<1>1. S \in SUBSET Nat /\ S # {}
  BY DEF Owning!ToSet
<1>2. Owning!Min(S) \in S
  <2> HIDE DEF S
  <2> QED BY <1>1, MinFacts
<1> QED BY <1>2 DEF Owning!Heir, Owning!ToSet

\* FiniteSets in Ownership is FiniteSets here.
LEMMA OwnCount == ASSUME NEW S PROVE Owning!Cardinality(S) = Cardinality(S)
  BY DEF Owning!Cardinality, Cardinality

\* m_ownerclients counts those that take ownership.
LEMMA CountFacts ==
  ASSUME NEW s \in Seq(Clients), NEW x
  PROVE  LET R == Owning!ToSet(s) \cap TakeOwnership
         IN /\ Cardinality(R) \in Nat /\ (Cardinality(R) = 0 <=> R = {})
            /\ x \notin R => Cardinality(R \cup {x}) = Cardinality(R) + 1
            /\ x \in R => Cardinality(R \ {x}) = Cardinality(R) - 1
<1> DEFINE D == 1 .. Len(s)
           R == Owning!ToSet(s) \cap TakeOwnership
<1>1. IsFiniteSet(D)
  BY FS_Interval
<1>2. s \in Surjection(D, Owning!ToSet(s))
  BY DEF Surjection, Owning!ToSet
<1>3. IsFiniteSet(Owning!ToSet(s))
  BY <1>1, <1>2, FS_Surjection
<1>4. IsFiniteSet(R)
  BY <1>3, FS_Subset
<1> HIDE DEF R
<1>5. Cardinality(R) \in Nat /\ (Cardinality(R) = 0 <=> R = {})
  BY <1>4, FS_CardinalityType, FS_EmptySet
<1>6. x \notin R => Cardinality(R \cup {x}) = Cardinality(R) + 1
  BY <1>4, FS_AddElement
<1>7. x \in R => Cardinality(R \ {x}) = Cardinality(R) - 1
  BY <1>4, FS_RemoveElement
<1> QED BY <1>5, <1>6, <1>7 DEF R

\* What an item of the listener's queue holds.
LEMMA ItemFacts ==
  ASSUME NEW item \in Owning!Items
  PROVE  /\ item.op = "add" => item.term \in Shells /\ item = Owning!AddTerm(item.term) /\ ~Owning!Hands(item)
         /\ Owning!Hands(item) => item.op # "add" /\ item.new \in Clients \cup {NoClient}
         /\ item.op = "add" \/ Owning!Hands(item)
  BY DEF Owning!Items, Owning!Change, Owning!Clear, Owning!AddTerm, Owning!Hands

\* An item behind the others leaves them where they are.
LEMMA Appended ==
  ASSUME NEW S, NEW q \in Seq(S), NEW e \in S
  PROVE  /\ Append(q, e) \in Seq(S) /\ Len(q) \in Nat /\ DOMAIN q = 1 .. Len(q)
         /\ DOMAIN Append(q, e) = 1 .. Len(q) + 1 /\ Append(q, e)[Len(q) + 1] = e
         /\ \A i \in 1 .. Len(q) : Append(q, e)[i] = q[i]
  OBVIOUS

LEMMA Taken ==
  ASSUME NEW S, NEW q \in Seq(S), q # <<>>
  PROVE  /\ Tail(q) \in Seq(S) /\ Len(q) \in Nat \ {0} /\ DOMAIN q = 1 .. Len(q)
         /\ Head(q) = q[1] /\ q[1] \in S /\ DOMAIN Tail(q) = 1 .. Len(q) - 1
         /\ \A i \in 1 .. Len(q) - 1 : i + 1 \in DOMAIN q /\ Tail(q)[i] = q[i + 1]
  OBVIOUS

\* An item put behind the others provides for its former owner, and takes from
\* nobody what the others provide.
LEMMA PutKeeps ==
  ASSUME Owning!TypeOK, NEW item \in Owning!Items, lq' = Append(lq, item),
         \A x \in Owning!Settled : x \in Owning!Settled' \/ (Owning!Hands(item) /\ item.old = x)
  PROVE  \A i \in 0 .. Len(lq) : Owning!Provided(i) \subseteq Owning!Provided(i)'
<1> SUFFICES ASSUME NEW i \in 0 .. Len(lq), NEW x \in Owning!Provided(i)
             PROVE  x \in Owning!Provided(i)'
  OBVIOUS
<1>1. /\ Len(lq) \in Nat /\ DOMAIN lq = 1 .. Len(lq)
      /\ DOMAIN lq' = 1 .. Len(lq) + 1 /\ lq'[Len(lq) + 1] = item
      /\ \A j \in 1 .. Len(lq) : lq'[j] = lq[j]
  BY Appended DEF Owning!TypeOK
<1>2. CASE x \in Owning!Settled
  <2>1. CASE x \in Owning!Settled'
    BY <2>1 DEF Owning!Provided
  <2>2. CASE Owning!Hands(item) /\ item.old = x
    <3>1. Len(lq) + 1 \in DOMAIN lq' /\ Len(lq) + 1 > i
      BY <1>1
    <3> QED BY <1>1, <2>2, <3>1 DEF Owning!Provided
  <2> QED BY <1>2, <2>1, <2>2
<1>3. CASE x \notin Owning!Settled
  <2>1. PICK j \in DOMAIN lq : j > i /\ Owning!Hands(lq[j]) /\ x = lq[j].old
    BY <1>3 DEF Owning!Provided
  <2>2. j \in DOMAIN lq' /\ lq'[j] = lq[j]
    BY <1>1, <2>1
  <2> QED BY <2>1, <2>2 DEF Owning!Provided
<1> QED BY <1>2, <1>3

\* The queue and who is there as they were: so are those provided.
LEMMA SameKeeps ==
  ASSUME lq' = lq, Owning!Settled' = Owning!Settled
  PROVE  \A i : Owning!Provided(i)' = Owning!Provided(i)
  BY DEF Owning!Provided

\* The first item taken: it provided for its former owner, the rest provide as
\* before.
LEMMA TakeKeeps ==
  ASSUME Owning!TypeOK, lq # <<>>, lq' = Tail(lq), Owning!Settled' = Owning!Settled
  PROVE  /\ \A i \in 0 .. Len(lq) - 1 : Owning!Provided(i + 1) \subseteq Owning!Provided(i)'
         /\ \A x \in Owning!Provided(0) :
              x \in Owning!Provided(0)' \/ (Owning!Hands(Head(lq)) /\ Head(lq).old = x)
<1>1. /\ Len(lq) \in Nat \ {0} /\ DOMAIN lq = 1 .. Len(lq)
      /\ Head(lq) = lq[1] /\ DOMAIN lq' = 1 .. Len(lq) - 1
      /\ \A i \in 1 .. Len(lq) - 1 : lq'[i] = lq[i + 1]
  BY Taken DEF Owning!TypeOK
<1>2. ASSUME NEW i \in 0 .. Len(lq) - 1, NEW x \in Owning!Provided(i + 1)
      PROVE  x \in Owning!Provided(i)'
  <2>1. CASE x \in Owning!Settled
    BY <2>1 DEF Owning!Provided
  <2>2. CASE x \notin Owning!Settled
    <3>1. PICK j \in DOMAIN lq : j > i + 1 /\ Owning!Hands(lq[j]) /\ x = lq[j].old
      BY <2>2 DEF Owning!Provided
    <3>2. j - 1 \in DOMAIN lq' /\ j - 1 > i /\ lq'[j - 1] = lq[j]
      BY <1>1, <3>1
    <3> QED BY <3>1, <3>2 DEF Owning!Provided
  <2> QED BY <2>1, <2>2
<1>3. ASSUME NEW x \in Owning!Provided(0), ~(Owning!Hands(Head(lq)) /\ Head(lq).old = x)
      PROVE  x \in Owning!Provided(0)'
  <2>1. x \in Owning!Provided(0 + 1)
    <3>1. \A j \in DOMAIN lq : j > 0 /\ Owning!Hands(lq[j]) /\ x = lq[j].old => j > 1
      BY <1>1, <1>3
    <3> QED BY <3>1 DEF Owning!Provided
  <2>2. 0 \in 0 .. Len(lq) - 1
    BY <1>1
  <2> QED BY <1>2, <2>1, <2>2
<1> QED BY <1>2, <1>3

Provisions == Owning!OwnersProvided /\ Owning!HeirsProvided /\ Owning!NewProvided

\* A change of owners is posted to one who is there, or to nobody when none takes
\* ownership: everybody stays provided for.
LEMMA HandsKeeps ==
  ASSUME Owning!TypeOK, Provisions, NEW item \in Owning!Items, lq' = Append(lq, item),
         Owning!Hands(item), item.new \in Owning!Settled', UNCHANGED <<owned, holder, stray>>,
         \A x \in Owning!Settled : x \in Owning!Settled' \/ item.old = x
  PROVE  lq' \in Seq(Owning!Items) /\ Provisions'
<1>1. /\ Len(lq) \in Nat /\ DOMAIN lq = 1 .. Len(lq) /\ lq' \in Seq(Owning!Items)
      /\ DOMAIN lq' = 1 .. Len(lq) + 1 /\ lq'[Len(lq) + 1] = item
      /\ \A j \in 1 .. Len(lq) : lq'[j] = lq[j]
  BY Appended DEF Owning!TypeOK
<1>2. \A i \in 0 .. Len(lq) : Owning!Provided(i) \subseteq Owning!Provided(i)'
  BY PutKeeps
<1>3. Owning!OwnersProvided'
  <2>1. Owning!Provided(0) \subseteq Owning!Provided(0)'
    BY <1>1, <1>2
  <2> QED BY <2>1 DEF Provisions, Owning!OwnersProvided
<1>4. Owning!HeirsProvided'
  <2> SUFFICES ASSUME NEW i \in DOMAIN lq', Owning!Hands(lq'[i])
               PROVE  lq'[i].new \in Owning!Provided(i)'
    BY DEF Owning!HeirsProvided, Owning!Hands
  <2>1. CASE i \in DOMAIN lq
    <3>1. lq'[i] = lq[i] /\ i \in 0 .. Len(lq)
      BY <1>1, <2>1
    <3> QED BY <1>2, <2>1, <3>1 DEF Provisions, Owning!HeirsProvided
  <2>2. CASE i \notin DOMAIN lq
    <3>1. lq'[i] = item
      BY <1>1, <2>2
    <3> QED BY <3>1 DEF Owning!Provided
  <2> QED BY <2>1, <2>2
<1>5. Owning!NewProvided'
  <2> SUFFICES ASSUME NEW i \in DOMAIN lq', lq'[i].op = "add"
               PROVE  /\ lq'[i].term \notin owned
                      /\ lq'[i].term \notin stray => holder[lq'[i].term] \in Owning!Provided(i)'
                      /\ \A j \in DOMAIN lq' : lq'[j] = lq'[i] => j = i
    BY DEF Owning!NewProvided
  <2>1. item.op # "add"
    BY ItemFacts
  <2>2. i \in DOMAIN lq /\ lq'[i] = lq[i] /\ i \in 0 .. Len(lq)
    BY <1>1, <2>1
  <2>3. \A j \in DOMAIN lq' : lq'[j] = lq'[i] => j \in DOMAIN lq /\ lq'[j] = lq[j]
    BY <1>1, <2>1
  <2> QED BY <1>2, <2>2, <2>3 DEF Provisions, Owning!NewProvided
<1> QED BY <1>1, <1>3, <1>4, <1>5 DEF Provisions

\* Nothing that provisions are about changes.
LEMMA StillProvided ==
  ASSUME Provisions, UNCHANGED <<lq, order, ownerclients, owned, holder, stray>>
  PROVE  Provisions' /\ Owning!Settled' = Owning!Settled /\ Owning!Registered' = Owning!Registered
<1>1. Owning!Registered' = Owning!Registered
  BY DEF Owning!Registered
<1>2. Owning!Settled' = Owning!Settled
  BY <1>1 DEF Owning!Settled
<1>3. \A i : Owning!Provided(i)' = Owning!Provided(i)
  BY <1>2, SameKeeps
<1>4. Owning!Provided(0)' = Owning!Provided(0)
  BY <1>3
<1>5. Owning!OwnersProvided'
  BY <1>4 DEF Provisions, Owning!OwnersProvided
<1>6. Owning!HeirsProvided' /\ Owning!NewProvided'
  BY <1>3 DEF Provisions, Owning!HeirsProvided, Owning!NewProvided
<1> QED BY <1>1, <1>2, <1>5, <1>6 DEF Provisions

\* registerClient keeps the registry, and gives the terminals of nobody to the
\* first client that takes ownership.
LEMMA RegisterKeeps ==
  ASSUME Owning!TypeOK, Provisions, NEW x \in Clients, x \notin Owning!Registered,
         Owning!RegisterClient(x), UNCHANGED <<owned, holder, stray>>
  PROVE  /\ order' \in Seq(Clients) /\ Owning!IsInjective(order') /\ lq' \in Seq(Owning!Items)
         /\ Owning!Registered' = Owning!Registered \cup {x}
         /\ ownerclients' = Owning!Cardinality(Owning!Registered' \cap TakeOwnership)
         /\ Provisions'
<1>1. order' \in Seq(Clients) /\ Owning!IsInjective(order') /\ Owning!Registered' = Owning!Registered \cup {x}
  <2>1. order' = Owning!Inserted(x)
    BY DEF Owning!RegisterClient
  <2> QED BY <2>1, InsertedFacts DEF Owning!TypeOK, Owning!Registered
<1> DEFINE R == Owning!Registered \cap TakeOwnership
<1>2. /\ ownerclients = Cardinality(R) /\ Cardinality(R) \in Nat
      /\ x \in TakeOwnership => Cardinality(R \cup {x}) = Cardinality(R) + 1
  <2> DEFINE Q == Owning!ToSet(order) \cap TakeOwnership
  <2>0. Owning!Registered = Owning!ToSet(order)
    BY DEF Owning!Registered
  <2>1. order \in Seq(Clients) /\ ownerclients = Cardinality(Q) /\ R = Q
    <3>1. order \in Seq(Clients) /\ ownerclients = Owning!Cardinality(Owning!Registered \cap TakeOwnership)
      BY DEF Owning!TypeOK
    <3> QED BY <2>0, <3>1, OwnCount
  <2>2. /\ Cardinality(Q) \in Nat /\ (Cardinality(Q) = 0 <=> Q = {})
        /\ x \notin Q => Cardinality(Q \cup {x}) = Cardinality(Q) + 1
        /\ x \in Q => Cardinality(Q \ {x}) = Cardinality(Q) - 1
    BY <2>1, CountFacts
  <2> HIDE DEF Q
  <2> QED BY <2>1, <2>2
<1>3. ownerclients' = Cardinality(Owning!Registered' \cap TakeOwnership)
  <2>1. CASE x \in TakeOwnership
    <3>1. Owning!Registered' \cap TakeOwnership = R \cup {x}
      BY <1>1, <2>1
    <3> QED BY <1>2, <2>1, <3>1 DEF Owning!RegisterClient
  <2>2. CASE x \notin TakeOwnership
    <3>1. Owning!Registered' \cap TakeOwnership = R
      BY <1>1, <2>2
    <3> QED BY <1>2, <2>2, <3>1 DEF Owning!RegisterClient
  <2> QED BY <2>1, <2>2
<1>4. lq' \in Seq(Owning!Items) /\ Provisions'
  <2>1. CASE x \in TakeOwnership /\ ownerclients = 0
    <3> DEFINE item == Owning!Change(NoClient, x)
    <3>1. item \in Owning!Items /\ Owning!Hands(item) /\ item.new = x /\ item.old = NoClient
      BY DEF Owning!Items, Owning!Change, Owning!Hands
    <3>2. lq' = Append(lq, item)
      BY <2>1 DEF Owning!RegisterClient
    <3>3. x \in Owning!Settled' /\ \A y \in Owning!Settled : y \in Owning!Settled' \/ y = NoClient
      BY <1>1 DEF Owning!Settled
    <3> HIDE DEF item
    <3> QED BY <3>1, <3>2, <3>3, HandsKeeps
  <2>2. CASE ~(x \in TakeOwnership /\ ownerclients = 0)
    <3>1. lq' = lq
      BY <2>2 DEF Owning!RegisterClient
    <3>2. Owning!Settled \subseteq Owning!Settled'
      BY <1>1, <1>2, <2>2 DEF Owning!Settled, Owning!RegisterClient
    <3>3. \A i : Owning!Provided(i) \subseteq Owning!Provided(i)'
      BY <3>1, <3>2 DEF Owning!Provided
    <3>4. Owning!Provided(0) \subseteq Owning!Provided(0)'
      BY <3>3
    <3>5. Owning!OwnersProvided'
      BY <3>4 DEF Provisions, Owning!OwnersProvided
    <3>6. Owning!HeirsProvided' /\ Owning!NewProvided'
      BY <3>1, <3>3 DEF Provisions, Owning!HeirsProvided, Owning!NewProvided
    <3> QED BY <3>1, <3>5, <3>6 DEF Provisions, Owning!TypeOK
  <2> QED BY <2>1, <2>2
<1> QED BY <1>1, <1>3, <1>4, OwnCount

\* unregisterClient hands the terminals of a client that goes to one that is
\* there, or to nobody when none takes ownership.
LEMMA UnregisterKeeps ==
  ASSUME Owning!TypeOK, Provisions, NEW x \in Owning!Registered,
         Owning!UnregisterClient(x), UNCHANGED <<owned, holder, stray>>
  PROVE  /\ order' \in Seq(Clients) /\ Owning!IsInjective(order') /\ lq' \in Seq(Owning!Items)
         /\ Owning!Registered' = Owning!Registered \ {x}
         /\ ownerclients' = Owning!Cardinality(Owning!Registered' \cap TakeOwnership)
         /\ Provisions'
<1>0. /\ order' = Owning!Remaining(x)
      /\ ownerclients' = IF x \in TakeOwnership THEN ownerclients - 1 ELSE ownerclients
      /\ lq' = Append(lq, IF ownerclients' > 0 THEN Owning!Change(x, Owning!Heir(order')) ELSE Owning!Clear(x))
  BY DEF Owning!UnregisterClient
<1>1. order' \in Seq(Clients) /\ Owning!IsInjective(order') /\ Owning!Registered' = Owning!Registered \ {x}
  BY <1>0, RemainingFacts DEF Owning!TypeOK, Owning!Registered
<1> DEFINE R == Owning!Registered \cap TakeOwnership
<1>2. /\ ownerclients = Cardinality(R) /\ Cardinality(R) \in Nat /\ (Cardinality(R) = 0 <=> R = {})
      /\ x \in TakeOwnership => Cardinality(R \ {x}) = Cardinality(R) - 1
  <2> DEFINE Q == Owning!ToSet(order) \cap TakeOwnership
  <2>0. Owning!Registered = Owning!ToSet(order)
    BY DEF Owning!Registered
  <2>1. order \in Seq(Clients) /\ ownerclients = Cardinality(Q) /\ R = Q
    <3>1. order \in Seq(Clients) /\ ownerclients = Owning!Cardinality(Owning!Registered \cap TakeOwnership)
      BY DEF Owning!TypeOK
    <3> QED BY <2>0, <3>1, OwnCount
  <2>2. /\ Cardinality(Q) \in Nat /\ (Cardinality(Q) = 0 <=> Q = {})
        /\ x \notin Q => Cardinality(Q \cup {x}) = Cardinality(Q) + 1
        /\ x \in Q => Cardinality(Q \ {x}) = Cardinality(Q) - 1
    BY <2>1, CountFacts
  <2> HIDE DEF Q
  <2> QED BY <2>1, <2>2
<1>3. ownerclients' = Cardinality(Owning!Registered' \cap TakeOwnership)
  <2>1. CASE x \in TakeOwnership
    <3>1. Owning!Registered' \cap TakeOwnership = R \ {x}
      BY <1>1, <2>1
    <3> QED BY <1>0, <1>2, <2>1, <3>1
  <2>2. CASE x \notin TakeOwnership
    <3>1. Owning!Registered' \cap TakeOwnership = R
      BY <1>1, <2>2
    <3> QED BY <1>0, <1>2, <2>2, <3>1
  <2> QED BY <2>1, <2>2
<1>4. ownerclients' \in Nat /\ (ownerclients' = 0 <=> Owning!ToSet(order') \cap TakeOwnership = {})
  BY <1>1, <1>3, CountFacts DEF Owning!Registered
<1>5. x \in Clients
  BY DEF Owning!TypeOK, Owning!Registered, Owning!ToSet
<1>6. ASSUME NEW item \in Owning!Items, lq' = Append(lq, item), Owning!Hands(item), item.old = x,
             item.new \in Owning!Settled'
      PROVE  lq' \in Seq(Owning!Items) /\ Provisions'
  <2>1. \A y \in Owning!Settled : y \in Owning!Settled' \/ item.old = y
    BY <1>0, <1>1, <1>2, <1>6 DEF Owning!Settled
  <2> QED BY <1>6, <2>1, HandsKeeps
<1>7. lq' \in Seq(Owning!Items) /\ Provisions'
  <2>1. CASE ownerclients' > 0
    <3> DEFINE heir == Owning!Heir(order')
    <3>1. heir \in Owning!Registered' /\ heir \in Clients
      <4>1. heir \in Owning!ToSet(order')
        BY <1>1, <1>4, <2>1, HeirFacts
      <4> QED BY <1>1, <4>1 DEF Owning!Registered, Owning!ToSet
    <3> HIDE DEF heir
    <3> DEFINE item == Owning!Change(x, heir)
    <3>2. item \in Owning!Items /\ Owning!Hands(item) /\ item.old = x /\ item.new = heir
      BY <1>5, <3>1 DEF Owning!Items, Owning!Change, Owning!Hands
    <3>3. lq' = Append(lq, item)
      BY <1>0, <2>1 DEF heir
    <3>4. item.new \in Owning!Settled'
      BY <3>1, <3>2 DEF Owning!Settled
    <3> HIDE DEF item
    <3> QED BY <1>6, <3>2, <3>3, <3>4
  <2>2. CASE ~(ownerclients' > 0)
    <3> DEFINE item == Owning!Clear(x)
    <3>1. item \in Owning!Items /\ Owning!Hands(item) /\ item.old = x /\ item.new = NoClient
      BY <1>5 DEF Owning!Items, Owning!Clear, Owning!Hands
    <3>2. lq' = Append(lq, item)
      BY <1>0, <2>2
    <3>3. item.new \in Owning!Settled'
      BY <1>4, <2>2, <3>1 DEF Owning!Settled
    <3> HIDE DEF item
    <3> QED BY <1>6, <3>1, <3>2, <3>3
  <2> QED BY <2>1, <2>2
<1> QED BY <1>1, <1>3, <1>7, OwnCount

\* It holds before any client is announced.
LEMMA OwnersInit == MaxAnnounces \in Nat /\ Owning!Init => Owning!IInv
<1> SUFFICES ASSUME MaxAnnounces \in Nat, Owning!Init PROVE Owning!IInv
  OBVIOUS
<1> USE DEF Owning!Init
<1>1. Owning!Registered = {} /\ Owning!IsInjective(order)
  BY DEF Owning!Registered, Owning!ToSet, Owning!IsInjective
<1>2. Owning!Cardinality(Owning!Registered \cap TakeOwnership) = 0
  BY <1>1, OwnCount, FS_EmptySet
<1>3. Owning!TypeOK
  BY <1>1, <1>2 DEF Owning!TypeOK
<1>4. Owning!OneRegistrar /\ Owning!OwnersProvided /\ Owning!HeirsProvided /\ Owning!NewProvided
  BY DEF Owning!OneRegistrar, Owning!OwnersProvided, Owning!HeirsProvided, Owning!NewProvided
<1> QED BY <1>3, <1>4 DEF Owning!IInv

\* commandClientAnnounce
LEMMA AnnounceKeeps ==
  ASSUME MaxAnnounces \in Nat, Owning!IInv, NEW r \in Peers, NEW x \in Clients, Owning!ClientAnnounce(r, x)
  PROVE  Owning!IInv'
<1> USE DEF Owning!IInv
<1>1. Provisions /\ UNCHANGED <<owned, holder, stray>>
  BY DEF Provisions, Owning!ClientAnnounce
<1>2. /\ known' = [known EXCEPT ![r] = @ \cup {x}] /\ x \notin known[r]
      /\ announces' = announces + 1 /\ announces' \in 0 .. MaxAnnounces
  BY DEF Owning!ClientAnnounce, Owning!TypeOK
<1>3. CASE x \in Owning!Registered
  <2>1. ignored' = [ignored EXCEPT ![r] = @ \cup {x}] /\ UNCHANGED <<order, ownerclients, lq>>
    BY <1>3 DEF Owning!ClientAnnounce
  <2>2. Provisions' /\ Owning!Registered' = Owning!Registered
    BY <1>1, <2>1, StillProvided
  <2>3. \A q \in Peers : /\ known'[q] \ ignored'[q] \subseteq known[q] \ ignored[q]
                         /\ ignored'[q] \subseteq known'[q]
    BY <1>2, <2>1 DEF Owning!TypeOK
  <2>4. Owning!TypeOK'
    BY <1>1, <1>2, <2>1, <2>2, <2>3 DEF Owning!TypeOK
  <2>5. Owning!OneRegistrar'
    BY <2>3 DEF Owning!OneRegistrar
  <2> QED BY <2>2, <2>4, <2>5 DEF Provisions
<1>4. CASE x \notin Owning!Registered
  <2>1. Owning!RegisterClient(x) /\ ignored' = ignored
    BY <1>4 DEF Owning!ClientAnnounce
  <2>2. /\ order' \in Seq(Clients) /\ Owning!IsInjective(order') /\ lq' \in Seq(Owning!Items)
        /\ Owning!Registered' = Owning!Registered \cup {x}
        /\ ownerclients' = Owning!Cardinality(Owning!Registered' \cap TakeOwnership)
        /\ Provisions'
    BY <1>1, <1>4, <2>1, RegisterKeeps
  <2>3. \A q \in Peers : /\ known'[q] \ ignored'[q] \subseteq (known[q] \ ignored[q]) \cup {x}
                         /\ q # r => known'[q] = known[q] /\ x \notin known[q] \ ignored[q]
                         /\ ignored'[q] \subseteq known'[q]
    BY <1>2, <1>4, <2>1 DEF Owning!TypeOK
  <2>4. Owning!TypeOK'
    BY <1>1, <1>2, <2>1, <2>2, <2>3 DEF Owning!TypeOK
  <2>5. Owning!OneRegistrar'
    BY <2>1, <2>3 DEF Owning!OneRegistrar
  <2> QED BY <2>2, <2>4, <2>5 DEF Provisions
<1> QED BY <1>3, <1>4

\* commandClientRemove, and a step of disconnect
LEMMA ForgetKeeps ==
  ASSUME Owning!IInv, NEW r \in Peers, NEW x \in known[r], Owning!Forget(r, x),
         UNCHANGED <<owned, holder, stray, announces>>
  PROVE  Owning!IInv'
<1> USE DEF Owning!IInv
<1>1. Provisions
  BY DEF Provisions
<1>2. known' = [known EXCEPT ![r] = @ \ {x}] /\ ignored' = [ignored EXCEPT ![r] = @ \ {x}]
  BY DEF Owning!Forget
<1>3. \A q \in Peers : /\ known'[q] \ ignored'[q] \subseteq known[q] \ ignored[q]
                       /\ ignored'[q] \subseteq known'[q]
  BY <1>2 DEF Owning!TypeOK
<1>4. Owning!OneRegistrar'
  BY <1>3 DEF Owning!OneRegistrar
<1>5. CASE x \in ignored[r]
  <2>1. UNCHANGED <<order, ownerclients, lq>>
    BY <1>5 DEF Owning!Forget
  <2>2. Provisions' /\ Owning!Registered' = Owning!Registered
    BY <1>1, <2>1, StillProvided
  <2>3. Owning!TypeOK'
    BY <1>2, <1>3, <2>1, <2>2 DEF Owning!TypeOK
  <2> QED BY <1>4, <2>2, <2>3 DEF Provisions
<1>6. CASE x \notin ignored[r]
  <2>1. x \in Owning!Registered
    BY <1>6 DEF Owning!TypeOK
  <2>2. Owning!UnregisterClient(x)
    BY <1>6 DEF Owning!Forget
  <2>3. /\ order' \in Seq(Clients) /\ Owning!IsInjective(order') /\ lq' \in Seq(Owning!Items)
        /\ Owning!Registered' = Owning!Registered \ {x}
        /\ ownerclients' = Owning!Cardinality(Owning!Registered' \cap TakeOwnership)
        /\ Provisions'
    BY <1>1, <2>1, <2>2, UnregisterKeeps
  <2>4. \A q \in Peers : x \notin known'[q] \ ignored'[q]
    BY <1>2, <1>6 DEF Owning!TypeOK, Owning!OneRegistrar
  <2>5. Owning!TypeOK'
    BY <1>2, <1>3, <2>3, <2>4 DEF Owning!TypeOK
  <2> QED BY <1>4, <2>3, <2>5 DEF Provisions
<1> QED BY <1>5, <1>6

\* A terminal that is there is given to a client.
LEMMA GiveKeeps ==
  ASSUME Owning!IInv, NEW t \in owned, NEW x \in Clients, Owning!Give(t, x),
         UNCHANGED <<known, ignored, order, ownerclients, lq, owned, announces>>
  PROVE  Owning!IInv'
<1> USE DEF Owning!IInv
<1>1. Owning!Registered' = Owning!Registered /\ Owning!Settled' = Owning!Settled
  BY DEF Owning!Registered, Owning!Settled
<1>2. \A i : Owning!Provided(i)' = Owning!Provided(i)
  BY <1>1, SameKeeps
<1>3. Owning!Provided(0)' = Owning!Provided(0) /\ Owning!Registered \subseteq Owning!Provided(0)
  BY <1>2 DEF Owning!Provided, Owning!Settled
<1>4. /\ holder' = [holder EXCEPT ![t] = x] /\ t \in Shells
      /\ stray' = IF x \in Owning!Registered THEN stray \ {t} ELSE stray \cup {t}
  BY DEF Owning!Give, Owning!TypeOK
<1>5. Owning!TypeOK' /\ Owning!OneRegistrar'
  BY <1>1, <1>4 DEF Owning!TypeOK, Owning!OneRegistrar
<1>6. Owning!OwnersProvided'
  BY <1>3, <1>4 DEF Owning!OwnersProvided, Owning!TypeOK
<1>7. Owning!HeirsProvided'
  BY <1>2 DEF Owning!HeirsProvided
<1>8. Owning!NewProvided'
  <2>1. \A i \in DOMAIN lq : lq[i].op = "add" => lq[i].term # t
    BY DEF Owning!NewProvided
  <2>2. \A i \in DOMAIN lq : lq[i].op = "add" =>
          holder'[lq[i].term] = holder[lq[i].term] /\ (lq[i].term \in stray' <=> lq[i].term \in stray)
    BY <1>4, <2>1 DEF Owning!TypeOK
  <2> QED BY <1>2, <2>1, <2>2 DEF Owning!NewProvided
<1> QED BY <1>5, <1>6, <1>7, <1>8

\* commandServerCreateTerm: a new terminal is given to a client, and waits in the
\* queue behind all changes of owners.
LEMMA CreateKeeps ==
  ASSUME Owning!IInv, NEW r \in Peers, NEW x \in Clients, NEW t \in Shells, Owning!CreateTerm(r, x, t)
  PROVE  Owning!IInv'
<1> USE DEF Owning!IInv
<1> DEFINE item == Owning!AddTerm(t)
<1>0. item \in Owning!Items /\ item.op = "add" /\ item.term = t /\ ~Owning!Hands(item)
  BY DEF Owning!Items, Owning!AddTerm, Owning!Hands
<1>1. /\ lq' = Append(lq, item)
      /\ UNCHANGED <<known, ignored, order, ownerclients, owned, announces>>
  BY DEF Owning!CreateTerm
<1>2. /\ holder' = [holder EXCEPT ![t] = x]
      /\ stray' = IF x \in Owning!Registered THEN stray \ {t} ELSE stray \cup {t}
  BY DEF Owning!Give, Owning!CreateTerm
<1>3. t \notin owned /\ \A i \in DOMAIN lq : lq[i].op = "add" => lq[i].term # t
  BY DEF Owning!CreateTerm, Owning!Created
<1> HIDE DEF item
<1>4. Owning!Registered' = Owning!Registered /\ Owning!Settled' = Owning!Settled
  BY <1>1 DEF Owning!Registered, Owning!Settled
<1>5. \A i \in 0 .. Len(lq) : Owning!Provided(i) \subseteq Owning!Provided(i)'
  BY <1>0, <1>1, <1>4, PutKeeps
<1>6. /\ Len(lq) \in Nat /\ DOMAIN lq = 1 .. Len(lq) /\ lq' \in Seq(Owning!Items)
      /\ DOMAIN lq' = 1 .. Len(lq) + 1 /\ lq'[Len(lq) + 1] = item
      /\ \A j \in 1 .. Len(lq) : lq'[j] = lq[j]
  BY <1>0, <1>1, Appended DEF Owning!TypeOK
<1>7. Owning!TypeOK' /\ Owning!OneRegistrar'
  BY <1>1, <1>2, <1>4, <1>6 DEF Owning!TypeOK, Owning!OneRegistrar
<1>8. Owning!OwnersProvided'
  <2>1. Owning!Provided(0) \subseteq Owning!Provided(0)'
    BY <1>5, <1>6
  <2> QED BY <1>1, <1>2, <1>3, <2>1 DEF Owning!OwnersProvided, Owning!TypeOK
<1>9. Owning!HeirsProvided'
  <2> SUFFICES ASSUME NEW i \in DOMAIN lq', Owning!Hands(lq'[i])
               PROVE  lq'[i].new \in Owning!Provided(i)'
    BY DEF Owning!HeirsProvided, Owning!Hands
  <2>1. i \in DOMAIN lq /\ lq'[i] = lq[i] /\ i \in 0 .. Len(lq)
    BY <1>0, <1>6
  <2> QED BY <1>5, <2>1 DEF Owning!HeirsProvided
<1>10. Owning!NewProvided'
  <2> SUFFICES ASSUME NEW i \in DOMAIN lq', lq'[i].op = "add"
               PROVE  /\ lq'[i].term \notin owned'
                      /\ lq'[i].term \notin stray' => holder'[lq'[i].term] \in Owning!Provided(i)'
                      /\ \A j \in DOMAIN lq' : lq'[j] = lq'[i] => j = i
    BY DEF Owning!NewProvided
  <2>1. CASE i \in DOMAIN lq
    <3>1. lq'[i] = lq[i] /\ i \in 0 .. Len(lq) /\ lq[i].term # t /\ lq[i] # item
      BY <1>0, <1>3, <1>6, <2>1
    <3>2. \A j \in DOMAIN lq' : lq'[j] = lq'[i] => j \in DOMAIN lq /\ lq'[j] = lq[j]
      BY <1>6, <3>1
    <3>3. lq[i].term \notin owned /\ \A j \in DOMAIN lq : lq[j] = lq[i] => j = i
      BY <2>1, <3>1 DEF Owning!NewProvided
    <3>4. lq[i].term \notin stray => holder[lq[i].term] \in Owning!Provided(i)'
      BY <1>5, <2>1, <3>1 DEF Owning!NewProvided
    <3>5. holder'[lq[i].term] = holder[lq[i].term] /\ (lq[i].term \in stray' <=> lq[i].term \in stray)
      BY <1>2, <3>1 DEF Owning!TypeOK
    <3> QED BY <1>1, <2>1, <3>1, <3>2, <3>3, <3>4, <3>5
  <2>2. CASE i \notin DOMAIN lq
    <3>1. i = Len(lq) + 1 /\ lq'[i] = item
      BY <1>6, <2>2
    <3>2. \A j \in DOMAIN lq : lq[j] # item
      BY <1>0, <1>3
    <3>3. t \notin stray' => holder'[t] \in Owning!Registered'
      BY <1>2, <1>4 DEF Owning!TypeOK
    <3>4. Owning!Registered' \subseteq Owning!Provided(i)'
      BY DEF Owning!Provided, Owning!Settled
    <3> QED BY <1>0, <1>1, <1>3, <1>6, <3>1, <3>2, <3>3, <3>4
  <2> QED BY <2>1, <2>2
<1> QED BY <1>7, <1>8, <1>9, <1>10

\* handleAddTerm
LEMMA AddKeeps == Owning!IInv /\ Owning!HandleAddTerm => Owning!IInv'
<1> SUFFICES ASSUME Owning!IInv, Owning!HandleAddTerm PROVE Owning!IInv'
  OBVIOUS
<1> USE DEF Owning!IInv
<1> DEFINE t == Head(lq).term
<1>1. /\ lq # <<>> /\ Head(lq).op = "add" /\ owned' = owned \cup {t} /\ lq' = Tail(lq)
      /\ UNCHANGED <<known, ignored, order, ownerclients, holder, stray, announces>>
  BY DEF Owning!HandleAddTerm
<1>2. Owning!Registered' = Owning!Registered /\ Owning!Settled' = Owning!Settled
  BY <1>1 DEF Owning!Registered, Owning!Settled
<1>3. /\ lq' \in Seq(Owning!Items) /\ Len(lq) \in Nat \ {0} /\ DOMAIN lq = 1 .. Len(lq)
      /\ Head(lq) = lq[1] /\ lq[1] \in Owning!Items /\ DOMAIN lq' = 1 .. Len(lq) - 1
      /\ \A i \in 1 .. Len(lq) - 1 : i + 1 \in DOMAIN lq /\ lq'[i] = lq[i + 1]
  BY <1>1, Taken DEF Owning!TypeOK
<1>4. /\ \A i \in 0 .. Len(lq) - 1 : Owning!Provided(i + 1) \subseteq Owning!Provided(i)'
      /\ \A x \in Owning!Provided(0) :
           x \in Owning!Provided(0)' \/ (Owning!Hands(Head(lq)) /\ Head(lq).old = x)
  BY <1>1, <1>2, TakeKeeps
<1>5. t \in Shells /\ lq[1] = Owning!AddTerm(t) /\ ~Owning!Hands(Head(lq))
  BY <1>1, <1>3, ItemFacts
<1>6. Owning!TypeOK' /\ Owning!OneRegistrar'
  BY <1>1, <1>2, <1>3, <1>5 DEF Owning!TypeOK, Owning!OneRegistrar
<1>7. Owning!OwnersProvided'
  <2>1. t \notin stray => holder[t] \in Owning!Provided(1)
    BY <1>1, <1>3 DEF Owning!NewProvided
  <2>2. Owning!Provided(1) \subseteq Owning!Provided(0)'
    <3>1. 0 \in 0 .. Len(lq) - 1 /\ 0 + 1 = 1
      BY <1>3
    <3>2. Owning!Provided(0 + 1) \subseteq Owning!Provided(0)'
      BY <1>4, <3>1
    <3> QED BY <3>1, <3>2
  <2> HIDE DEF t
  <2> QED BY <1>1, <1>4, <1>5, <2>1, <2>2 DEF Owning!OwnersProvided
<1>8. Owning!HeirsProvided'
  <2> SUFFICES ASSUME NEW i \in DOMAIN lq', Owning!Hands(lq'[i])
               PROVE  lq'[i].new \in Owning!Provided(i)'
    BY DEF Owning!HeirsProvided, Owning!Hands
  <2>1. i + 1 \in DOMAIN lq /\ lq'[i] = lq[i + 1] /\ i \in 0 .. Len(lq) - 1
    BY <1>3
  <2> QED BY <1>4, <2>1 DEF Owning!HeirsProvided
<1>9. Owning!NewProvided'
  <2> SUFFICES ASSUME NEW i \in DOMAIN lq', lq'[i].op = "add"
               PROVE  /\ lq'[i].term \notin owned'
                      /\ lq'[i].term \notin stray' => holder'[lq'[i].term] \in Owning!Provided(i)'
                      /\ \A j \in DOMAIN lq' : lq'[j] = lq'[i] => j = i
    BY DEF Owning!NewProvided
  <2>1. i + 1 \in DOMAIN lq /\ lq'[i] = lq[i + 1] /\ i \in 0 .. Len(lq) - 1 /\ i + 1 # 1
    BY <1>3
  <2>2. lq[i + 1] # lq[1] /\ 1 \in DOMAIN lq
    BY <1>1, <1>3, <2>1 DEF Owning!NewProvided
  <2>3. lq[i + 1].term # t
    <3>1. lq[i + 1] = Owning!AddTerm(lq[i + 1].term)
      BY <2>1, ItemFacts DEF Owning!TypeOK
    <3> QED BY <1>5, <2>2, <3>1
  <2>4. \A j \in DOMAIN lq' : lq'[j] = lq'[i] => j = i
    <3> SUFFICES ASSUME NEW j \in DOMAIN lq', lq'[j] = lq'[i] PROVE j = i
      OBVIOUS
    <3>1. j + 1 \in DOMAIN lq /\ lq'[j] = lq[j + 1]
      BY <1>3
    <3>2. j + 1 = i + 1
      BY <2>1, <3>1 DEF Owning!NewProvided
    <3> QED BY <1>3, <3>2
  <2>5. lq[i + 1].term \notin owned /\ (lq[i + 1].term \notin stray => holder[lq[i + 1].term] \in Owning!Provided(i)')
    BY <1>4, <2>1 DEF Owning!NewProvided
  <2> HIDE DEF t
  <2> QED BY <1>1, <2>1, <2>3, <2>4, <2>5
<1> QED BY <1>6, <1>7, <1>8, <1>9

\* handleChangeOwnership, handleClearOwnership
LEMMA OwnershipKeeps == Owning!IInv /\ Owning!HandleOwnership => Owning!IInv'
<1> SUFFICES ASSUME Owning!IInv, Owning!HandleOwnership PROVE Owning!IInv'
  OBVIOUS
<1> USE DEF Owning!IInv
<1> DEFINE item == Head(lq)
<1>1. /\ lq # <<>> /\ Owning!Hands(item) /\ lq' = Tail(lq)
      /\ holder' = [t \in Shells |-> IF t \in Owning!Owned(item.old) THEN item.new ELSE holder[t]]
      /\ stray' = stray \ Owning!Owned(item.old)
      /\ UNCHANGED <<known, ignored, order, ownerclients, owned, announces>>
  BY DEF Owning!HandleOwnership, Owning!Hands
<1>2. Owning!Registered' = Owning!Registered /\ Owning!Settled' = Owning!Settled
  BY <1>1 DEF Owning!Registered, Owning!Settled
<1>3. /\ lq' \in Seq(Owning!Items) /\ Len(lq) \in Nat \ {0} /\ DOMAIN lq = 1 .. Len(lq)
      /\ item = lq[1] /\ item \in Owning!Items /\ DOMAIN lq' = 1 .. Len(lq) - 1
      /\ \A i \in 1 .. Len(lq) - 1 : i + 1 \in DOMAIN lq /\ lq'[i] = lq[i + 1]
  BY <1>1, Taken DEF Owning!TypeOK
<1>4. /\ \A i \in 0 .. Len(lq) - 1 : Owning!Provided(i + 1) \subseteq Owning!Provided(i)'
      /\ \A x \in Owning!Provided(0) : x \in Owning!Provided(0)' \/ item.old = x
  BY <1>1, <1>2, TakeKeeps
<1>5. item.new \in Clients \cup {NoClient}
  BY <1>1, <1>3, ItemFacts
<1> HIDE DEF item
<1>6. Owning!TypeOK' /\ Owning!OneRegistrar'
  <2>1. holder' \in [Shells -> Clients \cup {NoClient}]
    BY <1>1, <1>5 DEF Owning!TypeOK
  <2> QED BY <1>1, <1>2, <1>3, <2>1 DEF Owning!TypeOK, Owning!OneRegistrar
<1>7. Owning!OwnersProvided'
  <2>1. item.new \in Owning!Provided(0)'
    <3>1. item.new \in Owning!Provided(1) /\ 0 \in 0 .. Len(lq) - 1 /\ 0 + 1 = 1
      BY <1>1, <1>3 DEF Owning!HeirsProvided
    <3>2. Owning!Provided(0 + 1) \subseteq Owning!Provided(0)'
      BY <1>4, <3>1
    <3> QED BY <3>1, <3>2
  <2> SUFFICES ASSUME NEW t \in owned, t \notin stray'
               PROVE  holder'[t] \in Owning!Provided(0)'
    BY <1>1 DEF Owning!OwnersProvided
  <2>2. t \in Shells /\ holder'[t] = IF holder[t] = item.old THEN item.new ELSE holder[t]
    BY <1>1 DEF Owning!Owned, Owning!TypeOK
  <2>3. CASE holder[t] = item.old
    BY <2>1, <2>2, <2>3
  <2>4. CASE holder[t] # item.old
    <3>1. t \notin stray
      BY <1>1, <2>4 DEF Owning!Owned
    <3> QED BY <1>4, <2>2, <2>4, <3>1 DEF Owning!OwnersProvided
  <2> QED BY <2>3, <2>4
<1>8. Owning!HeirsProvided'
  <2> SUFFICES ASSUME NEW i \in DOMAIN lq', Owning!Hands(lq'[i])
               PROVE  lq'[i].new \in Owning!Provided(i)'
    BY DEF Owning!HeirsProvided, Owning!Hands
  <2>1. i + 1 \in DOMAIN lq /\ lq'[i] = lq[i + 1] /\ i \in 0 .. Len(lq) - 1
    BY <1>3
  <2> QED BY <1>4, <2>1 DEF Owning!HeirsProvided
<1>9. Owning!NewProvided'
  <2> SUFFICES ASSUME NEW i \in DOMAIN lq', lq'[i].op = "add"
               PROVE  /\ lq'[i].term \notin owned'
                      /\ lq'[i].term \notin stray' => holder'[lq'[i].term] \in Owning!Provided(i)'
                      /\ \A j \in DOMAIN lq' : lq'[j] = lq'[i] => j = i
    BY DEF Owning!NewProvided
  <2>1. i + 1 \in DOMAIN lq /\ lq'[i] = lq[i + 1] /\ i \in 0 .. Len(lq) - 1
    BY <1>3
  <2>2. \A j \in DOMAIN lq' : lq'[j] = lq'[i] => j = i
    <3> SUFFICES ASSUME NEW j \in DOMAIN lq', lq'[j] = lq'[i] PROVE j = i
      OBVIOUS
    <3>1. j + 1 \in DOMAIN lq /\ lq'[j] = lq[j + 1]
      BY <1>3
    <3>2. j + 1 = i + 1
      BY <2>1, <3>1 DEF Owning!NewProvided
    <3> QED BY <1>3, <3>2
  <2>3. lq[i + 1].term \notin owned /\ (lq[i + 1].term \notin stray => holder[lq[i + 1].term] \in Owning!Provided(i)')
    BY <1>4, <2>1 DEF Owning!NewProvided
  <2>4. lq[i + 1].term \in Shells
    BY <2>1, ItemFacts DEF Owning!TypeOK
  <2>5. holder'[lq[i + 1].term] = holder[lq[i + 1].term] /\ (lq[i + 1].term \in stray' <=> lq[i + 1].term \in stray)
    BY <1>1, <2>3, <2>4 DEF Owning!Owned
  <2> QED BY <1>1, <2>1, <2>2, <2>3, <2>5
<1> QED BY <1>6, <1>7, <1>8, <1>9

\* handleRemoveTerm
LEMMA RemoveTermKeeps ==
  ASSUME Owning!IInv, NEW t \in Shells, Owning!HandleRemoveTerm(t)
  PROVE  Owning!IInv'
<1> USE DEF Owning!IInv
<1>1. /\ t \in owned /\ owned' = owned \ {t} /\ holder' = [holder EXCEPT ![t] = NoClient] /\ stray' = stray \ {t}
      /\ UNCHANGED <<known, ignored, order, ownerclients, lq, announces>>
  BY DEF Owning!HandleRemoveTerm
<1>2. Owning!Registered' = Owning!Registered /\ Owning!Settled' = Owning!Settled
  BY <1>1 DEF Owning!Registered, Owning!Settled
<1>3. \A i : Owning!Provided(i)' = Owning!Provided(i)
  BY <1>1, <1>2, SameKeeps
<1>4. Owning!Provided(0)' = Owning!Provided(0)
  BY <1>3
<1>5. Owning!TypeOK' /\ Owning!OneRegistrar'
  BY <1>1, <1>2 DEF Owning!TypeOK, Owning!OneRegistrar
<1>6. Owning!OwnersProvided'
  BY <1>1, <1>4 DEF Owning!OwnersProvided, Owning!TypeOK
<1>7. Owning!HeirsProvided'
  BY <1>1, <1>3 DEF Owning!HeirsProvided
<1>8. Owning!NewProvided'
  <2>1. \A i \in DOMAIN lq : lq[i].op = "add" => lq[i].term # t
    BY <1>1 DEF Owning!NewProvided
  <2>2. \A i \in DOMAIN lq : lq[i].op = "add" =>
          holder'[lq[i].term] = holder[lq[i].term] /\ (lq[i].term \in stray' <=> lq[i].term \in stray)
    BY <1>1, <2>1 DEF Owning!TypeOK
  <2> QED BY <1>1, <1>3, <2>2 DEF Owning!NewProvided
<1> QED BY <1>5, <1>6, <1>7, <1>8

\* Every step keeps the inductive invariant.
LEMMA OwnersStep == MaxAnnounces \in Nat /\ Owning!IInv /\ [Owning!Next]_Owning!vars => Owning!IInv'
<1> SUFFICES ASSUME MaxAnnounces \in Nat, Owning!IInv, [Owning!Next]_Owning!vars PROVE Owning!IInv'
  OBVIOUS
<1>0. ASSUME UNCHANGED <<known, ignored, order, ownerclients, lq, owned, holder, stray, announces>>
      PROVE  Owning!IInv'
  <2>1. Provisions' /\ Owning!Registered' = Owning!Registered
    BY <1>0, StillProvided DEF Owning!IInv, Provisions
  <2> QED BY <1>0, <2>1 DEF Owning!IInv, Provisions, Owning!TypeOK, Owning!OneRegistrar
<1>1. ASSUME NEW r \in Peers, NEW x \in Clients, Owning!ClientAnnounce(r, x) PROVE Owning!IInv'
  BY <1>1, AnnounceKeeps
<1>2. ASSUME NEW r \in Peers, NEW x \in Clients, Owning!ClientRemove(r, x) PROVE Owning!IInv'
  BY <1>2, ForgetKeeps DEF Owning!ClientRemove
<1>3. ASSUME NEW r \in Peers, NEW x \in Clients, Owning!DisconnectNext(r, x) PROVE Owning!IInv'
  BY <1>3, ForgetKeeps DEF Owning!DisconnectNext
<1>4. ASSUME NEW r \in Peers, NEW x \in Clients, NEW t \in Shells, Owning!CreateTerm(r, x, t) PROVE Owning!IInv'
  BY <1>4, CreateKeeps
<1>5. ASSUME NEW r \in Peers, NEW x \in Clients, NEW t \in Shells,
             Owning!TestOwner(r, x, t) \/ Owning!SetOwner(r, x, t) PROVE Owning!IInv'
  BY <1>5, GiveKeeps DEF Owning!TestOwner, Owning!SetOwner
<1>6. ASSUME NEW r \in Peers, Owning!Disconnect(r) PROVE Owning!IInv'
  BY <1>0, <1>6 DEF Owning!Disconnect
<1>7. ASSUME NEW t \in Shells, Owning!HandleRemoveTerm(t) PROVE Owning!IInv'
  BY <1>7, RemoveTermKeeps
<1>8. ASSUME UNCHANGED Owning!vars PROVE Owning!IInv'
  BY <1>0, <1>8 DEF Owning!vars
<1> QED BY <1>1, <1>2, <1>3, <1>4, <1>5, <1>6, <1>7, <1>8, AddKeeps, OwnershipKeeps DEF Owning!Next

\* The inductive invariant holds in every reachable state.
THEOREM OwnersInvariance == MaxAnnounces \in Nat => (Owning!Spec => []Owning!IInv)
<1> SUFFICES ASSUME MaxAnnounces \in Nat PROVE Owning!Spec => []Owning!IInv
  OBVIOUS
<1>1. Owning!Init => Owning!IInv
  BY OwnersInit
<1>2. Owning!IInv /\ [Owning!Next]_Owning!vars => Owning!IInv'
  BY OwnersStep
<1> QED BY <1>1, <1>2, PTL DEF Owning!Spec

\* When the listener has caught up, a terminal that was not given to a client that
\* is not registered has an owner that is there, or none where nobody takes
\* ownership: for any readers, clients, hops and terminals, and whoever comes and
\* goes while a change waits.
THEOREM OwnerIsPresent == MaxAnnounces \in Nat => (Owning!Spec => []OwnerPresent)
<1>1. Owning!IInv => Owning!OwnerPresent
  <2> SUFFICES ASSUME Owning!IInv, lq = <<>>, NEW t \in owned \ stray
               PROVE  holder[t] \in Owning!Registered \/ (holder[t] = NoClient /\ ownerclients = 0)
    BY DEF Owning!OwnerPresent
  <2>1. holder[t] \in Owning!Provided(0)
    BY DEF Owning!IInv, Owning!OwnersProvided
  <2> QED BY <2>1 DEF Owning!Provided, Owning!Settled
<1>2. Owning!IInv => OwnerPresent
  BY <1>1 DEF OwnerPresent
<1> QED BY <1>2, OwnersInvariance, PTL
===============================================================================
