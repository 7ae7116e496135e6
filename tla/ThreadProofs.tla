----------------------------- MODULE ThreadProofs -----------------------------
(***************************************************************************)
(* Proofs about two of the systems of MCThreads: the work queue, for any   *)
(* set of senders and any number of items, and the sessions of a           *)
(* connection, for any servers and terminals and any number of sessions.   *)
(***************************************************************************)
EXTENDS WorkQueue, MCSessions, FiniteSetTheorems, SequenceTheorems, TLAPS

-----------------------------------------------------------------------------
(* The work queue *)

\* The domains of the variables hold initially.
LEMMA InitIInv == Init => IInv
<1> SUFFICES ASSUME Init PROVE IInv
  OBVIOUS
<1>1. TypeOK
  <2>1. queue \in Seq(Items)
    BY DEF Init
  <2>2. count \in [Senders -> 0..MaxPosts]
    BY MaxPostsAssumption DEF Init
  <2> QED BY <2>1, <2>2 DEF Init, TypeOK
<1>2. \A s \in Senders : ~Owes(s)
  BY DEF Init, Owes
<1>3. RaisedInv /\ ClearedInv /\ WakeInv
  BY DEF Init, RaisedInv, ClearedInv, WakeInv, Draining
<1> QED BY <1>1, <1>2, <1>3 DEF IInv, OwedInv, OneWaker, Owes

\* Every step keeps every variable in its domain.
LEMMA StepTypeOK == TypeOK /\ [Next]_vars => TypeOK'
<1> SUFFICES ASSUME TypeOK, [Next]_vars PROVE TypeOK'
  OBVIOUS
<1> USE MaxPostsAssumption DEF TypeOK
<1>1. ASSUME NEW s \in Senders, Push(s)
      PROVE queue' \in Seq(Items) /\ count' \in [Senders -> 0..MaxPosts] /\ event' \in BOOLEAN
  <2>1. count[s] \in 0..MaxPosts
    OBVIOUS
  <2>2. count[s] + 1 \in 1..MaxPosts
    BY <1>1, <2>1 DEF Push
  <2>3. <<s, count[s] + 1>> \in Items
    BY <2>2 DEF Items
  <2> QED BY <1>1, <2>2, <2>3 DEF Push
<1>2. ASSUME NEW s \in Senders, SendWork(s) \/ SetEvent(s) \/ CommitWork(s) PROVE TypeOK'
  <2>1. CASE SendWork(s)
    BY <1>1, <2>1 DEF SendWork, loopVars
  <2>2. CASE SetEvent(s)
    BY <2>2 DEF SetEvent, loopVars
  <2>3. CASE CommitWork(s)
    BY <1>1, <2>3 DEF CommitWork, loopVars
  <2> QED BY <1>2, <2>1, <2>2, <2>3
<1>3. CASE Poll
  BY <1>3 DEF Poll, Ready, AfterPoll, senderVars
<1>4. CASE HandleFd
  BY <1>4 DEF HandleFd, AfterFd, senderVars
<1>5. CASE ClearEvent
  BY <1>5 DEF ClearEvent, senderVars
<1>6. CASE NextWorkItem
  <2>1. CASE queue # <<>>
    <3>1. Tail(queue) \in Seq(Items)
      BY <2>1
    <3> QED BY <1>6, <2>1, <3>1 DEF NextWorkItem, senderVars
  <2>2. CASE queue = <<>>
    BY <1>6, <2>2 DEF NextWorkItem, AfterDrain, senderVars
  <2> QED BY <2>1, <2>2
<1>7. CASE HandleWork
  BY <1>7 DEF HandleWork, senderVars
<1>8. CASE HandleIdle \/ HandleInterrupt
  BY <1>8 DEF HandleIdle, HandleInterrupt, senderVars
<1>9. CASE FdInput
  BY <1>9 DEF FdInput, senderVars, loopVars
<1>10. CASE UNCHANGED vars
  BY <1>10 DEF vars
<1> QED BY <1>2, <1>3, <1>4, <1>5, <1>6, <1>7, <1>8, <1>9, <1>10 DEF Next, ThreadStep

\* Every step keeps the inductive invariant.
LEMMA StepIInv == IInv /\ [Next]_vars => IInv'
<1> SUFFICES ASSUME IInv, [Next]_vars PROVE IInv'
  OBVIOUS
<1>t. TypeOK'
  BY StepTypeOK DEF IInv
<1> USE <1>t
        DEF IInv, TypeOK, RaisedInv, OwedInv, OneWaker, WakeInv, ClearedInv, Owes, Sleeping, Draining
<1>1. ASSUME NEW s \in Senders, SendWork(s) PROVE IInv'
  <2>1. CASE event
    BY <1>1, <2>1 DEF SendWork, Push, loopVars
  <2>2. CASE ~event
    BY <1>1, <2>2 DEF SendWork, Push, loopVars
  <2> QED BY <2>1, <2>2
<1>2. ASSUME NEW s \in Senders, SetEvent(s) PROVE IInv'
  BY <1>2 DEF SetEvent, loopVars
<1>3. ASSUME NEW s \in Senders, CommitWork(s) PROVE IInv'
  <2>1. CASE event
    BY <1>3, <2>1 DEF CommitWork, Push, loopVars
  <2>2. CASE ~event
    BY <1>3, <2>2 DEF CommitWork, Push, loopVars
  <2> QED BY <2>1, <2>2
<1>4. CASE Poll
  BY <1>4 DEF Poll, Ready, AfterPoll, senderVars
<1>5. CASE HandleFd
  BY <1>5 DEF HandleFd, AfterFd, senderVars
<1>6. CASE ClearEvent
  BY <1>6 DEF ClearEvent, senderVars
<1>7. CASE NextWorkItem
  <2>1. CASE queue # <<>>
    BY <1>7, <2>1 DEF NextWorkItem, senderVars
  <2>2. CASE queue = <<>>
    BY <1>7, <2>2 DEF NextWorkItem, AfterDrain, senderVars
  <2> QED BY <2>1, <2>2
<1>8. CASE HandleWork
  BY <1>8 DEF HandleWork, senderVars
<1>9. CASE HandleIdle \/ HandleInterrupt
  BY <1>9 DEF HandleIdle, HandleInterrupt, senderVars
<1>10. CASE FdInput
  BY <1>10 DEF FdInput, senderVars, loopVars
<1>11. CASE UNCHANGED vars
  BY <1>11 DEF vars
<1> QED BY <1>1, <1>2, <1>3, <1>4, <1>5, <1>6, <1>7, <1>8, <1>9, <1>10, <1>11 DEF Next, ThreadStep

\* The inductive invariant holds in every reachable state.
THEOREM Invariance == Spec => []IInv
<1>1. Init => IInv
  BY InitIInv
<1>2. IInv /\ [Next]_vars => IInv'
  BY StepIInv
<1> QED BY <1>1, <1>2, PTL DEF Spec

\* Type correctness of the work queue.
THEOREM TypeCorrect == Spec => []TypeOK
<1>1. IInv => TypeOK
  BY DEF IInv
<1> QED BY <1>1, Invariance, PTL

\* sendWork and nextWorkItem never lose a wakeup: a thread that sleeps on a
\* nonempty queue has been signalled or is about to be.
THEOREM NoWakeupIsLost == Spec => []NoLostWakeup
<1>1. IInv => NoLostWakeup
  BY DEF IInv, RaisedInv, WakeInv, Sleeping, Owes, NoLostWakeup
<1> QED BY <1>1, Invariance, PTL

\* A thread that ends by handling work has no sender left that still has to
\* set its event after unlocking it.
THEOREM NoLateTouch == Spec => []NoTouchAfterClose
<1>1. IInv => NoTouchAfterClose
  BY DEF IInv, TypeOK, OwedInv, Draining, Owes, NoTouchAfterClose
<1> QED BY <1>1, Invariance, PTL

\* At most one sender at a time owes the thread its wakeup.
THEOREM SingleWaker == Spec => []OneWaker
<1>1. IInv => OneWaker
  BY DEF IInv
<1> QED BY <1>1, Invariance, PTL

\* Every step of the work queue is a step of the abstract mailbox or leaves it
\* unchanged, so each item is taken once and in the order posted.
THEOREM MailboxSafety == Spec => Abstract!Init /\ [][Abstract!Next]_(Abstract!vars)
<1>1. Init => Abstract!Init
  BY MaxPostsAssumption DEF Init, Abstract!Init, Over, Items
<1>2. TypeOK /\ [Next]_vars => [Abstract!Next]_(Abstract!vars)
  <2> SUFFICES ASSUME TypeOK, [Next]_vars PROVE [Abstract!Next]_(Abstract!vars)
    OBVIOUS
  <2> USE DEF Abstract!Next, Abstract!vars, Abstract!Post, Abstract!Take, Abstract!Close
  <2>1. ASSUME NEW s \in Senders, Push(s), pc' = pc
        PROVE Abstract!Next
    <3> DEFINE i == <<s, count[s] + 1>>
    <3>1. count[s] \in 0..MaxPosts /\ count[s] + 1 \in 1..MaxPosts
      BY <2>1, MaxPostsAssumption DEF TypeOK, Push
    <3>2. i \in Items
      BY <3>1 DEF Items
    <3>3. ~(i[2] <= count[i[1]])
      BY <3>1, MaxPostsAssumption
    <3>4. {j \in Items : j[2] <= count'[j[1]]} = {j \in Items : j[2] <= count[j[1]]} \cup {i}
      <4>1. ASSUME NEW j \in Items
            PROVE j[2] <= count'[j[1]] <=> j[2] <= count[j[1]] \/ j = i
        <5>1. PICK t \in Senders, k \in 1..MaxPosts : j = <<t, k>>
          BY DEF Items
        <5>2. CASE t = s
          <6>1. count'[t] = count[s] + 1
            BY <2>1, <5>2 DEF Push, TypeOK
          <6> QED BY <5>1, <5>2, <6>1, <3>1, MaxPostsAssumption
        <5>3. CASE t # s
          <6>1. count'[t] = count[t]
            BY <2>1, <5>3 DEF Push, TypeOK
          <6> QED BY <5>1, <5>3, <6>1
        <5> QED BY <5>2, <5>3
      <4> QED BY <4>1, <3>2
    <3>5. queue' = Append(queue, i)
      BY <2>1 DEF Push
    <3> QED BY <2>1, <3>2, <3>3, <3>4, <3>5 DEF Over
  <2>2. ASSUME NEW s \in Senders, SendWork(s) \/ SetEvent(s) \/ CommitWork(s)
        PROVE [Abstract!Next]_(Abstract!vars)
    BY <2>1, <2>2 DEF SendWork, SetEvent, CommitWork, loopVars, Over
  <2>3. CASE NextWorkItem
    BY <2>3 DEF NextWorkItem, AfterDrain, senderVars, Over
  <2>4. CASE Poll \/ ClearEvent \/ HandleFd \/ HandleWork
    BY <2>4 DEF Poll, AfterPoll, ClearEvent, HandleFd, AfterFd, HandleWork, senderVars, Over
  <2>5. CASE HandleIdle \/ HandleInterrupt \/ FdInput
    BY <2>5 DEF HandleIdle, HandleInterrupt, FdInput, senderVars, loopVars, Over
  <2>6. CASE UNCHANGED vars
    BY <2>6 DEF vars, Over
  <2> QED BY <2>2, <2>3, <2>4, <2>5, <2>6 DEF Next, ThreadStep
<1> QED BY <1>1, <1>2, TypeCorrect, PTL DEF Spec

-----------------------------------------------------------------------------
(* The sessions of a connection: where proxies are *)

\* What the listener's queue holds.
Notes == [op : {"add", "remove"}, conn : {Peer}, id : Ids]

\* What the constants' assumption says of single ids.
LEMMA SessionIds ==
  /\ IsFiniteSet(Ids) /\ Servers \subseteq Ids /\ Terms \subseteq Ids /\ Peer # Nobody
  /\ \A i \in Ids : (i \in Servers \/ i \in Terms) /\ ~(i \in Servers /\ i \in Terms)
  /\ \A t \in Terms : Host[t] \in Servers /\ Host[t] # Self /\ Host[t] \in Ids
  /\ \A i \in Ids : MaxAnnounces[i] \in 0..2
  /\ \A s \in Servers : MaxAnnounces[s] \in 0..1
  BY SessionAssumption DEF Ids

\* What the types say of the variables' elements.
LEMMA SessionFacts ==
  ASSUME SessionTypes
  PROVE  /\ conn[Peer] \in Proxies
         /\ Known \subseteq Ids /\ Ignored \subseteq Ids /\ Active \subseteq Ids /\ Withdrawn \subseteq Ids
         /\ Held \subseteq Ids /\ remote[Peer] \subseteq Ids
         /\ \A i \in Ids : sent[Peer][i] \in Nat
         /\ \A i \in Ids : mapped[i] \in {Peer, Nobody} /\ registered[i] \in {Peer, Nobody}
         /\ Len(lq) \in Nat /\ DOMAIN lq = 1..Len(lq)
         /\ \A j \in 1..Len(lq) : /\ lq[j] \in Notes /\ lq[j].id \in Ids
                                  /\ lq[j].op \in {"add", "remove"} /\ lq[j].conn = Peer
         /\ released[Peer] \in Seq(Ids) /\ Len(released[Peer]) \in Nat
         /\ DOMAIN released[Peer] = 1..Len(released[Peer])
         /\ \A k \in 1..Len(released[Peer]) : released[Peer][k] \in Ids
         /\ nTerms[Peer] \in [Servers -> [n : Nat, starting : Nat]]
<1>1. /\ conn[Peer] \in Proxies /\ remote[Peer] \subseteq Ids
      /\ \A i \in Ids : sent[Peer][i] \in Nat
      /\ \A i \in Ids : mapped[i] \in {Peer, Nobody} /\ registered[i] \in {Peer, Nobody}
      /\ nTerms[Peer] \in [Servers -> [n : Nat, starting : Nat]]
  BY DEF SessionTypes
<1>2. /\ Known \subseteq Ids /\ Ignored \subseteq Ids /\ Active \subseteq Ids /\ Withdrawn \subseteq Ids
      /\ Held \subseteq Ids
  BY <1>1 DEF Proxies, Known, Ignored, Active, Withdrawn, Held
<1>3. lq \in Seq(Notes) /\ released[Peer] \in Seq(Ids)
  BY DEF SessionTypes, Notes
<1>4. /\ Len(lq) \in Nat /\ DOMAIN lq = 1..Len(lq) /\ \A j \in 1..Len(lq) : lq[j] \in Notes
  BY <1>3
<1>5. /\ Len(released[Peer]) \in Nat /\ DOMAIN released[Peer] = 1..Len(released[Peer])
      /\ \A k \in 1..Len(released[Peer]) : released[Peer][k] \in Ids
  BY <1>3
<1>6. \A j \in 1..Len(lq) : /\ lq[j].id \in Ids
                            /\ lq[j].op \in {"add", "remove"} /\ lq[j].conn = Peer
  BY <1>4 DEF Notes
<1> QED BY <1>1, <1>2, <1>3, <1>4, <1>5, <1>6

\* Nothing happens on the way to or from the listener.
LEMMA SameWays ==
  ASSUME Ways, Turns, Counts, Active' = Active, Withdrawn' = Withdrawn,
         UNCHANGED <<mapped, lq, closing, released, nTerms>>
  PROVE  Ways' /\ Turns' /\ Counts'
<1>1. Held' = Held
  BY DEF Held
<1>2. Ways'
  BY <1>1 DEF Ways, Waits, Leaves, Closing, Returned
<1>3. Turns'
  BY DEF Turns, Closing, Returned
<1>4. Counts'
  BY DEF Counts, Mapped
<1> QED BY <1>2, <1>3, <1>4

\* An item at the end, and the first one gone.
LEMMA AtTheEnd ==
  ASSUME NEW S, NEW q \in Seq(S), NEW e \in S
  PROVE  /\ Append(q, e) \in Seq(S) /\ Len(q) \in Nat
         /\ DOMAIN Append(q, e) = 1..Len(q) + 1 /\ Len(Append(q, e)) = Len(q) + 1
         /\ \A j \in 1..Len(q) : Append(q, e)[j] = q[j]
         /\ Append(q, e)[Len(q) + 1] = e
  OBVIOUS

\* A sequence whose first element is taken off.
LEMMA FirstGone ==
  ASSUME NEW S, NEW q \in Seq(S), q # <<>>
  PROVE  /\ Tail(q) \in Seq(S) /\ Head(q) = q[1] /\ q[1] \in S /\ Len(q) \in Nat \ {0}
         /\ DOMAIN Tail(q) = 1..Len(q) - 1 /\ Len(Tail(q)) = Len(q) - 1 /\ DOMAIN q = 1..Len(q)
         /\ \A j \in 1..Len(q) - 1 : Tail(q)[j] = q[j + 1]
  OBVIOUS

\* A new proxy is on its way to the listener.
LEMMA RegisteredWays ==
  ASSUME SessionTypes, Ways, Turns, Counts, NEW i \in Ids, i \notin Held,
         i \in Terms => Host[i] \in Active,
         lq' = Append(lq, [op |-> "add", conn |-> Peer, id |-> i]),
         Active' = Active \cup {i}, Withdrawn' = Withdrawn,
         UNCHANGED <<mapped, closing, released>>,
         IF i \in Terms THEN UNCHANGED nTerms
         ELSE \E n \in Nat : nTerms' = [nTerms EXCEPT ![Peer][i] = [n |-> n, starting |-> n]]
  PROVE  Ways' /\ Turns' /\ Counts'
<1> DEFINE n == Len(lq)
           e == [op |-> "add", conn |-> Peer, id |-> i]
<1>1. e \in Notes /\ e.id = i /\ e.op = "add"
  BY DEF Notes
<1>2. /\ n \in Nat /\ DOMAIN lq = 1..n /\ DOMAIN lq' = 1..n + 1
      /\ \A j \in 1..n : lq'[j] = lq[j]
      /\ lq'[n + 1].id = i /\ lq'[n + 1].op = "add"
  <2>1. lq \in Seq(Notes) /\ lq' = Append(lq, e)
    BY DEF SessionTypes, Notes
  <2> HIDE DEF e
  <2> QED BY <1>1, <2>1, SessionFacts, AtTheEnd
<1>3. /\ ~Waits(i) /\ mapped[i] = Nobody /\ ~Closing(i) /\ ~Returned(i)
      /\ \A j \in 1..n : lq[j].id # i
  <2>1. ~Waits(i) /\ mapped[i] = Nobody /\ ~Closing(i) /\ ~Returned(i)
    BY DEF Ways
  <2> QED BY <1>2, <2>1 DEF Waits
<1> HIDE DEF n, e
<1>4. /\ Waits(i)' /\ ~Leaves(i)'
      /\ \A x \in Ids : x # i => (Waits(x)' <=> Waits(x))
      /\ \A x \in Ids : Leaves(x)' <=> Leaves(x)
      /\ \A x \in Ids : (Closing(x)' <=> Closing(x)) /\ (Returned(x)' <=> Returned(x))
  <2>1. Waits(i)'
    BY <1>2 DEF Waits
  <2>2. ~Leaves(i)' /\ ~Leaves(i)
    BY <1>2, <1>3 DEF Leaves
  <2>3. ASSUME NEW x \in Ids, x # i PROVE (Waits(x)' <=> Waits(x)) /\ (Leaves(x)' <=> Leaves(x))
    BY <1>2, <2>3 DEF Waits, Leaves
  <2>4. \A x \in Ids : (Closing(x)' <=> Closing(x)) /\ (Returned(x)' <=> Returned(x))
    BY DEF Closing, Returned
  <2> QED BY <2>1, <2>2, <2>3, <2>4
<1>5. Ways'
  <2> SUFFICES ASSUME NEW x \in Ids
               PROVE  /\ x \notin Held' => ~Waits(x)' /\ mapped'[x] = Nobody /\ ~Closing(x)' /\ ~Returned(x)'
                      /\ x \in Active' => /\ ~Leaves(x)' /\ ~Closing(x)' /\ ~Returned(x)'
                                          /\ mapped'[x] = Peer \/ Waits(x)'
                      /\ x \in Withdrawn' => Leaves(x)' \/ Closing(x)' \/ Returned(x)'
                      /\ Closing(x)' \/ Returned(x)' => mapped'[x] = Nobody /\ ~Waits(x)'
                      /\ Closing(x)' => ~Returned(x)'
    BY DEF Ways
  <2>1. /\ x \notin Held => ~Waits(x) /\ mapped[x] = Nobody /\ ~Closing(x) /\ ~Returned(x)
        /\ x \in Active => ~Leaves(x) /\ ~Closing(x) /\ ~Returned(x) /\ (mapped[x] = Peer \/ Waits(x))
        /\ x \in Withdrawn => Leaves(x) \/ Closing(x) \/ Returned(x)
        /\ Closing(x) \/ Returned(x) => mapped[x] = Nobody /\ ~Waits(x)
        /\ Closing(x) => ~Returned(x)
    BY DEF Ways
  <2>2. Held' = Held \cup {i}
    BY DEF Held
  <2>3. mapped' = mapped
    OBVIOUS
  <2>4. CASE x = i
    <3>1. x \notin Withdrawn'
      BY <2>4 DEF Held
    <3> QED BY <1>3, <1>4, <2>2, <2>3, <2>4, <3>1
  <2>5. CASE x # i
    BY <1>4, <2>1, <2>2, <2>3, <2>5
  <2> QED BY <2>4, <2>5
<1>6. Turns'
  <2>1. ASSUME NEW j \in DOMAIN lq', NEW k \in DOMAIN lq', j < k, lq'[j].id = lq'[k].id
        PROVE  lq'[j].op = "add" /\ lq'[k].op = "remove"
    <3>1. CASE k = n + 1
      BY <1>2, <1>3, <2>1, <3>1
    <3>2. CASE k # n + 1
      <4>1. j \in 1..n /\ k \in 1..n
        BY <1>2, <2>1, <3>2
      <4> QED BY <1>2, <2>1, <4>1 DEF Turns
    <3> QED BY <3>1, <3>2
  <2>2. ASSUME NEW j \in DOMAIN lq'
        PROVE  IF lq'[j].op = "add" THEN mapped'[lq'[j].id] = Nobody
               ELSE mapped'[lq'[j].id] = Peer \/ \E k \in 1..j - 1 : lq'[k].id = lq'[j].id
    <3>1. CASE j = n + 1
      BY <1>2, <1>3, <3>1
    <3>2. CASE j # n + 1
      <4>1. j \in 1..n /\ \A k \in 1..j - 1 : k \in 1..n
        BY <1>2, <3>2
      <4>2. IF lq[j].op = "add" THEN mapped[lq[j].id] = Nobody
            ELSE mapped[lq[j].id] = Peer \/ \E k \in 1..j - 1 : lq[k].id = lq[j].id
        BY <1>2, <4>1 DEF Turns
      <4> QED BY <1>2, <4>1, <4>2
    <3> QED BY <3>1, <3>2
  <2>3. ASSUME NEW j \in DOMAIN lq', lq'[j].id \in Terms
        PROVE  /\ mapped'[Host[lq'[j].id]] = Peer \/ \E k \in 1..j - 1 : lq'[k].id = Host[lq'[j].id]
               /\ \A k \in 1..j - 1 : lq'[k].id = Host[lq'[j].id] => lq'[k].op = "add"
    <3>1. CASE j = n + 1
      <4>1. lq'[j].id = i /\ i \in Terms /\ Host[i] \in Active /\ Host[i] \in Ids
        BY <1>2, <2>3, <3>1, SessionIds
      <4>2. ~Leaves(Host[i]) /\ (mapped[Host[i]] = Peer \/ Waits(Host[i]))
        BY <4>1 DEF Ways
      <4>3. ASSUME NEW k \in 1..j - 1, lq'[k].id = Host[i] PROVE lq'[k].op = "add"
        <5>1. k \in 1..n /\ lq[k].id = Host[i] /\ lq[k].op \in {"add", "remove"}
          BY <1>2, <3>1, <4>3, SessionFacts
        <5> QED BY <1>2, <4>2, <5>1 DEF Leaves
      <4>4. Waits(Host[i]) => \E k \in 1..j - 1 : lq'[k].id = Host[i]
        <5> SUFFICES ASSUME Waits(Host[i]) PROVE \E k \in 1..j - 1 : lq'[k].id = Host[i]
          OBVIOUS
        <5>1. PICK k \in 1..n : lq[k].id = Host[i]
          BY <1>2 DEF Waits
        <5> QED BY <1>2, <3>1, <5>1
      <4> QED BY <4>1, <4>2, <4>3, <4>4
    <3>2. CASE j # n + 1
      <4>1. j \in 1..n /\ \A k \in 1..j - 1 : k \in 1..n
        BY <1>2, <3>2
      <4>2. /\ mapped[Host[lq[j].id]] = Peer \/ \E k \in 1..j - 1 : lq[k].id = Host[lq[j].id]
            /\ \A k \in 1..j - 1 : lq[k].id = Host[lq[j].id] => lq[k].op = "add"
        BY <1>2, <2>3, <4>1 DEF Turns
      <4> QED BY <1>2, <4>1, <4>2
    <3> QED BY <3>1, <3>2
  <2>4. /\ \A t \in Terms : /\ mapped'[t] = Peer => mapped'[Host[t]] = Peer
                            /\ Closing(t)' => ~Returned(Host[t])'
        /\ \A k, l \in DOMAIN released'[Peer] :
             /\ released'[Peer][k] = released'[Peer][l] => k = l
             /\ released'[Peer][k] \in Terms /\ released'[Peer][l] = Host[released'[Peer][k]] => k < l
    BY DEF Turns, Closing, Returned
  <2> QED BY <2>1, <2>2, <2>3, <2>4 DEF Turns
<1>7. Counts'
  <2> SUFFICES ASSUME NEW s \in Servers
               PROVE  /\ mapped'[s] = Peer =>
                           nTerms'[Peer][s].n = nTerms'[Peer][s].starting + Cardinality(Mapped(s)')
                      /\ (\E j \in DOMAIN lq' : lq'[j].id = s /\ lq'[j].op = "add") =>
                           nTerms'[Peer][s].n = nTerms'[Peer][s].starting
    BY DEF Counts
  <2>1. mapped' = mapped /\ Mapped(s)' = Mapped(s)
    BY DEF Mapped
  <2>2. CASE s # i
    <3>1. nTerms'[Peer][s] = nTerms[Peer][s]
      BY <2>2 DEF SessionTypes
    <3>2. (\E j \in DOMAIN lq' : lq'[j].id = s /\ lq'[j].op = "add") =>
            (\E j \in DOMAIN lq : lq[j].id = s /\ lq[j].op = "add")
      BY <1>2, <2>2
    <3>3. /\ mapped[s] = Peer => nTerms[Peer][s].n = nTerms[Peer][s].starting + Cardinality(Mapped(s))
          /\ (\E j \in DOMAIN lq : lq[j].id = s /\ lq[j].op = "add") =>
               nTerms[Peer][s].n = nTerms[Peer][s].starting
      BY DEF Counts
    <3> QED BY <2>1, <3>1, <3>2, <3>3
  <2>3. CASE s = i
    <3>1. i \notin Terms
      BY <2>3, SessionIds
    <3>2. PICK k \in Nat : nTerms' = [nTerms EXCEPT ![Peer][i] = [n |-> k, starting |-> k]]
      BY <3>1
    <3>3. nTerms'[Peer][s] = [n |-> k, starting |-> k]
      BY <2>3, <3>2 DEF SessionTypes
    <3> QED BY <1>3, <2>1, <2>3, <3>3, SessionIds
  <2> QED BY <2>2, <2>3
<1> QED BY <1>5, <1>6, <1>7

\* Proxies on their way out, terminals before servers.
Leaving(m, order) == [j \in 1..m |-> [op |-> "remove", conn |-> Peer, id |-> order[j]]]

\* The queue with the items of a leaving order behind it.
LEMMA LeavingItems ==
  ASSUME NEW m \in Nat, NEW order \in [1..m -> Ids], NEW q \in Seq(Notes)
  PROVE  /\ q \o Leaving(m, order) \in Seq(Notes) /\ Len(q) \in Nat
         /\ DOMAIN (q \o Leaving(m, order)) = 1..Len(q) + m
         /\ \A j \in 1..Len(q) : (q \o Leaving(m, order))[j] = q[j]
         /\ \A j \in 1..m : /\ (q \o Leaving(m, order))[Len(q) + j].id = order[j]
                            /\ (q \o Leaving(m, order))[Len(q) + j].op = "remove"
<1> DEFINE r == Leaving(m, order)
<1>1. r \in [1..m -> Notes] /\ \A j \in 1..m : r[j].id = order[j] /\ r[j].op = "remove"
  BY DEF Leaving, Notes
<1>2. r \in Seq(Notes) /\ Len(r) = m
  BY <1>1
<1> HIDE DEF r
<1>3. /\ q \o r \in Seq(Notes) /\ Len(q) \in Nat /\ DOMAIN (q \o r) = 1..Len(q) + m
      /\ \A j \in 1..Len(q) : (q \o r)[j] = q[j]
      /\ \A j \in 1..m : (q \o r)[Len(q) + j] = r[j]
  BY <1>2
<1> QED BY <1>1, <1>3 DEF r

\* The order visits every element of S once.
Visits(order, m, S) ==
  /\ order \in [1..m -> S]
  /\ \A j, k \in 1..m : order[j] = order[k] => j = k
  /\ \A i \in S : \E j \in 1..m : order[j] = i

\* Active proxies are on their way out, terminals before their servers.
LEMMA WithdrawnWays ==
  ASSUME SessionTypes, Books, Ways, Turns, Counts, NEW S \in SUBSET Active,
         NEW m \in Nat, NEW order, Visits(order, m, S),
         \A j, k \in 1..m : j < k /\ order[j] \in Servers => order[k] \in Servers,
         lq' = lq \o Leaving(m, order),
         Active' = Active \ S, Withdrawn' = Withdrawn \cup S,
         UNCHANGED <<mapped, closing, released, nTerms>>
  PROVE  Ways' /\ Turns' /\ Counts'
<1>v. /\ order \in [1..m -> S]
      /\ \A j, k \in 1..m : order[j] = order[k] => j = k
      /\ \A i \in S : \E j \in 1..m : order[j] = i
  BY DEF Visits
<1> DEFINE n == Len(lq)
<1>1. S \subseteq Ids /\ order \in [1..m -> Ids] /\ \A j \in 1..m : order[j] \in S /\ order[j] \in Ids
  BY <1>v, SessionFacts
<1>2. /\ n \in Nat /\ DOMAIN lq = 1..n /\ DOMAIN lq' = 1..n + m
      /\ \A j \in 1..n : lq'[j] = lq[j]
      /\ \A j \in 1..m : lq'[n + j].id = order[j] /\ lq'[n + j].op = "remove"
  <2>1. lq \in Seq(Notes)
    BY DEF SessionTypes, Notes
  <2>2. DOMAIN lq = 1..n
    BY SessionFacts
  <2> HIDE DEF n
  <2>3. /\ lq \o Leaving(m, order) \in Seq(Notes) /\ Len(lq) \in Nat
        /\ DOMAIN (lq \o Leaving(m, order)) = 1..Len(lq) + m
        /\ \A j \in 1..Len(lq) : (lq \o Leaving(m, order))[j] = lq[j]
        /\ \A j \in 1..m : /\ (lq \o Leaving(m, order))[Len(lq) + j].id = order[j]
                           /\ (lq \o Leaving(m, order))[Len(lq) + j].op = "remove"
    BY <1>1, <2>1, LeavingItems
  <2> QED BY <2>2, <2>3 DEF n
<1> USE <1>v
<1>3. ASSUME NEW j \in n + 1..n + m
      PROVE  /\ j - n \in 1..m /\ lq'[j].id = order[j - n] /\ lq'[j].op = "remove"
             /\ order[j - n] \in S
  <2>1. j - n \in 1..m /\ n + (j - n) = j
    BY <1>2
  <2> QED BY <1>1, <1>2, <2>1
<1>4. \A j \in DOMAIN lq' : j \in 1..n \/ j \in n + 1..n + m
  BY <1>2
<1>5. \A i \in S : /\ ~Leaves(i) /\ ~Closing(i) /\ ~Returned(i)
                   /\ mapped[i] = Peer \/ Waits(i)
  BY <1>1 DEF Ways
<1>6. \A i \in S, j \in 1..n : lq[j].id = i => lq[j].op = "add"
  <2> SUFFICES ASSUME NEW i \in S, NEW j \in 1..n, lq[j].id = i PROVE lq[j].op = "add"
    OBVIOUS
  <2>1. lq[j].op \in {"add", "remove"}
    BY SessionFacts
  <2>2. ~Leaves(i) /\ j \in DOMAIN lq
    BY <1>2, <1>5
  <2> QED BY <2>1, <2>2 DEF Leaves
<1> HIDE DEF n
<1>7. /\ \A i \in S : Leaves(i)' /\ Waits(i)'
      /\ \A i \in Ids \ S : (Leaves(i)' <=> Leaves(i)) /\ (Waits(i)' <=> Waits(i))
      /\ \A i \in Ids : (Closing(i)' <=> Closing(i)) /\ (Returned(i)' <=> Returned(i))
  <2>1. ASSUME NEW i \in S PROVE Leaves(i)' /\ Waits(i)'
    <3>1. PICK j \in 1..m : order[j] = i
      OBVIOUS
    <3>2. n + j \in 1..n + m /\ lq'[n + j].id = i /\ lq'[n + j].op = "remove"
      BY <1>2, <3>1
    <3> QED BY <1>2, <3>2 DEF Leaves, Waits
  <2>2. ASSUME NEW i \in Ids \ S PROVE (Leaves(i)' <=> Leaves(i)) /\ (Waits(i)' <=> Waits(i))
    <3>1. \A j \in DOMAIN lq' : lq'[j].id = i => j \in 1..n
      BY <1>3, <1>4
    <3>2. \A j \in 1..n : j \in DOMAIN lq' /\ j \in DOMAIN lq
      BY <1>2
    <3> QED BY <1>2, <3>1, <3>2 DEF Leaves, Waits
  <2>3. \A i \in Ids : (Closing(i)' <=> Closing(i)) /\ (Returned(i)' <=> Returned(i))
    BY DEF Closing, Returned
  <2> QED BY <2>1, <2>2, <2>3
<1>8. Ways'
  <2> SUFFICES ASSUME NEW x \in Ids
               PROVE  /\ x \notin Held' => ~Waits(x)' /\ mapped'[x] = Nobody /\ ~Closing(x)' /\ ~Returned(x)'
                      /\ x \in Active' => /\ ~Leaves(x)' /\ ~Closing(x)' /\ ~Returned(x)'
                                          /\ mapped'[x] = Peer \/ Waits(x)'
                      /\ x \in Withdrawn' => Leaves(x)' \/ Closing(x)' \/ Returned(x)'
                      /\ Closing(x)' \/ Returned(x)' => mapped'[x] = Nobody /\ ~Waits(x)'
                      /\ Closing(x)' => ~Returned(x)'
    BY DEF Ways
  <2>1. /\ x \notin Held => ~Waits(x) /\ mapped[x] = Nobody /\ ~Closing(x) /\ ~Returned(x)
        /\ x \in Active => ~Leaves(x) /\ ~Closing(x) /\ ~Returned(x) /\ (mapped[x] = Peer \/ Waits(x))
        /\ x \in Withdrawn => Leaves(x) \/ Closing(x) \/ Returned(x)
        /\ Closing(x) \/ Returned(x) => mapped[x] = Nobody /\ ~Waits(x)
        /\ Closing(x) => ~Returned(x)
    BY DEF Ways
  <2>2. Held' = Held /\ mapped' = mapped
    BY DEF Held
  <2>3. CASE x \in S
    BY <1>5, <1>7, <2>2, <2>3 DEF Held
  <2>4. CASE x \notin S
    BY <1>7, <2>1, <2>2, <2>4
  <2> QED BY <2>3, <2>4
<1>9. Turns'
  <2>1. ASSUME NEW j \in DOMAIN lq', NEW k \in DOMAIN lq', j < k, lq'[j].id = lq'[k].id
        PROVE  lq'[j].op = "add" /\ lq'[k].op = "remove"
    <3>1. CASE k \in 1..n
      <4>1. j \in 1..n
        BY <1>2, <2>1, <3>1
      <4> QED BY <1>2, <2>1, <3>1, <4>1 DEF Turns
    <3>2. CASE k \in n + 1..n + m /\ j \in 1..n
      <4>1. /\ lq'[k].id = order[k - n] /\ lq'[k].op = "remove" /\ order[k - n] \in S
        BY <1>3, <3>2
      <4>2. lq'[j] = lq[j] /\ lq[j].id \in S
        BY <1>2, <2>1, <3>2, <4>1
      <4>3. lq[j].op = "add"
        BY <1>6, <3>2, <4>2
      <4> QED BY <4>1, <4>2, <4>3
    <3>3. CASE k \in n + 1..n + m /\ j \in n + 1..n + m
      <4>1. j - n = k - n
        BY <1>3, <2>1, <3>3
      <4>2. j = k
        BY <1>2, <3>3, <4>1
      <4> QED BY <1>2, <2>1, <4>2
    <3> QED BY <1>4, <3>1, <3>2, <3>3
  <2>2. ASSUME NEW j \in DOMAIN lq'
        PROVE  IF lq'[j].op = "add" THEN mapped'[lq'[j].id] = Nobody
               ELSE mapped'[lq'[j].id] = Peer \/ \E k \in 1..j - 1 : lq'[k].id = lq'[j].id
    <3>1. CASE j \in 1..n
      <4>1. \A k \in 1..j - 1 : k \in 1..n
        BY <1>2, <3>1
      <4>2. IF lq[j].op = "add" THEN mapped[lq[j].id] = Nobody
            ELSE mapped[lq[j].id] = Peer \/ \E k \in 1..j - 1 : lq[k].id = lq[j].id
        BY <1>2, <3>1 DEF Turns
      <4> QED BY <1>2, <3>1, <4>1, <4>2
    <3>2. CASE j \in n + 1..n + m
      <4>1. lq'[j].op = "remove" /\ lq'[j].id \in S
        BY <1>3, <3>2
      <4>2. CASE mapped[lq'[j].id] = Peer
        BY <4>1, <4>2
      <4>3. CASE Waits(lq'[j].id)
        <5>1. PICK k \in 1..n : lq[k].id = lq'[j].id
          BY <1>2, <4>3 DEF Waits
        <5>2. k \in 1..j - 1 /\ lq'[k].id = lq'[j].id
          BY <1>2, <3>2, <5>1
        <5> QED BY <4>1, <5>2
      <4> QED BY <1>5, <4>1, <4>2, <4>3
    <3> QED BY <1>4, <3>1, <3>2
  <2>3. ASSUME NEW j \in DOMAIN lq', lq'[j].id \in Terms
        PROVE  /\ mapped'[Host[lq'[j].id]] = Peer \/ \E k \in 1..j - 1 : lq'[k].id = Host[lq'[j].id]
               /\ \A k \in 1..j - 1 : lq'[k].id = Host[lq'[j].id] => lq'[k].op = "add"
    <3>1. CASE j \in 1..n
      <4>1. \A k \in 1..j - 1 : k \in 1..n
        BY <1>2, <3>1
      <4>2. /\ mapped[Host[lq[j].id]] = Peer \/ \E k \in 1..j - 1 : lq[k].id = Host[lq[j].id]
            /\ \A k \in 1..j - 1 : lq[k].id = Host[lq[j].id] => lq[k].op = "add"
        BY <1>2, <2>3, <3>1 DEF Turns
      <4> QED BY <1>2, <3>1, <4>1, <4>2
    <3>2. CASE j \in n + 1..n + m
      <4> DEFINE t == lq'[j].id
      <4>1. t \in S /\ t \in Terms /\ t = order[j - n] /\ j - n \in 1..m
        BY <1>3, <2>3, <3>2
      <4>2. t \in Active /\ Host[t] \in Active /\ Host[t] \in Ids /\ Host[t] \in Servers
        BY <4>1, SessionIds DEF Books
      <4> HIDE DEF t
      <4>3. ~Leaves(Host[t]) /\ (mapped[Host[t]] = Peer \/ Waits(Host[t]))
        BY <4>2 DEF Ways
      <4>4. ASSUME NEW k \in 1..j - 1, lq'[k].id = Host[t] PROVE lq'[k].op = "add"
        <5>1. CASE k \in 1..n
          <6>1. lq[k].id = Host[t] /\ lq[k].op \in {"add", "remove"}
            BY <1>2, <4>4, <5>1, SessionFacts DEF n
          <6> QED BY <1>2, <4>3, <5>1, <6>1 DEF Leaves
        <5>2. CASE k \in n + 1..n + m
          <6>1. k - n \in 1..m /\ order[k - n] = Host[t]
            BY <1>3, <4>4, <5>2
          <6>2. k - n < j - n
            BY <1>2, <3>2, <5>2
          <6>3. order[j - n] \in Servers
            BY <4>1, <4>2, <6>1, <6>2
          <6> QED BY <4>1, <6>3, SessionAssumption
        <5>3. k \in 1..n \/ k \in n + 1..n + m
          BY <1>2, <3>2
        <5> QED BY <5>1, <5>2, <5>3
      <4>5. Waits(Host[t]) => \E k \in 1..j - 1 : lq'[k].id = Host[t]
        <5> SUFFICES ASSUME Waits(Host[t]) PROVE \E k \in 1..j - 1 : lq'[k].id = Host[t]
          OBVIOUS
        <5>1. PICK k \in 1..n : lq[k].id = Host[t]
          BY <1>2 DEF Waits
        <5>2. k \in 1..j - 1
          BY <1>2, <3>2
        <5> QED BY <1>2, <5>1, <5>2
      <4> QED BY <4>3, <4>4, <4>5 DEF t
    <3> QED BY <1>4, <3>1, <3>2
  <2>4. /\ \A t \in Terms : /\ mapped'[t] = Peer => mapped'[Host[t]] = Peer
                            /\ Closing(t)' => ~Returned(Host[t])'
        /\ \A k, l \in DOMAIN released'[Peer] :
             /\ released'[Peer][k] = released'[Peer][l] => k = l
             /\ released'[Peer][k] \in Terms /\ released'[Peer][l] = Host[released'[Peer][k]] => k < l
    BY DEF Turns, Closing, Returned
  <2> QED BY <2>1, <2>2, <2>3, <2>4 DEF Turns
<1>10. Counts'
  <2> SUFFICES ASSUME NEW s \in Servers
               PROVE  /\ mapped'[s] = Peer =>
                           nTerms'[Peer][s].n = nTerms'[Peer][s].starting + Cardinality(Mapped(s)')
                      /\ (\E j \in DOMAIN lq' : lq'[j].id = s /\ lq'[j].op = "add") =>
                           nTerms'[Peer][s].n = nTerms'[Peer][s].starting
    BY DEF Counts
  <2>1. mapped' = mapped /\ Mapped(s)' = Mapped(s) /\ nTerms' = nTerms
    BY DEF Mapped
  <2>2. \A j \in DOMAIN lq' : lq'[j].op = "add" => j \in 1..n /\ lq'[j] = lq[j] /\ j \in DOMAIN lq
    BY <1>2, <1>3, <1>4
  <2>3. /\ mapped[s] = Peer => nTerms[Peer][s].n = nTerms[Peer][s].starting + Cardinality(Mapped(s))
        /\ (\E j \in DOMAIN lq : lq[j].id = s /\ lq[j].op = "add") =>
             nTerms[Peer][s].n = nTerms[Peer][s].starting
    BY DEF Counts
  <2> QED BY <2>1, <2>2, <2>3
<1> QED BY <1>8, <1>9, <1>10

\* The clients have given a proxy back.
LEMMA ReturnedWays ==
  ASSUME SessionTypes, Ways, Turns, Counts, NEW i \in Ids, Closing(i),
         i \in Servers => \A t \in Terms : Host[t] = i => ~Closing(t),
         closing' = closing \ {<<Peer, i>>},
         released' = [released EXCEPT ![Peer] = Append(@, i)],
         Active' = Active, Withdrawn' = Withdrawn, UNCHANGED <<mapped, lq, nTerms>>
  PROVE  Ways' /\ Turns' /\ Counts'
<1> DEFINE r == released[Peer]
           n == Len(r)
<1>1. /\ n \in Nat /\ DOMAIN r = 1..n /\ DOMAIN released'[Peer] = 1..n + 1
      /\ \A k \in 1..n : released'[Peer][k] = r[k]
      /\ released'[Peer][n + 1] = i
  <2>1. r \in Seq(Ids) /\ released'[Peer] = Append(r, i)
    BY DEF SessionTypes
  <2> HIDE DEF r
  <2> QED BY <2>1, AtTheEnd
<1>2. /\ ~Closing(i)' /\ \A x \in Ids : x # i => (Closing(x)' <=> Closing(x))
      /\ Returned(i)' /\ \A x \in Ids : x # i => (Returned(x)' <=> Returned(x))
      /\ \A x \in Ids : (Waits(x)' <=> Waits(x)) /\ (Leaves(x)' <=> Leaves(x))
  <2>1. ~Closing(i)' /\ \A x \in Ids : x # i => (Closing(x)' <=> Closing(x))
    BY DEF Closing
  <2>2. Returned(i)'
    BY <1>1 DEF Returned
  <2>3. ASSUME NEW x \in Ids, x # i PROVE Returned(x)' <=> Returned(x)
    BY <1>1, <2>3 DEF Returned
  <2> QED BY <2>1, <2>2, <2>3 DEF Waits, Leaves
<1>3. mapped[i] = Nobody /\ ~Waits(i) /\ ~Returned(i) /\ i \notin Active
  BY DEF Ways
<1>4. Ways'
  <2> SUFFICES ASSUME NEW x \in Ids
               PROVE  /\ x \notin Held' => ~Waits(x)' /\ mapped'[x] = Nobody /\ ~Closing(x)' /\ ~Returned(x)'
                      /\ x \in Active' => /\ ~Leaves(x)' /\ ~Closing(x)' /\ ~Returned(x)'
                                          /\ mapped'[x] = Peer \/ Waits(x)'
                      /\ x \in Withdrawn' => Leaves(x)' \/ Closing(x)' \/ Returned(x)'
                      /\ Closing(x)' \/ Returned(x)' => mapped'[x] = Nobody /\ ~Waits(x)'
                      /\ Closing(x)' => ~Returned(x)'
    BY DEF Ways
  <2>1. /\ x \notin Held => ~Waits(x) /\ mapped[x] = Nobody /\ ~Closing(x) /\ ~Returned(x)
        /\ x \in Active => ~Leaves(x) /\ ~Closing(x) /\ ~Returned(x) /\ (mapped[x] = Peer \/ Waits(x))
        /\ x \in Withdrawn => Leaves(x) \/ Closing(x) \/ Returned(x)
        /\ Closing(x) \/ Returned(x) => mapped[x] = Nobody /\ ~Waits(x)
        /\ Closing(x) => ~Returned(x)
    BY DEF Ways
  <2>2. Held' = Held /\ mapped' = mapped
    BY DEF Held
  <2>3. CASE x = i
    BY <1>2, <1>3, <2>1, <2>2, <2>3
  <2>4. CASE x # i
    BY <1>2, <2>1, <2>2, <2>4
  <2> QED BY <2>3, <2>4
<1>5. Turns'
  <2>1. /\ \A j, k \in DOMAIN lq' :
             j < k /\ lq'[j].id = lq'[k].id => lq'[j].op = "add" /\ lq'[k].op = "remove"
        /\ \A j \in DOMAIN lq' :
             IF lq'[j].op = "add" THEN mapped'[lq'[j].id] = Nobody
             ELSE mapped'[lq'[j].id] = Peer \/ \E k \in 1..j - 1 : lq'[k].id = lq'[j].id
        /\ \A j \in DOMAIN lq' : lq'[j].id \in Terms =>
             /\ mapped'[Host[lq'[j].id]] = Peer \/ \E k \in 1..j - 1 : lq'[k].id = Host[lq'[j].id]
             /\ \A k \in 1..j - 1 : lq'[k].id = Host[lq'[j].id] => lq'[k].op = "add"
        /\ \A t \in Terms : mapped'[t] = Peer => mapped'[Host[t]] = Peer
    BY DEF Turns
  <2>2. ASSUME NEW t \in Terms, Closing(t)' PROVE ~Returned(Host[t])'
    <3>1. t \in Ids /\ Host[t] \in Ids /\ Host[t] \in Servers /\ t # i /\ Closing(t)
      BY <1>2, <2>2, SessionIds
    <3>2. Host[t] # i /\ ~Returned(Host[t])
      BY <3>1 DEF Turns
    <3> QED BY <1>2, <3>1, <3>2
  <2>3. ASSUME NEW k \in 1..n + 1, NEW l \in 1..n + 1, released'[Peer][k] = released'[Peer][l]
        PROVE  k = l
    <3>1. \A j \in 1..n : r[j] # i
      BY <1>1, <1>3 DEF Returned
    <3>2. CASE k = n + 1 \/ l = n + 1
      BY <1>1, <2>3, <3>1, <3>2
    <3>3. CASE k # n + 1 /\ l # n + 1
      <4>1. k \in 1..n /\ l \in 1..n
        BY <1>1, <3>3
      <4> QED BY <1>1, <2>3, <4>1 DEF Turns
    <3> QED BY <3>2, <3>3
  <2>4. ASSUME NEW k \in 1..n + 1, NEW l \in 1..n + 1, released'[Peer][k] \in Terms,
               released'[Peer][l] = Host[released'[Peer][k]]
        PROVE  k < l
    <3>1. CASE k = n + 1
      <4>1. i \in Terms /\ Host[i] # i /\ ~Returned(Host[i])
        BY <1>1, <2>4, <3>1, SessionIds DEF Turns
      <4>2. l \in 1..n
        BY <1>1, <2>4, <3>1, <4>1
      <4> QED BY <1>1, <2>4, <3>1, <4>1, <4>2 DEF Returned
    <3>2. CASE k # n + 1 /\ l = n + 1
      BY <1>1, <3>2
    <3>3. CASE k # n + 1 /\ l # n + 1
      <4>1. k \in 1..n /\ l \in 1..n
        BY <1>1, <3>3
      <4> QED BY <1>1, <2>4, <4>1 DEF Turns
    <3> QED BY <3>1, <3>2, <3>3
  <2> HIDE DEF n, r
  <2> QED BY <1>1, <2>1, <2>2, <2>3, <2>4 DEF Turns
<1>6. Counts'
  BY DEF Counts, Mapped
<1> QED BY <1>4, <1>5, <1>6

\* A proxy that has come back: its terminals came before it.
LEMMA ReturnedFacts ==
  ASSUME SessionTypes, Books, Ways, Turns, released[Peer] # <<>>
  PROVE  LET i == Head(released[Peer])
         IN /\ i \in Ids /\ i \in Withdrawn /\ i \notin Active /\ i \notin Ignored
            /\ mapped[i] = Nobody /\ ~Waits(i) /\ ~Closing(i)
            /\ \A t \in Terms : Host[t] = i => t \notin Held
<1> DEFINE i == Head(released[Peer])
           r == released[Peer]
<1>1. i = r[1] /\ i \in Ids /\ 1 \in DOMAIN r /\ Returned(i) /\ Len(r) \in Nat /\ DOMAIN r = 1..Len(r)
  <2>1. r \in Seq(Ids) /\ r # <<>>
    BY DEF SessionTypes
  <2>2. Head(r) = r[1] /\ r[1] \in Ids /\ 1 \in DOMAIN r /\ Len(r) \in Nat /\ DOMAIN r = 1..Len(r)
    BY <2>1
  <2> QED BY <2>2 DEF Returned
<1> HIDE DEF i, r
<1>2. /\ i \in Held /\ i \notin Active
      /\ mapped[i] = Nobody /\ ~Waits(i) /\ ~Closing(i)
  BY <1>1 DEF Ways
<1>3. i \in Withdrawn /\ i \notin Ignored
  BY <1>2 DEF Held, Books
<1>4. ASSUME NEW t \in Terms, Host[t] = i, t \in Held PROVE FALSE
  <2>1. t \in Ids /\ t \notin Active
    BY <1>2, <1>4, SessionIds DEF Books
  <2>2. t \in Withdrawn
    BY <1>4, <2>1 DEF Held
  <2>3. Leaves(t) \/ Closing(t) \/ Returned(t)
    BY <2>1, <2>2 DEF Ways
  <2>4. CASE Leaves(t)
    <3>1. PICK j \in DOMAIN lq : lq[j].id = t
      BY <2>4 DEF Leaves
    <3>2. mapped[i] = Peer \/ \E k \in 1..j - 1 : lq[k].id = i
      BY <1>4, <3>1 DEF Turns
    <3>3. \A k \in 1..j - 1 : k \in DOMAIN lq
      BY <3>1, SessionFacts
    <3> QED BY <1>2, <3>2, <3>3, SessionIds DEF Waits
  <2>5. CASE Closing(t)
    BY <1>1, <1>4, <2>5 DEF Turns
  <2>6. CASE Returned(t)
    <3>1. PICK k \in DOMAIN r : r[k] = t
      BY <2>6 DEF Returned, r
    <3>2. k < 1
      BY <1>1, <1>4, <3>1 DEF Turns, r
    <3> QED BY <1>1, <3>1, <3>2
  <2> QED BY <2>3, <2>4, <2>5, <2>6
<1> QED BY <1>1, <1>2, <1>3, <1>4 DEF i

\* The proxy that came back first is forgotten.
LEMMA ForgottenWays ==
  ASSUME SessionTypes, Books, Ways, Turns, Counts, released[Peer] # <<>>,
         NEW i, i = Head(released[Peer]),
         released' = [released EXCEPT ![Peer] = Tail(@)],
         Active' = Active, Withdrawn' = Withdrawn \ {i},
         UNCHANGED <<mapped, lq, closing, nTerms>>
  PROVE  Ways' /\ Turns' /\ Counts'
<1> DEFINE r == released[Peer]
           n == Len(r)
<1>1. /\ n \in Nat \ {0} /\ DOMAIN r = 1..n /\ DOMAIN released'[Peer] = 1..n - 1 /\ i = r[1]
      /\ \A k \in 1..n - 1 : released'[Peer][k] = r[k + 1]
  <2>1. r \in Seq(Ids) /\ r # <<>> /\ released'[Peer] = Tail(r) /\ i = Head(r)
    BY DEF SessionTypes
  <2> HIDE DEF r
  <2> QED BY <2>1, FirstGone
<1>2. /\ i \in Ids /\ i \in Withdrawn /\ i \notin Active
      /\ mapped[i] = Nobody /\ ~Waits(i) /\ ~Closing(i)
  BY ReturnedFacts
<1> HIDE DEF n, r
<1>3. /\ ~Returned(i)' /\ \A x \in Ids : x # i => (Returned(x)' <=> Returned(x))
      /\ \A x \in Ids : (Waits(x)' <=> Waits(x)) /\ (Leaves(x)' <=> Leaves(x)) /\ (Closing(x)' <=> Closing(x))
  <2>1. ~Returned(i)'
    <3> SUFFICES ASSUME NEW k \in 1..n - 1, released'[Peer][k] = i PROVE FALSE
      BY <1>1 DEF Returned
    <3>0. released'[Peer][k] = r[k + 1] /\ r[1] = i
      BY <1>1
    <3>1. k + 1 \in 1..n /\ 1 \in 1..n /\ r[k + 1] = r[1]
      BY <1>1, <3>0
    <3>2. k + 1 = 1
      BY <1>1, <3>1 DEF Turns, r
    <3> QED BY <1>1, <3>2
  <2>2. ASSUME NEW x \in Ids, x # i PROVE Returned(x)' <=> Returned(x)
    <3>1. ASSUME NEW k \in DOMAIN r, r[k] = x PROVE Returned(x)'
      <4>1. k - 1 \in 1..n - 1 /\ (k - 1) + 1 = k
        BY <1>1, <2>2, <3>1
      <4> QED BY <1>1, <3>1, <4>1 DEF Returned
    <3>2. ASSUME NEW k \in 1..n - 1, released'[Peer][k] = x PROVE Returned(x)
      <4>1. k + 1 \in DOMAIN r
        BY <1>1
      <4> QED BY <1>1, <3>2, <4>1 DEF Returned, r
    <3> QED BY <1>1, <3>1, <3>2 DEF Returned, r
  <2> QED BY <2>1, <2>2 DEF Waits, Leaves, Closing
<1>4. Ways'
  <2> SUFFICES ASSUME NEW x \in Ids
               PROVE  /\ x \notin Held' => ~Waits(x)' /\ mapped'[x] = Nobody /\ ~Closing(x)' /\ ~Returned(x)'
                      /\ x \in Active' => /\ ~Leaves(x)' /\ ~Closing(x)' /\ ~Returned(x)'
                                          /\ mapped'[x] = Peer \/ Waits(x)'
                      /\ x \in Withdrawn' => Leaves(x)' \/ Closing(x)' \/ Returned(x)'
                      /\ Closing(x)' \/ Returned(x)' => mapped'[x] = Nobody /\ ~Waits(x)'
                      /\ Closing(x)' => ~Returned(x)'
    BY DEF Ways
  <2>1. /\ x \notin Held => ~Waits(x) /\ mapped[x] = Nobody /\ ~Closing(x) /\ ~Returned(x)
        /\ x \in Active => ~Leaves(x) /\ ~Closing(x) /\ ~Returned(x) /\ (mapped[x] = Peer \/ Waits(x))
        /\ x \in Withdrawn => Leaves(x) \/ Closing(x) \/ Returned(x)
        /\ Closing(x) \/ Returned(x) => mapped[x] = Nobody /\ ~Waits(x)
        /\ Closing(x) => ~Returned(x)
    BY DEF Ways
  <2>2. mapped' = mapped /\ Active' = Active /\ Withdrawn' = Withdrawn \ {i}
    OBVIOUS
  <2>3. Held' = Held \ {i}
    BY <1>2, <2>2 DEF Held
  <2>4. CASE x = i
    BY <1>2, <1>3, <2>2, <2>3, <2>4
  <2>5. CASE x # i
    BY <1>3, <2>1, <2>2, <2>3, <2>5
  <2> QED BY <2>4, <2>5
<1>5. Turns'
  <2>1. /\ \A j, k \in DOMAIN lq' :
             j < k /\ lq'[j].id = lq'[k].id => lq'[j].op = "add" /\ lq'[k].op = "remove"
        /\ \A j \in DOMAIN lq' :
             IF lq'[j].op = "add" THEN mapped'[lq'[j].id] = Nobody
             ELSE mapped'[lq'[j].id] = Peer \/ \E k \in 1..j - 1 : lq'[k].id = lq'[j].id
        /\ \A j \in DOMAIN lq' : lq'[j].id \in Terms =>
             /\ mapped'[Host[lq'[j].id]] = Peer \/ \E k \in 1..j - 1 : lq'[k].id = Host[lq'[j].id]
             /\ \A k \in 1..j - 1 : lq'[k].id = Host[lq'[j].id] => lq'[k].op = "add"
        /\ \A t \in Terms : mapped'[t] = Peer => mapped'[Host[t]] = Peer
    BY DEF Turns
  <2>2. ASSUME NEW t \in Terms, Closing(t)' PROVE ~Returned(Host[t])'
    <3>1. t \in Ids /\ Host[t] \in Ids /\ Closing(t)
      BY <1>3, <2>2, SessionIds
    <3>2. ~Returned(Host[t])
      BY <3>1 DEF Turns
    <3> QED BY <1>3, <3>1, <3>2
  <2>3. ASSUME NEW k \in 1..n - 1, NEW l \in 1..n - 1
        PROVE  /\ released'[Peer][k] = released'[Peer][l] => k = l
               /\ released'[Peer][k] \in Terms /\ released'[Peer][l] = Host[released'[Peer][k]] => k < l
    <3>1. k + 1 \in DOMAIN r /\ l + 1 \in DOMAIN r
      BY <1>1
    <3>2. /\ r[k + 1] = r[l + 1] => k + 1 = l + 1
          /\ r[k + 1] \in Terms /\ r[l + 1] = Host[r[k + 1]] => k + 1 < l + 1
      BY <3>1 DEF Turns, r
    <3>3. released'[Peer][k] = r[k + 1] /\ released'[Peer][l] = r[l + 1]
      BY <1>1
    <3>4. (k + 1 = l + 1 => k = l) /\ (k + 1 < l + 1 => k < l)
      BY <1>1
    <3> QED BY <3>2, <3>3, <3>4
  <2> QED BY <1>1, <2>1, <2>2, <2>3 DEF Turns
<1>6. Counts'
  BY DEF Counts, Mapped
<1> QED BY <1>4, <1>5, <1>6

\* The listener takes the first item.
LEMMA FirstItem ==
  ASSUME SessionTypes, lq # <<>>, lq' = Tail(lq)
  PROVE  /\ Len(lq) \in Nat \ {0} /\ DOMAIN lq = 1..Len(lq) /\ DOMAIN lq' = 1..Len(lq) - 1
         /\ 1 \in DOMAIN lq /\ Head(lq) = lq[1] /\ lq[1] \in Notes /\ lq' \in Seq(Notes)
         /\ \A j \in 1..Len(lq) - 1 : lq'[j] = lq[j + 1] /\ j + 1 \in DOMAIN lq /\ j + 1 > 1
         /\ \A j \in DOMAIN lq : j = 1 \/ (j - 1 \in DOMAIN lq' /\ lq'[j - 1] = lq[j])
         /\ \A j \in DOMAIN lq' : lq'[j].id \in Ids
<1>1. lq \in Seq(Notes)
  BY DEF SessionTypes, Notes
<1>2. /\ Tail(lq) \in Seq(Notes) /\ Head(lq) = lq[1] /\ lq[1] \in Notes /\ Len(lq) \in Nat \ {0}
      /\ DOMAIN Tail(lq) = 1..Len(lq) - 1 /\ DOMAIN lq = 1..Len(lq)
      /\ \A j \in 1..Len(lq) - 1 : Tail(lq)[j] = lq[j + 1]
  BY <1>1, FirstGone
<1>3. /\ 1 \in DOMAIN lq
      /\ \A j \in 1..Len(lq) - 1 : j + 1 \in DOMAIN lq /\ j + 1 > 1
      /\ \A j \in DOMAIN lq : j = 1 \/ (j - 1 \in 1..Len(lq) - 1 /\ (j - 1) + 1 = j)
  BY <1>2
<1>4. ASSUME NEW j \in 1..Len(lq) - 1 PROVE lq[j + 1].id \in Ids
  BY <1>3, SessionFacts
<1> QED BY <1>2, <1>3, <1>4

\* What the first item leaves to those behind it, whatever becomes of it.
LEMMA RestInTurn ==
  ASSUME SessionTypes, Turns, lq # <<>>, lq' = Tail(lq), NEW i, i = lq[1].id
  PROVE  /\ \A j, k \in DOMAIN lq' :
              j < k /\ lq'[j].id = lq'[k].id => lq'[j].op = "add" /\ lq'[k].op = "remove"
         /\ \A j \in DOMAIN lq' :
              /\ lq'[j].op = "add" => mapped[lq'[j].id] = Nobody /\ lq'[j].id # i
              /\ lq'[j].id = i => lq[1].op = "add" /\ lq'[j].op = "remove"
              /\ lq'[j].op # "add" =>
                   \/ mapped[lq'[j].id] = Peer \/ lq'[j].id = i
                   \/ \E k \in 1..j - 1 : lq'[k].id = lq'[j].id
              /\ lq'[j].id \in Terms =>
                   /\ \/ mapped[Host[lq'[j].id]] = Peer \/ Host[lq'[j].id] = i
                      \/ \E k \in 1..j - 1 : lq'[k].id = Host[lq'[j].id]
                   /\ \A k \in 1..j - 1 : lq'[k].id = Host[lq'[j].id] => lq'[k].op = "add"
                   /\ Host[lq'[j].id] = i => lq[1].op = "add"
         /\ lq[1].op # "add" => mapped[i] = Peer
         /\ lq[1].op = "add" => mapped[i] = Nobody
         /\ i \in Terms => mapped[Host[i]] = Peer
<1> DEFINE n == Len(lq)
<1>1. /\ n \in Nat \ {0} /\ DOMAIN lq = 1..n /\ DOMAIN lq' = 1..n - 1 /\ 1 \in DOMAIN lq
      /\ \A j \in 1..n - 1 : lq'[j] = lq[j + 1] /\ j + 1 \in DOMAIN lq /\ j + 1 > 1
  BY FirstItem
<1> HIDE DEF n
<1>2. ASSUME NEW j \in DOMAIN lq', NEW k \in DOMAIN lq', j < k, lq'[j].id = lq'[k].id
      PROVE  lq'[j].op = "add" /\ lq'[k].op = "remove"
  <2>1. j + 1 \in DOMAIN lq /\ k + 1 \in DOMAIN lq /\ lq'[j] = lq[j + 1] /\ lq'[k] = lq[k + 1]
    BY <1>1
  <2>2. j + 1 < k + 1
    BY <1>1, <1>2
  <2> QED BY <1>2, <2>1, <2>2 DEF Turns
<1>3. ASSUME NEW j \in DOMAIN lq'
      PROVE  /\ lq'[j].op = "add" => mapped[lq'[j].id] = Nobody /\ lq'[j].id # i
             /\ lq'[j].id = i => lq[1].op = "add" /\ lq'[j].op = "remove"
             /\ lq'[j].op # "add" =>
                  \/ mapped[lq'[j].id] = Peer \/ lq'[j].id = i
                  \/ \E k \in 1..j - 1 : lq'[k].id = lq'[j].id
             /\ lq'[j].id \in Terms =>
                  /\ \/ mapped[Host[lq'[j].id]] = Peer \/ Host[lq'[j].id] = i
                     \/ \E k \in 1..j - 1 : lq'[k].id = Host[lq'[j].id]
                  /\ \A k \in 1..j - 1 : lq'[k].id = Host[lq'[j].id] => lq'[k].op = "add"
                  /\ Host[lq'[j].id] = i => lq[1].op = "add"
  <2> DEFINE e == lq[j + 1]
  <2>1. lq'[j] = e /\ j + 1 \in DOMAIN lq /\ 1 < j + 1 /\ 1 \in 1..(j + 1) - 1 /\ j \in 1..n - 1
    BY <1>1
  <2>2. e.id = i => lq[1].op = "add" /\ e.op = "remove"
    BY <1>1, <2>1 DEF Turns
  <2>3. IF e.op = "add" THEN mapped[e.id] = Nobody
        ELSE mapped[e.id] = Peer \/ \E k \in 1..(j + 1) - 1 : lq[k].id = e.id
    BY <2>1 DEF Turns
  <2>4. e.id \in Terms =>
          /\ mapped[Host[e.id]] = Peer \/ \E k \in 1..(j + 1) - 1 : lq[k].id = Host[e.id]
          /\ \A k \in 1..(j + 1) - 1 : lq[k].id = Host[e.id] => lq[k].op = "add"
    BY <2>1 DEF Turns
  <2> HIDE DEF e
  <2>5. /\ \A k \in 1..(j + 1) - 1 : k = 1 \/ (k - 1 \in 1..j - 1 /\ lq'[k - 1] = lq[k])
        /\ \A k \in 1..j - 1 : k + 1 \in 1..(j + 1) - 1 /\ lq'[k] = lq[k + 1]
    <3>1. ASSUME NEW k \in 1..(j + 1) - 1, k # 1 PROVE k - 1 \in 1..j - 1 /\ lq'[k - 1] = lq[k]
      <4>1. k - 1 \in 1..j - 1 /\ k - 1 \in 1..n - 1 /\ (k - 1) + 1 = k
        BY <1>1, <2>1, <3>1
      <4> QED BY <1>1, <4>1
    <3>2. ASSUME NEW k \in 1..j - 1 PROVE k + 1 \in 1..(j + 1) - 1 /\ lq'[k] = lq[k + 1]
      <4>1. k + 1 \in 1..(j + 1) - 1 /\ k \in 1..n - 1
        BY <1>1, <2>1
      <4> QED BY <1>1, <4>1
    <3> QED BY <3>1, <3>2
  <2>6. \A x : (\E k \in 1..(j + 1) - 1 : lq[k].id = x) => x = i \/ \E k \in 1..j - 1 : lq'[k].id = x
    BY <2>5
  <2>7. e.id \in Terms =>
          /\ \A k \in 1..j - 1 : lq'[k].id = Host[e.id] => lq'[k].op = "add"
          /\ Host[e.id] = i => lq[1].op = "add"
    BY <2>1, <2>4, <2>5
  <2> QED BY <2>1, <2>2, <2>3, <2>4, <2>6, <2>7
<1>4. /\ lq[1].op # "add" => mapped[i] = Peer
      /\ lq[1].op = "add" => mapped[i] = Nobody
      /\ i \in Terms => mapped[Host[i]] = Peer
  <2>1. 1..1 - 1 = {}
    OBVIOUS
  <2> QED BY <1>1, <2>1 DEF Turns
<1> QED BY <1>2, <1>3, <1>4

\* What waits behind the first item.
LEMMA RestWaits ==
  ASSUME SessionTypes, Turns, lq # <<>>, lq' = Tail(lq), NEW i, i = lq[1].id
  PROVE  /\ \A x \in Ids : x # i => (Waits(x)' <=> Waits(x)) /\ (Leaves(x)' <=> Leaves(x))
         /\ Waits(i)
         /\ lq[1].op = "add" => (Leaves(i)' <=> Leaves(i))
         /\ lq[1].op # "add" => Leaves(i) /\ ~Waits(i)' /\ ~Leaves(i)'
<1> DEFINE n == Len(lq)
<1>1. /\ DOMAIN lq' = 1..n - 1 /\ 1 \in DOMAIN lq /\ lq[1].op \in {"add", "remove"}
      /\ \A j \in 1..n - 1 : lq'[j] = lq[j + 1] /\ j + 1 \in DOMAIN lq
      /\ \A j \in DOMAIN lq : j = 1 \/ (j - 1 \in DOMAIN lq' /\ lq'[j - 1] = lq[j])
  BY FirstItem DEF Notes
<1> HIDE DEF n
<1>2. ASSUME NEW x \in Ids, x # i
      PROVE  (Waits(x)' <=> Waits(x)) /\ (Leaves(x)' <=> Leaves(x))
  BY <1>1, <1>2 DEF Waits, Leaves
<1>3. Waits(i)
  BY <1>1 DEF Waits
<1>4. lq[1].op = "add" => (Leaves(i)' <=> Leaves(i))
  BY <1>1 DEF Leaves
<1>5. lq[1].op # "add" => Leaves(i) /\ ~Waits(i)' /\ ~Leaves(i)'
  <2>1. \A j \in DOMAIN lq' : lq'[j].id = i => lq[1].op = "add"
    BY RestInTurn
  <2> QED BY <1>1, <2>1 DEF Waits, Leaves
<1> QED BY <1>2, <1>3, <1>4, <1>5

\* What the sets of mapped terminals are, and how many they count.
LEMMA MappedFacts ==
  ASSUME NEW s \in Servers
  PROVE  IsFiniteSet(Mapped(s)) /\ Cardinality(Mapped(s)) \in Nat
<1>1. Mapped(s) \subseteq Ids
  BY SessionIds DEF Mapped
<1> QED BY <1>1, SessionIds, FS_Subset, FS_CardinalityType

\* A server's count goes up by one, or one less is expected.
LEMMA TermAdded ==
  ASSUME NEW p \in [n : Nat, starting : Nat]
  PROVE  /\ Session!AddTerm(p) \in [n : Nat, starting : Nat]
         /\ \A m \in Nat : p.n = p.starting + m =>
              Session!AddTerm(p).n = Session!AddTerm(p).starting + (m + 1)
<1>1. p.n \in Nat /\ p.starting \in Nat /\ p = [n |-> p.n, starting |-> p.starting]
  OBVIOUS
<1>2. CASE p.starting = 0
  <2>1. Session!AddTerm(p) = [n |-> p.n + 1, starting |-> p.starting]
    BY <1>1, <1>2 DEF Session!AddTerm
  <2> QED BY <1>1, <2>1
<1>3. CASE p.starting # 0
  <2>1. Session!AddTerm(p) = [n |-> p.n, starting |-> p.starting - 1]
    BY <1>1, <1>3 DEF Session!AddTerm
  <2>2. p.starting - 1 \in Nat
    BY <1>1, <1>3
  <2> QED BY <1>1, <2>1, <2>2
<1> QED BY <1>2, <1>3

\* The listener adds a proxy.
LEMMA AddedWays ==
  ASSUME SessionTypes, Ways, Turns, Counts, lq # <<>>, lq' = Tail(lq),
         NEW i, i = lq[1].id, lq[1].op = "add",
         mapped' = [mapped EXCEPT ![i] = Peer],
         IF i \in Servers THEN UNCHANGED nTerms
         ELSE nTerms' = [nTerms EXCEPT ![Peer][Host[i]] = Session!AddTerm(@)],
         Active' = Active, Withdrawn' = Withdrawn, UNCHANGED <<closing, released>>
  PROVE  /\ Ways' /\ Turns' /\ Counts'
         /\ nTerms' \in [{Peer} -> [Servers -> [n : Nat, starting : Nat]]]
<1>1. /\ i \in Ids /\ mapped[i] = Nobody /\ (i \in Terms => mapped[Host[i]] = Peer)
      /\ \A x \in Ids : mapped'[x] = IF x = i THEN Peer ELSE mapped[x]
  <2>1. i \in Ids
    BY FirstItem DEF Notes
  <2> QED BY <2>1, RestInTurn DEF SessionTypes
<1>2. /\ \A x \in Ids : x # i => (Waits(x)' <=> Waits(x)) /\ (Leaves(x)' <=> Leaves(x))
      /\ Waits(i) /\ (Leaves(i)' <=> Leaves(i))
      /\ \A x \in Ids : (Closing(x)' <=> Closing(x)) /\ (Returned(x)' <=> Returned(x))
  <2>1. \A x \in Ids : (Closing(x)' <=> Closing(x)) /\ (Returned(x)' <=> Returned(x))
    BY DEF Closing, Returned
  <2> QED BY <2>1, RestWaits
<1>3. Ways'
  <2> SUFFICES ASSUME NEW x \in Ids
               PROVE  /\ x \notin Held' => ~Waits(x)' /\ mapped'[x] = Nobody /\ ~Closing(x)' /\ ~Returned(x)'
                      /\ x \in Active' => /\ ~Leaves(x)' /\ ~Closing(x)' /\ ~Returned(x)'
                                          /\ mapped'[x] = Peer \/ Waits(x)'
                      /\ x \in Withdrawn' => Leaves(x)' \/ Closing(x)' \/ Returned(x)'
                      /\ Closing(x)' \/ Returned(x)' => mapped'[x] = Nobody /\ ~Waits(x)'
                      /\ Closing(x)' => ~Returned(x)'
    BY DEF Ways
  <2>1. /\ x \notin Held => ~Waits(x) /\ mapped[x] = Nobody /\ ~Closing(x) /\ ~Returned(x)
        /\ x \in Active => ~Leaves(x) /\ ~Closing(x) /\ ~Returned(x) /\ (mapped[x] = Peer \/ Waits(x))
        /\ x \in Withdrawn => Leaves(x) \/ Closing(x) \/ Returned(x)
        /\ Closing(x) \/ Returned(x) => mapped[x] = Nobody /\ ~Waits(x)
        /\ Closing(x) => ~Returned(x)
    BY DEF Ways
  <2>2. Held' = Held
    BY DEF Held
  <2>3. CASE x = i
    BY <1>1, <1>2, <2>1, <2>2, <2>3
  <2>4. CASE x # i
    BY <1>1, <1>2, <2>1, <2>2, <2>4
  <2> QED BY <2>3, <2>4
<1>4. Turns'
  <2>1. \A j, k \in DOMAIN lq' :
          j < k /\ lq'[j].id = lq'[k].id => lq'[j].op = "add" /\ lq'[k].op = "remove"
    BY RestInTurn
  <2>2. ASSUME NEW j \in DOMAIN lq'
        PROVE  /\ IF lq'[j].op = "add" THEN mapped'[lq'[j].id] = Nobody
                  ELSE mapped'[lq'[j].id] = Peer \/ \E k \in 1..j - 1 : lq'[k].id = lq'[j].id
               /\ lq'[j].id \in Terms =>
                    /\ \/ mapped'[Host[lq'[j].id]] = Peer
                       \/ \E k \in 1..j - 1 : lq'[k].id = Host[lq'[j].id]
                    /\ \A k \in 1..j - 1 : lq'[k].id = Host[lq'[j].id] => lq'[k].op = "add"
    <3>1. lq'[j].id \in Ids
      BY FirstItem
    <3>2. /\ lq'[j].op = "add" => mapped[lq'[j].id] = Nobody /\ lq'[j].id # i
          /\ lq'[j].op # "add" =>
               \/ mapped[lq'[j].id] = Peer \/ lq'[j].id = i
               \/ \E k \in 1..j - 1 : lq'[k].id = lq'[j].id
          /\ lq'[j].id \in Terms =>
               /\ \/ mapped[Host[lq'[j].id]] = Peer \/ Host[lq'[j].id] = i
                  \/ \E k \in 1..j - 1 : lq'[k].id = Host[lq'[j].id]
               /\ \A k \in 1..j - 1 : lq'[k].id = Host[lq'[j].id] => lq'[k].op = "add"
      BY RestInTurn
    <3>3. lq'[j].id \in Terms => Host[lq'[j].id] \in Ids
      BY SessionIds
    <3> QED BY <1>1, <3>1, <3>2, <3>3
  <2>3. ASSUME NEW t \in Terms
        PROVE  /\ mapped'[t] = Peer => mapped'[Host[t]] = Peer
               /\ Closing(t)' => ~Returned(Host[t])'
    <3>1. t \in Ids /\ Host[t] \in Ids
      BY SessionIds
    <3>2. (mapped[t] = Peer => mapped[Host[t]] = Peer) /\ (Closing(t) => ~Returned(Host[t]))
      BY DEF Turns
    <3> QED BY <1>1, <1>2, <3>1, <3>2
  <2>4. \A k, l \in DOMAIN released'[Peer] :
          /\ released'[Peer][k] = released'[Peer][l] => k = l
          /\ released'[Peer][k] \in Terms /\ released'[Peer][l] = Host[released'[Peer][k]] => k < l
    BY DEF Turns
  <2> QED BY <2>1, <2>2, <2>3, <2>4 DEF Turns
<1>5. /\ nTerms[Peer] \in [Servers -> [n : Nat, starting : Nat]] /\ nTerms \in [{Peer} -> [Servers -> [n : Nat, starting : Nat]]]
      /\ \A s \in Servers : nTerms[Peer][s].n \in Nat /\ nTerms[Peer][s].starting \in Nat
  BY DEF SessionTypes
<1>6. ASSUME NEW s \in Servers
      PROVE  nTerms'[Peer][s] = IF i \in Terms /\ s = Host[i] THEN Session!AddTerm(nTerms[Peer][s])
                                ELSE nTerms[Peer][s]
  <2>1. CASE i \in Servers
    BY <1>1, <2>1, SessionIds
  <2>2. CASE i \notin Servers
    BY <1>1, <1>5, <2>2, SessionIds
  <2> QED BY <2>1, <2>2
<1>8. nTerms' \in [{Peer} -> [Servers -> [n : Nat, starting : Nat]]]
  <2>1. CASE i \in Servers
    BY <1>5, <2>1
  <2>2. CASE i \notin Servers
    <3>1. Host[i] \in Servers /\ nTerms[Peer][Host[i]] \in [n : Nat, starting : Nat]
      BY <1>1, <1>5, <2>2, SessionIds
    <3>2. Session!AddTerm(nTerms[Peer][Host[i]]) \in [n : Nat, starting : Nat]
      BY <3>1, TermAdded
    <3> DEFINE p == Session!AddTerm(nTerms[Peer][Host[i]])
    <3>3. nTerms' = [nTerms EXCEPT ![Peer] = [nTerms[Peer] EXCEPT ![Host[i]] = p]]
      BY <2>2
    <3> HIDE DEF p
    <3>4. [nTerms[Peer] EXCEPT ![Host[i]] = p] \in [Servers -> [n : Nat, starting : Nat]]
      BY <1>5, <3>2 DEF p
    <3> QED BY <1>5, <3>3, <3>4
  <2> QED BY <2>1, <2>2
<1>9. Counts'
  <2> SUFFICES ASSUME NEW s \in Servers
               PROVE  /\ mapped'[s] = Peer =>
                           nTerms'[Peer][s].n = nTerms'[Peer][s].starting + Cardinality(Mapped(s)')
                      /\ (\E j \in DOMAIN lq' : lq'[j].id = s /\ lq'[j].op = "add") =>
                           nTerms'[Peer][s].n = nTerms'[Peer][s].starting
    BY DEF Counts
  <2>1. /\ mapped[s] = Peer => nTerms[Peer][s].n = nTerms[Peer][s].starting + Cardinality(Mapped(s))
        /\ (\E j \in DOMAIN lq : lq[j].id = s /\ lq[j].op = "add") =>
             nTerms[Peer][s].n = nTerms[Peer][s].starting
    BY DEF Counts
  <2>2. s \in Ids /\ nTerms[Peer][s] \in [n : Nat, starting : Nat]
    BY <1>5, SessionIds
  <2>3. (\E j \in DOMAIN lq' : lq'[j].id = s /\ lq'[j].op = "add") =>
          /\ s # i /\ mapped[s] = Nobody
          /\ \E j \in DOMAIN lq : lq[j].id = s /\ lq[j].op = "add"
    <3> SUFFICES ASSUME NEW j \in DOMAIN lq', lq'[j].id = s, lq'[j].op = "add"
                 PROVE  /\ s # i /\ mapped[s] = Nobody
                        /\ \E k \in DOMAIN lq : lq[k].id = s /\ lq[k].op = "add"
      OBVIOUS
    <3>1. j + 1 \in DOMAIN lq /\ lq'[j] = lq[j + 1]
      BY FirstItem
    <3>2. s # i /\ mapped[s] = Nobody
      BY RestInTurn
    <3> QED BY <3>1, <3>2
  <2>4. CASE i \in Terms /\ s = Host[i]
    <3>1. mapped[s] = Peer /\ s # i
      BY <1>1, <2>4, SessionIds
    <3>2. Mapped(s)' = Mapped(s) \cup {i} /\ i \notin Mapped(s)
      BY <1>1, <2>4, SessionIds DEF Mapped
    <3>3. Cardinality(Mapped(s)') = Cardinality(Mapped(s)) + 1
      BY <3>2, MappedFacts, FS_AddElement
    <3>4. nTerms'[Peer][s] = Session!AddTerm(nTerms[Peer][s])
      BY <1>6, <2>4
    <3>5. nTerms'[Peer][s].n = nTerms'[Peer][s].starting + Cardinality(Mapped(s)')
      BY <2>1, <2>2, <3>1, <3>3, <3>4, MappedFacts, TermAdded
    <3> QED BY <2>3, <3>1, <3>5, SessionIds
  <2>5. CASE s = i
    <3>1. i \notin Terms
      BY <2>5, SessionIds
    <3>2. nTerms'[Peer][s].n = nTerms'[Peer][s].starting
      <4>1. 1 \in DOMAIN lq
        BY FirstItem
      <4> QED BY <1>6, <2>1, <2>5, <3>1, <4>1
    <3>3. Mapped(s)' = {}
      <4> SUFFICES ASSUME NEW t \in Terms, Host[t] = s, mapped'[t] = Peer PROVE FALSE
        BY DEF Mapped
      <4>1. t # i /\ t \in Ids
        BY <3>1, SessionIds
      <4>2. mapped[t] = Peer
        BY <1>1, <4>1
      <4> QED BY <1>1, <2>5, <4>2, SessionIds DEF Turns
    <3> QED BY <1>5, <1>6, <2>2, <2>3, <2>5, <3>1, <3>2, <3>3, FS_EmptySet
  <2>6. CASE s # i /\ ~(i \in Terms /\ s = Host[i])
    <3>1. nTerms'[Peer][s] = nTerms[Peer][s] /\ mapped'[s] = mapped[s]
      BY <1>1, <1>6, <2>2, <2>6
    <3>2. Mapped(s)' = Mapped(s)
      BY <1>1, <2>6, SessionIds DEF Mapped
    <3> QED BY <2>1, <2>3, <3>1, <3>2
  <2> QED BY <2>4, <2>5, <2>6
<1> QED BY <1>3, <1>4, <1>8, <1>9

\* The listener takes a proxy back, and asks for its release.
LEMMA RemovedWays ==
  ASSUME SessionTypes, Books, Ways, Turns, lq # <<>>, lq' = Tail(lq),
         NEW i, i = lq[1].id, lq[1].op = "remove",
         mapped' = [mapped EXCEPT ![i] = Nobody],
         closing' = closing \cup {<<Peer, i>>},
         Active' = Active, Withdrawn' = Withdrawn, UNCHANGED released
  PROVE  Ways' /\ Turns'
<1>1. /\ i \in Ids /\ mapped[i] = Peer /\ (i \in Terms => mapped[Host[i]] = Peer)
      /\ \A x \in Ids : mapped'[x] = IF x = i THEN Nobody ELSE mapped[x]
  <2>1. i \in Ids
    BY FirstItem DEF Notes
  <2> QED BY <2>1, RestInTurn DEF SessionTypes
<1>2. /\ \A x \in Ids : x # i => (Waits(x)' <=> Waits(x)) /\ (Leaves(x)' <=> Leaves(x))
      /\ Leaves(i) /\ ~Waits(i)' /\ ~Leaves(i)'
      /\ Closing(i)' /\ \A x \in Ids : x # i => (Closing(x)' <=> Closing(x))
      /\ \A x \in Ids : Returned(x)' <=> Returned(x)
  <2>1. Closing(i)' /\ \A x \in Ids : x # i => (Closing(x)' <=> Closing(x))
    BY DEF Closing
  <2>2. \A x \in Ids : Returned(x)' <=> Returned(x)
    BY DEF Returned
  <2> QED BY <2>1, <2>2, RestWaits
<1>3. i \notin Active /\ ~Returned(i) /\ i \in Held
  BY <1>1, <1>2, SessionIds DEF Ways
<1>4. Ways'
  <2> SUFFICES ASSUME NEW x \in Ids
               PROVE  /\ x \notin Held' => ~Waits(x)' /\ mapped'[x] = Nobody /\ ~Closing(x)' /\ ~Returned(x)'
                      /\ x \in Active' => /\ ~Leaves(x)' /\ ~Closing(x)' /\ ~Returned(x)'
                                          /\ mapped'[x] = Peer \/ Waits(x)'
                      /\ x \in Withdrawn' => Leaves(x)' \/ Closing(x)' \/ Returned(x)'
                      /\ Closing(x)' \/ Returned(x)' => mapped'[x] = Nobody /\ ~Waits(x)'
                      /\ Closing(x)' => ~Returned(x)'
    BY DEF Ways
  <2>1. /\ x \notin Held => ~Waits(x) /\ mapped[x] = Nobody /\ ~Closing(x) /\ ~Returned(x)
        /\ x \in Active => ~Leaves(x) /\ ~Closing(x) /\ ~Returned(x) /\ (mapped[x] = Peer \/ Waits(x))
        /\ x \in Withdrawn => Leaves(x) \/ Closing(x) \/ Returned(x)
        /\ Closing(x) \/ Returned(x) => mapped[x] = Nobody /\ ~Waits(x)
        /\ Closing(x) => ~Returned(x)
    BY DEF Ways
  <2>2. Held' = Held
    BY DEF Held
  <2>3. CASE x = i
    BY <1>1, <1>2, <1>3, <2>2, <2>3
  <2>4. CASE x # i
    BY <1>1, <1>2, <2>1, <2>2, <2>4
  <2> QED BY <2>3, <2>4
<1>5. Turns'
  <2>1. \A j, k \in DOMAIN lq' :
          j < k /\ lq'[j].id = lq'[k].id => lq'[j].op = "add" /\ lq'[k].op = "remove"
    BY RestInTurn
  <2>0. \A j \in DOMAIN lq' :
              /\ lq'[j].op = "add" => mapped[lq'[j].id] = Nobody /\ lq'[j].id # i
              /\ lq'[j].id = i => lq[1].op = "add" /\ lq'[j].op = "remove"
              /\ lq'[j].op # "add" =>
                   \/ mapped[lq'[j].id] = Peer \/ lq'[j].id = i
                   \/ \E k \in 1..j - 1 : lq'[k].id = lq'[j].id
              /\ lq'[j].id \in Terms =>
                   /\ \/ mapped[Host[lq'[j].id]] = Peer \/ Host[lq'[j].id] = i
                      \/ \E k \in 1..j - 1 : lq'[k].id = Host[lq'[j].id]
                   /\ \A k \in 1..j - 1 : lq'[k].id = Host[lq'[j].id] => lq'[k].op = "add"
                   /\ Host[lq'[j].id] = i => lq[1].op = "add"
    BY RestInTurn
  <2>2. ASSUME NEW j \in DOMAIN lq'
        PROVE  /\ IF lq'[j].op = "add" THEN mapped'[lq'[j].id] = Nobody
                  ELSE mapped'[lq'[j].id] = Peer \/ \E k \in 1..j - 1 : lq'[k].id = lq'[j].id
               /\ lq'[j].id \in Terms =>
                    /\ \/ mapped'[Host[lq'[j].id]] = Peer
                       \/ \E k \in 1..j - 1 : lq'[k].id = Host[lq'[j].id]
                    /\ \A k \in 1..j - 1 : lq'[k].id = Host[lq'[j].id] => lq'[k].op = "add"
    <3>1. lq'[j].id \in Ids
      BY FirstItem
    <3>2. /\ lq'[j].op = "add" => mapped[lq'[j].id] = Nobody
          /\ lq'[j].id # i
          /\ lq'[j].op # "add" =>
               mapped[lq'[j].id] = Peer \/ \E k \in 1..j - 1 : lq'[k].id = lq'[j].id
          /\ lq'[j].id \in Terms =>
               /\ Host[lq'[j].id] # i
               /\ mapped[Host[lq'[j].id]] = Peer \/ \E k \in 1..j - 1 : lq'[k].id = Host[lq'[j].id]
               /\ \A k \in 1..j - 1 : lq'[k].id = Host[lq'[j].id] => lq'[k].op = "add"
      BY <2>0
    <3>3. lq'[j].id \in Terms => Host[lq'[j].id] \in Ids
      BY SessionIds
    <3> QED BY <1>1, <3>1, <3>2, <3>3
  <2>3. ASSUME NEW t \in Terms
        PROVE  /\ mapped'[t] = Peer => mapped'[Host[t]] = Peer
               /\ Closing(t)' => ~Returned(Host[t])'
    <3>1. t \in Ids /\ Host[t] \in Ids /\ Host[t] \in Servers /\ t \notin Servers
      BY SessionIds
    <3>2. (mapped[t] = Peer => mapped[Host[t]] = Peer) /\ (Closing(t) => ~Returned(Host[t]))
      BY DEF Turns
    <3>3. ASSUME mapped'[t] = Peer PROVE Host[t] # i
      <4> SUFFICES ASSUME Host[t] = i PROVE FALSE
        OBVIOUS
      <4>1. t # i /\ mapped[t] = Peer
        BY <1>1, <3>1, <3>3, SessionIds
      <4>2. t \in Held /\ t \notin Active
        BY <1>3, <3>1, <4>1, SessionIds DEF Ways, Books
      <4>3. Leaves(t)
        BY <3>1, <4>1, <4>2, SessionIds DEF Ways, Held
      <4>4. PICK j \in DOMAIN lq : lq[j].id = t
        BY <4>3 DEF Leaves
      <4>5. j # 1 /\ j - 1 \in DOMAIN lq' /\ lq'[j - 1] = lq[j]
        BY <4>1, <4>4, FirstItem
      <4>6. lq'[j - 1].id = t
        BY <4>4, <4>5
      <4>7. \A k \in DOMAIN lq' : lq'[k].id \in Terms => (Host[lq'[k].id] = i => lq[1].op = "add")
        BY RestInTurn
      <4> QED BY <4>5, <4>6, <4>7
    <3>4. Closing(t)' => ~Returned(Host[t])'
      <4>1. CASE t = i
        <5>1. mapped[Host[t]] = Peer
          BY <1>1, <4>1
        <5>2. ~Returned(Host[t])
          BY <3>1, <5>1, SessionIds DEF Ways
        <5> QED BY <1>2, <3>1, <5>2
      <4>2. CASE t # i
        BY <1>2, <3>1, <3>2, <4>2
      <4> QED BY <4>1, <4>2
    <3>5. mapped'[t] = Peer => mapped'[Host[t]] = Peer
      <4> SUFFICES ASSUME mapped'[t] = Peer PROVE mapped'[Host[t]] = Peer
        OBVIOUS
      <4>1. t # i /\ mapped[t] = Peer
        BY <1>1, <3>1, SessionIds
      <4> QED BY <1>1, <3>1, <3>2, <3>3, <4>1
    <3> QED BY <3>4, <3>5
  <2>4. \A k, l \in DOMAIN released'[Peer] :
          /\ released'[Peer][k] = released'[Peer][l] => k = l
          /\ released'[Peer][k] \in Terms /\ released'[Peer][l] = Host[released'[Peer][k]] => k < l
    BY DEF Turns
  <2> QED BY <2>1, <2>2, <2>3, <2>4 DEF Turns
<1> QED BY <1>4, <1>5

\* A server counts the terminals that are taken back.
LEMMA RemovedCounts ==
  ASSUME SessionTypes, Turns, Counts, lq # <<>>, lq' = Tail(lq),
         NEW i, i = lq[1].id, lq[1].op = "remove",
         mapped' = [mapped EXCEPT ![i] = Nobody],
         IF i \in Terms THEN nTerms' = [nTerms EXCEPT ![Peer][Host[i]].n = @ - 1]
         ELSE UNCHANGED nTerms
  PROVE  Counts' /\ nTerms' \in [{Peer} -> [Servers -> [n : Nat, starting : Nat]]]
<1>1. /\ i \in Ids /\ mapped[i] = Peer /\ (i \in Terms => mapped[Host[i]] = Peer)
      /\ \A x \in Ids : mapped'[x] = IF x = i THEN Nobody ELSE mapped[x]
  <2>1. i \in Ids
    BY FirstItem DEF Notes
  <2> QED BY <2>1, RestInTurn DEF SessionTypes
<1>6. /\ nTerms[Peer] \in [Servers -> [n : Nat, starting : Nat]] /\ nTerms \in [{Peer} -> [Servers -> [n : Nat, starting : Nat]]]
      /\ \A s \in Servers : nTerms[Peer][s].n \in Nat /\ nTerms[Peer][s].starting \in Nat
  BY DEF SessionTypes
<1>7. ASSUME NEW s \in Servers
      PROVE  /\ nTerms'[Peer][s].n = IF i \in Terms /\ s = Host[i] THEN nTerms[Peer][s].n - 1
                                     ELSE nTerms[Peer][s].n
             /\ nTerms'[Peer][s].starting = nTerms[Peer][s].starting
  <2>1. CASE i \in Terms
    <3>1. Host[i] \in Servers
      BY <2>1, SessionIds
    <3>2. nTerms' = [nTerms EXCEPT ![Peer][Host[i]].n = @ - 1]
      BY <2>1
    <3> QED BY <1>6, <2>1, <3>1, <3>2
  <2>2. CASE i \notin Terms
    BY <2>2
  <2> QED BY <2>1, <2>2
<1>8. ASSUME NEW s \in Servers, i \in Terms, s = Host[i]
      PROVE  /\ Mapped(s)' = Mapped(s) \ {i} /\ i \in Mapped(s)
             /\ Cardinality(Mapped(s)') = Cardinality(Mapped(s)) - 1
             /\ Cardinality(Mapped(s)) \in Nat \ {0}
             /\ nTerms[Peer][s].n = nTerms[Peer][s].starting + Cardinality(Mapped(s))
  <2>1. Mapped(s)' = Mapped(s) \ {i} /\ i \in Mapped(s)
    BY <1>1, <1>8, SessionIds DEF Mapped
  <2>2. /\ Cardinality(Mapped(s)') = Cardinality(Mapped(s)) - 1
        /\ Cardinality(Mapped(s)) \in Nat \ {0}
    <3>1. IsFiniteSet(Mapped(s)) /\ Cardinality(Mapped(s)) \in Nat
      BY MappedFacts
    <3>2. Cardinality(Mapped(s) \ {i}) = Cardinality(Mapped(s)) - 1
      BY <2>1, <3>1, FS_RemoveElement
    <3>3. Cardinality(Mapped(s)) # 0
      BY <2>1, <3>1, FS_EmptySet
    <3> QED BY <2>1, <3>1, <3>2, <3>3
  <2>3. nTerms[Peer][s].n = nTerms[Peer][s].starting + Cardinality(Mapped(s))
    BY <1>1, <1>8 DEF Counts
  <2> QED BY <2>1, <2>2, <2>3
<1>9. nTerms' \in [{Peer} -> [Servers -> [n : Nat, starting : Nat]]]
  <2>1. CASE i \in Terms
    <3>1. Host[i] \in Servers
      BY <2>1, SessionIds
    <3>2. nTerms[Peer][Host[i]].n - 1 \in Nat
      BY <1>6, <1>8, <2>1, <3>1
    <3> DEFINE p == [nTerms[Peer][Host[i]] EXCEPT !.n = @ - 1]
    <3>3. p \in [n : Nat, starting : Nat]
      BY <1>6, <3>1, <3>2
    <3>4. nTerms' = [nTerms EXCEPT ![Peer] = [nTerms[Peer] EXCEPT ![Host[i]] = p]]
      BY <2>1
    <3> HIDE DEF p
    <3>5. [nTerms[Peer] EXCEPT ![Host[i]] = p] \in [Servers -> [n : Nat, starting : Nat]]
      BY <1>6, <3>3
    <3> QED BY <1>6, <3>4, <3>5
  <2>2. CASE i \notin Terms
    BY <1>6, <2>2
  <2> QED BY <2>1, <2>2
<1>10. Counts'
  <2> SUFFICES ASSUME NEW s \in Servers
               PROVE  /\ mapped'[s] = Peer =>
                           nTerms'[Peer][s].n = nTerms'[Peer][s].starting + Cardinality(Mapped(s)')
                      /\ (\E j \in DOMAIN lq' : lq'[j].id = s /\ lq'[j].op = "add") =>
                           nTerms'[Peer][s].n = nTerms'[Peer][s].starting
    BY DEF Counts
  <2>1. /\ mapped[s] = Peer => nTerms[Peer][s].n = nTerms[Peer][s].starting + Cardinality(Mapped(s))
        /\ (\E j \in DOMAIN lq : lq[j].id = s /\ lq[j].op = "add") =>
             nTerms[Peer][s].n = nTerms[Peer][s].starting
    BY DEF Counts
  <2>2. s \in Ids
    BY SessionIds
  <2>3. (\E j \in DOMAIN lq' : lq'[j].id = s /\ lq'[j].op = "add") =>
          /\ s # i /\ mapped[s] = Nobody
          /\ \E j \in DOMAIN lq : lq[j].id = s /\ lq[j].op = "add"
    <3> SUFFICES ASSUME NEW j \in DOMAIN lq', lq'[j].id = s, lq'[j].op = "add"
                 PROVE  /\ s # i /\ mapped[s] = Nobody
                        /\ \E k \in DOMAIN lq : lq[k].id = s /\ lq[k].op = "add"
      OBVIOUS
    <3>1. j + 1 \in DOMAIN lq /\ lq'[j] = lq[j + 1]
      BY FirstItem
    <3>2. s # i /\ mapped[s] = Nobody
      BY RestInTurn
    <3> QED BY <3>1, <3>2
  <2>4. CASE i \in Terms /\ s = Host[i]
    <3>1. nTerms'[Peer][s].n = nTerms[Peer][s].n - 1 /\ nTerms'[Peer][s].starting = nTerms[Peer][s].starting
      BY <1>7, <2>4
    <3>2. nTerms'[Peer][s].n = nTerms'[Peer][s].starting + Cardinality(Mapped(s)')
      BY <1>6, <1>8, <2>4, <3>1
    <3>3. mapped[s] = Peer
      BY <1>1, <2>4
    <3> QED BY <2>3, <3>2, <3>3, SessionIds
  <2>5. CASE ~(i \in Terms /\ s = Host[i])
    <3>1. nTerms'[Peer][s].n = nTerms[Peer][s].n /\ nTerms'[Peer][s].starting = nTerms[Peer][s].starting
      BY <1>7, <2>5
    <3>2. mapped'[s] = Peer => mapped[s] = Peer
      BY <1>1, <2>2, SessionIds
    <3>3. Mapped(s)' = Mapped(s)
      BY <1>1, <2>5, SessionIds DEF Mapped
    <3> QED BY <2>1, <2>3, <3>1, <3>2, <3>3
  <2> QED BY <2>4, <2>5
<1> QED BY <1>9, <1>10

\* The connection's sets are those of p.
LEMMA NowIs ==
  ASSUME SessionTypes, NEW p \in Proxies, conn' = [conn EXCEPT ![Peer] = p]
  PROVE  /\ conn' \in [{Peer} -> Proxies] /\ conn'[Peer] = p
         /\ Known' = p.known /\ Ignored' = p.ignored /\ Active' = p.active /\ Withdrawn' = p.removing
         /\ Held' = p.active \cup p.removing
<1>1. conn' \in [{Peer} -> Proxies] /\ conn'[Peer] = p
  BY DEF SessionTypes
<1> QED BY <1>1 DEF Known, Ignored, Active, Withdrawn, Held

\* The connection's record and the names of its sets.
LEMMA NowFacts ==
  ASSUME SessionTypes
  PROVE  /\ conn[Peer] \in Proxies /\ conn \in [{Peer} -> Proxies]
         /\ Known = conn[Peer].known /\ Ignored = conn[Peer].ignored
         /\ Active = conn[Peer].active /\ Withdrawn = conn[Peer].removing /\ Held = Active \cup Withdrawn
  BY DEF SessionTypes, Known, Ignored, Active, Withdrawn, Held

\* What an announcement finds.
LEMMA Announcing ==
  ASSUME Kept, NEW i \in Ids, Session!PeerAnnounces(Peer, i)
  PROVE  /\ Session!Connected(Peer) /\ conn[Peer].have /\ ~conn[Peer].leaving /\ ~conn[Peer].draining
         /\ remote' \in [{Peer} -> SUBSET Ids] /\ remote'[Peer] = remote[Peer] \cup {i}
         /\ sent' \in [{Peer} -> [Ids -> Nat]] /\ sent'[Peer][i] = sent[Peer][i] + 1
         /\ \A x \in Ids : x # i => sent'[Peer][x] = sent[Peer][x]
         /\ UNCHANGED <<mapped, closing, released, down>>
         /\ i \notin remote[Peer] /\ i \notin Active /\ i \notin Ignored
         /\ i \in Known => i \in Withdrawn /\ i \in Terms /\ sent[Peer][i] >= 1
         /\ i \notin Known => i \notin Held
         /\ i \in Terms => Host[i] \in Active /\ Host[i] \in Known
<1>1. /\ SessionTypes /\ Books /\ Announced
  BY DEF Kept
<1>2. /\ Session!Receiving(Peer) /\ i \notin remote[Peer] /\ sent[Peer][i] < MaxAnnounces[i]
      /\ i \in Terms => Host[i] \in remote[Peer]
      /\ remote' = [remote EXCEPT ![Peer] = @ \cup {i}]
      /\ sent' = [sent EXCEPT ![Peer][i] = @ + 1]
      /\ UNCHANGED <<mapped, closing, released, down>>
  BY DEF Session!PeerAnnounces
<1>3. Session!Connected(Peer) /\ conn[Peer].have /\ ~conn[Peer].leaving /\ ~conn[Peer].draining
  BY <1>1, <1>2 DEF Session!Receiving, Session!Connected, Books
<1>4. /\ sent \in [{Peer} -> [Ids -> Nat]] /\ remote \in [{Peer} -> SUBSET Ids]
      /\ sent[Peer] \in [Ids -> Nat] /\ sent[Peer][i] \in Nat
  BY <1>1 DEF SessionTypes
<1>5. /\ remote' \in [{Peer} -> SUBSET Ids] /\ remote'[Peer] = remote[Peer] \cup {i}
  BY <1>2, <1>4
<1>6. /\ sent' \in [{Peer} -> [Ids -> Nat]] /\ sent'[Peer][i] = sent[Peer][i] + 1
      /\ \A x \in Ids : x # i => sent'[Peer][x] = sent[Peer][x]
  <2> DEFINE f == [sent[Peer] EXCEPT ![i] = @ + 1]
  <2>1. f \in [Ids -> Nat] /\ f[i] = sent[Peer][i] + 1 /\ \A x \in Ids : x # i => f[x] = sent[Peer][x]
    BY <1>4
  <2>2. sent' = [sent EXCEPT ![Peer] = f]
    BY <1>2
  <2> HIDE DEF f
  <2>3. sent'[Peer] = f /\ sent' \in [{Peer} -> [Ids -> Nat]]
    BY <1>4, <2>1, <2>2
  <2> QED BY <2>1, <2>3
<1>7. i \notin Active /\ i \notin Ignored
  BY <1>1, <1>2, <1>3 DEF Announced
<1>8. i \in Known => sent[Peer][i] >= 1 /\ i \in Withdrawn
  BY <1>1, <1>3, <1>7 DEF Announced, Books, Held
<1>9. i \in Known => i \in Terms
  <2> SUFFICES ASSUME i \in Known, i \in Servers PROVE FALSE
    BY SessionIds
  <2>1. MaxAnnounces[i] \in 0..1
    BY SessionIds
  <2> QED BY <1>2, <1>4, <1>8, <2>1
<1>10. i \notin Known => i \notin Held
  <2> SUFFICES ASSUME i \notin Known, i \in Withdrawn PROVE FALSE
    BY <1>7 DEF Held
  <2>1. sent[Peer][i] >= 2
    BY <1>1, <1>3 DEF Announced
  <2>2. MaxAnnounces[i] \in 0..2
    BY SessionIds
  <2> QED BY <1>2, <1>4, <2>1, <2>2
<1>11. i \in Terms => Host[i] \in Active /\ Host[i] \in Known
  <2> SUFFICES ASSUME i \in Terms PROVE Host[i] \in Active /\ Host[i] \in Known
    OBVIOUS
  <2>1. Host[i] \in Servers /\ Host[i] # Self /\ Host[i] \in remote[Peer]
    BY <1>2, SessionIds
  <2>2. Host[i] \in Active \cup Ignored
    BY <1>1, <1>3, <2>1 DEF Announced
  <2> QED BY <1>1, <2>1, <2>2 DEF Books
<1> QED BY <1>2, <1>3, <1>5, <1>6, <1>7, <1>8, <1>9, <1>10, <1>11

\* What the announced say once the peer has said one more.
LEMMA AnnouncedOne ==
  ASSUME Kept, NEW i \in Ids, Session!PeerAnnounces(Peer, i), Books', SessionTypes',
         Active \cup Ignored \subseteq Active' \cup Ignored',
         Active' \cup Ignored' \subseteq Active \cup Ignored \cup {i},
         Known' \cup {i} = Known \cup {i}, Known \subseteq Known', Withdrawn' = Withdrawn,
         \A x \in Ids : x # i => (<<Peer, x>> \in lost' <=> <<Peer, x>> \in lost),
         i \in Active' \cup Ignored' \/ (i \notin Servers /\ <<Peer, i>> \in lost')
  PROVE  Announced'
<1>1. /\ SessionTypes /\ Books /\ Announced /\ Session!Connected(Peer)
      /\ remote'[Peer] = remote[Peer] \cup {i} /\ i \notin remote[Peer]
      /\ sent'[Peer][i] = sent[Peer][i] + 1 /\ sent[Peer][i] \in Nat
      /\ \A x \in Ids : x # i => sent'[Peer][x] = sent[Peer][x]
      /\ i \in Known => sent[Peer][i] >= 1
      /\ i \notin Known => i \notin Held
      /\ remote[Peer] \subseteq Ids /\ Known \subseteq Ids /\ Withdrawn \subseteq Ids
  BY Announcing, SessionFacts DEF Kept
<1>2. /\ Active \cup Ignored \subseteq remote[Peer]
      /\ \A x \in remote[Peer] : x \in Servers \/ <<Peer, x>> \notin lost => x \in Active \cup Ignored
      /\ \A x \in Known \cup Withdrawn \cup remote[Peer] : sent[Peer][x] >= 1
      /\ \A x \in Withdrawn : x \in remote[Peer] \/ x \notin Known => sent[Peer][x] >= 2
  BY <1>1 DEF Announced
<1>3. Active' \cup Ignored' \subseteq remote'[Peer]
  BY <1>1, <1>2
<1>4. ASSUME NEW x \in remote'[Peer], x \in Servers \/ <<Peer, x>> \notin lost'
      PROVE  x \in Active' \cup Ignored'
  <2>1. CASE x = i
    BY <1>4, <2>1
  <2>2. CASE x # i
    BY <1>1, <1>2, <1>4, <2>2
  <2> QED BY <2>1, <2>2
<1>5. ASSUME NEW x \in Known' \cup Withdrawn' \cup remote'[Peer] PROVE sent'[Peer][x] >= 1
  <2>1. CASE x = i
    BY <1>1, <2>1
  <2>2. CASE x # i
    BY <1>1, <1>2, <1>5, <2>2
  <2> QED BY <2>1, <2>2
<1>6. ASSUME NEW x \in Withdrawn', x \in remote'[Peer] \/ x \notin Known' PROVE sent'[Peer][x] >= 2
  <2>1. CASE x = i
    BY <1>1, <1>6, <2>1 DEF Held
  <2>2. CASE x # i
    BY <1>1, <1>2, <1>6, <2>2
  <2> QED BY <2>1, <2>2
<1> QED BY <1>3, <1>4, <1>5, <1>6 DEF Announced

-----------------------------------------------------------------------------
(* The steps of a session *)

\* Nothing is known, held or under way at first.
LEMMA SessionBegins == Session!Init => Kept
<1> SUFFICES ASSUME Session!Init PROVE Kept
  OBVIOUS
<1>1. /\ conn = [c \in {Peer} |-> Session!NoProxies]
      /\ registered = [i \in Session!Ids |-> Nobody] /\ mapped = [i \in Session!Ids |-> Nobody]
      /\ lq = <<>> /\ closing = {} /\ released = [c \in {Peer} |-> <<>>]
      /\ nTerms = [c \in {Peer} |-> [s \in Servers |-> [n |-> 0, starting |-> 0]]]
      /\ remote = [c \in {Peer} |-> {}] /\ sent = [c \in {Peer} |-> [i \in Session!Ids |-> 0]]
      /\ down = FALSE
  BY DEF Session!Init
<1>2. Session!Ids = Ids
  BY DEF Session!Ids, Ids
<1>3. /\ conn[Peer] = Session!NoProxies /\ released[Peer] = <<>> /\ remote[Peer] = {}
      /\ \A i \in Ids : registered[i] = Nobody /\ mapped[i] = Nobody
      /\ DOMAIN lq = {} /\ DOMAIN released[Peer] = {}
  BY <1>1, <1>2
<1>4. /\ Session!NoProxies \in Proxies /\ ~conn[Peer].have /\ ~conn[Peer].leaving /\ ~conn[Peer].draining
      /\ Known = {} /\ Ignored = {} /\ Active = {} /\ Withdrawn = {} /\ Held = {}
  BY <1>3 DEF Session!NoProxies, Proxies, Known, Ignored, Active, Withdrawn, Held
<1>5. SessionTypes
  <2>1. conn \in [{Peer} -> Proxies] /\ released \in [{Peer} -> Seq(Ids)] /\ remote \in [{Peer} -> SUBSET Ids]
    BY <1>1, <1>4
  <2>2. sent \in [{Peer} -> [Ids -> Nat]]
    BY <1>1, <1>2
  <2>3. nTerms \in [{Peer} -> [Servers -> [n : Nat, starting : Nat]]]
    BY <1>1
  <2>4. /\ registered \in [Ids -> {Peer, Nobody}] /\ mapped \in [Ids -> {Peer, Nobody}]
        /\ lq \in Seq([op : {"add", "remove"}, conn : {Peer}, id : Ids])
        /\ closing \subseteq {Peer} \X Ids
    BY <1>1, <1>2
  <2> QED BY <2>1, <2>2, <2>3, <2>4 DEF SessionTypes
<1>6. Books
  BY <1>3, <1>4, SessionIds DEF Books
<1>7. Announced
  BY <1>4 DEF Announced, Session!Connected
<1>8. Ways
  BY <1>1, <1>3, <1>4 DEF Ways, Waits, Leaves, Closing, Returned
<1>9. Turns
  BY <1>1, <1>3, SessionIds DEF Turns, Closing, Returned
<1>10. Counts
  BY <1>3, SessionIds DEF Counts
<1> QED BY <1>1, <1>5, <1>6, <1>7, <1>8, <1>9, <1>10 DEF Kept

\* A connection of its own begins a session.
LEMMA ConnectKept ==
  ASSUME Kept, Session!Connect(Peer)
  PROVE  Kept'
<1>1. /\ SessionTypes /\ Books /\ Announced /\ Ways /\ Turns /\ Counts /\ ~down
  BY DEF Kept
<1> DEFINE p == [conn[Peer] EXCEPT !.have = TRUE]
<1>2. /\ ~conn[Peer].have /\ conn' = [conn EXCEPT ![Peer] = p]
      /\ UNCHANGED <<registered, mapped, lq, closing, released, nTerms, remote, sent, lost, down>>
  BY DEF Session!Connect
<1>3. /\ conn[Peer] \in Proxies
      /\ Known = conn[Peer].known /\ Ignored = conn[Peer].ignored
      /\ Active = conn[Peer].active /\ Withdrawn = conn[Peer].removing
  BY <1>1, NowFacts
<1>4. /\ p \in Proxies /\ p.have
      /\ p.known = Known /\ p.ignored = Ignored /\ p.active = Active /\ p.removing = Withdrawn
      /\ p.leaving = conn[Peer].leaving /\ p.draining = conn[Peer].draining
  BY <1>3 DEF Proxies
<1> HIDE DEF p
<1>5. /\ conn' \in [{Peer} -> Proxies] /\ conn'[Peer] = p
      /\ Known' = Known /\ Ignored' = Ignored /\ Active' = Active /\ Withdrawn' = Withdrawn
      /\ Held' = Held
  BY <1>1, <1>2, <1>4, NowIs DEF Held
<1>6. Known \cup Ignored \cup Held \cup remote[Peer] = {}
  BY <1>1, <1>2 DEF Books
<1>7. SessionTypes'
  BY <1>1, <1>2, <1>5 DEF SessionTypes
<1>8. Ways' /\ Turns' /\ Counts'
  BY <1>1, <1>2, <1>5, SameWays
<1>9. Books'
  BY <1>1, <1>2, <1>4, <1>5 DEF Books
<1>10. Announced'
  BY <1>2, <1>5, <1>6 DEF Announced, Held
<1> QED BY <1>1, <1>2, <1>7, <1>8, <1>9, <1>10 DEF Kept

\* A new id is registered.
LEMMA RegisterKept ==
  ASSUME Kept, NEW i \in Ids, Session!PeerAnnounces(Peer, i), i \notin Known,
         Session!Register(Peer, i), lost' = lost,
         IF i \in Terms THEN UNCHANGED nTerms
         ELSE \E n \in Nat : nTerms' = [nTerms EXCEPT ![Peer][i] = [n |-> n, starting |-> n]]
  PROVE  Kept'
<1>1. /\ SessionTypes /\ Books /\ Announced /\ Ways /\ Turns /\ Counts /\ ~down
  BY DEF Kept
<1> DEFINE p == [conn[Peer] EXCEPT !.known = @ \cup {i}, !.active = @ \cup {i}]
<1>2. /\ registered' = [registered EXCEPT ![i] = Peer]
      /\ lq' = Append(lq, [op |-> "add", conn |-> Peer, id |-> i])
      /\ conn' = [conn EXCEPT ![Peer] = p]
  BY DEF Session!Register
<1>3. /\ conn[Peer] \in Proxies
      /\ Known = conn[Peer].known /\ Ignored = conn[Peer].ignored
      /\ Active = conn[Peer].active /\ Withdrawn = conn[Peer].removing
  BY <1>1, NowFacts
<1>4. /\ p \in Proxies /\ p.have = conn[Peer].have
      /\ p.known = Known \cup {i} /\ p.ignored = Ignored /\ p.active = Active \cup {i}
      /\ p.removing = Withdrawn
      /\ p.leaving = conn[Peer].leaving /\ p.draining = conn[Peer].draining
  BY <1>3 DEF Proxies
<1> HIDE DEF p
<1>5. /\ conn' \in [{Peer} -> Proxies] /\ conn'[Peer] = p
      /\ Known' = Known \cup {i} /\ Ignored' = Ignored /\ Active' = Active \cup {i} /\ Withdrawn' = Withdrawn
      /\ Held' = Held \cup {i}
  BY <1>1, <1>2, <1>4, NowIs DEF Held
<1>6. /\ conn[Peer].have /\ ~conn[Peer].leaving /\ ~conn[Peer].draining
      /\ remote' \in [{Peer} -> SUBSET Ids]
      /\ sent' \in [{Peer} -> [Ids -> Nat]]
      /\ UNCHANGED <<mapped, closing, released, down>>
      /\ i \notin Ignored /\ i \notin Held
      /\ i \in Terms => Host[i] \in Active
  BY Announcing
<1>7. Ways' /\ Turns' /\ Counts'
  BY <1>1, <1>2, <1>5, <1>6, RegisteredWays
<1>8. SessionTypes'
  <2>1. lq' \in Seq([op : {"add", "remove"}, conn : {Peer}, id : Ids])
    BY <1>1, <1>2 DEF SessionTypes
  <2>2. registered' \in [Ids -> {Peer, Nobody}]
    BY <1>1, <1>2 DEF SessionTypes
  <2>3. nTerms' \in [{Peer} -> [Servers -> [n : Nat, starting : Nat]]]
    <3>1. CASE i \in Terms
      BY <1>1, <3>1 DEF SessionTypes
    <3>2. CASE i \notin Terms
      <4>1. i \in Servers
        BY <3>2, SessionIds
      <4>2. PICK n \in Nat : nTerms' = [nTerms EXCEPT ![Peer][i] = [n |-> n, starting |-> n]]
        BY <3>2
      <4> DEFINE f == [nTerms[Peer] EXCEPT ![i] = [n |-> n, starting |-> n]]
      <4>3. f \in [Servers -> [n : Nat, starting : Nat]]
        BY <1>1, <4>1 DEF SessionTypes
      <4>4. nTerms' = [nTerms EXCEPT ![Peer] = f]
        BY <4>2
      <4> HIDE DEF f
      <4> QED BY <1>1, <4>3, <4>4 DEF SessionTypes
    <3> QED BY <3>1, <3>2
  <2> QED BY <1>1, <1>5, <1>6, <2>1, <2>2, <2>3 DEF SessionTypes
<1>9. Books'
  <2>1. \A x \in Ids : registered'[x] = Peer <=> x \in Active'
    BY <1>1, <1>2, <1>5 DEF Books, SessionTypes
  <2>2. \A t \in Terms : /\ t \in Held' => Host[t] \in Held'
                         /\ t \in Active' => Host[t] \in Active'
    BY <1>1, <1>5, <1>6 DEF Books, Held
  <2>3. /\ Active' \cap Withdrawn' = {} /\ Ignored' \cap Held' = {} /\ Ignored' \subseteq {Self}
        /\ Active' \cup Ignored' \subseteq Known' /\ Known' \subseteq Held' \cup Ignored'
    BY <1>1, <1>5, <1>6 DEF Books, Held
  <2> QED BY <1>4, <1>5, <1>6, <2>1, <2>2, <2>3 DEF Books
<1>10. Announced'
  BY <1>5, <1>8, <1>9, AnnouncedOne
<1> QED BY <1>1, <1>6, <1>7, <1>8, <1>9, <1>10 DEF Kept

\* The server's own id is ignored.
LEMMA IgnoreKept ==
  ASSUME Kept, NEW i \in Servers, i = Self, Session!PeerAnnounces(Peer, i), i \notin Known,
         Session!Ignore(Peer, i), lost' = lost, UNCHANGED nTerms
  PROVE  Kept'
<1>1. /\ SessionTypes /\ Books /\ Announced /\ Ways /\ Turns /\ Counts /\ ~down
  BY DEF Kept
<1>i. i \in Ids /\ i \notin Terms
  BY SessionIds
<1> DEFINE p == [conn[Peer] EXCEPT !.known = @ \cup {i}, !.ignored = @ \cup {i}]
<1>2. conn' = [conn EXCEPT ![Peer] = p] /\ UNCHANGED <<registered, lq>>
  BY DEF Session!Ignore
<1>3. /\ conn[Peer] \in Proxies
      /\ Known = conn[Peer].known /\ Ignored = conn[Peer].ignored
      /\ Active = conn[Peer].active /\ Withdrawn = conn[Peer].removing
  BY <1>1, NowFacts
<1>4. /\ p \in Proxies /\ p.have = conn[Peer].have
      /\ p.known = Known \cup {i} /\ p.ignored = Ignored \cup {i} /\ p.active = Active
      /\ p.removing = Withdrawn
      /\ p.leaving = conn[Peer].leaving /\ p.draining = conn[Peer].draining
  BY <1>i, <1>3 DEF Proxies
<1> HIDE DEF p
<1>5. /\ conn' \in [{Peer} -> Proxies] /\ conn'[Peer] = p
      /\ Known' = Known \cup {i} /\ Ignored' = Ignored \cup {i} /\ Active' = Active /\ Withdrawn' = Withdrawn
      /\ Held' = Held
  BY <1>1, <1>2, <1>4, NowIs DEF Held
<1>6. /\ conn[Peer].have /\ ~conn[Peer].leaving /\ ~conn[Peer].draining
      /\ remote' \in [{Peer} -> SUBSET Ids]
      /\ sent' \in [{Peer} -> [Ids -> Nat]]
      /\ UNCHANGED <<mapped, closing, released, down>>
      /\ i \notin Ignored /\ i \notin Held
  BY <1>i, Announcing
<1>7. Ways' /\ Turns' /\ Counts'
  BY <1>1, <1>2, <1>5, <1>6, SameWays
<1>8. SessionTypes'
  BY <1>1, <1>2, <1>5, <1>6 DEF SessionTypes
<1>9. Books'
  <2>1. /\ Active' \cap Withdrawn' = {} /\ Ignored' \cap Held' = {} /\ Ignored' \subseteq {Self}
        /\ Active' \cup Ignored' \subseteq Known' /\ Known' \subseteq Held' \cup Ignored'
    BY <1>1, <1>5, <1>6 DEF Books, Held
  <2>2. /\ \A x \in Ids : registered'[x] = Peer <=> x \in Active'
        /\ \A t \in Terms : /\ t \in Held' => Host[t] \in Held'
                            /\ t \in Active' => Host[t] \in Active'
    BY <1>1, <1>2, <1>5 DEF Books
  <2> QED BY <1>4, <1>5, <1>6, <2>1, <2>2 DEF Books
<1>10. Announced'
  BY <1>i, <1>5, <1>8, <1>9, AnnouncedOne
<1> QED BY <1>1, <1>6, <1>7, <1>8, <1>9, <1>10 DEF Kept

\* A terminal whose old proxy is still on its way out is passed over.
LEMMA PassedOverKept ==
  ASSUME Kept, NEW i \in Terms, Session!PeerAnnounces(Peer, i), i \in Known,
         UNCHANGED <<conn, registered, lq, nTerms>>, lost' = lost \cup {<<Peer, i>>}
  PROVE  Kept'
<1>1. /\ SessionTypes /\ Books /\ Announced /\ Ways /\ Turns /\ Counts /\ ~down
  BY DEF Kept
<1>i. i \in Ids /\ i \notin Servers
  BY SessionIds
<1>5. Known' = Known /\ Ignored' = Ignored /\ Active' = Active /\ Withdrawn' = Withdrawn /\ Held' = Held
  BY DEF Known, Ignored, Active, Withdrawn, Held
<1>6. /\ conn[Peer].have
      /\ remote' \in [{Peer} -> SUBSET Ids]
      /\ sent' \in [{Peer} -> [Ids -> Nat]]
      /\ UNCHANGED <<mapped, closing, released, down>>
  BY <1>i, Announcing
<1>7. Ways' /\ Turns' /\ Counts'
  BY <1>1, <1>5, <1>6, SameWays
<1>8. SessionTypes'
  BY <1>1, <1>6 DEF SessionTypes
<1>9. Books'
  BY <1>1, <1>5, <1>6 DEF Books
<1>10. Announced'
  <2>1. <<Peer, i>> \in lost' /\ \A x \in Ids : x # i => (<<Peer, x>> \in lost' <=> <<Peer, x>> \in lost)
    OBVIOUS
  <2> QED BY <1>i, <1>5, <1>8, <1>9, <2>1, AnnouncedOne
<1> QED BY <1>1, <1>6, <1>7, <1>8, <1>9, <1>10 DEF Kept

\* The peer announces a server: it is registered, or it is this one.
LEMMA ServerAnnounceKept ==
  ASSUME Kept, NEW s \in Servers, NEW k \in 0..MaxInitial, Session!WireServerAnnounce(Peer, s, k)
  PROVE  Kept'
<1>1. s \in Ids /\ s \notin Terms /\ k \in Nat /\ Session!PeerAnnounces(Peer, s)
  BY SessionIds DEF Session!WireServerAnnounce
<1>2. /\ SessionTypes /\ Books /\ s \notin Known /\ s \notin Active /\ s \notin Withdrawn
      /\ Known = conn[Peer].known /\ Withdrawn = conn[Peer].removing
  BY <1>1, Announcing DEF Kept, Known, Withdrawn, Held
<1>3. lost' = lost
  BY <1>2 DEF Session!WireServerAnnounce
<1>4. Session!Unclaimed(s)
  BY <1>1, <1>2, SessionFacts DEF Session!Unclaimed, Books
<1>5. CASE s # Self
  <2>1. /\ Session!Register(Peer, s)
        /\ nTerms' = [nTerms EXCEPT ![Peer][s] = [n |-> k, starting |-> k]]
    BY <1>2, <1>4, <1>5 DEF Session!WireServerAnnounce
  <2> QED BY <1>1, <1>2, <1>3, <2>1, RegisterKept
<1>6. CASE s = Self
  <2>1. Session!Ignore(Peer, s) /\ UNCHANGED nTerms
    BY <1>2, <1>6 DEF Session!WireServerAnnounce
  <2> QED BY <1>1, <1>2, <1>3, <1>6, <2>1, IgnoreKept
<1> QED BY <1>5, <1>6

\* The peer announces a terminal: it is registered or passed over.
LEMMA TermAnnounceKept ==
  ASSUME Kept, NEW t \in Terms, Session!WireTermAnnounce(Peer, t)
  PROVE  Kept'
<1>1. t \in Ids /\ t \notin Servers /\ Session!PeerAnnounces(Peer, t)
  BY SessionIds DEF Session!WireTermAnnounce
<1>2. /\ SessionTypes /\ Books /\ t \notin Active /\ Host[t] \in Known
      /\ t \in Known => t \in Withdrawn
      /\ t \notin Known => t \notin Withdrawn
      /\ Known = conn[Peer].known /\ Withdrawn = conn[Peer].removing
  BY <1>1, Announcing DEF Kept, Known, Withdrawn, Held
<1>3. Session!Unclaimed(t)
  BY <1>1, <1>2, SessionFacts DEF Session!Unclaimed, Books
<1>4. CASE t \in Known
  <2>1. UNCHANGED <<conn, registered, lq, nTerms>> /\ lost' = lost \cup {<<Peer, t>>}
    BY <1>2, <1>4 DEF Session!WireTermAnnounce
  <2> QED BY <1>1, <1>4, <2>1, PassedOverKept
<1>5. CASE t \notin Known
  <2>1. Session!Register(Peer, t) /\ UNCHANGED nTerms /\ lost' = lost
    BY <1>1, <1>2, <1>3, <1>5 DEF Session!WireTermAnnounce
  <2> QED BY <1>1, <1>5, <2>1, RegisterKept
<1> QED BY <1>4, <1>5

\* An order visits the whole set, each element once.
LEMMA SessionOrders ==
  ASSUME NEW S, IsFiniteSet(S), NEW p \in Session!Orders(S)
  PROVE  \E m \in Nat : Visits(p, m, S)
<1> DEFINE n == Cardinality(S)
<1>1. n \in Nat
  BY FS_CardinalityType
<1>2. p \in [1..n -> S] /\ \A j, k \in 1..n : p[j] = p[k] => j = k
  <2>1. Session!Cardinality(S) = n
    BY DEF Session!Cardinality, Cardinality
  <2> HIDE DEF n
  <2> QED BY <2>1 DEF Session!Orders
<1>3. IsFiniteSet(1..n) /\ Cardinality(1..n) = n
  BY <1>1, FS_Interval
<1>4. p \in Injection(1..n, S)
  BY <1>2 DEF Injection, IsInjective
<1>5. p \in Surjection(1..n, S)
  BY <1>3, <1>4, FS_Injection
<1>6. \A i \in S : \E j \in 1..n : p[j] = i
  BY <1>5 DEF Surjection
<1>7. Visits(p, n, S)
  BY <1>2, <1>6 DEF Visits
<1> QED BY <1>1, <1>7

\* Two orders of disjoint sets, one after the other.
LEMMA SessionOrdersInTurn ==
  ASSUME NEW S, NEW T, IsFiniteSet(S), IsFiniteSet(T), S \cap T = {},
         NEW p \in Session!Orders(S), NEW q \in Session!Orders(T)
  PROVE  \E m \in Nat : /\ Visits(p \o q, m, S \cup T)
                        /\ \A j, k \in 1..m : j < k /\ (p \o q)[j] \in T => (p \o q)[k] \in T
<1> DEFINE t == p \o q
<1>1. PICK a \in Nat : /\ p \in [1..a -> S]
                       /\ \A j, k \in 1..a : p[j] = p[k] => j = k
                       /\ \A i \in S : \E j \in 1..a : p[j] = i
  BY SessionOrders DEF Visits
<1>2. PICK b \in Nat : /\ q \in [1..b -> T]
                       /\ \A j, k \in 1..b : q[j] = q[k] => j = k
                       /\ \A i \in T : \E j \in 1..b : q[j] = i
  BY SessionOrders DEF Visits
<1>3. /\ p \in Seq(S \cup T) /\ Len(p) = a
      /\ q \in Seq(S \cup T) /\ Len(q) = b
  <2>1. p \in [1..a -> S \cup T] /\ q \in [1..b -> S \cup T]
    BY <1>1, <1>2
  <2> QED BY <1>1, <1>2, <2>1
<1>4. /\ t \in [1..a + b -> S \cup T]
      /\ \A j \in 1..a + b : t[j] = IF j <= a THEN p[j] ELSE q[j - a]
  <2>1. /\ t \in Seq(S \cup T) /\ Len(t) = a + b
        /\ \A j \in 1..a + b : t[j] = IF j <= a THEN p[j] ELSE q[j - a]
    BY <1>3, ConcatProperties
  <2> HIDE DEF t
  <2> QED BY <2>1, LenProperties
<1> HIDE DEF t
<1>5. /\ \A j \in 1..a : j \in 1..a + b /\ t[j] = p[j]
      /\ \A j \in 1..b : a + j \in 1..a + b /\ t[a + j] = q[j]
      /\ \A j \in 1..a + b : j \in 1..a \/ (j - a \in 1..b /\ j = a + (j - a) /\ t[j] = q[j - a])
  <2>1. \A j \in 1..a : j \in 1..a + b /\ j <= a
    BY <1>1, <1>2
  <2>2. \A j \in 1..b : a + j \in 1..a + b /\ ~(a + j <= a) /\ (a + j) - a = j
    BY <1>1, <1>2
  <2>3. \A j \in 1..a + b : j \in 1..a \/ (j - a \in 1..b /\ j = a + (j - a) /\ ~(j <= a))
    BY <1>1, <1>2
  <2> QED BY <1>4, <2>1, <2>2, <2>3
<1>6. ASSUME NEW j \in 1..a + b, NEW k \in 1..a + b, t[j] = t[k]
      PROVE  j = k
  <2>1. CASE j \in 1..a /\ k \in 1..a
    BY <1>1, <1>5, <1>6, <2>1
  <2>2. CASE j \notin 1..a /\ k \notin 1..a
    BY <1>1, <1>2, <1>5, <1>6, <2>2
  <2>3. CASE ~(j \in 1..a <=> k \in 1..a)
    BY <1>1, <1>2, <1>5, <1>6, <2>3
  <2> QED BY <2>1, <2>2, <2>3
<1>7. ASSUME NEW i \in S \cup T PROVE \E j \in 1..a + b : t[j] = i
  <2>1. CASE i \in S
    <3>1. PICK j \in 1..a : p[j] = i
      BY <1>1, <2>1
    <3> QED BY <1>5, <3>1
  <2>2. CASE i \in T
    <3>1. PICK j \in 1..b : q[j] = i
      BY <1>2, <2>2
    <3> QED BY <1>5, <3>1
  <2> QED BY <2>1, <2>2
<1>8. ASSUME NEW j \in 1..a + b, NEW k \in 1..a + b, j < k, t[j] \in T
      PROVE  t[k] \in T
  <2>1. j \notin 1..a
    BY <1>1, <1>5, <1>8
  <2>2. k \notin 1..a
    BY <1>8, <2>1
  <2>3. k - a \in 1..b /\ t[k] = q[k - a]
    BY <1>5, <2>2
  <2> QED BY <1>2, <2>3
<1>9. a + b \in Nat
  BY <1>1, <1>2
<1>10. Visits(t, a + b, S \cup T)
  BY <1>4, <1>6, <1>7 DEF Visits
<1> QED BY <1>8, <1>9, <1>10 DEF t

\* The registry and the queue when active proxies are unregistered.
LEMMA Unregistered ==
  ASSUME SessionTypes, Books, NEW S \in SUBSET Active, NEW m \in Nat, NEW order,
         Visits(order, m, S), Session!Unregister(Peer, order)
  PROVE  /\ registered' \in [Ids -> {Peer, Nobody}]
         /\ \A x \in Ids : registered'[x] = Peer <=> x \in Active \ S
         /\ lq' = lq \o Leaving(m, order) /\ lq' \in Seq(Notes)
<1>v. /\ order \in [1..m -> S]
      /\ \A i \in S : \E j \in 1..m : order[j] = i
  BY DEF Visits
<1> USE <1>v
<1>1. /\ registered' = [i \in Session!Ids |-> IF \E j \in DOMAIN order : order[j] = i
                                              THEN Nobody ELSE registered[i]]
      /\ lq' = lq \o [j \in DOMAIN order |-> [op |-> "remove", conn |-> Peer, id |-> order[j]]]
      /\ DOMAIN order = 1..m /\ Session!Ids = Ids
  BY DEF Session!Unregister, Session!Ids, Ids
<1>2. S \subseteq Ids /\ order \in [1..m -> Ids] /\ lq \in Seq(Notes)
  BY SessionFacts DEF SessionTypes, Notes
<1>3. lq' = lq \o Leaving(m, order)
  BY <1>1 DEF Leaving
<1>4. lq' \in Seq(Notes)
  BY <1>2, <1>3, LeavingItems
<1>5. \A x \in Ids : (\E j \in DOMAIN order : order[j] = x) <=> x \in S
  BY <1>1
<1>6. \A x \in Ids : registered'[x] = IF x \in S THEN Nobody ELSE registered[x]
  BY <1>1, <1>5
<1>7. registered' \in [Ids -> {Peer, Nobody}]
  BY <1>1 DEF SessionTypes
<1>8. \A x \in Ids : registered'[x] = Peer <=> x \in Active \ S
  BY <1>6, SessionIds DEF Books
<1> QED BY <1>3, <1>4, <1>7, <1>8

\* Every active id is found in the registry.
LEMMA FoundActive ==
  ASSUME SessionTypes, Books, NEW S \in SUBSET Active
  PROVE  Session!Found(S) = S /\ IsFiniteSet(S) /\ S \subseteq Ids
<1>1. S \subseteq Ids /\ \A i \in S : registered[i] = Peer
  BY SessionFacts DEF Books
<1>2. Session!Found(S) = S
  BY <1>1, SessionIds DEF Session!Found
<1>3. IsFiniteSet(S)
  BY <1>1, SessionIds, FS_Subset
<1> QED BY <1>1, <1>2, <1>3

\* What a removal finds, and what it leaves of what was announced.
LEMMA RemovalFound ==
  ASSUME Kept, NEW i \in Ids, Session!WireRemove(Peer, i)
  PROVE  /\ Session!Connected(Peer) /\ conn[Peer].have /\ ~conn[Peer].leaving /\ ~conn[Peer].draining
         /\ i \in remote[Peer]
         /\ \A t \in Terms : i = Host[t] => t \notin Active
         /\ remote' \in [{Peer} -> SUBSET Ids] /\ remote'[Peer] = remote[Peer] \ {i}
         /\ UNCHANGED <<mapped, closing, released, nTerms, sent, down>>
         /\ \A x \in Ids : x # i => (<<Peer, x>> \in lost' <=> <<Peer, x>> \in lost)
<1>1. /\ SessionTypes /\ Books /\ Announced
  BY DEF Kept
<1>2. /\ Session!Receiving(Peer) /\ i \in remote[Peer]
      /\ i \in Servers => \A t \in Terms : Host[t] = i => t \notin remote[Peer]
      /\ remote' = [remote EXCEPT ![Peer] = @ \ {i}]
      /\ UNCHANGED <<mapped, closing, released, nTerms, sent, down>>
      /\ lost' = lost \ {<<Peer, i>>}
  BY DEF Session!WireRemove
<1>3. Session!Connected(Peer) /\ conn[Peer].have /\ ~conn[Peer].leaving /\ ~conn[Peer].draining
  BY <1>1, <1>2 DEF Session!Receiving, Session!Connected, Books
<1>4. remote' \in [{Peer} -> SUBSET Ids] /\ remote'[Peer] = remote[Peer] \ {i}
  <2>1. remote \in [{Peer} -> SUBSET Ids]
    BY <1>1 DEF SessionTypes
  <2> QED BY <1>2, <2>1
<1>5. \A t \in Terms : i = Host[t] => t \notin Active
  BY <1>1, <1>2, <1>3, SessionIds DEF Announced
<1>6. \A x \in Ids : x # i => (<<Peer, x>> \in lost' <=> <<Peer, x>> \in lost)
  BY <1>2
<1> QED BY <1>2, <1>3, <1>4, <1>5, <1>6

\* What was announced still holds when the peer has removed an id.
LEMMA AnnouncedLess ==
  ASSUME SessionTypes, Announced, Session!Connected(Peer), NEW i \in remote[Peer],
         remote'[Peer] = remote[Peer] \ {i}, sent' = sent,
         \A x \in Ids : x # i => (<<Peer, x>> \in lost' <=> <<Peer, x>> \in lost),
         Active' \cup Ignored' \subseteq (Active \cup Ignored) \ {i},
         (Active \cup Ignored) \ {i} \subseteq Active' \cup Ignored',
         Known' \subseteq Known, Withdrawn' \subseteq Withdrawn \cup (Known \cap {i}),
         \A x \in Withdrawn' : x \notin Known' => x \in Withdrawn /\ (x \notin Known \/ x = i)
  PROVE  Announced'
<1>1. /\ Active \cup Ignored \subseteq remote[Peer]
      /\ \A x \in remote[Peer] : x \in Servers \/ <<Peer, x>> \notin lost => x \in Active \cup Ignored
      /\ \A x \in Known \cup Withdrawn \cup remote[Peer] : sent[Peer][x] >= 1
      /\ \A x \in Withdrawn : x \in remote[Peer] \/ x \notin Known => sent[Peer][x] >= 2
      /\ remote[Peer] \subseteq Ids
  BY SessionFacts DEF Announced
<1>2. Active' \cup Ignored' \subseteq remote'[Peer]
  BY <1>1
<1>3. ASSUME NEW x \in remote'[Peer], x \in Servers \/ <<Peer, x>> \notin lost'
      PROVE  x \in Active' \cup Ignored'
  BY <1>1, <1>3
<1>4. \A x \in Known' \cup Withdrawn' \cup remote'[Peer] : sent'[Peer][x] >= 1
  BY <1>1
<1>5. \A x \in Withdrawn' : x \in remote'[Peer] \/ x \notin Known' => sent'[Peer][x] >= 2
  BY <1>1
<1> QED BY <1>2, <1>3, <1>4, <1>5 DEF Announced

\* The peer removes an id whose proxy is active: it is on its way out.
LEMMA RemoveActiveKept ==
  ASSUME Kept, NEW i \in Active, Session!WireRemove(Peer, i)
  PROVE  Kept'
<1>1. /\ SessionTypes /\ Books /\ Announced /\ Ways /\ Turns /\ Counts /\ ~down
  BY DEF Kept
<1>2. /\ conn[Peer] \in Proxies
      /\ Known = conn[Peer].known /\ Ignored = conn[Peer].ignored
      /\ Active = conn[Peer].active /\ Withdrawn = conn[Peer].removing
      /\ i \in Ids /\ i \in Known /\ i \notin Withdrawn /\ i \notin Ignored
  BY <1>1, NowFacts, SessionFacts DEF Books, Held
<1>3. /\ Session!Connected(Peer) /\ conn[Peer].have /\ ~conn[Peer].leaving /\ ~conn[Peer].draining
      /\ i \in remote[Peer]
      /\ \A t \in Terms : i = Host[t] => t \notin Active
      /\ remote' \in [{Peer} -> SUBSET Ids] /\ remote'[Peer] = remote[Peer] \ {i}
      /\ UNCHANGED <<mapped, closing, released, nTerms, sent, down>>
      /\ \A x \in Ids : x # i => (<<Peer, x>> \in lost' <=> <<Peer, x>> \in lost)
  BY <1>2, RemovalFound
<1> DEFINE p == Session!Removing(conn[Peer], i)
<1>4. PICK order \in Session!Orders(Session!Found({i})) :
        Session!Unregister(Peer, order) /\ conn' = [conn EXCEPT ![Peer] = p]
  BY <1>2 DEF Session!WireRemove
<1>5. /\ p \in Proxies /\ p.have = conn[Peer].have
      /\ p.known = Known /\ p.ignored = Ignored /\ p.active = Active \ {i}
      /\ p.removing = Withdrawn \cup {i}
      /\ p.leaving = conn[Peer].leaving /\ p.draining = conn[Peer].draining
  BY <1>2 DEF Session!Removing, Proxies
<1> HIDE DEF p
<1>6. /\ conn' \in [{Peer} -> Proxies] /\ conn'[Peer] = p
      /\ Known' = Known /\ Ignored' = Ignored /\ Active' = Active \ {i} /\ Withdrawn' = Withdrawn \cup {i}
      /\ Held' = Held
  <2>1. /\ conn' \in [{Peer} -> Proxies] /\ conn'[Peer] = p
        /\ Known' = p.known /\ Ignored' = p.ignored /\ Active' = p.active /\ Withdrawn' = p.removing
        /\ Held' = p.active \cup p.removing
    BY <1>1, <1>4, <1>5, NowIs
  <2>2. Held = Active \cup Withdrawn
    BY DEF Held
  <2> QED BY <1>5, <2>1, <2>2
<1> DEFINE S == {i}
<1>7. S \in SUBSET Active /\ \A x \in S : x = i
  OBVIOUS
<1>q. order \in Session!Orders(Session!Found(S)) /\ Active' = Active \ S /\ Withdrawn' = Withdrawn \cup S
  BY <1>4, <1>6
<1> HIDE DEF S
<1>r. Session!Found(S) = S /\ IsFiniteSet(S)
  BY <1>1, <1>7, FoundActive
<1>8. PICK m \in Nat : Visits(order, m, S)
  <2>1. order \in Session!Orders(S)
    BY <1>q, <1>r
  <2> QED BY <1>r, <2>1, SessionOrders
<1>9. /\ registered' \in [Ids -> {Peer, Nobody}]
      /\ \A x \in Ids : registered'[x] = Peer <=> x \in Active \ S
      /\ lq' = lq \o Leaving(m, order) /\ lq' \in Seq(Notes)
  BY <1>1, <1>4, <1>7, <1>8, Unregistered
<1>10. \A j, k \in 1..m : j < k /\ order[j] \in Servers => order[k] \in Servers
  BY <1>7, <1>8 DEF Visits
<1>11. Ways' /\ Turns' /\ Counts'
  BY <1>1, <1>3, <1>7, <1>8, <1>9, <1>10, <1>q, WithdrawnWays
<1>12. SessionTypes'
  BY <1>1, <1>3, <1>6, <1>9 DEF SessionTypes, Notes
<1>13. Books'
  <2>1. /\ Active' \cap Withdrawn' = {} /\ Ignored' \cap Held' = {} /\ Ignored' \subseteq {Self}
        /\ Active' \cup Ignored' \subseteq Known' /\ Known' \subseteq Held' \cup Ignored'
    BY <1>1, <1>6 DEF Books
  <2>2. \A t \in Terms : /\ t \in Held' => Host[t] \in Held'
                         /\ t \in Active' => Host[t] \in Active'
    BY <1>1, <1>3, <1>6 DEF Books
  <2> QED BY <1>3, <1>5, <1>6, <1>9, <1>q, <2>1, <2>2 DEF Books
<1>14. Announced'
  BY <1>1, <1>2, <1>3, <1>6, AnnouncedLess
<1> QED BY <1>1, <1>3, <1>11, <1>12, <1>13, <1>14 DEF Kept

\* An id that has no active proxy is forgotten.
LEMMA RemoveOtherKept ==
  ASSUME Kept, NEW i \in Ids, i \notin Active, Session!WireRemove(Peer, i)
  PROVE  Kept'
<1>1. /\ SessionTypes /\ Books /\ Announced /\ Ways /\ Turns /\ Counts /\ ~down
  BY DEF Kept
<1>2. /\ conn[Peer] \in Proxies
      /\ Known = conn[Peer].known /\ Ignored = conn[Peer].ignored
      /\ Active = conn[Peer].active /\ Withdrawn = conn[Peer].removing
  BY <1>1, NowFacts
<1>3. /\ Session!Connected(Peer) /\ conn[Peer].have /\ ~conn[Peer].leaving /\ ~conn[Peer].draining
      /\ i \in remote[Peer]
      /\ remote' \in [{Peer} -> SUBSET Ids] /\ remote'[Peer] = remote[Peer] \ {i}
      /\ UNCHANGED <<mapped, closing, released, nTerms, sent, down>>
      /\ \A x \in Ids : x # i => (<<Peer, x>> \in lost' <=> <<Peer, x>> \in lost)
  BY RemovalFound
<1>4. UNCHANGED <<registered, lq>>
  BY <1>2 DEF Session!WireRemove
<1> DEFINE p == [conn[Peer] EXCEPT !.known = @ \ {i}, !.ignored = @ \ {i}]
<1>5. /\ p \in Proxies /\ p.have = conn[Peer].have
      /\ p.known = Known \ {i} /\ p.ignored = Ignored \ {i} /\ p.active = Active /\ p.removing = Withdrawn
      /\ p.leaving = conn[Peer].leaving /\ p.draining = conn[Peer].draining
  BY <1>2 DEF Proxies
<1>6. CASE i \in Known
  <2>1. conn' = [conn EXCEPT ![Peer] = p]
    BY <1>2, <1>6 DEF Session!WireRemove
  <2> HIDE DEF p
  <2>2. /\ conn' \in [{Peer} -> Proxies] /\ conn'[Peer] = p
        /\ Known' = Known \ {i} /\ Ignored' = Ignored \ {i} /\ Active' = Active /\ Withdrawn' = Withdrawn
        /\ Held' = Held
    BY <1>1, <1>5, <2>1, NowIs DEF Held
  <2>3. Ways' /\ Turns' /\ Counts'
    BY <1>1, <1>3, <1>4, <2>2, SameWays
  <2>4. SessionTypes'
    BY <1>1, <1>3, <1>4, <2>2 DEF SessionTypes
  <2>5. /\ Active' \cap Withdrawn' = {} /\ Ignored' \cap Held' = {} /\ Ignored' \subseteq {Self}
        /\ Active' \cup Ignored' \subseteq Known' /\ Known' \subseteq Held' \cup Ignored'
    BY <1>1, <2>2 DEF Books
  <2>6. Books'
    BY <1>1, <1>3, <1>4, <1>5, <2>2, <2>5 DEF Books
  <2>7. Announced'
    BY <1>1, <1>3, <2>2, AnnouncedLess
  <2> QED BY <1>1, <1>3, <2>3, <2>4, <2>6, <2>7 DEF Kept
<1>7. CASE i \notin Known
  <2>1. UNCHANGED conn
    BY <1>2, <1>7 DEF Session!WireRemove
  <2>2. Known' = Known /\ Ignored' = Ignored /\ Active' = Active /\ Withdrawn' = Withdrawn /\ Held' = Held
    BY <2>1 DEF Known, Ignored, Active, Withdrawn, Held
  <2>3. Ways' /\ Turns' /\ Counts'
    BY <1>1, <1>3, <1>4, <2>2, SameWays
  <2>4. SessionTypes'
    BY <1>1, <1>3, <1>4, <2>1 DEF SessionTypes
  <2>5. Books'
    BY <1>1, <1>3, <1>4, <2>1, <2>2 DEF Books
  <2>6. i \notin Ignored
    BY <1>1, <1>7 DEF Books
  <2>7. Announced'
    BY <1>1, <1>3, <2>2, <2>6, AnnouncedLess
  <2> QED BY <1>1, <1>3, <2>3, <2>4, <2>5, <2>7 DEF Kept
<1> QED BY <1>6, <1>7

\* The peer removes an id.
LEMMA WireRemoveKept ==
  ASSUME Kept, NEW i \in Ids, Session!WireRemove(Peer, i)
  PROVE  Kept'
  BY RemoveActiveKept, RemoveOtherKept

\* A session is over: the next one starts afresh.
LEMMA SessionEnds ==
  ASSUME SessionTypes, Session!SessionOver(Peer)
  PROVE  /\ remote' \in [{Peer} -> SUBSET Ids] /\ remote'[Peer] = {}
         /\ sent' \in [{Peer} -> [Ids -> Nat]]
<1>1. /\ remote' = [remote EXCEPT ![Peer] = {}]
      /\ sent' = [sent EXCEPT ![Peer] = [i \in Ids |-> 0]]
  BY DEF Session!SessionOver, Session!Ids, Ids
<1>2. remote \in [{Peer} -> SUBSET Ids] /\ sent \in [{Peer} -> [Ids -> Nat]]
  BY DEF SessionTypes
<1>3. [i \in Ids |-> 0] \in [Ids -> Nat]
  OBVIOUS
<1> QED BY <1>1, <1>2, <1>3

\* Nothing is left of a connection that holds no proxy.
LEMMA NothingHeld ==
  ASSUME SessionTypes, NEW p \in Proxies, p.active = {}, p.removing = {}
  PROVE  /\ Session!Over(p) \in Proxies
         /\ conn' = [conn EXCEPT ![Peer] = Session!Over(p)] =>
              /\ conn' \in [{Peer} -> Proxies]
              /\ ~conn'[Peer].have /\ ~conn'[Peer].leaving /\ ~conn'[Peer].draining
              /\ Known' = {} /\ Ignored' = {} /\ Active' = {} /\ Withdrawn' = {} /\ Held' = {}
<1> DEFINE o == Session!Over(p)
<1>1. /\ o \in Proxies /\ ~o.have /\ ~o.leaving /\ ~o.draining
      /\ o.known = {} /\ o.ignored = {} /\ o.active = {} /\ o.removing = {}
  BY DEF Session!Over, Session!NoProxies, Proxies
<1> HIDE DEF o
<1>2. ASSUME conn' = [conn EXCEPT ![Peer] = o]
      PROVE  /\ conn' \in [{Peer} -> Proxies]
             /\ ~conn'[Peer].have /\ ~conn'[Peer].leaving /\ ~conn'[Peer].draining
             /\ Known' = {} /\ Ignored' = {} /\ Active' = {} /\ Withdrawn' = {} /\ Held' = {}
  BY <1>1, <1>2, NowIs
<1> QED BY <1>1, <1>2 DEF o

\* The connection is cut: every active proxy is on its way out.
LEMMA DisconnectKept ==
  ASSUME Kept, NEW more \in BOOLEAN, Session!Disconnect(Peer, more)
  PROVE  Kept'
<1>1. /\ SessionTypes /\ Books /\ Announced /\ Ways /\ Turns /\ Counts /\ ~down
  BY DEF Kept
<1>2. /\ conn[Peer] \in Proxies
      /\ Known = conn[Peer].known /\ Ignored = conn[Peer].ignored
      /\ Active = conn[Peer].active /\ Withdrawn = conn[Peer].removing /\ Held = Active \cup Withdrawn
      /\ Active \subseteq Ids /\ Withdrawn \subseteq Ids
  BY <1>1, NowFacts, SessionFacts
<1> DEFINE left == [conn[Peer] EXCEPT !.removing = @ \cup conn[Peer].active, !.active = {}]
           ending == [left EXCEPT !.leaving = TRUE, !.draining = more]
<1>3. /\ Session!Connected(Peer) /\ more = FALSE /\ Session!UnregisterActive(Peer)
      /\ IF left.removing \cap Servers = {}
         THEN conn' = [conn EXCEPT ![Peer] = Session!Over(left)] /\ Session!SessionOver(Peer)
         ELSE conn' = [conn EXCEPT ![Peer] = ending] /\ UNCHANGED <<remote, sent>>
      /\ UNCHANGED <<mapped, closing, released, nTerms, down>>
  BY DEF Session!Disconnect, Session!peerVars
<1>4. /\ conn[Peer].have /\ ~conn[Peer].leaving /\ ~conn[Peer].draining
  BY <1>1, <1>3 DEF Session!Connected, Books
<1>5. /\ left \in Proxies /\ left.known = Known /\ left.ignored = Ignored /\ left.active = {}
      /\ left.removing = Held /\ left.have
  BY <1>2, <1>4 DEF Proxies
<1>6. /\ ending \in Proxies /\ ending.known = Known /\ ending.ignored = Ignored /\ ending.active = {}
      /\ ending.removing = Held /\ ending.have /\ ~ending.draining
  BY <1>3, <1>5 DEF Proxies
<1> HIDE DEF left, ending
<1> DEFINE A == Active \cap Terms
           B == Active \cap Servers
<1>7. /\ A \in SUBSET Active /\ B \in SUBSET Active /\ A \cap B = {} /\ A \cup B = Active
      /\ \A x \in Active : x \in B <=> x \in Servers
  BY <1>2, SessionIds
<1>8. PICK p \in Session!Orders(Session!Found(A)), q \in Session!Orders(Session!Found(B)) :
        Session!Unregister(Peer, p \o q)
  BY <1>2, <1>3 DEF Session!UnregisterActive
<1> HIDE DEF A, B
<1>9. Session!Found(A) = A /\ IsFiniteSet(A) /\ Session!Found(B) = B /\ IsFiniteSet(B)
  BY <1>1, <1>7, FoundActive
<1>10. p \in Session!Orders(A) /\ q \in Session!Orders(B)
  BY <1>8, <1>9
<1> DEFINE order == p \o q
<1>11. PICK m \in Nat : /\ Visits(order, m, A \cup B)
                        /\ \A j, k \in 1..m : j < k /\ order[j] \in B => order[k] \in B
  BY <1>7, <1>9, <1>10, SessionOrdersInTurn
<1>u. Session!Unregister(Peer, order)
  BY <1>8
<1> HIDE DEF order
<1>12. Visits(order, m, Active)
  BY <1>7, <1>11
<1>13. \A j, k \in 1..m : j < k /\ order[j] \in Servers => order[k] \in Servers
  <2>1. \A j \in 1..m : order[j] \in Active
    BY <1>12 DEF Visits
  <2> QED BY <1>7, <1>11, <2>1
<1>14. /\ registered' \in [Ids -> {Peer, Nobody}]
       /\ \A x \in Ids : registered'[x] # Peer
       /\ lq' = lq \o Leaving(m, order) /\ lq' \in Seq(Notes)
  BY <1>1, <1>12, <1>u, Unregistered
<1>15. CASE left.removing \cap Servers # {}
  <2>1. conn' = [conn EXCEPT ![Peer] = ending] /\ UNCHANGED <<remote, sent>>
    BY <1>3, <1>15
  <2>2. /\ conn' \in [{Peer} -> Proxies] /\ conn'[Peer] = ending
        /\ Known' = Known /\ Ignored' = Ignored /\ Active' = {} /\ Withdrawn' = Held /\ Held' = Held
    BY <1>1, <1>6, <2>1, NowIs
  <2>3. Ways' /\ Turns' /\ Counts'
    <3>1. Active' = Active \ Active /\ Withdrawn' = Withdrawn \cup Active
      BY <1>2, <2>2
    <3> QED BY <1>1, <1>3, <1>12, <1>13, <1>14, <3>1, WithdrawnWays
  <2>4. SessionTypes'
    BY <1>1, <1>3, <1>14, <2>1, <2>2 DEF SessionTypes, Notes
  <2>5. /\ Active' \cap Withdrawn' = {} /\ Ignored' \cap Held' = {} /\ Ignored' \subseteq {Self}
        /\ Active' \cup Ignored' \subseteq Known' /\ Known' \subseteq Held' \cup Ignored'
    BY <1>1, <2>2 DEF Books
  <2>6. Books'
    BY <1>1, <1>6, <1>14, <2>2, <2>5 DEF Books
  <2>7. Announced'
    <3>1. ending.leaving
      BY <1>5 DEF Proxies, ending
    <3> QED BY <2>2, <3>1 DEF Announced, Session!Connected
  <2> QED BY <1>1, <1>3, <2>3, <2>4, <2>6, <2>7 DEF Kept
<1>16. CASE left.removing \cap Servers = {}
  <2>1. Held = {}
    <3>1. Held \cap Servers = {}
      BY <1>5, <1>16
    <3>2. \A t \in Terms : t \notin Held
      BY <1>1, <3>1, SessionIds DEF Books
    <3> QED BY <1>2, <3>1, <3>2, SessionIds
  <2>2. conn' = [conn EXCEPT ![Peer] = Session!Over(left)] /\ Session!SessionOver(Peer)
    BY <1>3, <1>16
  <2>3. /\ conn' \in [{Peer} -> Proxies]
        /\ ~conn'[Peer].have /\ ~conn'[Peer].leaving /\ ~conn'[Peer].draining
        /\ Known' = {} /\ Ignored' = {} /\ Active' = {} /\ Withdrawn' = {} /\ Held' = {}
    BY <1>1, <1>5, <2>1, <2>2, NothingHeld
  <2>4. /\ remote' \in [{Peer} -> SUBSET Ids] /\ remote'[Peer] = {}
        /\ sent' \in [{Peer} -> [Ids -> Nat]]
    BY <1>1, <2>2, SessionEnds
  <2>5. Ways' /\ Turns' /\ Counts'
    <3>1. Active' = Active \ Active /\ Withdrawn' = Withdrawn \cup Active
      BY <1>2, <2>1, <2>3
    <3> QED BY <1>1, <1>3, <1>12, <1>13, <1>14, <3>1, WithdrawnWays
  <2>6. SessionTypes'
    BY <1>1, <1>3, <1>14, <2>3, <2>4 DEF SessionTypes, Notes
  <2>7. Books'
    BY <1>14, <2>3, <2>4 DEF Books
  <2>8. Announced'
    BY <2>3 DEF Announced, Session!Connected
  <2> QED BY <1>1, <1>3, <2>5, <2>6, <2>7, <2>8 DEF Kept
<1> QED BY <1>15, <1>16

\* A proxy is back and forgotten; with the last server's the session is over.
LEMMA ReleasedKept ==
  ASSUME Kept, Session!HandleReleased(Peer)
  PROVE  Kept'
<1>1. /\ SessionTypes /\ Books /\ Announced /\ Ways /\ Turns /\ Counts /\ ~down
  BY DEF Kept
<1> DEFINE i == Head(released[Peer])
           left == Session!Forget(conn[Peer], i)
<1>2. /\ released[Peer] # <<>> /\ released' = [released EXCEPT ![Peer] = Tail(@)]
      /\ IF Session!LastServer(conn[Peer], i)
         THEN conn' = [conn EXCEPT ![Peer] = Session!Over(left)] /\ Session!SessionOver(Peer)
         ELSE conn' = [conn EXCEPT ![Peer] = left] /\ UNCHANGED <<remote, sent, lost>>
      /\ UNCHANGED <<registered, mapped, lq, closing, nTerms, down>>
  BY DEF Session!HandleReleased, Session!peerVars
<1>3. /\ i \in Ids /\ i \in Withdrawn /\ i \notin Active /\ i \notin Ignored
      /\ \A t \in Terms : Host[t] = i => t \notin Held
  BY <1>1, <1>2, ReturnedFacts
<1>4. /\ conn[Peer] \in Proxies
      /\ Known = conn[Peer].known /\ Ignored = conn[Peer].ignored
      /\ Active = conn[Peer].active /\ Withdrawn = conn[Peer].removing /\ Held = Active \cup Withdrawn
      /\ Active \subseteq Ids /\ Withdrawn \subseteq Ids
  BY <1>1, NowFacts, SessionFacts
<1>5. PICK x : x = i
  OBVIOUS
<1>6. /\ left \in Proxies /\ left.known = Known \ {x} /\ left.ignored = Ignored /\ left.active = Active
      /\ left.removing = Withdrawn \ {x} /\ left.have = conn[Peer].have
      /\ left.leaving = conn[Peer].leaving /\ left.draining = conn[Peer].draining
  BY <1>4, <1>5 DEF Session!Forget, Proxies
<1>7. released' \in [{Peer} -> Seq(Ids)]
  BY <1>1, <1>2 DEF SessionTypes
<1>8. conn[Peer].have
  BY <1>1, <1>3 DEF Books, Held
<1> HIDE DEF left
<1>9. CASE ~Session!LastServer(conn[Peer], i)
  <2>1. conn' = [conn EXCEPT ![Peer] = left] /\ UNCHANGED <<remote, sent, lost>>
    BY <1>2, <1>9
  <2>2. /\ conn' \in [{Peer} -> Proxies] /\ conn'[Peer] = left
        /\ Known' = Known \ {x} /\ Ignored' = Ignored /\ Active' = Active /\ Withdrawn' = Withdrawn \ {x}
        /\ Held' = Held \ {x}
    <3>1. /\ conn' \in [{Peer} -> Proxies] /\ conn'[Peer] = left
          /\ Known' = left.known /\ Ignored' = left.ignored /\ Active' = left.active
          /\ Withdrawn' = left.removing /\ Held' = left.active \cup left.removing
      BY <1>1, <1>6, <2>1, NowIs
    <3> QED BY <1>3, <1>4, <1>5, <1>6, <3>1
  <2>3. Ways' /\ Turns' /\ Counts'
    BY <1>1, <1>2, <1>5, <2>2, ForgottenWays
  <2>4. SessionTypes'
    BY <1>1, <1>2, <1>7, <2>1, <2>2 DEF SessionTypes
  <2>5. /\ Active' \cap Withdrawn' = {} /\ Ignored' \cap Held' = {} /\ Ignored' \subseteq {Self}
        /\ Active' \cup Ignored' \subseteq Known' /\ Known' \subseteq Held' \cup Ignored'
    BY <1>1, <1>3, <1>5, <2>2 DEF Books
  <2>6. \A t \in Terms : /\ t \in Held' => Host[t] \in Held'
                         /\ t \in Active' => Host[t] \in Active'
    BY <1>1, <1>3, <1>5, <2>2 DEF Books
  <2>7. Books'
    BY <1>1, <1>2, <1>6, <1>8, <2>2, <2>5, <2>6 DEF Books
  <2>8. Announced'
    <3>1. Session!Connected(Peer)' <=> Session!Connected(Peer)
      BY <1>6, <2>2 DEF Session!Connected
    <3> SUFFICES ASSUME Session!Connected(Peer) PROVE Announced'
      BY <3>1 DEF Announced
    <3>2. /\ Active \cup Ignored \subseteq remote[Peer]
          /\ \A y \in remote[Peer] : y \in Servers \/ <<Peer, y>> \notin lost => y \in Active \cup Ignored
          /\ \A y \in Known \cup Withdrawn \cup remote[Peer] : sent[Peer][y] >= 1
          /\ \A y \in Withdrawn : y \in remote[Peer] \/ y \notin Known => sent[Peer][y] >= 2
      BY <1>1 DEF Announced
    <3>3. /\ \A y \in Known' \cup Withdrawn' \cup remote'[Peer] : sent'[Peer][y] >= 1
          /\ \A y \in Withdrawn' : y \in remote'[Peer] \/ y \notin Known' => sent'[Peer][y] >= 2
      BY <2>1, <2>2, <3>2
    <3> QED BY <2>1, <2>2, <3>2, <3>3 DEF Announced
  <2> QED BY <1>1, <1>2, <2>3, <2>4, <2>7, <2>8 DEF Kept
<1>10. CASE Session!LastServer(conn[Peer], i)
  <2>1. i \in Servers /\ conn[Peer].leaving /\ Withdrawn \cap Servers = {i}
    BY <1>4, <1>10 DEF Session!LastServer
  <2>2. Active = {} /\ Held = Withdrawn
    BY <1>1, <1>4, <2>1 DEF Books
  <2>3. Withdrawn = {i}
    <3>1. \A t \in Terms : t \notin Withdrawn
      <4> SUFFICES ASSUME NEW t \in Terms, t \in Withdrawn PROVE FALSE
        OBVIOUS
      <4>1. Host[t] \in Held /\ Host[t] \in Servers
        BY <1>1, <2>2, SessionIds DEF Books
      <4>2. Host[t] = i
        BY <2>1, <2>2, <4>1
      <4> QED BY <1>3, <2>2, <4>2
    <3>2. \A y \in Withdrawn : y \in Servers
      BY <1>4, <3>1, SessionIds
    <3> QED BY <1>3, <2>1, <3>2
  <2>4. left.active = {} /\ left.removing = {}
    BY <1>5, <1>6, <2>2, <2>3
  <2>5. conn' = [conn EXCEPT ![Peer] = Session!Over(left)] /\ Session!SessionOver(Peer)
    BY <1>2, <1>10
  <2>6. /\ conn' \in [{Peer} -> Proxies]
        /\ ~conn'[Peer].have /\ ~conn'[Peer].leaving /\ ~conn'[Peer].draining
        /\ Known' = {} /\ Ignored' = {} /\ Active' = {} /\ Withdrawn' = {} /\ Held' = {}
    BY <1>1, <1>6, <2>4, <2>5, NothingHeld
  <2>7. /\ remote' \in [{Peer} -> SUBSET Ids] /\ remote'[Peer] = {}
        /\ sent' \in [{Peer} -> [Ids -> Nat]]
    BY <1>1, <2>5, SessionEnds
  <2>8. Ways' /\ Turns' /\ Counts'
    <3>1. Active' = Active /\ Withdrawn' = Withdrawn \ {x}
      BY <1>5, <2>2, <2>3, <2>6
    <3> QED BY <1>1, <1>2, <1>5, <3>1, ForgottenWays
  <2>9. SessionTypes'
    BY <1>1, <1>2, <1>7, <2>6, <2>7 DEF SessionTypes
  <2>10. Books'
    <3>1. \A y \in Ids : registered'[y] # Peer
      BY <1>1, <1>2, <2>2 DEF Books
    <3> QED BY <2>6, <2>7, <3>1 DEF Books
  <2>11. Announced'
    BY <2>6 DEF Announced, Session!Connected
  <2> QED BY <1>1, <1>2, <2>8, <2>9, <2>10, <2>11 DEF Kept
<1> QED BY <1>9, <1>10

\* What the connection and its peer know of each other is not the listener's.
LEMMA SameBooks ==
  ASSUME Books, Announced, UNCHANGED <<conn, registered, remote, sent, lost>>
  PROVE  /\ Active' = Active /\ Withdrawn' = Withdrawn /\ Books' /\ Announced'
<1>1. /\ Known' = Known /\ Ignored' = Ignored /\ Active' = Active /\ Withdrawn' = Withdrawn
      /\ Held' = Held
  BY DEF Known, Ignored, Active, Withdrawn, Held
<1>2. Books'
  BY <1>1 DEF Books
<1>3. Announced'
  BY <1>1 DEF Announced, Session!Connected
<1> QED BY <1>1, <1>2, <1>3

\* The last watch of a proxy is given back.
LEMMA ReleaseKept ==
  ASSUME Kept, NEW i \in Ids, Session!Release(Peer, i)
  PROVE  Kept'
<1>1. /\ SessionTypes /\ Books /\ Announced /\ Ways /\ Turns /\ Counts /\ ~down
  BY DEF Kept
<1>2. /\ <<Peer, i>> \in closing
      /\ i \in Servers => \A t \in Terms : Host[t] = i => <<Peer, t>> \notin closing
      /\ closing' = closing \ {<<Peer, i>>}
      /\ released' = [released EXCEPT ![Peer] = Append(@, i)]
      /\ UNCHANGED <<conn, registered, mapped, lq, nTerms, remote, sent, lost, down>>
  BY DEF Session!Release, Session!peerVars
<1>3. Active' = Active /\ Withdrawn' = Withdrawn /\ Books' /\ Announced'
  BY <1>1, <1>2, SameBooks
<1>4. Ways' /\ Turns' /\ Counts'
  BY <1>1, <1>2, <1>3, ReturnedWays DEF Closing
<1>5. SessionTypes'
  <2>1. closing' \subseteq {Peer} \X Ids /\ released' \in [{Peer} -> Seq(Ids)]
    BY <1>1, <1>2 DEF SessionTypes
  <2> QED BY <1>1, <1>2, <2>1 DEF SessionTypes
<1> QED BY <1>1, <1>2, <1>3, <1>4, <1>5 DEF Kept

\* The listener adds a proxy.
LEMMA AddKept ==
  ASSUME Kept, Session!HandleAdd
  PROVE  Kept'
<1>1. /\ SessionTypes /\ Books /\ Announced /\ Ways /\ Turns /\ Counts /\ ~down
  BY DEF Kept
<1>2. lq # <<>> /\ lq' = Tail(lq)
  BY DEF Session!HandleAdd
<1>3. Head(lq) = lq[1] /\ lq[1] \in Notes /\ lq' \in Seq(Notes)
  BY <1>1, <1>2, FirstItem
<1>4. PICK i : i = lq[1].id
  OBVIOUS
<1>5. i \in Ids /\ lq[1].conn = Peer
  BY <1>3, <1>4 DEF Notes
<1>6. (i \in Terms => mapped[Host[i]] = Peer) /\ (i \in Servers <=> i \notin Terms)
  BY <1>1, <1>2, <1>4, <1>5, RestInTurn, SessionIds
<1>7. /\ lq[1].op = "add" /\ mapped' = [mapped EXCEPT ![i] = Peer]
      /\ IF i \in Servers THEN UNCHANGED <<nTerms, down>>
         ELSE IF mapped[Host[i]] = Nobody THEN down' = TRUE /\ UNCHANGED nTerms
         ELSE /\ nTerms' = [nTerms EXCEPT ![mapped[Host[i]]][Host[i]] = Session!AddTerm(@)]
              /\ UNCHANGED down
      /\ UNCHANGED <<conn, registered, closing, released, remote, sent, lost>>
  BY <1>3, <1>4, <1>5 DEF Session!HandleAdd, Session!Item, Session!Item_server, Session!peerVars
<1>8. /\ IF i \in Servers THEN UNCHANGED nTerms
         ELSE nTerms' = [nTerms EXCEPT ![Peer][Host[i]] = Session!AddTerm(@)]
      /\ UNCHANGED down
  BY <1>6, <1>7, SessionIds
<1>9. Active' = Active /\ Withdrawn' = Withdrawn /\ Books' /\ Announced'
  BY <1>1, <1>7, SameBooks
<1>10. /\ Ways' /\ Turns' /\ Counts'
       /\ nTerms' \in [{Peer} -> [Servers -> [n : Nat, starting : Nat]]]
  BY <1>1, <1>2, <1>4, <1>7, <1>8, <1>9, AddedWays
<1>11. SessionTypes'
  <2>1. mapped' \in [Ids -> {Peer, Nobody}]
    BY <1>1, <1>7 DEF SessionTypes
  <2> QED BY <1>1, <1>3, <1>7, <1>10, <2>1 DEF SessionTypes, Notes
<1> QED BY <1>1, <1>8, <1>9, <1>10, <1>11 DEF Kept

\* The listener takes a proxy back.
LEMMA RemoveKept ==
  ASSUME Kept, Session!HandleRemove
  PROVE  Kept'
<1>1. /\ SessionTypes /\ Books /\ Announced /\ Ways /\ Turns /\ Counts /\ ~down
  BY DEF Kept
<1>2. lq # <<>> /\ lq' = Tail(lq)
  BY DEF Session!HandleRemove
<1>3. Head(lq) = lq[1] /\ lq[1] \in Notes /\ lq' \in Seq(Notes)
  BY <1>1, <1>2, FirstItem
<1>4. PICK i : i = lq[1].id
  OBVIOUS
<1>5. i \in Ids /\ lq[1].conn = Peer
  BY <1>3, <1>4 DEF Notes
<1>6. i \in Terms => mapped[Host[i]] = Peer
  BY <1>1, <1>2, <1>4, <1>5, RestInTurn, SessionIds
<1>7. /\ lq[1].op = "remove"
      /\ IF i \in Terms /\ mapped[Host[i]] = Nobody
         THEN down' = TRUE /\ UNCHANGED <<mapped, closing, nTerms>>
         ELSE /\ mapped' = [mapped EXCEPT ![i] = Nobody]
              /\ closing' = closing \cup {<<Peer, i>>}
              /\ nTerms' = IF i \in Terms
                           THEN [nTerms EXCEPT ![mapped[Host[i]]][Host[i]].n = @ - 1]
                           ELSE nTerms
              /\ UNCHANGED down
      /\ UNCHANGED <<conn, registered, released, remote, sent, lost>>
  BY <1>3, <1>4, <1>5 DEF Session!HandleRemove, Session!Item, Session!Item_server, Session!peerVars, Session!Unmap
<1>8. /\ mapped' = [mapped EXCEPT ![i] = Nobody]
      /\ closing' = closing \cup {<<Peer, i>>}
      /\ UNCHANGED down
      /\ nTerms' = IF i \in Terms
                   THEN [nTerms EXCEPT ![mapped[Host[i]]][Host[i]].n = @ - 1]
                   ELSE nTerms
  BY <1>6, <1>7, SessionIds
<1>9. IF i \in Terms THEN nTerms' = [nTerms EXCEPT ![Peer][Host[i]].n = @ - 1]
      ELSE UNCHANGED nTerms
  BY <1>6, <1>8
<1>10. Active' = Active /\ Withdrawn' = Withdrawn /\ Books' /\ Announced'
  BY <1>1, <1>7, SameBooks
<1>11. Ways' /\ Turns'
  BY <1>1, <1>2, <1>4, <1>7, <1>8, <1>10, RemovedWays
<1>12. Counts' /\ nTerms' \in [{Peer} -> [Servers -> [n : Nat, starting : Nat]]]
  BY <1>1, <1>2, <1>4, <1>7, <1>8, <1>9, RemovedCounts
<1>13. SessionTypes'
  <2>1. mapped' \in [Ids -> {Peer, Nobody}] /\ closing' \subseteq {Peer} \X Ids
    BY <1>1, <1>5, <1>8 DEF SessionTypes
  <2> QED BY <1>1, <1>3, <1>7, <1>12, <2>1 DEF SessionTypes, Notes
<1> QED BY <1>1, <1>8, <1>10, <1>11, <1>12, <1>13 DEF Kept

\* Every step keeps the invariant.
LEMMA SessionStepKept ==
  ASSUME Kept, [Session!Next]_Session!vars
  PROVE  Kept'
<1>1. CASE Session!ListenerStep
  BY <1>1, AddKept, RemoveKept DEF Session!ListenerStep
<1>2. CASE Session!Connect(Peer) \/ Session!HandleReleased(Peer)
  BY <1>2, ConnectKept, ReleasedKept
<1>3. CASE \E more \in BOOLEAN : Session!Disconnect(Peer, more)
  BY <1>3, DisconnectKept
<1>4. CASE \E s \in Servers, k \in 0..MaxInitial : Session!WireServerAnnounce(Peer, s, k)
  BY <1>4, ServerAnnounceKept
<1>5. CASE \E t \in Terms : Session!WireTermAnnounce(Peer, t)
  BY <1>5, TermAnnounceKept
<1>6. CASE \E i \in Session!Ids : Session!WireRemove(Peer, i) \/ Session!Release(Peer, i)
  <2>1. Session!Ids = Ids
    BY DEF Session!Ids, Ids
  <2> QED BY <1>6, <2>1, WireRemoveKept, ReleaseKept
<1>7. CASE UNCHANGED Session!vars
  <2>1. UNCHANGED <<conn, registered, mapped, lq, closing, released, nTerms, remote, sent, lost, down>>
    BY <1>7 DEF Session!vars
  <2>2. /\ SessionTypes /\ Books /\ Announced /\ Ways /\ Turns /\ Counts /\ ~down
    BY DEF Kept
  <2>3. Active' = Active /\ Withdrawn' = Withdrawn /\ Books' /\ Announced'
    BY <2>1, <2>2, SameBooks
  <2>4. Ways' /\ Turns' /\ Counts'
    BY <2>1, <2>2, <2>3, SameWays
  <2>5. SessionTypes'
    BY <2>1, <2>2 DEF SessionTypes
  <2> QED BY <2>1, <2>2, <2>3, <2>4, <2>5 DEF Kept
<1> QED BY <1>1, <1>2, <1>3, <1>4, <1>5, <1>6, <1>7 DEF Session!Next

\* The books, the ways of the proxies and the counts stay in order whatever
\* the peer announces and removes and whenever the connection is cut
\* (conn.cpp:377, 463, 589, listener.cpp:664).
THEOREM SessionsInvariance == Session!Spec => []Kept
<1>1. Session!Init => Kept
  BY SessionBegins
<1>2. Kept /\ [Session!Next]_Session!vars => Kept'
  BY SessionStepKept
<1> QED BY <1>1, <1>2, PTL DEF Session!Spec

\* A server counts its terminals, the ones still to come included.
LEMMA KeptCounts ==
  ASSUME Kept
  PROVE  Session!ServerCounts
<1> SUFFICES ASSUME NEW s \in Servers, mapped[s] # Nobody
             PROVE  nTerms[mapped[s]][s].n = nTerms[mapped[s]][s].starting
                      + Session!Cardinality({t \in Terms : Host[t] = s /\ mapped[t] # Nobody})
  BY DEF Session!ServerCounts
<1>1. SessionTypes /\ Counts /\ s \in Ids
  BY SessionIds DEF Kept
<1>2. \A i \in Ids : mapped[i] # Nobody <=> mapped[i] = Peer
  BY <1>1, SessionFacts, SessionIds
<1>3. mapped[s] = Peer
  BY <1>1, <1>2
<1> DEFINE S == {t \in Terms : Host[t] = s /\ mapped[t] # Nobody}
<1>4. S = Mapped(s)
  BY <1>2, SessionIds DEF Mapped
<1>5. Session!Cardinality(S) = Cardinality(S)
  BY DEF Session!Cardinality, Cardinality
<1>6. nTerms[Peer][s].n = nTerms[Peer][s].starting + Cardinality(Mapped(s))
  BY <1>1, <1>3 DEF Counts
<1> HIDE DEF S
<1>7. nTerms[mapped[s]][s].n = nTerms[mapped[s]][s].starting + Session!Cardinality(S)
  BY <1>3, <1>4, <1>5, <1>6
<1> QED BY <1>7 DEF S

\* A connection that is over has no proxy on any way.
LEMMA KeptOrphans ==
  ASSUME Kept
  PROVE  Session!NoOrphans
<1>1. SessionTypes /\ Books /\ Ways
  BY DEF Kept
<1> SUFFICES ASSUME ~conn[Peer].have
             PROVE  /\ conn[Peer].known = {} /\ conn[Peer].active = {} /\ conn[Peer].removing = {}
                    /\ \A j \in DOMAIN lq : lq[j].conn # Peer
                    /\ \A i \in Ids : mapped[i] # Peer /\ <<Peer, i>> \notin closing
                    /\ released[Peer] = <<>>
  BY DEF Session!NoOrphans, Session!Ids, Ids
<1>2. Known \cup Ignored \cup Held \cup remote[Peer] = {}
  BY <1>1 DEF Books
<1>3. \A i \in Ids : ~Waits(i) /\ mapped[i] = Nobody /\ ~Closing(i) /\ ~Returned(i)
  BY <1>1, <1>2 DEF Ways
<1>4. \A j \in DOMAIN lq : FALSE
  BY <1>1, <1>3, SessionFacts DEF Waits
<1>5. released[Peer] = <<>>
  <2>1. \A k \in DOMAIN released[Peer] : FALSE
    BY <1>1, <1>3, SessionFacts DEF Returned
  <2>2. released[Peer] \in Seq(Ids) /\ Len(released[Peer]) \in Nat /\ DOMAIN released[Peer] = 1..Len(released[Peer])
    BY <1>1, SessionFacts
  <2>3. Len(released[Peer]) = 0
    BY <2>1, <2>2
  <2> QED BY <2>2, <2>3
<1>6. conn[Peer].known = {} /\ conn[Peer].active = {} /\ conn[Peer].removing = {}
  BY <1>1, <1>2, NowFacts
<1> QED BY <1>3, <1>4, <1>5, <1>6, SessionIds DEF Closing

\* With everything worked off, connection and peer agree.
LEMMA KeptAgreement ==
  ASSUME Kept
  PROVE  Session!Agreement
<1>1. SessionTypes /\ Announced /\ Ways
  BY DEF Kept
<1> SUFFICES ASSUME lq = <<>>, closing = {}, released[Peer] = <<>>, Session!Connected(Peer)
             PROVE  /\ conn[Peer].active \subseteq remote[Peer]
                    /\ \A i \in remote[Peer] :
                         <<Peer, i>> \notin lost => i \in conn[Peer].active \cup conn[Peer].ignored
  BY DEF Session!Agreement
<1> QED BY <1>1, NowFacts DEF Announced

\* The listener never looks a terminal's server up in vain, servers count their
\* terminals, a connection that is over leaves nothing behind and agrees with
\* its peer otherwise (listener.cpp:695, 710, conn.cpp:346, 403).
THEOREM SessionsAreSound == Session!Spec => []SessionSound
<1>1. Kept => SessionSound
  <2> SUFFICES ASSUME Kept PROVE SessionSound
    OBVIOUS
  <2>1. Session!HopKnown
    BY DEF Kept, Session!HopKnown
  <2> QED BY <2>1, KeptCounts, KeptOrphans, KeptAgreement DEF SessionSound
<1> QED BY <1>1, SessionsInvariance, PTL
===============================================================================
