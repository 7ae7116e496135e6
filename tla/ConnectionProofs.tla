--------------------------- MODULE ConnectionProofs ---------------------------
(***************************************************************************)
(* Proofs about connections.  ProxyRegistry: the terminals that come and   *)
(* go with connections, for any connections, servers and terminals.        *)
(* Forwarder: a server's output passed on through another process, for any *)
(* lengths of what is sent and any room in the socket pair.  Connect: how  *)
(* three threads and two servers make a connection.                        *)
(***************************************************************************)
EXTENDS ProxyRegistry, MCLinks, FiniteSetTheorems, SequenceTheorems, TLAPS

Proxies == [known : SUBSET Ids, ignored : SUBSET Ids, active : SUBSET Ids,
            removing : SUBSET Ids, have : BOOLEAN, leaving : BOOLEAN, draining : BOOLEAN]
Items == [op : {"add", "remove"}, conn : Conns, id : Ids]
Owners == Conns \cup {None}

Types ==
  /\ conn \in [Conns -> Proxies]
  /\ registered \in [Ids -> Owners]
  /\ mapped \in [Ids -> Owners]
  /\ lq \in Seq(Items)
  /\ down \in BOOLEAN
  /\ \A c \in Conns : IsFiniteSet(conn[c].active)

\* The map after an item has been worked off.
After(map, e) == [map EXCEPT ![e.id] = IF e.op = "add" THEN e.conn ELSE None]

\* A queue leads from one map to another: there are maps in between, one for
\* each item, and an item adds an id that is missing or removes one that is
\* there.
Leads(q, from, to) ==
  \E v \in [1..Len(q) + 1 -> [Ids -> Owners]] :
    /\ v[1] = from /\ v[Len(q) + 1] = to
    /\ \A j \in 1..Len(q) : /\ q[j].op = "add" <=> v[j][q[j].id] = None
                            /\ v[j + 1] = After(v[j], q[j])

\* The listener's map will be the registry when the queue has been worked off.
IInv == Types /\ RegistryMatches /\ (~down => Leads(lq, mapped, registered))

-----------------------------------------------------------------------------
(* Queues and the maps they lead to *)

\* An empty queue leads nowhere else.
LEMMA LeadsEmpty ==
  ASSUME NEW from \in [Ids -> Owners], NEW to
  PROVE  Leads(<<>>, from, to) <=> from = to
<1>1. Len(<<>>) + 1 = 1 /\ 1..0 = {}
  OBVIOUS
<1>2. ASSUME from = to PROVE Leads(<<>>, from, to)
  <2> DEFINE v == [j \in 1..1 |-> from]
  <2>1. v \in [1..1 -> [Ids -> Owners]] /\ v[1] = from
    OBVIOUS
  <2> QED BY <1>1, <1>2, <2>1 DEF Leads
<1> QED BY <1>1, <1>2 DEF Leads

\* An item at the end changes the last map.
LEMMA LeadsAppend ==
  ASSUME NEW q \in Seq(Items), NEW from, NEW to \in [Ids -> Owners], Leads(q, from, to),
         NEW e \in Items, e.op = "add" <=> to[e.id] = None
  PROVE  Leads(Append(q, e), from, After(to, e))
<1> DEFINE n == Len(q)
<1>1. PICK v \in [1..n + 1 -> [Ids -> Owners]] :
        /\ v[1] = from /\ v[n + 1] = to
        /\ \A j \in 1..n : /\ q[j].op = "add" <=> v[j][q[j].id] = None
                           /\ v[j + 1] = After(v[j], q[j])
  BY DEF Leads
<1>2. /\ n \in Nat /\ Len(Append(q, e)) = n + 1
      /\ \A j \in 1..n : Append(q, e)[j] = q[j]
      /\ Append(q, e)[n + 1] = e
  OBVIOUS
<1>3. After(to, e) \in [Ids -> Owners]
  BY DEF After, Items, Owners
<1> DEFINE w == [j \in 1..(n + 1) + 1 |-> IF j = n + 2 THEN After(to, e) ELSE v[j]]
<1>4. w \in [1..(n + 1) + 1 -> [Ids -> Owners]]
  BY <1>2, <1>3
<1>5. w[1] = from /\ w[(n + 1) + 1] = After(to, e)
  BY <1>1, <1>2
<1>6. ASSUME NEW j \in 1..n + 1
      PROVE  /\ Append(q, e)[j].op = "add" <=> w[j][Append(q, e)[j].id] = None
             /\ w[j + 1] = After(w[j], Append(q, e)[j])
  <2>1. CASE j \in 1..n
    <3>1. w[j] = v[j] /\ w[j + 1] = v[j + 1] /\ Append(q, e)[j] = q[j]
      BY <1>2, <2>1
    <3> QED BY <1>1, <2>1, <3>1
  <2>2. CASE j = n + 1
    <3>1. w[j] = to /\ w[j + 1] = After(to, e) /\ Append(q, e)[j] = e
      BY <1>1, <1>2, <2>2
    <3> QED BY <3>1
  <2> QED BY <1>2, <2>1, <2>2
<1> HIDE DEF w
<1> QED BY <1>2, <1>4, <1>5, <1>6 DEF Leads

\* The first item tells of the first map, and the rest leads on.
LEMMA LeadsTail ==
  ASSUME NEW q \in Seq(Items), q # <<>>, NEW from, NEW to, Leads(q, from, to)
  PROVE  /\ Head(q).op = "add" <=> from[Head(q).id] = None
         /\ Leads(Tail(q), After(from, Head(q)), to)
<1> DEFINE n == Len(q)
<1>1. PICK v \in [1..n + 1 -> [Ids -> Owners]] :
        /\ v[1] = from /\ v[n + 1] = to
        /\ \A j \in 1..n : /\ q[j].op = "add" <=> v[j][q[j].id] = None
                           /\ v[j + 1] = After(v[j], q[j])
  BY DEF Leads
<1>2. /\ n \in Nat \ {0} /\ Len(Tail(q)) = n - 1 /\ Head(q) = q[1]
      /\ \A j \in 1..n - 1 : Tail(q)[j] = q[j + 1]
  OBVIOUS
<1> DEFINE w == [j \in 1..(n - 1) + 1 |-> v[j + 1]]
<1>3. w \in [1..(n - 1) + 1 -> [Ids -> Owners]]
  BY <1>2
<1>4. w[1] = After(from, Head(q)) /\ w[(n - 1) + 1] = to
  BY <1>1, <1>2
<1>5. ASSUME NEW j \in 1..n - 1
      PROVE  /\ Tail(q)[j].op = "add" <=> w[j][Tail(q)[j].id] = None
             /\ w[j + 1] = After(w[j], Tail(q)[j])
  <2>1. w[j] = v[j + 1] /\ w[j + 1] = v[(j + 1) + 1] /\ Tail(q)[j] = q[j + 1] /\ j + 1 \in 1..n
    BY <1>2
  <2> QED BY <1>1, <2>1
<1>6. Head(q).op = "add" <=> from[Head(q).id] = None
  BY <1>1, <1>2
<1> HIDE DEF w
<1> QED BY <1>2, <1>3, <1>4, <1>5, <1>6 DEF Leads

\* Ids of the queue that are removed, in some order, each once.
Removals(c, order) == [j \in DOMAIN order |-> [op |-> "remove", conn |-> c, id |-> order[j]]]
Without(map, S) == [i \in Ids |-> IF i \in S THEN None ELSE map[i]]

LEMMA QueuesJoin ==
  ASSUME NEW q \in Seq(Items), NEW r \in Seq(Items)
  PROVE  q \o r \in Seq(Items) /\ Len(q \o r) = Len(q) + Len(r)
  BY ConcatProperties

\* Removals at the end take their ids out of the last map.
LEMMA LeadsRemovals ==
  ASSUME NEW q \in Seq(Items), NEW from, NEW to \in [Ids -> Owners], Leads(q, from, to),
         NEW c \in Conns, NEW m \in Nat, NEW p \in [1..m -> Ids],
         \A j \in 1..m : to[p[j]] # None,
         \A j, k \in 1..m : p[j] = p[k] => j = k
  PROVE  /\ q \o Removals(c, p) \in Seq(Items)
         /\ Leads(q \o Removals(c, p), from, Without(to, {p[j] : j \in 1..m}))
<1> DEFINE n == Len(q)
           r == Removals(c, p)
           t == q \o r
<1>1. /\ n \in Nat /\ DOMAIN p = 1..m
      /\ r \in [1..m -> Items] /\ r \in Seq(Items) /\ Len(r) = m
      /\ \A j \in 1..m : r[j].op = "remove" /\ r[j].conn = c /\ r[j].id = p[j]
  BY DEF Removals, Items
<1> HIDE DEF r
<1>2. /\ t \in Seq(Items) /\ Len(t) = n + m
      /\ \A j \in 1..n : t[j] = q[j]
      /\ \A j \in 1..m : t[n + j] = r[j]
  <2>1. t \in Seq(Items) /\ Len(t) = n + m
    <3>1. r \in Seq(Items) /\ Len(r) = m
      BY <1>1
    <3> QED BY <3>1, QueuesJoin
  <2>2. \A j \in 1..n + m : t[j] = IF j <= n THEN q[j] ELSE r[j - n]
    BY <1>1
  <2>3. ASSUME NEW j \in 1..m PROVE t[n + j] = r[j]
    <3>1. n + j \in 1..n + m /\ ~(n + j <= n) /\ (n + j) - n = j
      BY <1>1
    <3> QED BY <2>2, <3>1
  <2>4. \A j \in 1..n : t[j] = q[j]
    BY <1>1, <2>2
  <2> QED BY <2>1, <2>3, <2>4
<1> HIDE DEF t
<1>3. PICK v \in [1..n + 1 -> [Ids -> Owners]] :
        /\ v[1] = from /\ v[n + 1] = to
        /\ \A j \in 1..n : /\ q[j].op = "add" <=> v[j][q[j].id] = None
                           /\ v[j + 1] = After(v[j], q[j])
  BY DEF Leads
<1> DEFINE Gone(k) == Without(to, {p[j] : j \in 1..k})
           w == [j \in 1..(n + m) + 1 |-> IF j <= n THEN v[j] ELSE Gone(j - (n + 1))]
<1>4. Gone(0) = to
  BY DEF Without
<1>5. \A k \in 0..m : Gone(k) \in [Ids -> Owners]
  BY DEF Without, Owners
<1>6. ASSUME NEW k \in 1..m
      PROVE  Gone(k - 1)[p[k]] # None /\ Gone(k) = After(Gone(k - 1), r[k])
  <2>1. {p[j] : j \in 1..k} = {p[j] : j \in 1..k - 1} \cup {p[k]}
    <3>1. 1..k = (1..k - 1) \cup {k}
      OBVIOUS
    <3> QED BY <3>1
  <2>2. p[k] \notin {p[j] : j \in 1..k - 1} /\ p[k] \in Ids
    OBVIOUS
  <2>3. Gone(k - 1)[p[k]] = to[p[k]]
    BY <2>2 DEF Without
  <2>4. After(Gone(k - 1), r[k]) = [Gone(k - 1) EXCEPT ![p[k]] = None]
    BY <1>1 DEF After
  <2>5. Gone(k) = [Gone(k - 1) EXCEPT ![p[k]] = None]
    BY <2>1, <2>2 DEF Without
  <2> QED BY <2>3, <2>4, <2>5
<1> HIDE DEF Gone
<1>7. w \in [1..(n + m) + 1 -> [Ids -> Owners]]
  <2>1. ASSUME NEW j \in 1..(n + m) + 1 PROVE w[j] \in [Ids -> Owners]
    <3>1. CASE j <= n
      BY <1>1, <1>3, <3>1
    <3>2. CASE ~(j <= n)
      <4>1. j - (n + 1) \in 0..m
        BY <1>1, <3>2
      <4> QED BY <1>5, <3>2, <4>1
    <3> QED BY <3>1, <3>2
  <2> QED BY <2>1
<1>8. \A j \in 1..n + 1 : w[j] = v[j]
  BY <1>1, <1>3, <1>4
<1>9. \A k \in 0..m : w[(n + 1) + k] = Gone(k)
  BY <1>1
<1>10. w[1] = from /\ w[(n + m) + 1] = Gone(m)
  <2>1. 1 \in 1..n + 1 /\ (n + m) + 1 = (n + 1) + m /\ m \in 0..m
    BY <1>1
  <2> QED BY <1>3, <1>8, <1>9, <2>1
<1> HIDE DEF w
<1>11. ASSUME NEW j \in 1..n + m
       PROVE  /\ t[j].op = "add" <=> w[j][t[j].id] = None
              /\ w[j + 1] = After(w[j], t[j])
  <2>1. CASE j \in 1..n
    <3>1. w[j] = v[j] /\ w[j + 1] = v[j + 1] /\ t[j] = q[j]
      BY <1>1, <1>2, <1>8, <2>1
    <3> QED BY <1>3, <2>1, <3>1
  <2>2. CASE j \notin 1..n
    <3>1. PICK k \in 1..m : j = n + k
      <4>1. j - n \in 1..m /\ j = n + (j - n)
        BY <1>1, <2>2
      <4> QED BY <4>1
    <3>2. w[j] = Gone(k - 1) /\ w[j + 1] = Gone(k) /\ t[j] = r[k]
      <4>1. k - 1 \in 0..m /\ k \in 0..m /\ j = (n + 1) + (k - 1) /\ j + 1 = (n + 1) + k
        BY <1>1, <3>1
      <4> QED BY <1>2, <1>9, <3>1, <4>1
    <3> QED BY <1>1, <1>6, <3>2
  <2> QED BY <2>1, <2>2
<1>12. Leads(t, from, Gone(m))
  <2>1. /\ w \in [1..Len(t) + 1 -> [Ids -> Owners]]
        /\ w[1] = from /\ w[Len(t) + 1] = Gone(m)
        /\ \A j \in 1..Len(t) : /\ t[j].op = "add" <=> w[j][t[j].id] = None
                                /\ w[j + 1] = After(w[j], t[j])
    BY <1>2, <1>7, <1>10, <1>11
  <2> QED BY <2>1 DEF Leads
<1> QED BY <1>2, <1>12 DEF t, r, Gone

\* An order visits the whole set, each element once.
LEMMA OrderVisits ==
  ASSUME NEW S, IsFiniteSet(S), NEW p \in Orders(S)
  PROVE  /\ Cardinality(S) \in Nat
         /\ p \in [1..Cardinality(S) -> S]
         /\ \A j, k \in 1..Cardinality(S) : p[j] = p[k] => j = k
         /\ \A i \in S : \E j \in 1..Cardinality(S) : p[j] = i
<1> DEFINE n == Cardinality(S)
<1>1. n \in Nat
  BY FS_CardinalityType
<1>2. p \in [1..n -> S] /\ \A j, k \in 1..n : p[j] = p[k] => j = k
  BY DEF Orders
<1>3. IsFiniteSet(1..n) /\ Cardinality(1..n) = n
  BY <1>1, FS_Interval
<1>4. p \in Injection(1..n, S)
  BY <1>2 DEF Injection, IsInjective
<1>5. p \in Surjection(1..n, S)
  BY <1>3, <1>4, FS_Injection
<1>6. \A i \in S : \E j \in 1..n : p[j] = i
  BY <1>5 DEF Surjection
<1> QED BY <1>1, <1>2, <1>6

-----------------------------------------------------------------------------
(* Steps *)

LEMMA ConnFacts ==
  ASSUME IInv, NEW c \in Conns
  PROVE  /\ Types /\ RegistryMatches /\ conn[c] \in Proxies
         /\ conn[c].active \subseteq Ids /\ IsFiniteSet(conn[c].active)
         /\ \A i \in conn[c].active : registered[i] = c /\ c # None
  BY NoneAssumption DEF IInv, Types, Proxies, RegistryMatches

\* What a step of c's own keeps, when c's active proxies and the registry are
\* changed together.
LEMMA OwnStep ==
  ASSUME IInv, NEW c \in Conns, NEW p \in Proxies, conn' = [conn EXCEPT ![c] = p],
         UNCHANGED <<mapped, down>>, registered' \in [Ids -> Owners], lq' \in Seq(Items),
         IsFiniteSet(p.active),
         \A i \in Ids : i \in p.active <=> registered'[i] = c,
         \A i \in Ids : registered'[i] # registered[i] =>
                         registered[i] \in {c, None} /\ registered'[i] \in {c, None},
         ~down => Leads(lq', mapped, registered')
  PROVE  IInv'
<1>1. Types'
  BY DEF IInv, Types
<1>2. RegistryMatches'
  <2> SUFFICES ASSUME NEW d \in Conns, NEW i \in Ids
               PROVE  i \in conn'[d].active <=> registered'[i] = d
    BY DEF RegistryMatches
  <2>1. CASE d = c
    BY <2>1 DEF IInv, Types
  <2>2. CASE d # c
    <3>1. conn'[d] = conn[d] /\ (i \in conn[d].active <=> registered[i] = d)
      BY <2>2 DEF IInv, Types, RegistryMatches
    <3> QED BY <2>2, <3>1, NoneAssumption
  <2> QED BY <2>1, <2>2
<1> QED BY <1>1, <1>2 DEF IInv

\* A step of c's own that leaves its active proxies alone.
LEMMA QuietStep ==
  ASSUME IInv, NEW c \in Conns, NEW p \in Proxies, conn' = [conn EXCEPT ![c] = p],
         p.active = conn[c].active, UNCHANGED <<registered, mapped, lq, down>>
  PROVE  IInv'
<1>1. /\ Types /\ RegistryMatches /\ IsFiniteSet(p.active)
      /\ \A i \in Ids : i \in p.active <=> registered[i] = c
  BY ConnFacts DEF IInv, RegistryMatches
<1> QED BY <1>1, OwnStep DEF IInv, Types

\* An id is registered when nobody has it.
LEMMA RegisterKeeps ==
  ASSUME IInv, NEW c \in Conns, NEW i \in Ids, Unclaimed(i), Register(c, i),
         UNCHANGED <<mapped, down>>
  PROVE  IInv'
<1> DEFINE p == [conn[c] EXCEPT !.known = @ \cup {i}, !.active = @ \cup {i}]
           e == [op |-> "add", conn |-> c, id |-> i]
<1>1. /\ Types /\ RegistryMatches /\ conn[c] \in Proxies /\ IsFiniteSet(conn[c].active)
  BY ConnFacts
<1>2. /\ p \in Proxies /\ p.active = conn[c].active \cup {i}
      /\ conn' = [conn EXCEPT ![c] = p]
  BY <1>1 DEF Register, Types, Proxies
<1>3. IsFiniteSet(p.active)
  BY <1>1, <1>2, FS_AddElement
<1>4. /\ e \in Items /\ e.op = "add" /\ e.id = i /\ e.conn = c
      /\ registered' = [registered EXCEPT ![i] = c]
      /\ registered' = After(registered, e)
      /\ registered' \in [Ids -> Owners]
      /\ lq' = Append(lq, e) /\ lq' \in Seq(Items)
  BY <1>1 DEF Register, Items, After, Types, Owners
<1>5. registered[i] = None
  BY DEF Unclaimed
<1>6. /\ \A j \in Ids : j \in p.active <=> registered'[j] = c
      /\ \A j \in Ids : registered'[j] # registered[j] =>
                         registered[j] \in {c, None} /\ registered'[j] \in {c, None}
  BY <1>1, <1>2, <1>4, <1>5 DEF RegistryMatches, Types
<1>7. ~down => Leads(lq', mapped, registered')
  <2> HIDE DEF e
  <2>1. registered \in [Ids -> Owners] /\ lq \in Seq(Items) /\ e \in Items
    BY <1>1, <1>4 DEF Types
  <2>2. e.op = "add" <=> registered[e.id] = None
    BY <1>4, <1>5
  <2>3. Leads(lq, mapped, registered) => Leads(Append(lq, e), mapped, After(registered, e))
    BY <2>1, <2>2, LeadsAppend
  <2> QED BY <1>4, <2>3 DEF IInv
<1> HIDE DEF p
<1> QED BY <1>2, <1>3, <1>4, <1>6, <1>7, OwnStep

\* Active ids are unregistered in some order.
LEMMA UnregisterKeeps ==
  ASSUME IInv, NEW c \in Conns, NEW m \in Nat, NEW order \in [1..m -> Ids],
         \A j, k \in 1..m : order[j] = order[k] => j = k,
         \A j \in 1..m : order[j] \in conn[c].active,
         NEW p \in Proxies, conn' = [conn EXCEPT ![c] = p],
         p.active = conn[c].active \ {order[j] : j \in 1..m},
         Unregister(c, order), UNCHANGED <<mapped, down>>
  PROVE  IInv'
<1> DEFINE S == {order[j] : j \in 1..m}
<1>1. /\ Types /\ RegistryMatches /\ IsFiniteSet(conn[c].active)
      /\ \A j \in 1..m : registered[order[j]] # None
  <2>1. /\ Types /\ RegistryMatches /\ IsFiniteSet(conn[c].active)
        /\ \A i \in conn[c].active : registered[i] = c /\ c # None
    BY ConnFacts
  <2> QED BY <2>1
<1>2. IsFiniteSet(p.active)
  <2>1. IsFiniteSet(conn[c].active \ S)
    BY <1>1, FS_Difference, Zenon
  <2> QED BY <2>1
<1>3. /\ registered' = Without(registered, S)
      /\ lq' = lq \o Removals(c, order)
  BY DEF Unregister, Without, Removals
<1>4. /\ registered' \in [Ids -> Owners]
      /\ \A i \in Ids : registered'[i] = IF i \in S THEN None ELSE registered[i]
      /\ \A i \in S : i \in Ids /\ registered[i] = c
  BY <1>1, <1>3, ConnFacts DEF Without, Types, Owners
<1>5. /\ lq' \in Seq(Items)
      /\ ~down => Leads(lq', mapped, registered')
  <2>1. lq' \in Seq(Items)
    <3>1. Removals(c, order) \in Seq(Items)
      BY DEF Removals, Items
    <3> QED BY <1>1, <1>3, <3>1 DEF Types
  <2>2. ASSUME ~down PROVE Leads(lq', mapped, registered')
    <3>1. registered \in [Ids -> Owners] /\ lq \in Seq(Items) /\ Leads(lq, mapped, registered)
      BY <1>1, <2>2 DEF IInv, Types
    <3>2. Leads(lq \o Removals(c, order), mapped, Without(registered, {order[j] : j \in 1..m}))
      BY <1>1, <3>1, LeadsRemovals
    <3> QED BY <1>3, <3>2
  <2> QED BY <2>1, <2>2
<1> HIDE DEF S
<1>6. /\ \A i \in Ids : i \in p.active <=> registered'[i] = c
      /\ \A i \in Ids : registered'[i] # registered[i] =>
                         registered[i] \in {c, None} /\ registered'[i] \in {c, None}
  <2>1. p.active = conn[c].active \ S
    BY DEF S
  <2> QED BY <1>1, <1>4, <2>1, NoneAssumption DEF RegistryMatches
<1> QED BY <1>2, <1>4, <1>5, <1>6, OwnStep

LEMMA IgnoreKeeps ==
  ASSUME IInv, NEW c \in Conns, NEW i \in Ids, Ignore(c, i), UNCHANGED <<mapped, down>>
  PROVE  IInv'
<1> DEFINE p == [conn[c] EXCEPT !.known = @ \cup {i}, !.ignored = @ \cup {i}]
<1>1. Types /\ conn[c] \in Proxies
  BY ConnFacts
<1>2. /\ p \in Proxies /\ p.active = conn[c].active
      /\ conn' = [conn EXCEPT ![c] = p]
      /\ UNCHANGED <<registered, lq>>
  BY <1>1 DEF Ignore, Types, Proxies
<1> HIDE DEF p
<1> QED BY <1>2, QuietStep

LEMMA SameKeeps == ASSUME IInv, UNCHANGED <<conn, registered, mapped, lq, down>> PROVE IInv'
  BY DEF IInv, Types, RegistryMatches

\* A peer announces an id.
LEMMA AnnounceKeeps ==
  ASSUME IInv, NEW c \in Conns,
         (\E s \in Servers, k \in 0..MaxInitial : WireServerAnnounce(c, s, k))
           \/ (\E t \in Terms : WireTermAnnounce(c, t))
  PROVE  IInv'
<1>1. ASSUME NEW s \in Servers, NEW k \in 0..MaxInitial, WireServerAnnounce(c, s, k) PROVE IInv'
  <2>1. s \in Ids /\ UNCHANGED <<mapped, down>>
    BY <1>1 DEF WireServerAnnounce, PeerAnnounces, Ids
  <2>2. \/ UNCHANGED <<conn, registered, lq>>
        \/ Unclaimed(s) /\ Register(c, s)
        \/ Ignore(c, s)
    BY <1>1 DEF WireServerAnnounce
  <2> QED BY <2>1, <2>2, SameKeeps, RegisterKeeps, IgnoreKeeps
<1>2. ASSUME NEW t \in Terms, WireTermAnnounce(c, t) PROVE IInv'
  <2>1. t \in Ids /\ UNCHANGED <<mapped, down>>
    BY <1>2 DEF WireTermAnnounce, PeerAnnounces, Ids
  <2>2. \/ UNCHANGED <<conn, registered, lq>>
        \/ Unclaimed(t) /\ Register(c, t)
        \/ Ignore(c, t)
    BY <1>2 DEF WireTermAnnounce
  <2> QED BY <2>1, <2>2, SameKeeps, RegisterKeeps, IgnoreKeeps
<1> QED BY <1>1, <1>2

\* A peer removes an id.
LEMMA WireRemoveKeeps ==
  ASSUME IInv, NEW c \in Conns, NEW i \in Ids, WireRemove(c, i)
  PROVE  IInv'
<1>1. Types /\ conn[c] \in Proxies /\ (i \in conn[c].active => registered[i] # None)
  BY ConnFacts
<1>2. UNCHANGED <<mapped, down>>
  BY DEF WireRemove
<1>3. CASE i \in conn[c].known /\ i \in conn[c].active
  <2> DEFINE p == Removing(conn[c], i)
  <2>1. p \in Proxies /\ p.active = conn[c].active \ {i}
    BY <1>1 DEF Removing, Proxies
  <2>2. conn' = [conn EXCEPT ![c] = p]
    BY <1>1, <1>3 DEF WireRemove, Types
  <2>3. PICK order \in Orders({i}) : Unregister(c, order)
    <3>1. Found({i}) = {i}
      BY <1>1, <1>3 DEF Found
    <3> QED BY <1>3, <3>1 DEF WireRemove
  <2>4. IsFiniteSet({i}) /\ Cardinality({i}) = 1
    BY FS_Singleton
  <2>5. /\ order \in [1..1 -> {i}]
        /\ \A j, k \in 1..1 : order[j] = order[k] => j = k
    <3>1. order \in [1..1 -> {i}]
      BY <2>3, <2>4 DEF Orders
    <3> QED BY <3>1
  <2>6. order \in [1..1 -> Ids] /\ {order[j] : j \in 1..1} = {i} /\ 1 \in Nat
    BY <2>5
  <2>7. \A j \in 1..1 : order[j] \in conn[c].active
    BY <1>3, <2>5
  <2> HIDE DEF p
  <2> QED BY <1>2, <2>1, <2>2, <2>3, <2>5, <2>6, <2>7, UnregisterKeeps
<1>4. CASE i \in conn[c].known /\ i \notin conn[c].active
  <2> DEFINE p == [conn[c] EXCEPT !.known = @ \ {i}, !.ignored = @ \ {i}]
  <2>1. p \in Proxies /\ p.active = conn[c].active
    BY <1>1 DEF Proxies
  <2>2. conn' = [conn EXCEPT ![c] = p] /\ UNCHANGED <<registered, lq>>
    BY <1>1, <1>4 DEF WireRemove, Types
  <2> HIDE DEF p
  <2> QED BY <1>2, <2>1, <2>2, QuietStep
<1>5. CASE i \notin conn[c].known
  BY <1>2, <1>5, SameKeeps DEF WireRemove
<1> QED BY <1>3, <1>4, <1>5

\* A sequence visits every element of a set once.
Visits(t, S) ==
  \E m \in Nat : /\ t \in [1..m -> S]
                 /\ \A j, k \in 1..m : t[j] = t[k] => j = k
                 /\ {t[j] : j \in 1..m} = S

\* Two orders of disjoint sets, one after the other, visit both.
LEMMA OrdersInTurn ==
  ASSUME NEW S, NEW T, IsFiniteSet(S), IsFiniteSet(T), S \cap T = {},
         NEW p \in Orders(S), NEW q \in Orders(T)
  PROVE  Visits(p \o q, S \cup T)
<1> DEFINE a == Cardinality(S)
           b == Cardinality(T)
           t == p \o q
<1>1. /\ a \in Nat /\ p \in [1..a -> S]
      /\ \A j, k \in 1..a : p[j] = p[k] => j = k
      /\ \A i \in S : \E j \in 1..a : p[j] = i
  BY OrderVisits
<1>2. /\ b \in Nat /\ q \in [1..b -> T]
      /\ \A j, k \in 1..b : q[j] = q[k] => j = k
      /\ \A i \in T : \E j \in 1..b : q[j] = i
  BY OrderVisits
<1> HIDE DEF a, b
<1>3. /\ p \in Seq(S \cup T) /\ Len(p) = a
      /\ q \in Seq(S \cup T) /\ Len(q) = b
  <2>1. p \in [1..a -> S \cup T] /\ q \in [1..b -> S \cup T]
    BY <1>1, <1>2
  <2> QED BY <1>1, <1>2, <2>1
<1>4. /\ t \in [1..a + b -> S \cup T]
      /\ \A j \in 1..a + b : t[j] = IF j <= a THEN p[j] ELSE q[j - a]
  <2>1. /\ t \in Seq(S \cup T) /\ Len(t) = a + b
        /\ \A j \in 1..a + b : t[j] = IF j <= a THEN p[j] ELSE q[j - a]
    BY <1>3, ConcatProperties
  <2> HIDE DEF t
  <2> QED BY <2>1, LenProperties
<1> HIDE DEF t
<1>5. /\ \A j \in 1..a : j \in 1..a + b /\ t[j] = p[j]
      /\ \A j \in 1..b : a + j \in 1..a + b /\ t[a + j] = q[j]
      /\ \A j \in 1..a + b : j \in 1..a \/ (j - a \in 1..b /\ j = a + (j - a) /\ t[j] = q[j - a])
  <2>1. \A j \in 1..a : j \in 1..a + b /\ j <= a
    BY <1>1, <1>2
  <2>2. \A j \in 1..b : a + j \in 1..a + b /\ ~(a + j <= a) /\ (a + j) - a = j
    BY <1>1, <1>2
  <2>3. \A j \in 1..a + b : j \in 1..a \/ (j - a \in 1..b /\ j = a + (j - a) /\ ~(j <= a))
    BY <1>1, <1>2
  <2> QED BY <1>4, <2>1, <2>2, <2>3
<1>6. ASSUME NEW j \in 1..a + b, NEW k \in 1..a + b, t[j] = t[k]
      PROVE  j = k
  <2>1. CASE j \in 1..a /\ k \in 1..a
    BY <1>1, <1>5, <1>6, <2>1
  <2>2. CASE j \notin 1..a /\ k \notin 1..a
    BY <1>1, <1>2, <1>5, <1>6, <2>2
  <2>3. CASE ~(j \in 1..a <=> k \in 1..a)
    BY <1>1, <1>2, <1>5, <1>6, <2>3
  <2> QED BY <2>1, <2>2, <2>3
<1>7. {t[j] : j \in 1..a + b} = S \cup T
  <2>1. ASSUME NEW i \in S \cup T PROVE \E j \in 1..a + b : t[j] = i
    <3>1. CASE i \in S
      <4>1. PICK j \in 1..a : p[j] = i
        BY <1>1, <3>1
      <4> QED BY <1>5, <4>1
    <3>2. CASE i \in T
      <4>1. PICK j \in 1..b : q[j] = i
        BY <1>2, <3>2
      <4> QED BY <1>5, <4>1
    <3> QED BY <3>1, <3>2
  <2> QED BY <1>4, <2>1
<1>8. a + b \in Nat
  BY <1>1, <1>2
<1> QED BY <1>4, <1>6, <1>7, <1>8 DEF t, Visits

\* A connection is cut: its active proxies are unregistered.
LEMMA DisconnectKeeps ==
  ASSUME IInv, NEW c \in Conns, NEW more \in BOOLEAN, Disconnect(c, more)
  PROVE  IInv'
<1> DEFINE A == conn[c].active
           left == [conn[c] EXCEPT !.removing = @ \cup conn[c].active, !.active = {}]
<1>1. /\ Types /\ conn[c] \in Proxies /\ A \subseteq Ids /\ IsFiniteSet(A)
      /\ \A i \in A : registered[i] # None
  BY ConnFacts
<1>2. UNCHANGED <<mapped, down>> /\ UnregisterActive(c)
  BY DEF Disconnect
<1>3. left \in Proxies /\ left.active = {}
  BY <1>1 DEF Proxies
<1>4. PICK p \in Proxies : p.active = {} /\ conn' = [conn EXCEPT ![c] = p]
  <2>1. CASE left.removing \cap Servers = {}
    <3>1. Over(left) \in Proxies /\ Over(left).active = {}
      BY <1>3 DEF Over, NoProxies, Proxies
    <3> QED BY <2>1, <3>1 DEF Disconnect
  <2>2. CASE left.removing \cap Servers # {}
    <3> DEFINE p == [left EXCEPT !.leaving = TRUE, !.draining = more]
    <3>1. p \in Proxies /\ p.active = {}
      BY <1>3 DEF Proxies
    <3> QED BY <2>2, <3>1 DEF Disconnect
  <2> QED BY <2>1, <2>2
<1>5. /\ Found(A \cap Terms) = A \cap Terms /\ Found(A \cap Servers) = A \cap Servers
      /\ A = (A \cap Terms) \cup (A \cap Servers)
      /\ (A \cap Terms) \cap (A \cap Servers) = {}
  BY <1>1, IdsAssumption DEF Found, Ids
<1>6. IsFiniteSet(A \cap Terms) /\ IsFiniteSet(A \cap Servers)
  BY <1>1, FS_Subset
<1>7. PICK x \in Orders(A \cap Terms), y \in Orders(A \cap Servers) : Unregister(c, x \o y)
  BY <1>2, <1>5 DEF UnregisterActive
<1> HIDE DEF A
<1> DEFINE order == x \o y
<1>8. PICK m \in Nat : /\ order \in [1..m -> A]
                       /\ \A j, k \in 1..m : order[j] = order[k] => j = k
                       /\ {order[j] : j \in 1..m} = A
  <2> DEFINE S == A \cap Terms
             T == A \cap Servers
  <2>1. IsFiniteSet(S) /\ IsFiniteSet(T) /\ S \cap T = {} /\ A = S \cup T
    BY <1>5, <1>6
  <2>2. x \in Orders(S) /\ y \in Orders(T)
    BY <1>7
  <2> HIDE DEF S, T
  <2>3. Visits(order, S \cup T)
    BY <2>1, <2>2, OrdersInTurn
  <2>4. Visits(order, A)
    BY <2>1, <2>3
  <2> QED BY <2>4 DEF Visits
<1>9. order \in [1..m -> Ids] /\ \A j \in 1..m : order[j] \in conn[c].active
  BY <1>1, <1>8 DEF A
<1>10. p.active = conn[c].active \ {order[j] : j \in 1..m}
  BY <1>4, <1>8 DEF A
<1>11. Unregister(c, order) /\ \A j, k \in 1..m : order[j] = order[k] => j = k
  BY <1>7, <1>8
<1> HIDE DEF order
<1> QED BY <1>2, <1>4, <1>9, <1>10, <1>11, UnregisterKeeps

\* A connection is made, or one of its proxies is back.
LEMMA ConnectKeeps ==
  ASSUME IInv, NEW c \in Conns, Connect(c) \/ HandleReleased(c)
  PROVE  IInv'
<1>1. Types /\ conn[c] \in Proxies
  BY ConnFacts
<1>2. CASE Connect(c)
  <2> DEFINE p == [conn[c] EXCEPT !.have = TRUE]
  <2>1. p \in Proxies /\ p.active = conn[c].active
    BY <1>1 DEF Proxies
  <2>2. conn' = [conn EXCEPT ![c] = p] /\ UNCHANGED <<registered, mapped, lq, down>>
    BY <1>1, <1>2 DEF Connect, Types
  <2> HIDE DEF p
  <2> QED BY <2>1, <2>2, QuietStep
<1>3. CASE HandleReleased(c)
  <2> DEFINE left == Forget(conn[c], Head(released[c]))
  <2>1. left \in Proxies /\ left.active = conn[c].active
    BY <1>1 DEF Forget, Proxies
  <2>2. Over(left) \in Proxies /\ Over(left).active = conn[c].active
    BY <2>1 DEF Over, NoProxies, Proxies
  <2>3. UNCHANGED <<registered, mapped, lq, down>>
    BY <1>3 DEF HandleReleased
  <2>4. conn' = [conn EXCEPT ![c] = left] \/ conn' = [conn EXCEPT ![c] = Over(left)]
    BY <1>3 DEF HandleReleased
  <2> HIDE DEF left
  <2> QED BY <2>1, <2>2, <2>3, <2>4, QuietStep
<1> QED BY <1>2, <1>3

\* The listener works off an item.
LEMMA ListenerStepKeeps ==
  ASSUME IInv, ListenerStep
  PROVE  IInv'
<1>1. Types /\ RegistryMatches /\ lq # <<>> /\ ~down
  BY DEF IInv, ListenerStep, HandleAdd, HandleRemove
<1>2. /\ Head(lq) \in Items /\ Tail(lq) \in Seq(Items)
      /\ Leads(Tail(lq), After(mapped, Head(lq)), registered)
      /\ After(mapped, Head(lq)) \in [Ids -> Owners]
  <2>1. Head(lq) \in Items /\ Tail(lq) \in Seq(Items) /\ Leads(lq, mapped, registered)
    BY <1>1 DEF IInv, Types
  <2>2. Leads(Tail(lq), After(mapped, Head(lq)), registered)
    BY <1>1, <2>1, LeadsTail DEF Types
  <2>3. After(mapped, Head(lq)) \in [Ids -> Owners]
    BY <1>1, <2>1 DEF After, Items, Owners, Types
  <2> QED BY <2>1, <2>2, <2>3
<1>3. UNCHANGED <<conn, registered>> /\ lq' = Tail(lq) /\ down' \in BOOLEAN
  BY <1>1 DEF ListenerStep, HandleAdd, HandleRemove, Types
<1>4. mapped' \in [Ids -> Owners] /\ (~down' => mapped' = After(mapped, Head(lq)))
  <2>1. CASE HandleAdd
    BY <1>2, <2>1 DEF HandleAdd, Item, After
  <2>2. CASE HandleRemove
    BY <1>1, <1>2, <2>2 DEF HandleRemove, Item, Unmap, After, Types
  <2> QED BY <2>1, <2>2 DEF ListenerStep
<1>5. Types' /\ RegistryMatches'
  BY <1>1, <1>2, <1>3, <1>4 DEF Types, RegistryMatches
<1>6. ~down' => Leads(lq', mapped', registered')
  BY <1>2, <1>3, <1>4
<1> QED BY <1>5, <1>6 DEF IInv

-----------------------------------------------------------------------------
(* The inductive invariant *)

LEMMA Initially == Init => IInv
<1> SUFFICES ASSUME Init PROVE IInv
  OBVIOUS
<1>1. NoProxies \in Proxies /\ NoProxies.active = {}
  BY DEF NoProxies, Proxies
<1>2. Types
  <2>1. /\ registered \in [Ids -> Owners] /\ mapped \in [Ids -> Owners]
        /\ lq \in Seq(Items) /\ down \in BOOLEAN
    <3>1. <<>> \in Seq(Items)
      OBVIOUS
    <3> QED BY <3>1 DEF Init, Owners
  <2>2. conn \in [Conns -> Proxies] /\ \A c \in Conns : conn[c].active = {}
    BY <1>1 DEF Init
  <2>3. IsFiniteSet({})
    BY FS_EmptySet
  <2> QED BY <2>1, <2>2, <2>3 DEF Types
<1>3. RegistryMatches
  BY <1>1, NoneAssumption DEF Init, RegistryMatches
<1>4. Leads(lq, mapped, registered)
  BY <1>2, LeadsEmpty DEF Init, Types
<1> QED BY <1>2, <1>3, <1>4 DEF IInv

LEMMA NextKeeps == IInv /\ [Next]_vars => IInv'
<1> SUFFICES ASSUME IInv, [Next]_vars PROVE IInv'
  OBVIOUS
<1>1. CASE ListenerStep
  BY <1>1, ListenerStepKeeps
<1>2. ASSUME NEW c \in Conns, Connect(c) \/ HandleReleased(c) PROVE IInv'
  BY <1>2, ConnectKeeps
<1>3. ASSUME NEW c \in Conns, NEW more \in BOOLEAN, Disconnect(c, more) PROVE IInv'
  BY <1>3, DisconnectKeeps
<1>4. ASSUME NEW c \in Conns,
             (\E s \in Servers, k \in 0..MaxInitial : WireServerAnnounce(c, s, k))
               \/ (\E t \in Terms : WireTermAnnounce(c, t))
      PROVE  IInv'
  BY <1>4, AnnounceKeeps
<1>5. ASSUME NEW c \in Conns, NEW i \in Ids, WireRemove(c, i) PROVE IInv'
  BY <1>5, WireRemoveKeeps
<1>6. ASSUME NEW c \in Conns, NEW i \in Ids, Release(c, i) PROVE IInv'
  BY <1>6, SameKeeps DEF Release
<1>7. CASE UNCHANGED vars
  BY <1>7, SameKeeps DEF vars
<1> QED BY <1>1, <1>2, <1>3, <1>4, <1>5, <1>6, <1>7 DEF Next

\* The listener's queue leads from its maps to the registry throughout.
THEOREM Invariance == Spec => []IInv
  BY Initially, NextKeeps, PTL DEF Spec

-----------------------------------------------------------------------------
(* What the runs check *)

\* What the listener routes by is what each connection believes it registered.
THEOREM RegistrySound == Spec => []RegistryMatches
<1>1. IInv => RegistryMatches
  BY DEF IInv
<1> QED BY <1>1, Invariance, PTL

\* With its queue worked off the listener's maps hold the registered proxies,
\* and an id is added only when its old proxy has left the map.
THEOREM MapsSound == Spec => []MapsAgree
<1>1. IInv => MapsAgree
  <2> SUFFICES ASSUME IInv, ~down
               PROVE  /\ lq = <<>> => mapped = registered
                      /\ lq # <<>> /\ Item.op = "add" => mapped[Item.id] = None
    BY DEF MapsAgree
  <2>1. Types /\ Leads(lq, mapped, registered)
    BY DEF IInv
  <2>2. lq = <<>> => mapped = registered
    BY <2>1, LeadsEmpty DEF Types
  <2>3. lq # <<>> /\ Item.op = "add" => mapped[Item.id] = None
    BY <2>1, LeadsTail DEF Types, Item
  <2> QED BY <2>2, <2>3
<1> QED BY <1>1, Invariance, PTL

-----------------------------------------------------------------------------
(* Forwarder: sequences *)

LEMMA Single == \A x : Append(<<>>, x) = <<x>> /\ Tail(<<x>>) = <<>> /\ Head(<<x>>) = x /\ <<x>> # <<>>
  OBVIOUS

\* What an item at the end, or from the front, does to a sequence and its items.
LEMMA Appending ==
  ASSUME NEW S, NEW s \in Seq(S), NEW x \in S
  PROVE  /\ Append(s, x) \in Seq(S) /\ Len(s) \in Nat /\ Len(Append(s, x)) = Len(s) + 1
         /\ Forward!ToSet(Append(s, x)) = Forward!ToSet(s) \cup {x}
<1>1. Append(s, x) \in Seq(S) /\ Len(Append(s, x)) = Len(s) + 1 /\ DOMAIN s = 1 .. Len(s)
  OBVIOUS
<1>2. /\ DOMAIN Append(s, x) = 1 .. Len(s) + 1
      /\ \A j \in 1 .. Len(s) : Append(s, x)[j] = s[j]
      /\ Append(s, x)[Len(s) + 1] = x
  OBVIOUS
<1>3. Len(s) + 1 \in DOMAIN Append(s, x) /\ \A j \in 1 .. Len(s) + 1 : j \in 1 .. Len(s) \/ j = Len(s) + 1
  BY <1>2
<1>4. 1 .. Len(s) \subseteq DOMAIN Append(s, x)
  BY <1>2
<1> HIDE <1>2
<1> QED BY <1>1, <1>2, <1>3, <1>4 DEF Forward!ToSet

LEMMA Taking ==
  ASSUME NEW S, NEW s \in Seq(S), s # <<>>
  PROVE  /\ Head(s) \in S /\ Tail(s) \in Seq(S) /\ Len(s) \in Nat \ {0} /\ Len(Tail(s)) = Len(s) - 1
         /\ <<Head(s)>> \in Seq(S) /\ <<Head(s)>> \o Tail(s) = s
         /\ Head(s) \in Forward!ToSet(s) /\ Forward!ToSet(Tail(s)) \subseteq Forward!ToSet(s)
<1>1. /\ Head(s) \in S /\ Tail(s) \in Seq(S) /\ Len(Tail(s)) = Len(s) - 1 /\ Len(s) \in Nat \ {0}
      /\ DOMAIN s = 1 .. Len(s) /\ <<Head(s)>> \in Seq(S)
  OBVIOUS
<1>2. /\ DOMAIN Tail(s) = 1 .. Len(s) - 1
      /\ (\A j \in 1 .. Len(s) - 1 : Tail(s)[j] = s[j + 1]) /\ Head(s) = s[1]
  OBVIOUS
<1>3. Head(s) \in Forward!ToSet(s)
  BY <1>1, <1>2 DEF Forward!ToSet
<1>4. ASSUME NEW y \in Forward!ToSet(Tail(s)) PROVE y \in Forward!ToSet(s)
  <2>1. PICK j \in DOMAIN Tail(s) : y = Tail(s)[j]
    BY DEF Forward!ToSet
  <2>2. j \in 1 .. Len(s) - 1 /\ j + 1 \in DOMAIN s /\ y = s[j + 1]
    BY <1>1, <1>2, <2>1
  <2> QED BY <2>2 DEF Forward!ToSet
<1>5. <<Head(s)>> \o Tail(s) = s
  OBVIOUS
<1> QED BY <1>1, <1>3, <1>4, <1>5

\* What the copier shows, it no longer holds.
LEMMA Onwards ==
  ASSUME NEW S, NEW a \in Seq(S), NEW b \in Seq(S), NEW c \in Seq(S)
  PROVE  (a \o b) \o (<<>> \o c) = a \o (b \o c) /\ a \o b \in Seq(S)
<1>1. <<>> \o c = c /\ a \o b \in Seq(S)
  OBVIOUS
<1>2. (a \o b) \o c = a \o (b \o c)
  BY ConcatAssociative
<1> QED BY <1>1, <1>2

\* What the copier takes is what the pair had first.
LEMMA Moving ==
  ASSUME NEW S, NEW b \in Seq(S), NEW c \in Seq(S), b = <<>>, c # <<>>
  PROVE  <<Head(c)>> \o Tail(c) = b \o c
<1>1. <<>> \o c = c
  OBVIOUS
<1> QED BY <1>1, Taking

\* A stream is empty where all its parts are.
LEMMA Empties ==
  ASSUME NEW S, NEW a \in Seq(S), NEW b \in Seq(S), NEW c \in Seq(S)
  PROVE  /\ a \o (b \o c) = <<>> => a = <<>> /\ b = <<>> /\ c = <<>>
         /\ b = <<>> /\ c = <<>> => a \o (b \o c) = a
<1>1. b \o c = <<>> => b = <<>> /\ c = <<>>
  BY ConcatEqualIffEmpty
<1>2. a \o (b \o c) = <<>> => a = <<>> /\ b \o c = <<>>
  OBVIOUS
<1>3. a \o <<>> = a /\ <<>> \o <<>> = <<>>
  OBVIOUS
<1> QED BY <1>1, <1>2, <1>3

\* The records have their fields.
FwdShapes ==
  /\ fwd = [pc |-> fwd.pc, pty |-> fwd.pty, protocol |-> fwd.protocol, clean |-> fwd.clean,
            writerExit |-> fwd.writerExit, status |-> fwd.status]
  /\ ctrl = [up |-> ctrl.up, down |-> ctrl.down]
  /\ pair = [up |-> pair.up, down |-> pair.down, shut |-> pair.shut, closed |-> pair.closed,
             reset |-> pair.reset]
  /\ srv = [pc |-> srv.pc, left |-> srv.left, wrote |-> srv.wrote, clean |-> srv.clean,
            status |-> srv.status, noRoom |-> srv.noRoom]
  /\ tty = [typed |-> tty.typed, shown |-> tty.shown, told |-> tty.told, keys |-> tty.keys,
            answered |-> tty.answered, hung |-> tty.hung]
  /\ copier = [c \in {"in", "out"} |-> copier[c]]
  /\ copier["in"] = [run |-> copier["in"].run, held |-> copier["in"].held]
  /\ copier["out"] = [run |-> copier["out"].run, held |-> copier["out"].held]

\* What the fields hold.
FwdMainTypes ==
  /\ fwd.pc \in {"ReadingHandshake", "WritingHandshake", "ReadingResponse", "WritingDescriptors",
                 "ReadingInfo", "leaving", "gone"}
  /\ fwd.pty \in BOOLEAN /\ fwd.protocol \in BOOLEAN /\ fwd.clean \in BOOLEAN /\ fwd.writerExit \in BOOLEAN
  /\ fwd.status \in Forward!Reasons \cup {"forwarderError", "shutdown", "lost"}
  /\ queue \in Seq(Forward!Ends)
FwdCopierTypes ==
  /\ copier["in"].run \in BOOLEAN /\ copier["in"].held \in Seq(Forward!Inputs)
  /\ copier["out"].run \in BOOLEAN /\ copier["out"].held \in Seq(Forward!Items)
FwdCtrlTypes ==
  /\ ctrl.up \in Seq(Forward!Letters)
  /\ ctrl.down \in Seq(Forward!Answers)
FwdPairTypes ==
  /\ pair.up \in Seq(Forward!Inputs) /\ pair.down \in Seq(Forward!Items)
  /\ pair.shut \in BOOLEAN /\ pair.closed \in BOOLEAN /\ pair.reset \in BOOLEAN
FwdSrvTypes ==
  /\ srv.pc \in {"hello", "response", "fds", "response2", "session", "bye", "status", "close", "gone"}
  /\ srv.left \in 0 .. Output /\ srv.wrote \in Seq(Forward!Items)
  /\ srv.clean \in BOOLEAN /\ srv.status \in Forward!Reasons /\ srv.noRoom \in BOOLEAN
FwdTtyTypes ==
  /\ tty.typed \in Seq(Forward!Inputs) /\ tty.shown \in Seq(Forward!Items)
  /\ tty.told \in BOOLEAN /\ tty.keys \in 0 .. Keys /\ tty.answered \in BOOLEAN /\ tty.hung \in BOOLEAN
FwdFields ==
  FwdMainTypes /\ FwdCopierTypes /\ FwdCtrlTypes /\ FwdPairTypes /\ FwdSrvTypes /\ FwdTtyTypes

FwdGood ==
  FwdShapes /\ FwdFields /\ Forward!Streams /\ Forward!Handshakes /\ Forward!Copiers /\ Forward!Leaving

\* Writing to the pair lengthens the stream by what is written.
LEMMA FwdWrote ==
  ASSUME FwdFields, NEW item \in Forward!Items
  PROVE  tty.shown \o (copier["out"].held \o Append(pair.down, item))
           = Append(tty.shown \o (copier["out"].held \o pair.down), item)
<1> DEFINE shown == tty.shown
           held == copier["out"].held
           wire == pair.down
           new == <<item>>
<1>1. /\ shown \in Seq(Forward!Items) /\ held \in Seq(Forward!Items) /\ wire \in Seq(Forward!Items)
      /\ new \in Seq(Forward!Items)
  BY DEF FwdFields, FwdCopierTypes, FwdPairTypes, FwdTtyTypes
<1>2. \A u \in Seq(Forward!Items) : Append(u, item) = u \o new
  BY AppendIsConcat
<1> HIDE DEF shown, held, wire, new
<1>3. held \o wire \in Seq(Forward!Items)
  BY <1>1
<1>4. shown \o (held \o wire) \in Seq(Forward!Items)
  BY <1>1, <1>3
<1>5. (shown \o (held \o wire)) \o new = shown \o ((held \o wire) \o new)
  <2> DEFINE flow == held \o wire
  <2>1. flow \in Seq(Forward!Items)
    BY <1>3
  <2>2. shown \in Seq(Forward!Items) /\ new \in Seq(Forward!Items)
    BY <1>1
  <2> HIDE DEF flow
  <2>3. (shown \o flow) \o new = shown \o (flow \o new)
    BY <2>1, <2>2, ConcatAssociative
  <2> QED BY <2>3 DEF flow
<1>6. (held \o wire) \o new = held \o (wire \o new)
  BY <1>1, ConcatAssociative
<1>7. Append(wire, item) = wire \o new
  BY <1>1, <1>2
<1>8. Append(shown \o (held \o wire), item) = (shown \o (held \o wire)) \o new
  BY <1>2, <1>4
<1>9. shown \o (held \o Append(wire, item)) = Append(shown \o (held \o wire), item)
  BY <1>5, <1>6, <1>7, <1>8
<1> QED BY <1>9 DEF shown, held, wire

\* What a step leaves alone keeps its types.
LEMMA FwdFrame ==
  ASSUME FwdFields
  PROVE  /\ UNCHANGED <<fwd, queue>> => FwdMainTypes'
         /\ UNCHANGED copier => FwdCopierTypes'
         /\ UNCHANGED ctrl => FwdCtrlTypes'
         /\ UNCHANGED pair => FwdPairTypes'
         /\ UNCHANGED srv => FwdSrvTypes'
         /\ UNCHANGED tty => FwdTtyTypes'
<1>1. UNCHANGED <<fwd, queue>> => FwdMainTypes'
  BY DEF FwdFields, FwdMainTypes
<1>2. UNCHANGED copier => FwdCopierTypes'
  BY DEF FwdFields, FwdCopierTypes
<1>3. UNCHANGED ctrl => FwdCtrlTypes'
  BY DEF FwdFields, FwdCtrlTypes
<1>4. UNCHANGED pair => FwdPairTypes'
  BY DEF FwdFields, FwdPairTypes
<1>5. UNCHANGED srv => FwdSrvTypes'
  BY DEF FwdFields, FwdSrvTypes
<1>6. UNCHANGED tty => FwdTtyTypes'
  BY DEF FwdFields, FwdTtyTypes
<1> QED BY <1>1, <1>2, <1>3, <1>4, <1>5, <1>6

\* A copier that takes something into its buffer, or ends.
FwdCopierShape ==
  /\ copier = [c \in {"in", "out"} |-> copier[c]]
  /\ copier["in"] = [run |-> copier["in"].run, held |-> copier["in"].held]
  /\ copier["out"] = [run |-> copier["out"].run, held |-> copier["out"].held]
LEMMA FwdHolds ==
  ASSUME FwdCopierShape, NEW c \in {"in", "out"}, NEW s, Forward!Holds(c, s)
  PROVE  /\ FwdCopierShape' /\ copier'[c].held = s /\ copier'[c].run = copier[c].run
         /\ c = "in" \/ copier'["in"] = copier["in"]
         /\ c = "out" \/ copier'["out"] = copier["out"]
<1>1. copier'["in"] = IF c = "in" THEN [run |-> copier["in"].run, held |-> s] ELSE copier["in"]
  BY DEF FwdCopierShape, Forward!Holds
<1>2. copier'["out"] = IF c = "out" THEN [run |-> copier["out"].run, held |-> s] ELSE copier["out"]
  BY DEF FwdCopierShape, Forward!Holds
<1>3. copier' = [d \in {"in", "out"} |-> copier'[d]]
  BY DEF FwdCopierShape, Forward!Holds
<1> QED BY <1>1, <1>2, <1>3 DEF FwdCopierShape
\* CopierGone(c) keeps the invariant.
LEMMA FwdCopierGone ==
  ASSUME FwdCopierShape, NEW c \in {"in", "out"}, Forward!CopierGone(c)
  PROVE  /\ FwdCopierShape' /\ copier'[c].run = FALSE /\ copier'[c].held = copier[c].held
         /\ c = "in" \/ copier'["in"] = copier["in"]
         /\ c = "out" \/ copier'["out"] = copier["out"]
<1>1. copier'[c] = [copier[c] EXCEPT !.run = FALSE] /\ \A d \in {"in", "out"} \ {c} : copier'[d] = copier[d]
  BY DEF FwdCopierShape, Forward!CopierGone
<1>2. copier[c] = [run |-> copier[c].run, held |-> copier[c].held]
  BY DEF FwdCopierShape
<1>3. /\ copier'[c] = [run |-> copier'[c].run, held |-> copier'[c].held]
      /\ copier'[c].run = FALSE /\ copier'[c].held = copier[c].held
  BY <1>1, <1>2
<1>4. copier' = [d \in {"in", "out"} |-> copier'[d]]
  BY DEF FwdCopierShape, Forward!CopierGone
<1> QED BY <1>1, <1>3, <1>4 DEF FwdCopierShape

\* The copiers start with nothing.
LEMMA FwdStarts ==
  ASSUME copier' = [c \in {"in", "out"} |-> [run |-> TRUE, held |-> <<>>]]
  PROVE  /\ FwdCopierShape' /\ copier'["in"].run = TRUE /\ copier'["out"].run = TRUE
         /\ copier'["in"].held = <<>> /\ copier'["out"].held = <<>>
<1>1. \A c \in {"in", "out"} : copier'[c] = [run |-> TRUE, held |-> <<>>]
  OBVIOUS
<1>2. copier' = [c \in {"in", "out"} |-> copier'[c]]
  OBVIOUS
<1>3. /\ copier'["in"].run = TRUE /\ copier'["out"].run = TRUE /\ copier'["in"].held = <<>>
      /\ copier'["out"].held = <<>>
  BY <1>1
<1>4. /\ copier'["in"] = [run |-> copier'["in"].run, held |-> copier'["in"].held]
      /\ copier'["out"] = [run |-> copier'["out"].run, held |-> copier'["out"].held]
  BY <1>1
<1> QED BY <1>2, <1>3, <1>4 DEF FwdCopierShape

\* SrvHello keeps the invariant.
LEMMA FwdSrvHello ==
  ASSUME Output \in Nat, Keys \in Nat, Cap \in Nat, FwdGood, Forward!SrvHello
  PROVE  FwdGood'
<1>1. /\ srv.pc = "hello" /\ ctrl'.up = ctrl.up /\ ctrl'.down = Append(ctrl.down, "hello")
      /\ srv'.pc = "response" /\ srv'.left = srv.left /\ srv'.wrote = srv.wrote
      /\ srv'.clean = srv.clean /\ srv'.status = srv.status /\ srv'.noRoom = srv.noRoom
      /\ UNCHANGED <<fwd, queue, copier, pair, tty>>
  BY DEF FwdGood, FwdShapes, Forward!SrvHello, Forward!Answer
<1>2. FwdShapes'
  BY DEF FwdGood, FwdShapes, Forward!SrvHello, Forward!Answer
<1>3. ctrl.down \in Seq(Forward!Answers)
  BY DEF FwdGood, FwdFields, FwdCtrlTypes
<1>4. "hello" \in Forward!Answers
  BY DEF FwdGood, FwdFields, FwdSrvTypes, Forward!Answers, Forward!Reasons
<1>5. /\ Append(ctrl.down, "hello") \in Seq(Forward!Answers) /\ Len(ctrl.down) \in Nat
      /\ Len(Append(ctrl.down, "hello")) = Len(ctrl.down) + 1
      /\ Forward!ToSet(Append(ctrl.down, "hello")) = Forward!ToSet(ctrl.down) \cup {"hello"}
  BY <1>3, <1>4, Appending
<1>6. ctrl.down = <<>> => ctrl'.down = <<"hello">>
  BY <1>1, Single
<1>7. FwdFields'
  <2>1. FwdCtrlTypes'
    BY <1>1, <1>5, <1>6 DEF FwdGood, FwdFields, FwdCtrlTypes
  <2>2. FwdSrvTypes'
    BY <1>1, <1>5, <1>6 DEF FwdGood, FwdFields, FwdSrvTypes
  <2>3. FwdMainTypes' /\ FwdCopierTypes' /\ FwdPairTypes' /\ FwdTtyTypes'
    BY <1>1, FwdFrame DEF FwdGood
  <2> QED BY <2>1, <2>2, <2>3 DEF FwdFields
<1>8. Forward!Streams'
  BY <1>1, <1>5, <1>6 DEF FwdGood, Forward!Streams, Forward!Drained
<1>9. Forward!Handshakes'
  BY <1>1, <1>5, <1>6 DEF FwdGood, Forward!Handshakes, Forward!Byed, Forward!Bye, Forward!Statused
<1>10. Forward!Copiers'
  BY <1>1, <1>5, <1>6 DEF FwdGood, Forward!Copiers, Forward!Shut, Forward!Early, Forward!Drained
<1>11. Forward!Leaving'
  BY <1>1, <1>5, <1>6 DEF FwdGood, Forward!Leaving, Forward!Byed, Forward!Bye, Forward!Error
<1> QED BY <1>2, <1>7, <1>8, <1>9, <1>10, <1>11 DEF FwdGood

\* SrvResponse keeps the invariant.
LEMMA FwdSrvResponse ==
  ASSUME Output \in Nat, Keys \in Nat, Cap \in Nat, FwdGood, Forward!SrvResponse
  PROVE  FwdGood'
<1>1. /\ srv.pc = "response" /\ ctrl.up # <<>> /\ ctrl'.up = Tail(ctrl.up)
      /\ ctrl'.down = Append(ctrl.down, "byte") /\ srv'.pc = "fds" /\ srv'.left = srv.left
      /\ srv'.wrote = srv.wrote /\ srv'.clean = srv.clean /\ srv'.status = srv.status
      /\ srv'.noRoom = srv.noRoom /\ UNCHANGED <<fwd, queue, copier, pair, tty>>
  BY DEF FwdGood, FwdShapes, Forward!SrvResponse
<1>2. FwdShapes'
  BY DEF FwdGood, FwdShapes, Forward!SrvResponse
<1>3. ctrl.up \in Seq(Forward!Letters) /\ ctrl.up # <<>>
  BY <1>1 DEF FwdGood, FwdFields, FwdCtrlTypes, Forward!Typed
<1>4. /\ Tail(ctrl.up) \in Seq(Forward!Letters) /\ Len(ctrl.up) \in Nat
      /\ Len(Tail(ctrl.up)) = Len(ctrl.up) - 1 /\ Head(ctrl.up) \in Forward!Letters
      /\ Head(ctrl.up) \in Forward!ToSet(ctrl.up)
      /\ Forward!ToSet(Tail(ctrl.up)) \subseteq Forward!ToSet(ctrl.up)
  BY <1>3, Taking
<1>5. ctrl.down \in Seq(Forward!Answers)
  BY DEF FwdGood, FwdFields, FwdCtrlTypes
<1>6. "byte" \in Forward!Answers
  BY DEF FwdGood, FwdFields, FwdSrvTypes, Forward!Answers, Forward!Reasons
<1>7. /\ Append(ctrl.down, "byte") \in Seq(Forward!Answers) /\ Len(ctrl.down) \in Nat
      /\ Len(Append(ctrl.down, "byte")) = Len(ctrl.down) + 1
      /\ Forward!ToSet(Append(ctrl.down, "byte")) = Forward!ToSet(ctrl.down) \cup {"byte"}
  BY <1>5, <1>6, Appending
<1>8. ctrl.down = <<>> => ctrl'.down = <<"byte">>
  BY <1>1, Single
<1>9. ctrl.up = <<"clientFd">> => ctrl'.up = <<>>
  BY <1>1, Single
<1>10. FwdFields'
  <2>1. FwdCtrlTypes'
    BY <1>1, <1>4, <1>7, <1>8, <1>9 DEF FwdGood, FwdFields, FwdCtrlTypes
  <2>2. FwdSrvTypes'
    BY <1>1, <1>4, <1>7, <1>8, <1>9 DEF FwdGood, FwdFields, FwdSrvTypes
  <2>3. FwdMainTypes' /\ FwdCopierTypes' /\ FwdPairTypes' /\ FwdTtyTypes'
    BY <1>1, FwdFrame DEF FwdGood
  <2> QED BY <2>1, <2>2, <2>3 DEF FwdFields
<1>11. Forward!Streams'
  BY <1>1, <1>4, <1>7, <1>8, <1>9 DEF FwdGood, Forward!Streams, Forward!Drained
<1>12. Forward!Handshakes'
  BY <1>1, <1>4, <1>7, <1>8, <1>9 DEF FwdGood, Forward!Handshakes, Forward!Byed, Forward!Bye,
     Forward!Statused
<1>13. Forward!Copiers'
  BY <1>1, <1>4, <1>7, <1>8, <1>9 DEF FwdGood, Forward!Copiers, Forward!Shut, Forward!Early, Forward!Drained
<1>14. Forward!Leaving'
  BY <1>1, <1>4, <1>7, <1>8, <1>9 DEF FwdGood, Forward!Leaving, Forward!Byed, Forward!Bye, Forward!Error
<1> QED BY <1>2, <1>10, <1>11, <1>12, <1>13, <1>14 DEF FwdGood

\* SrvFds keeps the invariant.
LEMMA FwdSrvFds ==
  ASSUME Output \in Nat, Keys \in Nat, Cap \in Nat, FwdGood, Forward!SrvFds
  PROVE  FwdGood'
<1>1. CASE fwd.pty
  <2>1. /\ srv.pc = "fds" /\ ctrl.up # <<>> /\ ctrl'.up = Tail(ctrl.up) /\ ctrl'.down = ctrl.down
        /\ pair'.up = pair.up /\ pair'.down = Append(pair.down, 0) /\ pair'.shut = pair.shut
        /\ pair'.closed = pair.closed /\ pair'.reset = pair.reset /\ srv'.pc = "response2"
        /\ srv'.left = srv.left /\ srv'.wrote = <<0>> /\ srv'.clean = srv.clean
        /\ srv'.status = srv.status /\ srv'.noRoom = srv.noRoom
        /\ UNCHANGED <<fwd, queue, copier, tty>>
    BY <1>1 DEF FwdGood, FwdShapes, Forward!SrvFds, Forward!Write, Forward!Hello
  <2>2. FwdShapes'
    BY <1>1 DEF FwdGood, FwdShapes, Forward!SrvFds, Forward!Write, Forward!Hello
  <2>3. ctrl.up \in Seq(Forward!Letters) /\ ctrl.up # <<>>
    BY <1>1, <2>1 DEF FwdGood, FwdFields, FwdCtrlTypes, Forward!Typed
  <2>4. /\ Tail(ctrl.up) \in Seq(Forward!Letters) /\ Len(ctrl.up) \in Nat
        /\ Len(Tail(ctrl.up)) = Len(ctrl.up) - 1 /\ Head(ctrl.up) \in Forward!Letters
        /\ Head(ctrl.up) \in Forward!ToSet(ctrl.up)
        /\ Forward!ToSet(Tail(ctrl.up)) \subseteq Forward!ToSet(ctrl.up)
    BY <2>3, Taking
  <2>5. pair.down \in Seq(Forward!Items)
    BY DEF FwdGood, FwdFields, FwdPairTypes
  <2>6. 0 \in Forward!Items
    BY <1>1 DEF FwdGood, FwdFields, FwdSrvTypes, Forward!Items, Forward!Bye, Forward!Hello
  <2>7. /\ Append(pair.down, 0) \in Seq(Forward!Items) /\ Len(pair.down) \in Nat
        /\ Len(Append(pair.down, 0)) = Len(pair.down) + 1
        /\ Forward!ToSet(Append(pair.down, 0)) = Forward!ToSet(pair.down) \cup {0}
    BY <2>5, <2>6, Appending
  <2>8. <<0>> \in Seq(Forward!Items) /\ <<0>> = Append(<<>>, 0)
    BY DEF Forward!Items, Forward!Bye, Forward!Hello
  <2>9. /\ tty.shown \in Seq(Forward!Items) /\ copier["out"].held \in Seq(Forward!Items)
        /\ pair.down \in Seq(Forward!Items)
    BY DEF FwdGood, FwdFields, FwdCopierTypes, FwdPairTypes, FwdTtyTypes
  <2>10. srv.wrote = <<>>
    BY <2>1 DEF FwdGood, Forward!Streams
  <2>11. tty.shown = <<>> /\ copier["out"].held = <<>> /\ pair.down = <<>>
    BY <2>9, <2>10, Empties DEF FwdGood, Forward!Streams
  <2>12. tty.shown \o (copier["out"].held \o Append(pair.down, 0))
           = Append(tty.shown \o (copier["out"].held \o pair.down), 0)
    BY <2>6, FwdWrote DEF FwdGood
  <2>13. FwdFields'
    <3>1. FwdCtrlTypes'
      BY <2>1, <2>4, <2>7, <2>8, <2>9, <2>10, <2>11, <2>12 DEF FwdGood, FwdFields, FwdCtrlTypes
    <3>2. FwdSrvTypes'
      BY <2>1, <2>4, <2>7, <2>8, <2>9, <2>10, <2>11, <2>12 DEF FwdGood, FwdFields, FwdSrvTypes
    <3>3. FwdPairTypes'
      BY <2>1, <2>4, <2>7, <2>8, <2>9, <2>10, <2>11, <2>12 DEF FwdGood, FwdFields, FwdPairTypes
    <3>4. FwdMainTypes' /\ FwdCopierTypes' /\ FwdTtyTypes'
      BY <2>1, FwdFrame DEF FwdGood
    <3> QED BY <3>1, <3>2, <3>3, <3>4 DEF FwdFields
  <2>14. Forward!Streams'
    BY <1>1, <2>1, <2>4, <2>7, <2>8, <2>9, <2>10, <2>11, <2>12 DEF FwdGood, Forward!Streams, Forward!Drained
  <2>15. Forward!Handshakes'
    BY <1>1, <2>1, <2>4, <2>7, <2>8, <2>9, <2>10, <2>11, <2>12 DEF FwdGood, Forward!Handshakes,
       Forward!Byed, Forward!Bye, Forward!Statused
  <2>16. Forward!Copiers'
    BY <1>1, <2>1, <2>4, <2>7, <2>8, <2>9, <2>10, <2>11, <2>12 DEF FwdGood, Forward!Copiers,
       Forward!Shut, Forward!Early, Forward!Drained
  <2>17. Forward!Leaving'
    BY <1>1, <2>1, <2>4, <2>7, <2>8, <2>9, <2>10, <2>11, <2>12 DEF FwdGood, Forward!Leaving,
       Forward!Byed, Forward!Bye, Forward!Error
  <2> QED BY <2>2, <2>13, <2>14, <2>15, <2>16, <2>17 DEF FwdGood
<1>2. CASE ~fwd.pty
  <2>1. /\ srv.pc = "fds" /\ ctrl.up # <<>> /\ ctrl'.up = Tail(ctrl.up) /\ ctrl'.down = ctrl.down
        /\ srv'.pc = "response2" /\ srv'.left = srv.left /\ srv'.wrote = <<0>>
        /\ srv'.clean = srv.clean /\ srv'.status = srv.status /\ srv'.noRoom = srv.noRoom
        /\ tty'.typed = tty.typed /\ tty'.shown = Append(tty.shown, 0) /\ tty'.told = tty.told
        /\ tty'.keys = tty.keys /\ tty'.answered = tty.answered /\ tty'.hung = tty.hung
        /\ UNCHANGED <<fwd, queue, copier, pair>>
    BY <1>2 DEF FwdGood, FwdShapes, Forward!SrvFds, Forward!Write, Forward!Hello
  <2>2. FwdShapes'
    BY <1>2 DEF FwdGood, FwdShapes, Forward!SrvFds, Forward!Write, Forward!Hello
  <2>3. ctrl.up \in Seq(Forward!Letters) /\ ctrl.up # <<>>
    BY <1>2, <2>1 DEF FwdGood, FwdFields, FwdCtrlTypes, Forward!Typed
  <2>4. /\ Tail(ctrl.up) \in Seq(Forward!Letters) /\ Len(ctrl.up) \in Nat
        /\ Len(Tail(ctrl.up)) = Len(ctrl.up) - 1 /\ Head(ctrl.up) \in Forward!Letters
        /\ Head(ctrl.up) \in Forward!ToSet(ctrl.up)
        /\ Forward!ToSet(Tail(ctrl.up)) \subseteq Forward!ToSet(ctrl.up)
    BY <2>3, Taking
  <2>5. tty.shown \in Seq(Forward!Items)
    BY DEF FwdGood, FwdFields, FwdTtyTypes
  <2>6. 0 \in Forward!Items
    BY <1>2 DEF FwdGood, FwdFields, FwdSrvTypes, Forward!Items, Forward!Bye, Forward!Hello
  <2>7. /\ Append(tty.shown, 0) \in Seq(Forward!Items) /\ Len(tty.shown) \in Nat
        /\ Len(Append(tty.shown, 0)) = Len(tty.shown) + 1
        /\ Forward!ToSet(Append(tty.shown, 0)) = Forward!ToSet(tty.shown) \cup {0}
    BY <2>5, <2>6, Appending
  <2>8. <<0>> \in Seq(Forward!Items) /\ <<0>> = Append(<<>>, 0)
    BY DEF Forward!Items, Forward!Bye, Forward!Hello
  <2>9. /\ tty.shown \in Seq(Forward!Items) /\ copier["out"].held \in Seq(Forward!Items)
        /\ pair.down \in Seq(Forward!Items)
    BY DEF FwdGood, FwdFields, FwdCopierTypes, FwdPairTypes, FwdTtyTypes
  <2>10. srv.wrote = <<>>
    BY <2>1 DEF FwdGood, Forward!Streams
  <2>11. tty.shown = <<>> /\ copier["out"].held = <<>> /\ pair.down = <<>>
    BY <2>9, <2>10, Empties DEF FwdGood, Forward!Streams
  <2>12. FwdFields'
    <3>1. FwdCtrlTypes'
      BY <2>1, <2>4, <2>7, <2>8, <2>9, <2>10, <2>11 DEF FwdGood, FwdFields, FwdCtrlTypes
    <3>2. FwdSrvTypes'
      BY <2>1, <2>4, <2>7, <2>8, <2>9, <2>10, <2>11 DEF FwdGood, FwdFields, FwdSrvTypes
    <3>3. FwdTtyTypes'
      BY <2>1, <2>4, <2>7, <2>8, <2>9, <2>10, <2>11 DEF FwdGood, FwdFields, FwdTtyTypes
    <3>4. FwdMainTypes' /\ FwdCopierTypes' /\ FwdPairTypes'
      BY <2>1, FwdFrame DEF FwdGood
    <3> QED BY <3>1, <3>2, <3>3, <3>4 DEF FwdFields
  <2>13. Forward!Streams'
    BY <1>2, <2>1, <2>4, <2>7, <2>8, <2>9, <2>10, <2>11 DEF FwdGood, Forward!Streams, Forward!Drained
  <2>14. Forward!Handshakes'
    BY <1>2, <2>1, <2>4, <2>7, <2>8, <2>9, <2>10, <2>11 DEF FwdGood, Forward!Handshakes, Forward!Byed,
       Forward!Bye, Forward!Statused
  <2>15. Forward!Copiers'
    BY <1>2, <2>1, <2>4, <2>7, <2>8, <2>9, <2>10, <2>11 DEF FwdGood, Forward!Copiers, Forward!Shut,
       Forward!Early, Forward!Drained
  <2>16. Forward!Leaving'
    BY <1>2, <2>1, <2>4, <2>7, <2>8, <2>9, <2>10, <2>11 DEF FwdGood, Forward!Leaving, Forward!Byed,
       Forward!Bye, Forward!Error
  <2> QED BY <2>2, <2>12, <2>13, <2>14, <2>15, <2>16 DEF FwdGood
<1> QED BY <1>1, <1>2 DEF FwdGood, FwdShapes, FwdFields, FwdMainTypes, Forward!SrvFds, Forward!Write,
           Forward!Hello

\* SrvLost keeps the invariant.
LEMMA FwdSrvLost ==
  ASSUME Output \in Nat, Keys \in Nat, Cap \in Nat, FwdGood, Forward!SrvLost
  PROVE  FwdGood'
<1>1. /\ srv.pc \in {"response", "fds"} /\ fwd.pc = "gone" /\ srv'.pc = "gone"
      /\ srv'.left = srv.left /\ srv'.wrote = srv.wrote /\ srv'.clean = srv.clean
      /\ srv'.status = srv.status /\ srv'.noRoom = srv.noRoom
      /\ UNCHANGED <<fwd, queue, copier, ctrl, pair, tty>>
  BY DEF FwdGood, FwdShapes, Forward!SrvLost, Forward!FwdThere
<1>2. FwdShapes'
  BY DEF FwdGood, FwdShapes, Forward!SrvLost, Forward!FwdThere
<1>3. FwdFields'
  <2>1. FwdSrvTypes'
    BY <1>1 DEF FwdGood, FwdFields, FwdSrvTypes
  <2>2. FwdMainTypes' /\ FwdCopierTypes' /\ FwdCtrlTypes' /\ FwdPairTypes' /\ FwdTtyTypes'
    BY <1>1, FwdFrame DEF FwdGood
  <2> QED BY <2>1, <2>2 DEF FwdFields
<1>4. Forward!Streams'
  BY <1>1 DEF FwdGood, Forward!Streams, Forward!Drained
<1>5. Forward!Handshakes'
  BY <1>1 DEF FwdGood, Forward!Handshakes, Forward!Byed, Forward!Bye, Forward!Statused
<1>6. Forward!Copiers'
  BY <1>1 DEF FwdGood, Forward!Copiers, Forward!Shut, Forward!Early, Forward!Drained
<1>7. Forward!Leaving'
  BY <1>1 DEF FwdGood, Forward!Leaving, Forward!Byed, Forward!Bye, Forward!Error
<1> QED BY <1>2, <1>3, <1>4, <1>5, <1>6, <1>7 DEF FwdGood

\* SrvResponse2 keeps the invariant.
LEMMA FwdSrvResponse2 ==
  ASSUME Output \in Nat, Keys \in Nat, Cap \in Nat, FwdGood, Forward!SrvResponse2
  PROVE  FwdGood'
<1>1. CASE fwd.pty /\ Head(Forward!Typed) = "accept"
  <2>1. /\ srv.pc = "response2" /\ pair.up # <<>> /\ ctrl'.up = ctrl.up
        /\ ctrl'.down = Append(ctrl.down, "protocol") /\ pair'.up = Tail(pair.up)
        /\ pair'.down = pair.down /\ pair'.shut = pair.shut /\ pair'.closed = pair.closed
        /\ pair'.reset = pair.reset /\ srv'.pc = "session" /\ srv'.left = srv.left
        /\ srv'.wrote = srv.wrote /\ srv'.clean = srv.clean /\ srv'.status = srv.status
        /\ srv'.noRoom = srv.noRoom /\ UNCHANGED <<fwd, queue, copier, tty>>
    BY <1>1 DEF FwdGood, FwdShapes, Forward!SrvResponse2, Forward!Typed, Forward!TakeTyped,
       Forward!SrvEnds, Forward!Answer
  <2>2. FwdShapes'
    BY <1>1 DEF FwdGood, FwdShapes, Forward!SrvResponse2, Forward!Typed, Forward!TakeTyped,
       Forward!SrvEnds, Forward!Answer
  <2>3. ctrl.down \in Seq(Forward!Answers)
    BY DEF FwdGood, FwdFields, FwdCtrlTypes
  <2>4. "protocol" \in Forward!Answers
    BY <1>1 DEF FwdGood, FwdFields, FwdSrvTypes, Forward!Answers, Forward!Reasons
  <2>5. /\ Append(ctrl.down, "protocol") \in Seq(Forward!Answers) /\ Len(ctrl.down) \in Nat
        /\ Len(Append(ctrl.down, "protocol")) = Len(ctrl.down) + 1
        /\ Forward!ToSet(Append(ctrl.down, "protocol")) = Forward!ToSet(ctrl.down) \cup {"protocol"}
    BY <2>3, <2>4, Appending
  <2>6. pair.up \in Seq(Forward!Inputs) /\ pair.up # <<>>
    BY <1>1, <2>1 DEF FwdGood, FwdFields, FwdPairTypes, Forward!Typed
  <2>7. /\ Tail(pair.up) \in Seq(Forward!Inputs) /\ Len(pair.up) \in Nat
        /\ Len(Tail(pair.up)) = Len(pair.up) - 1 /\ Head(pair.up) \in Forward!Inputs
        /\ Head(pair.up) \in Forward!ToSet(pair.up)
        /\ Forward!ToSet(Tail(pair.up)) \subseteq Forward!ToSet(pair.up)
    BY <2>6, Taking
  <2>8. FwdFields'
    <3>1. FwdCtrlTypes'
      BY <2>1, <2>5, <2>7 DEF FwdGood, FwdFields, FwdCtrlTypes
    <3>2. FwdSrvTypes'
      BY <2>1, <2>5, <2>7 DEF FwdGood, FwdFields, FwdSrvTypes
    <3>3. FwdPairTypes'
      BY <2>1, <2>5, <2>7 DEF FwdGood, FwdFields, FwdPairTypes
    <3>4. FwdMainTypes' /\ FwdCopierTypes' /\ FwdTtyTypes'
      BY <2>1, FwdFrame DEF FwdGood
    <3> QED BY <3>1, <3>2, <3>3, <3>4 DEF FwdFields
  <2>9. Forward!Streams'
    BY <1>1, <2>1, <2>5, <2>7 DEF FwdGood, Forward!Streams, Forward!Drained
  <2>10. Forward!Handshakes'
    BY <1>1, <2>1, <2>5, <2>7 DEF FwdGood, Forward!Handshakes, Forward!Byed, Forward!Bye, Forward!Statused
  <2>11. Forward!Copiers'
    BY <1>1, <2>1, <2>5, <2>7 DEF FwdGood, Forward!Copiers, Forward!Shut, Forward!Early, Forward!Drained
  <2>12. Forward!Leaving'
    BY <1>1, <2>1, <2>5, <2>7 DEF FwdGood, Forward!Leaving, Forward!Byed, Forward!Bye, Forward!Error
  <2> QED BY <2>2, <2>8, <2>9, <2>10, <2>11, <2>12 DEF FwdGood
<1>2. CASE fwd.pty /\ Head(Forward!Typed) = "reject"
  <2>1. /\ srv.pc = "response2" /\ pair.up # <<>> /\ pair'.up = Tail(pair.up)
        /\ pair'.down = pair.down /\ pair'.shut = pair.shut /\ pair'.closed = pair.closed
        /\ pair'.reset = pair.reset /\ srv'.pc = "bye" /\ srv'.left = srv.left
        /\ srv'.wrote = srv.wrote /\ srv'.clean = TRUE /\ srv'.status = "rejected"
        /\ srv'.noRoom = srv.noRoom /\ UNCHANGED <<fwd, queue, copier, ctrl, tty>>
    BY <1>2 DEF FwdGood, FwdShapes, Forward!SrvResponse2, Forward!Typed, Forward!TakeTyped,
       Forward!SrvEnds, Forward!Answer
  <2>2. FwdShapes'
    BY <1>2 DEF FwdGood, FwdShapes, Forward!SrvResponse2, Forward!Typed, Forward!TakeTyped,
       Forward!SrvEnds, Forward!Answer
  <2>3. pair.up \in Seq(Forward!Inputs) /\ pair.up # <<>>
    BY <1>2, <2>1 DEF FwdGood, FwdFields, FwdPairTypes, Forward!Typed
  <2>4. /\ Tail(pair.up) \in Seq(Forward!Inputs) /\ Len(pair.up) \in Nat
        /\ Len(Tail(pair.up)) = Len(pair.up) - 1 /\ Head(pair.up) \in Forward!Inputs
        /\ Head(pair.up) \in Forward!ToSet(pair.up)
        /\ Forward!ToSet(Tail(pair.up)) \subseteq Forward!ToSet(pair.up)
    BY <2>3, Taking
  <2>5. FwdFields'
    <3>1. FwdSrvTypes'
      BY <2>1, <2>4 DEF FwdGood, FwdFields, FwdSrvTypes, Forward!Reasons
    <3>2. FwdPairTypes'
      BY <2>1, <2>4 DEF FwdGood, FwdFields, FwdPairTypes
    <3>3. FwdMainTypes' /\ FwdCopierTypes' /\ FwdCtrlTypes' /\ FwdTtyTypes'
      BY <2>1, FwdFrame DEF FwdGood
    <3> QED BY <3>1, <3>2, <3>3 DEF FwdFields
  <2>6. Forward!Streams'
    BY <1>2, <2>1, <2>4 DEF FwdGood, Forward!Streams, Forward!Drained
  <2>7. Forward!Handshakes'
    BY <1>2, <2>1, <2>4 DEF FwdGood, Forward!Handshakes, Forward!Byed, Forward!Bye, Forward!Statused
  <2>8. Forward!Copiers'
    BY <1>2, <2>1, <2>4 DEF FwdGood, Forward!Copiers, Forward!Shut, Forward!Early, Forward!Drained
  <2>9. Forward!Leaving'
    BY <1>2, <2>1, <2>4 DEF FwdGood, Forward!Leaving, Forward!Byed, Forward!Bye, Forward!Error
  <2> QED BY <2>2, <2>5, <2>6, <2>7, <2>8, <2>9 DEF FwdGood
<1>3. CASE fwd.pty /\ Head(Forward!Typed) \notin {"accept", "reject"}
  <2>1. /\ srv.pc = "response2" /\ pair.up # <<>> /\ pair'.up = Tail(pair.up)
        /\ pair'.down = pair.down /\ pair'.shut = pair.shut /\ pair'.closed = pair.closed
        /\ pair'.reset = pair.reset /\ srv'.pc = "bye" /\ srv'.left = srv.left
        /\ srv'.wrote = srv.wrote /\ srv'.clean = FALSE /\ srv'.status = "protocolError"
        /\ srv'.noRoom = srv.noRoom /\ UNCHANGED <<fwd, queue, copier, ctrl, tty>>
    BY <1>3 DEF FwdGood, FwdShapes, Forward!SrvResponse2, Forward!Typed, Forward!TakeTyped,
       Forward!SrvEnds, Forward!Answer
  <2>2. FwdShapes'
    BY <1>3 DEF FwdGood, FwdShapes, Forward!SrvResponse2, Forward!Typed, Forward!TakeTyped,
       Forward!SrvEnds, Forward!Answer
  <2>3. pair.up \in Seq(Forward!Inputs) /\ pair.up # <<>>
    BY <1>3, <2>1 DEF FwdGood, FwdFields, FwdPairTypes, Forward!Typed
  <2>4. /\ Tail(pair.up) \in Seq(Forward!Inputs) /\ Len(pair.up) \in Nat
        /\ Len(Tail(pair.up)) = Len(pair.up) - 1 /\ Head(pair.up) \in Forward!Inputs
        /\ Head(pair.up) \in Forward!ToSet(pair.up)
        /\ Forward!ToSet(Tail(pair.up)) \subseteq Forward!ToSet(pair.up)
    BY <2>3, Taking
  <2>5. FwdFields'
    <3>1. FwdSrvTypes'
      BY <2>1, <2>4 DEF FwdGood, FwdFields, FwdSrvTypes, Forward!Reasons
    <3>2. FwdPairTypes'
      BY <2>1, <2>4 DEF FwdGood, FwdFields, FwdPairTypes
    <3>3. FwdMainTypes' /\ FwdCopierTypes' /\ FwdCtrlTypes' /\ FwdTtyTypes'
      BY <2>1, FwdFrame DEF FwdGood
    <3> QED BY <3>1, <3>2, <3>3 DEF FwdFields
  <2>6. Forward!Streams'
    BY <1>3, <2>1, <2>4 DEF FwdGood, Forward!Streams, Forward!Drained
  <2>7. Forward!Handshakes'
    BY <1>3, <2>1, <2>4 DEF FwdGood, Forward!Handshakes, Forward!Byed, Forward!Bye, Forward!Statused
  <2>8. Forward!Copiers'
    BY <1>3, <2>1, <2>4 DEF FwdGood, Forward!Copiers, Forward!Shut, Forward!Early, Forward!Drained
  <2>9. Forward!Leaving'
    BY <1>3, <2>1, <2>4 DEF FwdGood, Forward!Leaving, Forward!Byed, Forward!Bye, Forward!Error
  <2> QED BY <2>2, <2>5, <2>6, <2>7, <2>8, <2>9 DEF FwdGood
<1>4. CASE ~fwd.pty /\ Head(Forward!Typed) = "accept"
  <2>1. /\ srv.pc = "response2" /\ tty.typed # <<>> /\ ctrl'.up = ctrl.up
        /\ ctrl'.down = Append(ctrl.down, "protocol") /\ srv'.pc = "session"
        /\ srv'.left = srv.left /\ srv'.wrote = srv.wrote /\ srv'.clean = srv.clean
        /\ srv'.status = srv.status /\ srv'.noRoom = srv.noRoom /\ tty'.typed = Tail(tty.typed)
        /\ tty'.shown = tty.shown /\ tty'.told = tty.told /\ tty'.keys = tty.keys
        /\ tty'.answered = tty.answered /\ tty'.hung = tty.hung
        /\ UNCHANGED <<fwd, queue, copier, pair>>
    BY <1>4 DEF FwdGood, FwdShapes, Forward!SrvResponse2, Forward!Typed, Forward!TakeTyped,
       Forward!SrvEnds, Forward!Answer
  <2>2. FwdShapes'
    BY <1>4 DEF FwdGood, FwdShapes, Forward!SrvResponse2, Forward!Typed, Forward!TakeTyped,
       Forward!SrvEnds, Forward!Answer
  <2>3. ctrl.down \in Seq(Forward!Answers)
    BY DEF FwdGood, FwdFields, FwdCtrlTypes
  <2>4. "protocol" \in Forward!Answers
    BY <1>4 DEF FwdGood, FwdFields, FwdSrvTypes, Forward!Answers, Forward!Reasons
  <2>5. /\ Append(ctrl.down, "protocol") \in Seq(Forward!Answers) /\ Len(ctrl.down) \in Nat
        /\ Len(Append(ctrl.down, "protocol")) = Len(ctrl.down) + 1
        /\ Forward!ToSet(Append(ctrl.down, "protocol")) = Forward!ToSet(ctrl.down) \cup {"protocol"}
    BY <2>3, <2>4, Appending
  <2>6. tty.typed \in Seq(Forward!Inputs) /\ tty.typed # <<>>
    BY <1>4, <2>1 DEF FwdGood, FwdFields, FwdTtyTypes, Forward!Typed
  <2>7. /\ Tail(tty.typed) \in Seq(Forward!Inputs) /\ Len(tty.typed) \in Nat
        /\ Len(Tail(tty.typed)) = Len(tty.typed) - 1 /\ Head(tty.typed) \in Forward!Inputs
        /\ Head(tty.typed) \in Forward!ToSet(tty.typed)
        /\ Forward!ToSet(Tail(tty.typed)) \subseteq Forward!ToSet(tty.typed)
    BY <2>6, Taking
  <2>8. FwdFields'
    <3>1. FwdCtrlTypes'
      BY <2>1, <2>5, <2>7 DEF FwdGood, FwdFields, FwdCtrlTypes
    <3>2. FwdSrvTypes'
      BY <2>1, <2>5, <2>7 DEF FwdGood, FwdFields, FwdSrvTypes
    <3>3. FwdTtyTypes'
      BY <2>1, <2>5, <2>7 DEF FwdGood, FwdFields, FwdTtyTypes
    <3>4. FwdMainTypes' /\ FwdCopierTypes' /\ FwdPairTypes'
      BY <2>1, FwdFrame DEF FwdGood
    <3> QED BY <3>1, <3>2, <3>3, <3>4 DEF FwdFields
  <2>9. Forward!Streams'
    BY <1>4, <2>1, <2>5, <2>7 DEF FwdGood, Forward!Streams, Forward!Drained
  <2>10. Forward!Handshakes'
    BY <1>4, <2>1, <2>5, <2>7 DEF FwdGood, Forward!Handshakes, Forward!Byed, Forward!Bye, Forward!Statused
  <2>11. Forward!Copiers'
    BY <1>4, <2>1, <2>5, <2>7 DEF FwdGood, Forward!Copiers, Forward!Shut, Forward!Early, Forward!Drained
  <2>12. Forward!Leaving'
    BY <1>4, <2>1, <2>5, <2>7 DEF FwdGood, Forward!Leaving, Forward!Byed, Forward!Bye, Forward!Error
  <2> QED BY <2>2, <2>8, <2>9, <2>10, <2>11, <2>12 DEF FwdGood
<1>5. CASE ~fwd.pty /\ Head(Forward!Typed) = "reject"
  <2>1. /\ srv.pc = "response2" /\ tty.typed # <<>> /\ srv'.pc = "bye" /\ srv'.left = srv.left
        /\ srv'.wrote = srv.wrote /\ srv'.clean = TRUE /\ srv'.status = "rejected"
        /\ srv'.noRoom = srv.noRoom /\ tty'.typed = Tail(tty.typed) /\ tty'.shown = tty.shown
        /\ tty'.told = tty.told /\ tty'.keys = tty.keys /\ tty'.answered = tty.answered
        /\ tty'.hung = tty.hung /\ UNCHANGED <<fwd, queue, copier, ctrl, pair>>
    BY <1>5 DEF FwdGood, FwdShapes, Forward!SrvResponse2, Forward!Typed, Forward!TakeTyped,
       Forward!SrvEnds, Forward!Answer
  <2>2. FwdShapes'
    BY <1>5 DEF FwdGood, FwdShapes, Forward!SrvResponse2, Forward!Typed, Forward!TakeTyped,
       Forward!SrvEnds, Forward!Answer
  <2>3. tty.typed \in Seq(Forward!Inputs) /\ tty.typed # <<>>
    BY <1>5, <2>1 DEF FwdGood, FwdFields, FwdTtyTypes, Forward!Typed
  <2>4. /\ Tail(tty.typed) \in Seq(Forward!Inputs) /\ Len(tty.typed) \in Nat
        /\ Len(Tail(tty.typed)) = Len(tty.typed) - 1 /\ Head(tty.typed) \in Forward!Inputs
        /\ Head(tty.typed) \in Forward!ToSet(tty.typed)
        /\ Forward!ToSet(Tail(tty.typed)) \subseteq Forward!ToSet(tty.typed)
    BY <2>3, Taking
  <2>5. FwdFields'
    <3>1. FwdSrvTypes'
      BY <2>1, <2>4 DEF FwdGood, FwdFields, FwdSrvTypes, Forward!Reasons
    <3>2. FwdTtyTypes'
      BY <2>1, <2>4 DEF FwdGood, FwdFields, FwdTtyTypes
    <3>3. FwdMainTypes' /\ FwdCopierTypes' /\ FwdCtrlTypes' /\ FwdPairTypes'
      BY <2>1, FwdFrame DEF FwdGood
    <3> QED BY <3>1, <3>2, <3>3 DEF FwdFields
  <2>6. Forward!Streams'
    BY <1>5, <2>1, <2>4 DEF FwdGood, Forward!Streams, Forward!Drained
  <2>7. Forward!Handshakes'
    BY <1>5, <2>1, <2>4 DEF FwdGood, Forward!Handshakes, Forward!Byed, Forward!Bye, Forward!Statused
  <2>8. Forward!Copiers'
    BY <1>5, <2>1, <2>4 DEF FwdGood, Forward!Copiers, Forward!Shut, Forward!Early, Forward!Drained
  <2>9. Forward!Leaving'
    BY <1>5, <2>1, <2>4 DEF FwdGood, Forward!Leaving, Forward!Byed, Forward!Bye, Forward!Error
  <2> QED BY <2>2, <2>5, <2>6, <2>7, <2>8, <2>9 DEF FwdGood
<1>6. CASE ~fwd.pty /\ Head(Forward!Typed) \notin {"accept", "reject"}
  <2>1. /\ srv.pc = "response2" /\ tty.typed # <<>> /\ srv'.pc = "bye" /\ srv'.left = srv.left
        /\ srv'.wrote = srv.wrote /\ srv'.clean = FALSE /\ srv'.status = "protocolError"
        /\ srv'.noRoom = srv.noRoom /\ tty'.typed = Tail(tty.typed) /\ tty'.shown = tty.shown
        /\ tty'.told = tty.told /\ tty'.keys = tty.keys /\ tty'.answered = tty.answered
        /\ tty'.hung = tty.hung /\ UNCHANGED <<fwd, queue, copier, ctrl, pair>>
    BY <1>6 DEF FwdGood, FwdShapes, Forward!SrvResponse2, Forward!Typed, Forward!TakeTyped,
       Forward!SrvEnds, Forward!Answer
  <2>2. FwdShapes'
    BY <1>6 DEF FwdGood, FwdShapes, Forward!SrvResponse2, Forward!Typed, Forward!TakeTyped,
       Forward!SrvEnds, Forward!Answer
  <2>3. tty.typed \in Seq(Forward!Inputs) /\ tty.typed # <<>>
    BY <1>6, <2>1 DEF FwdGood, FwdFields, FwdTtyTypes, Forward!Typed
  <2>4. /\ Tail(tty.typed) \in Seq(Forward!Inputs) /\ Len(tty.typed) \in Nat
        /\ Len(Tail(tty.typed)) = Len(tty.typed) - 1 /\ Head(tty.typed) \in Forward!Inputs
        /\ Head(tty.typed) \in Forward!ToSet(tty.typed)
        /\ Forward!ToSet(Tail(tty.typed)) \subseteq Forward!ToSet(tty.typed)
    BY <2>3, Taking
  <2>5. FwdFields'
    <3>1. FwdSrvTypes'
      BY <2>1, <2>4 DEF FwdGood, FwdFields, FwdSrvTypes, Forward!Reasons
    <3>2. FwdTtyTypes'
      BY <2>1, <2>4 DEF FwdGood, FwdFields, FwdTtyTypes
    <3>3. FwdMainTypes' /\ FwdCopierTypes' /\ FwdCtrlTypes' /\ FwdPairTypes'
      BY <2>1, FwdFrame DEF FwdGood
    <3> QED BY <3>1, <3>2, <3>3 DEF FwdFields
  <2>6. Forward!Streams'
    BY <1>6, <2>1, <2>4 DEF FwdGood, Forward!Streams, Forward!Drained
  <2>7. Forward!Handshakes'
    BY <1>6, <2>1, <2>4 DEF FwdGood, Forward!Handshakes, Forward!Byed, Forward!Bye, Forward!Statused
  <2>8. Forward!Copiers'
    BY <1>6, <2>1, <2>4 DEF FwdGood, Forward!Copiers, Forward!Shut, Forward!Early, Forward!Drained
  <2>9. Forward!Leaving'
    BY <1>6, <2>1, <2>4 DEF FwdGood, Forward!Leaving, Forward!Byed, Forward!Bye, Forward!Error
  <2> QED BY <2>2, <2>5, <2>6, <2>7, <2>8, <2>9 DEF FwdGood
<1> QED BY <1>1, <1>2, <1>3, <1>4, <1>5, <1>6 DEF FwdGood, FwdShapes, FwdFields, FwdMainTypes,
           Forward!SrvResponse2, Forward!Typed, Forward!TakeTyped, Forward!SrvEnds, Forward!Answer

\* SrvOutput keeps the invariant.
LEMMA FwdSrvOutput ==
  ASSUME Output \in Nat, Keys \in Nat, Cap \in Nat, FwdGood, Forward!SrvOutput
  PROVE  FwdGood'
<1>1. CASE fwd.pty
  <2>1. /\ srv.pc = "session" /\ srv.left > 0 /\ ~(Len(pair.down) >= Cap) /\ pair'.up = pair.up
        /\ pair'.down = Append(pair.down, (Output - srv.left + 1)) /\ pair'.shut = pair.shut
        /\ pair'.closed = pair.closed /\ pair'.reset = pair.reset /\ srv'.pc = srv.pc
        /\ srv'.left = srv.left - 1 /\ srv'.wrote = Append(srv.wrote, (Output - srv.left + 1))
        /\ srv'.clean = srv.clean /\ srv'.status = srv.status /\ srv'.noRoom = srv.noRoom
        /\ UNCHANGED <<fwd, queue, copier, ctrl, tty>>
    BY <1>1 DEF FwdGood, FwdShapes, Forward!SrvOutput, Forward!Write, Forward!Full
  <2>2. FwdShapes'
    BY <1>1 DEF FwdGood, FwdShapes, Forward!SrvOutput, Forward!Write, Forward!Full
  <2>3. srv.wrote \in Seq(Forward!Items)
    BY DEF FwdGood, FwdFields, FwdSrvTypes
  <2>4. (Output - srv.left + 1) \in Forward!Items
    BY <2>1 DEF FwdGood, FwdFields, FwdSrvTypes, Forward!Items, Forward!Bye, Forward!Hello
  <2>5. /\ Append(srv.wrote, (Output - srv.left + 1)) \in Seq(Forward!Items) /\ Len(srv.wrote) \in Nat
        /\ Len(Append(srv.wrote, (Output - srv.left + 1))) = Len(srv.wrote) + 1
        /\ Forward!ToSet(Append(srv.wrote, (Output - srv.left + 1)))
             = Forward!ToSet(srv.wrote) \cup {(Output - srv.left + 1)}
    BY <2>3, <2>4, Appending
  <2>6. pair.down \in Seq(Forward!Items)
    BY DEF FwdGood, FwdFields, FwdPairTypes
  <2>7. (Output - srv.left + 1) \in Forward!Items
    BY <2>1 DEF FwdGood, FwdFields, FwdSrvTypes, Forward!Items, Forward!Bye, Forward!Hello
  <2>8. /\ Append(pair.down, (Output - srv.left + 1)) \in Seq(Forward!Items) /\ Len(pair.down) \in Nat
        /\ Len(Append(pair.down, (Output - srv.left + 1))) = Len(pair.down) + 1
        /\ Forward!ToSet(Append(pair.down, (Output - srv.left + 1)))
             = Forward!ToSet(pair.down) \cup {(Output - srv.left + 1)}
    BY <2>6, <2>7, Appending
  <2>9. srv.left \in 0 .. Output
    BY DEF FwdGood, FwdFields, FwdSrvTypes
  <2>10. srv.left - 1 \in 0 .. Output
    BY <2>1, <2>9
  <2>11. /\ tty.shown \in Seq(Forward!Items) /\ copier["out"].held \in Seq(Forward!Items)
         /\ pair.down \in Seq(Forward!Items)
    BY DEF FwdGood, FwdFields, FwdCopierTypes, FwdPairTypes, FwdTtyTypes
  <2>12. tty.shown \o (copier["out"].held \o Append(pair.down, (Output - srv.left + 1)))
           = Append(tty.shown \o (copier["out"].held \o pair.down), (Output - srv.left + 1))
    BY <2>7, FwdWrote DEF FwdGood
  <2>13. FwdFields'
    <3>1. FwdSrvTypes'
      BY <2>1, <2>5, <2>8, <2>9, <2>10, <2>11, <2>12 DEF FwdGood, FwdFields, FwdSrvTypes
    <3>2. FwdPairTypes'
      BY <2>1, <2>5, <2>8, <2>9, <2>10, <2>11, <2>12 DEF FwdGood, FwdFields, FwdPairTypes
    <3>3. FwdMainTypes' /\ FwdCopierTypes' /\ FwdCtrlTypes' /\ FwdTtyTypes'
      BY <2>1, FwdFrame DEF FwdGood
    <3> QED BY <3>1, <3>2, <3>3 DEF FwdFields
  <2>14. tty'.shown \o (copier'["out"].held \o pair'.down) = srv'.wrote
    BY <1>1, <2>1, <2>5, <2>8, <2>9, <2>10, <2>11, <2>12 DEF FwdGood, Forward!Streams, Forward!Drained
  <2>15. Len(pair'.down) <= Cap + 1
    BY <2>1, <2>5, <2>8 DEF FwdGood, Forward!Streams
  <2>16. /\ fwd'.pty \/ Forward!Drained'
         /\ srv'.pc \in {"hello", "response", "fds"} => srv'.wrote = <<>>
    BY <1>1, <2>1 DEF FwdGood, Forward!Streams, Forward!Drained
  <2>17. Forward!Streams'
    BY <2>14, <2>15, <2>16 DEF Forward!Streams
  <2>18. Forward!Handshakes'
    BY <1>1, <2>1, <2>5, <2>8, <2>9, <2>10, <2>11, <2>12 DEF FwdGood, Forward!Handshakes, Forward!Byed,
       Forward!Bye, Forward!Statused
  <2>19. Forward!Copiers'
    BY <1>1, <2>1, <2>5, <2>8, <2>9, <2>10, <2>11, <2>12 DEF FwdGood, Forward!Copiers, Forward!Shut,
       Forward!Early, Forward!Drained
  <2>20. Forward!Leaving'
    BY <1>1, <2>1, <2>5, <2>8, <2>9, <2>10, <2>11, <2>12 DEF FwdGood, Forward!Leaving, Forward!Byed,
       Forward!Bye, Forward!Error
  <2> QED BY <2>2, <2>13, <2>17, <2>18, <2>19, <2>20 DEF FwdGood
<1>2. CASE ~fwd.pty
  <2>1. /\ srv.pc = "session" /\ srv.left > 0 /\ srv'.pc = srv.pc /\ srv'.left = srv.left - 1
        /\ srv'.wrote = Append(srv.wrote, (Output - srv.left + 1)) /\ srv'.clean = srv.clean
        /\ srv'.status = srv.status /\ srv'.noRoom = srv.noRoom /\ tty'.typed = tty.typed
        /\ tty'.shown = Append(tty.shown, (Output - srv.left + 1)) /\ tty'.told = tty.told
        /\ tty'.keys = tty.keys /\ tty'.answered = tty.answered /\ tty'.hung = tty.hung
        /\ UNCHANGED <<fwd, queue, copier, ctrl, pair>>
    BY <1>2 DEF FwdGood, FwdShapes, Forward!SrvOutput, Forward!Write, Forward!Full
  <2>2. FwdShapes'
    BY <1>2 DEF FwdGood, FwdShapes, Forward!SrvOutput, Forward!Write, Forward!Full
  <2>3. srv.wrote \in Seq(Forward!Items)
    BY DEF FwdGood, FwdFields, FwdSrvTypes
  <2>4. (Output - srv.left + 1) \in Forward!Items
    BY <2>1 DEF FwdGood, FwdFields, FwdSrvTypes, Forward!Items, Forward!Bye, Forward!Hello
  <2>5. /\ Append(srv.wrote, (Output - srv.left + 1)) \in Seq(Forward!Items) /\ Len(srv.wrote) \in Nat
        /\ Len(Append(srv.wrote, (Output - srv.left + 1))) = Len(srv.wrote) + 1
        /\ Forward!ToSet(Append(srv.wrote, (Output - srv.left + 1)))
             = Forward!ToSet(srv.wrote) \cup {(Output - srv.left + 1)}
    BY <2>3, <2>4, Appending
  <2>6. tty.shown \in Seq(Forward!Items)
    BY DEF FwdGood, FwdFields, FwdTtyTypes
  <2>7. (Output - srv.left + 1) \in Forward!Items
    BY <2>1 DEF FwdGood, FwdFields, FwdSrvTypes, Forward!Items, Forward!Bye, Forward!Hello
  <2>8. /\ Append(tty.shown, (Output - srv.left + 1)) \in Seq(Forward!Items) /\ Len(tty.shown) \in Nat
        /\ Len(Append(tty.shown, (Output - srv.left + 1))) = Len(tty.shown) + 1
        /\ Forward!ToSet(Append(tty.shown, (Output - srv.left + 1)))
             = Forward!ToSet(tty.shown) \cup {(Output - srv.left + 1)}
    BY <2>6, <2>7, Appending
  <2>9. srv.left \in 0 .. Output
    BY DEF FwdGood, FwdFields, FwdSrvTypes
  <2>10. srv.left - 1 \in 0 .. Output
    BY <2>1, <2>9
  <2>11. /\ tty.shown \in Seq(Forward!Items) /\ copier["out"].held \in Seq(Forward!Items)
         /\ pair.down \in Seq(Forward!Items)
    BY DEF FwdGood, FwdFields, FwdCopierTypes, FwdPairTypes, FwdTtyTypes
  <2>12. /\ Append(tty.shown, (Output - srv.left + 1)) \in Seq(Forward!Items)
         /\ copier["out"].held = <<>> /\ pair.down = <<>>
    BY <1>2, <2>7, <2>11 DEF FwdGood, Forward!Streams, Forward!Drained
  <2>13. /\ tty.shown \o (copier["out"].held \o pair.down) = tty.shown
         /\ Append(tty.shown, (Output - srv.left + 1)) \o (copier["out"].held \o pair.down) = Append(tty.shown, (Output - srv.left + 1))
    BY <2>11, <2>12, Empties
  <2>14. FwdFields'
    <3>1. FwdSrvTypes'
      BY <2>1, <2>5, <2>8, <2>9, <2>10, <2>11, <2>12, <2>13 DEF FwdGood, FwdFields, FwdSrvTypes
    <3>2. FwdTtyTypes'
      BY <2>1, <2>5, <2>8, <2>9, <2>10, <2>11, <2>12, <2>13 DEF FwdGood, FwdFields, FwdTtyTypes
    <3>3. FwdMainTypes' /\ FwdCopierTypes' /\ FwdCtrlTypes' /\ FwdPairTypes'
      BY <2>1, FwdFrame DEF FwdGood
    <3> QED BY <3>1, <3>2, <3>3 DEF FwdFields
  <2>15. Forward!Streams'
    BY <1>2, <2>1, <2>5, <2>8, <2>9, <2>10, <2>11, <2>12, <2>13 DEF FwdGood, Forward!Streams,
       Forward!Drained
  <2>16. Forward!Handshakes'
    BY <1>2, <2>1, <2>5, <2>8, <2>9, <2>10, <2>11, <2>12, <2>13 DEF FwdGood, Forward!Handshakes,
       Forward!Byed, Forward!Bye, Forward!Statused
  <2>17. Forward!Copiers'
    BY <1>2, <2>1, <2>5, <2>8, <2>9, <2>10, <2>11, <2>12, <2>13 DEF FwdGood, Forward!Copiers,
       Forward!Shut, Forward!Early, Forward!Drained
  <2>18. Forward!Leaving'
    BY <1>2, <2>1, <2>5, <2>8, <2>9, <2>10, <2>11, <2>12, <2>13 DEF FwdGood, Forward!Leaving,
       Forward!Byed, Forward!Bye, Forward!Error
  <2> QED BY <2>2, <2>14, <2>15, <2>16, <2>17, <2>18 DEF FwdGood
<1> QED BY <1>1, <1>2 DEF FwdGood, FwdShapes, FwdFields, FwdMainTypes, Forward!SrvOutput, Forward!Write,
           Forward!Full

\* SrvInput keeps the invariant.
LEMMA FwdSrvInput ==
  ASSUME Output \in Nat, Keys \in Nat, Cap \in Nat, FwdGood, Forward!SrvInput
  PROVE  FwdGood'
<1>1. CASE fwd.pty /\ Head(Forward!Typed) = "quit"
  <2>1. /\ srv.pc = "session" /\ pair.up # <<>> /\ pair'.up = Tail(pair.up)
        /\ pair'.down = pair.down /\ pair'.shut = pair.shut /\ pair'.closed = pair.closed
        /\ pair'.reset = pair.reset /\ srv'.pc = "bye" /\ srv'.left = srv.left
        /\ srv'.wrote = srv.wrote /\ srv'.clean = TRUE /\ srv'.status = "quit"
        /\ srv'.noRoom = srv.noRoom /\ UNCHANGED <<fwd, queue, copier, ctrl, tty>>
    BY <1>1 DEF FwdGood, FwdShapes, Forward!SrvInput, Forward!Typed, Forward!TakeTyped, Forward!SrvEnds
  <2>2. FwdShapes'
    BY <1>1 DEF FwdGood, FwdShapes, Forward!SrvInput, Forward!Typed, Forward!TakeTyped, Forward!SrvEnds
  <2>3. pair.up \in Seq(Forward!Inputs) /\ pair.up # <<>>
    BY <1>1, <2>1 DEF FwdGood, FwdFields, FwdPairTypes, Forward!Typed
  <2>4. /\ Tail(pair.up) \in Seq(Forward!Inputs) /\ Len(pair.up) \in Nat
        /\ Len(Tail(pair.up)) = Len(pair.up) - 1 /\ Head(pair.up) \in Forward!Inputs
        /\ Head(pair.up) \in Forward!ToSet(pair.up)
        /\ Forward!ToSet(Tail(pair.up)) \subseteq Forward!ToSet(pair.up)
    BY <2>3, Taking
  <2>5. FwdFields'
    <3>1. FwdSrvTypes'
      BY <2>1, <2>4 DEF FwdGood, FwdFields, FwdSrvTypes, Forward!Reasons
    <3>2. FwdPairTypes'
      BY <2>1, <2>4 DEF FwdGood, FwdFields, FwdPairTypes
    <3>3. FwdMainTypes' /\ FwdCopierTypes' /\ FwdCtrlTypes' /\ FwdTtyTypes'
      BY <2>1, FwdFrame DEF FwdGood
    <3> QED BY <3>1, <3>2, <3>3 DEF FwdFields
  <2>6. Forward!Streams'
    BY <1>1, <2>1, <2>4 DEF FwdGood, Forward!Streams, Forward!Drained
  <2>7. Forward!Handshakes'
    BY <1>1, <2>1, <2>4 DEF FwdGood, Forward!Handshakes, Forward!Byed, Forward!Bye, Forward!Statused
  <2>8. Forward!Copiers'
    BY <1>1, <2>1, <2>4 DEF FwdGood, Forward!Copiers, Forward!Shut, Forward!Early, Forward!Drained
  <2>9. Forward!Leaving'
    BY <1>1, <2>1, <2>4 DEF FwdGood, Forward!Leaving, Forward!Byed, Forward!Bye, Forward!Error
  <2> QED BY <2>2, <2>5, <2>6, <2>7, <2>8, <2>9 DEF FwdGood
<1>2. CASE fwd.pty /\ Head(Forward!Typed) # "quit"
  <2>1. /\ srv.pc = "session" /\ pair.up # <<>> /\ pair'.up = Tail(pair.up)
        /\ pair'.down = pair.down /\ pair'.shut = pair.shut /\ pair'.closed = pair.closed
        /\ pair'.reset = pair.reset /\ UNCHANGED <<fwd, queue, copier, ctrl, srv, tty>>
    BY <1>2 DEF FwdGood, FwdShapes, Forward!SrvInput, Forward!Typed, Forward!TakeTyped, Forward!SrvEnds
  <2>2. FwdShapes'
    BY <1>2 DEF FwdGood, FwdShapes, Forward!SrvInput, Forward!Typed, Forward!TakeTyped, Forward!SrvEnds
  <2>3. pair.up \in Seq(Forward!Inputs) /\ pair.up # <<>>
    BY <1>2, <2>1 DEF FwdGood, FwdFields, FwdPairTypes, Forward!Typed
  <2>4. /\ Tail(pair.up) \in Seq(Forward!Inputs) /\ Len(pair.up) \in Nat
        /\ Len(Tail(pair.up)) = Len(pair.up) - 1 /\ Head(pair.up) \in Forward!Inputs
        /\ Head(pair.up) \in Forward!ToSet(pair.up)
        /\ Forward!ToSet(Tail(pair.up)) \subseteq Forward!ToSet(pair.up)
    BY <2>3, Taking
  <2>5. FwdFields'
    <3>1. FwdPairTypes'
      BY <2>1, <2>4 DEF FwdGood, FwdFields, FwdPairTypes
    <3>2. FwdMainTypes' /\ FwdCopierTypes' /\ FwdCtrlTypes' /\ FwdSrvTypes' /\ FwdTtyTypes'
      BY <2>1, FwdFrame DEF FwdGood
    <3> QED BY <3>1, <3>2 DEF FwdFields
  <2>6. Forward!Streams'
    BY <1>2, <2>1, <2>4 DEF FwdGood, Forward!Streams, Forward!Drained
  <2>7. Forward!Handshakes'
    BY <1>2, <2>1, <2>4 DEF FwdGood, Forward!Handshakes, Forward!Byed, Forward!Bye, Forward!Statused
  <2>8. Forward!Copiers'
    BY <1>2, <2>1, <2>4 DEF FwdGood, Forward!Copiers, Forward!Shut, Forward!Early, Forward!Drained
  <2>9. Forward!Leaving'
    BY <1>2, <2>1, <2>4 DEF FwdGood, Forward!Leaving, Forward!Byed, Forward!Bye, Forward!Error
  <2> QED BY <2>2, <2>5, <2>6, <2>7, <2>8, <2>9 DEF FwdGood
<1>3. CASE ~fwd.pty /\ Head(Forward!Typed) = "quit"
  <2>1. /\ srv.pc = "session" /\ tty.typed # <<>> /\ srv'.pc = "bye" /\ srv'.left = srv.left
        /\ srv'.wrote = srv.wrote /\ srv'.clean = TRUE /\ srv'.status = "quit"
        /\ srv'.noRoom = srv.noRoom /\ tty'.typed = Tail(tty.typed) /\ tty'.shown = tty.shown
        /\ tty'.told = tty.told /\ tty'.keys = tty.keys /\ tty'.answered = tty.answered
        /\ tty'.hung = tty.hung /\ UNCHANGED <<fwd, queue, copier, ctrl, pair>>
    BY <1>3 DEF FwdGood, FwdShapes, Forward!SrvInput, Forward!Typed, Forward!TakeTyped, Forward!SrvEnds
  <2>2. FwdShapes'
    BY <1>3 DEF FwdGood, FwdShapes, Forward!SrvInput, Forward!Typed, Forward!TakeTyped, Forward!SrvEnds
  <2>3. tty.typed \in Seq(Forward!Inputs) /\ tty.typed # <<>>
    BY <1>3, <2>1 DEF FwdGood, FwdFields, FwdTtyTypes, Forward!Typed
  <2>4. /\ Tail(tty.typed) \in Seq(Forward!Inputs) /\ Len(tty.typed) \in Nat
        /\ Len(Tail(tty.typed)) = Len(tty.typed) - 1 /\ Head(tty.typed) \in Forward!Inputs
        /\ Head(tty.typed) \in Forward!ToSet(tty.typed)
        /\ Forward!ToSet(Tail(tty.typed)) \subseteq Forward!ToSet(tty.typed)
    BY <2>3, Taking
  <2>5. FwdFields'
    <3>1. FwdSrvTypes'
      BY <2>1, <2>4 DEF FwdGood, FwdFields, FwdSrvTypes, Forward!Reasons
    <3>2. FwdTtyTypes'
      BY <2>1, <2>4 DEF FwdGood, FwdFields, FwdTtyTypes
    <3>3. FwdMainTypes' /\ FwdCopierTypes' /\ FwdCtrlTypes' /\ FwdPairTypes'
      BY <2>1, FwdFrame DEF FwdGood
    <3> QED BY <3>1, <3>2, <3>3 DEF FwdFields
  <2>6. Forward!Streams'
    BY <1>3, <2>1, <2>4 DEF FwdGood, Forward!Streams, Forward!Drained
  <2>7. Forward!Handshakes'
    BY <1>3, <2>1, <2>4 DEF FwdGood, Forward!Handshakes, Forward!Byed, Forward!Bye, Forward!Statused
  <2>8. Forward!Copiers'
    BY <1>3, <2>1, <2>4 DEF FwdGood, Forward!Copiers, Forward!Shut, Forward!Early, Forward!Drained
  <2>9. Forward!Leaving'
    BY <1>3, <2>1, <2>4 DEF FwdGood, Forward!Leaving, Forward!Byed, Forward!Bye, Forward!Error
  <2> QED BY <2>2, <2>5, <2>6, <2>7, <2>8, <2>9 DEF FwdGood
<1>4. CASE ~fwd.pty /\ Head(Forward!Typed) # "quit"
  <2>1. /\ srv.pc = "session" /\ tty.typed # <<>> /\ tty'.typed = Tail(tty.typed)
        /\ tty'.shown = tty.shown /\ tty'.told = tty.told /\ tty'.keys = tty.keys
        /\ tty'.answered = tty.answered /\ tty'.hung = tty.hung
        /\ UNCHANGED <<fwd, queue, copier, ctrl, pair, srv>>
    BY <1>4 DEF FwdGood, FwdShapes, Forward!SrvInput, Forward!Typed, Forward!TakeTyped, Forward!SrvEnds
  <2>2. FwdShapes'
    BY <1>4 DEF FwdGood, FwdShapes, Forward!SrvInput, Forward!Typed, Forward!TakeTyped, Forward!SrvEnds
  <2>3. tty.typed \in Seq(Forward!Inputs) /\ tty.typed # <<>>
    BY <1>4, <2>1 DEF FwdGood, FwdFields, FwdTtyTypes, Forward!Typed
  <2>4. /\ Tail(tty.typed) \in Seq(Forward!Inputs) /\ Len(tty.typed) \in Nat
        /\ Len(Tail(tty.typed)) = Len(tty.typed) - 1 /\ Head(tty.typed) \in Forward!Inputs
        /\ Head(tty.typed) \in Forward!ToSet(tty.typed)
        /\ Forward!ToSet(Tail(tty.typed)) \subseteq Forward!ToSet(tty.typed)
    BY <2>3, Taking
  <2>5. FwdFields'
    <3>1. FwdTtyTypes'
      BY <2>1, <2>4 DEF FwdGood, FwdFields, FwdTtyTypes
    <3>2. FwdMainTypes' /\ FwdCopierTypes' /\ FwdCtrlTypes' /\ FwdPairTypes' /\ FwdSrvTypes'
      BY <2>1, FwdFrame DEF FwdGood
    <3> QED BY <3>1, <3>2 DEF FwdFields
  <2>6. Forward!Streams'
    BY <1>4, <2>1, <2>4 DEF FwdGood, Forward!Streams, Forward!Drained
  <2>7. Forward!Handshakes'
    BY <1>4, <2>1, <2>4 DEF FwdGood, Forward!Handshakes, Forward!Byed, Forward!Bye, Forward!Statused
  <2>8. Forward!Copiers'
    BY <1>4, <2>1, <2>4 DEF FwdGood, Forward!Copiers, Forward!Shut, Forward!Early, Forward!Drained
  <2>9. Forward!Leaving'
    BY <1>4, <2>1, <2>4 DEF FwdGood, Forward!Leaving, Forward!Byed, Forward!Bye, Forward!Error
  <2> QED BY <2>2, <2>5, <2>6, <2>7, <2>8, <2>9 DEF FwdGood
<1> QED BY <1>1, <1>2, <1>3, <1>4 DEF FwdGood, FwdShapes, FwdFields, FwdMainTypes, Forward!SrvInput,
           Forward!Typed, Forward!TakeTyped, Forward!SrvEnds

\* SrvEof keeps the invariant.
LEMMA FwdSrvEof ==
  ASSUME Output \in Nat, Keys \in Nat, Cap \in Nat, FwdGood, Forward!SrvEof
  PROVE  FwdGood'
<1>1. /\ srv.pc \in {"response2", "session"} /\ srv'.pc = "bye" /\ srv'.left = srv.left
      /\ srv'.wrote = srv.wrote /\ srv'.clean = TRUE /\ srv'.status = "normal"
      /\ srv'.noRoom = srv.noRoom /\ UNCHANGED <<fwd, queue, copier, ctrl, pair, tty>>
  BY DEF FwdGood, FwdShapes, Forward!SrvEof, Forward!SrvEnds
<1>2. FwdShapes'
  BY DEF FwdGood, FwdShapes, Forward!SrvEof, Forward!SrvEnds
<1>3. FwdFields'
  <2>1. FwdSrvTypes'
    BY <1>1 DEF FwdGood, FwdFields, FwdSrvTypes, Forward!Reasons
  <2>2. FwdMainTypes' /\ FwdCopierTypes' /\ FwdCtrlTypes' /\ FwdPairTypes' /\ FwdTtyTypes'
    BY <1>1, FwdFrame DEF FwdGood
  <2> QED BY <2>1, <2>2 DEF FwdFields
<1>4. Forward!Streams'
  BY <1>1 DEF FwdGood, Forward!Streams, Forward!Drained
<1>5. Forward!Handshakes'
  BY <1>1 DEF FwdGood, Forward!Handshakes, Forward!Byed, Forward!Bye, Forward!Statused
<1>6. Forward!Copiers'
  BY <1>1 DEF FwdGood, Forward!Copiers, Forward!Shut, Forward!Early, Forward!Drained
<1>7. Forward!Leaving'
  BY <1>1 DEF FwdGood, Forward!Leaving, Forward!Byed, Forward!Bye, Forward!Error
<1> QED BY <1>2, <1>3, <1>4, <1>5, <1>6, <1>7 DEF FwdGood

\* SrvClose keeps the invariant.
LEMMA FwdSrvClose ==
  ASSUME Output \in Nat, Keys \in Nat, Cap \in Nat, FwdGood, Forward!SrvClose
  PROVE  FwdGood'
<1>1. /\ srv.pc \in {"response2", "session"} /\ srv'.pc = "bye" /\ srv'.left = srv.left
      /\ srv'.wrote = srv.wrote /\ srv'.clean = FALSE /\ srv'.status = "closed"
      /\ srv'.noRoom = srv.noRoom /\ UNCHANGED <<fwd, queue, copier, ctrl, pair, tty>>
  BY DEF FwdGood, FwdShapes, Forward!SrvClose, Forward!SrvEnds
<1>2. FwdShapes'
  BY DEF FwdGood, FwdShapes, Forward!SrvClose, Forward!SrvEnds
<1>3. FwdFields'
  <2>1. FwdSrvTypes'
    BY <1>1 DEF FwdGood, FwdFields, FwdSrvTypes, Forward!Reasons
  <2>2. FwdMainTypes' /\ FwdCopierTypes' /\ FwdCtrlTypes' /\ FwdPairTypes' /\ FwdTtyTypes'
    BY <1>1, FwdFrame DEF FwdGood
  <2> QED BY <2>1, <2>2 DEF FwdFields
<1>4. Forward!Streams'
  BY <1>1 DEF FwdGood, Forward!Streams, Forward!Drained
<1>5. Forward!Handshakes'
  BY <1>1 DEF FwdGood, Forward!Handshakes, Forward!Byed, Forward!Bye, Forward!Statused
<1>6. Forward!Copiers'
  BY <1>1 DEF FwdGood, Forward!Copiers, Forward!Shut, Forward!Early, Forward!Drained
<1>7. Forward!Leaving'
  BY <1>1 DEF FwdGood, Forward!Leaving, Forward!Byed, Forward!Bye, Forward!Error
<1> QED BY <1>2, <1>3, <1>4, <1>5, <1>6, <1>7 DEF FwdGood

\* SrvBye keeps the invariant.
LEMMA FwdSrvBye ==
  ASSUME Output \in Nat, Keys \in Nat, Cap \in Nat, FwdGood, Forward!SrvBye
  PROVE  FwdGood'
<1>1. CASE srv.clean
  <2>1. /\ srv.pc = "bye" /\ srv'.pc = "status" /\ srv'.left = srv.left /\ srv'.wrote = srv.wrote
        /\ srv'.clean = srv.clean /\ srv'.status = srv.status /\ srv'.noRoom = srv.noRoom
        /\ UNCHANGED <<fwd, queue, copier, ctrl, pair, tty>>
    BY <1>1 DEF FwdGood, FwdShapes, Forward!SrvBye, Forward!Write, Forward!Full, Forward!Bye
  <2>2. FwdShapes'
    BY <1>1 DEF FwdGood, FwdShapes, Forward!SrvBye, Forward!Write, Forward!Full, Forward!Bye
  <2>3. FwdFields'
    <3>1. FwdSrvTypes'
      BY <2>1 DEF FwdGood, FwdFields, FwdSrvTypes
    <3>2. FwdMainTypes' /\ FwdCopierTypes' /\ FwdCtrlTypes' /\ FwdPairTypes' /\ FwdTtyTypes'
      BY <2>1, FwdFrame DEF FwdGood
    <3> QED BY <3>1, <3>2 DEF FwdFields
  <2>4. Forward!Streams'
    BY <1>1, <2>1 DEF FwdGood, Forward!Streams, Forward!Drained
  <2>5. Forward!Handshakes'
    BY <1>1, <2>1 DEF FwdGood, Forward!Handshakes, Forward!Byed, Forward!Bye, Forward!Statused
  <2>6. Forward!Copiers'
    BY <1>1, <2>1 DEF FwdGood, Forward!Copiers, Forward!Shut, Forward!Early, Forward!Drained
  <2>7. Forward!Leaving'
    BY <1>1, <2>1 DEF FwdGood, Forward!Leaving, Forward!Byed, Forward!Bye, Forward!Error
  <2> QED BY <2>2, <2>3, <2>4, <2>5, <2>6, <2>7 DEF FwdGood
<1>2. CASE ~srv.clean /\ Forward!Full
  <2>1. /\ srv.pc = "bye" /\ srv'.pc = "status" /\ srv'.left = srv.left /\ srv'.wrote = srv.wrote
        /\ srv'.clean = srv.clean /\ srv'.status = srv.status /\ srv'.noRoom = TRUE
        /\ UNCHANGED <<fwd, queue, copier, ctrl, pair, tty>>
    BY <1>2 DEF FwdGood, FwdShapes, Forward!SrvBye, Forward!Write, Forward!Full, Forward!Bye
  <2>2. FwdShapes'
    BY <1>2 DEF FwdGood, FwdShapes, Forward!SrvBye, Forward!Write, Forward!Full, Forward!Bye
  <2>3. FwdFields'
    <3>1. FwdSrvTypes'
      BY <2>1 DEF FwdGood, FwdFields, FwdSrvTypes
    <3>2. FwdMainTypes' /\ FwdCopierTypes' /\ FwdCtrlTypes' /\ FwdPairTypes' /\ FwdTtyTypes'
      BY <2>1, FwdFrame DEF FwdGood
    <3> QED BY <3>1, <3>2 DEF FwdFields
  <2>4. Forward!Streams'
    BY <1>2, <2>1 DEF FwdGood, Forward!Streams, Forward!Drained
  <2>5. Forward!Handshakes'
    BY <1>2, <2>1 DEF FwdGood, Forward!Handshakes, Forward!Byed, Forward!Bye, Forward!Statused
  <2>6. Forward!Copiers'
    BY <1>2, <2>1 DEF FwdGood, Forward!Copiers, Forward!Shut, Forward!Early, Forward!Drained
  <2>7. Forward!Leaving'
    BY <1>2, <2>1 DEF FwdGood, Forward!Leaving, Forward!Byed, Forward!Bye, Forward!Error
  <2> QED BY <2>2, <2>3, <2>4, <2>5, <2>6, <2>7 DEF FwdGood
<1>3. CASE ~srv.clean /\ ~Forward!Full /\ fwd.pty
  <2>1. /\ srv.pc = "bye" /\ ~(Len(pair.down) >= Cap) /\ pair'.up = pair.up
        /\ pair'.down = Append(pair.down, (Output + 1)) /\ pair'.shut = pair.shut
        /\ pair'.closed = pair.closed /\ pair'.reset = pair.reset /\ srv'.pc = "status"
        /\ srv'.left = srv.left /\ srv'.wrote = Append(srv.wrote, (Output + 1))
        /\ srv'.clean = srv.clean /\ srv'.status = srv.status /\ srv'.noRoom = srv.noRoom
        /\ UNCHANGED <<fwd, queue, copier, ctrl, tty>>
    BY <1>3 DEF FwdGood, FwdShapes, Forward!SrvBye, Forward!Write, Forward!Full, Forward!Bye
  <2>2. FwdShapes'
    BY <1>3 DEF FwdGood, FwdShapes, Forward!SrvBye, Forward!Write, Forward!Full, Forward!Bye
  <2>3. srv.wrote \in Seq(Forward!Items)
    BY DEF FwdGood, FwdFields, FwdSrvTypes
  <2>4. (Output + 1) \in Forward!Items
    BY <1>3 DEF FwdGood, FwdFields, FwdSrvTypes, Forward!Items, Forward!Bye, Forward!Hello
  <2>5. /\ Append(srv.wrote, (Output + 1)) \in Seq(Forward!Items) /\ Len(srv.wrote) \in Nat
        /\ Len(Append(srv.wrote, (Output + 1))) = Len(srv.wrote) + 1
        /\ Forward!ToSet(Append(srv.wrote, (Output + 1))) = Forward!ToSet(srv.wrote) \cup {(Output + 1)}
    BY <2>3, <2>4, Appending
  <2>6. pair.down \in Seq(Forward!Items)
    BY DEF FwdGood, FwdFields, FwdPairTypes
  <2>7. (Output + 1) \in Forward!Items
    BY <1>3 DEF FwdGood, FwdFields, FwdSrvTypes, Forward!Items, Forward!Bye, Forward!Hello
  <2>8. /\ Append(pair.down, (Output + 1)) \in Seq(Forward!Items) /\ Len(pair.down) \in Nat
        /\ Len(Append(pair.down, (Output + 1))) = Len(pair.down) + 1
        /\ Forward!ToSet(Append(pair.down, (Output + 1))) = Forward!ToSet(pair.down) \cup {(Output + 1)}
    BY <2>6, <2>7, Appending
  <2>9. /\ tty.shown \in Seq(Forward!Items) /\ copier["out"].held \in Seq(Forward!Items)
        /\ pair.down \in Seq(Forward!Items)
    BY DEF FwdGood, FwdFields, FwdCopierTypes, FwdPairTypes, FwdTtyTypes
  <2>10. tty.shown \o (copier["out"].held \o Append(pair.down, (Output + 1)))
           = Append(tty.shown \o (copier["out"].held \o pair.down), (Output + 1))
    BY <2>7, FwdWrote DEF FwdGood
  <2>11. FwdFields'
    <3>1. FwdSrvTypes'
      BY <2>1, <2>5, <2>8, <2>9, <2>10 DEF FwdGood, FwdFields, FwdSrvTypes
    <3>2. FwdPairTypes'
      BY <2>1, <2>5, <2>8, <2>9, <2>10 DEF FwdGood, FwdFields, FwdPairTypes
    <3>3. FwdMainTypes' /\ FwdCopierTypes' /\ FwdCtrlTypes' /\ FwdTtyTypes'
      BY <2>1, FwdFrame DEF FwdGood
    <3> QED BY <3>1, <3>2, <3>3 DEF FwdFields
  <2>12. tty'.shown \o (copier'["out"].held \o pair'.down) = srv'.wrote
    BY <1>3, <2>1, <2>5, <2>8, <2>9, <2>10 DEF FwdGood, Forward!Streams, Forward!Drained
  <2>13. Len(pair'.down) <= Cap + 1
    BY <2>1, <2>5, <2>8 DEF FwdGood, Forward!Streams
  <2>14. /\ fwd'.pty \/ Forward!Drained'
         /\ srv'.pc \in {"hello", "response", "fds"} => srv'.wrote = <<>>
    BY <1>3, <2>1 DEF FwdGood, Forward!Streams, Forward!Drained
  <2>15. Forward!Streams'
    BY <2>12, <2>13, <2>14 DEF Forward!Streams
  <2>16. Forward!Handshakes'
    BY <1>3, <2>1, <2>5, <2>8, <2>9, <2>10 DEF FwdGood, Forward!Handshakes, Forward!Byed, Forward!Bye,
       Forward!Statused
  <2>17. Forward!Copiers'
    BY <1>3, <2>1, <2>5, <2>8, <2>9, <2>10 DEF FwdGood, Forward!Copiers, Forward!Shut, Forward!Early,
       Forward!Drained
  <2>18. Forward!Leaving'
    BY <1>3, <2>1, <2>5, <2>8, <2>9, <2>10 DEF FwdGood, Forward!Leaving, Forward!Byed, Forward!Bye,
       Forward!Error
  <2> QED BY <2>2, <2>11, <2>15, <2>16, <2>17, <2>18 DEF FwdGood
<1>4. CASE ~srv.clean /\ ~Forward!Full /\ ~fwd.pty
  <2>1. /\ srv.pc = "bye" /\ srv'.pc = "status" /\ srv'.left = srv.left
        /\ srv'.wrote = Append(srv.wrote, (Output + 1)) /\ srv'.clean = srv.clean
        /\ srv'.status = srv.status /\ srv'.noRoom = srv.noRoom /\ tty'.typed = tty.typed
        /\ tty'.shown = Append(tty.shown, (Output + 1)) /\ tty'.told = tty.told
        /\ tty'.keys = tty.keys /\ tty'.answered = tty.answered /\ tty'.hung = tty.hung
        /\ UNCHANGED <<fwd, queue, copier, ctrl, pair>>
    BY <1>4 DEF FwdGood, FwdShapes, Forward!SrvBye, Forward!Write, Forward!Full, Forward!Bye
  <2>2. FwdShapes'
    BY <1>4 DEF FwdGood, FwdShapes, Forward!SrvBye, Forward!Write, Forward!Full, Forward!Bye
  <2>3. srv.wrote \in Seq(Forward!Items)
    BY DEF FwdGood, FwdFields, FwdSrvTypes
  <2>4. (Output + 1) \in Forward!Items
    BY <1>4 DEF FwdGood, FwdFields, FwdSrvTypes, Forward!Items, Forward!Bye, Forward!Hello
  <2>5. /\ Append(srv.wrote, (Output + 1)) \in Seq(Forward!Items) /\ Len(srv.wrote) \in Nat
        /\ Len(Append(srv.wrote, (Output + 1))) = Len(srv.wrote) + 1
        /\ Forward!ToSet(Append(srv.wrote, (Output + 1))) = Forward!ToSet(srv.wrote) \cup {(Output + 1)}
    BY <2>3, <2>4, Appending
  <2>6. tty.shown \in Seq(Forward!Items)
    BY DEF FwdGood, FwdFields, FwdTtyTypes
  <2>7. (Output + 1) \in Forward!Items
    BY <1>4 DEF FwdGood, FwdFields, FwdSrvTypes, Forward!Items, Forward!Bye, Forward!Hello
  <2>8. /\ Append(tty.shown, (Output + 1)) \in Seq(Forward!Items) /\ Len(tty.shown) \in Nat
        /\ Len(Append(tty.shown, (Output + 1))) = Len(tty.shown) + 1
        /\ Forward!ToSet(Append(tty.shown, (Output + 1))) = Forward!ToSet(tty.shown) \cup {(Output + 1)}
    BY <2>6, <2>7, Appending
  <2>9. /\ tty.shown \in Seq(Forward!Items) /\ copier["out"].held \in Seq(Forward!Items)
        /\ pair.down \in Seq(Forward!Items)
    BY DEF FwdGood, FwdFields, FwdCopierTypes, FwdPairTypes, FwdTtyTypes
  <2>10. /\ Append(tty.shown, (Output + 1)) \in Seq(Forward!Items) /\ copier["out"].held = <<>>
         /\ pair.down = <<>>
    BY <1>4, <2>7, <2>9 DEF FwdGood, Forward!Streams, Forward!Drained
  <2>11. /\ tty.shown \o (copier["out"].held \o pair.down) = tty.shown
         /\ Append(tty.shown, (Output + 1)) \o (copier["out"].held \o pair.down) = Append(tty.shown, (Output + 1))
    BY <2>9, <2>10, Empties
  <2>12. FwdFields'
    <3>1. FwdSrvTypes'
      BY <2>1, <2>5, <2>8, <2>9, <2>10, <2>11 DEF FwdGood, FwdFields, FwdSrvTypes
    <3>2. FwdTtyTypes'
      BY <2>1, <2>5, <2>8, <2>9, <2>10, <2>11 DEF FwdGood, FwdFields, FwdTtyTypes
    <3>3. FwdMainTypes' /\ FwdCopierTypes' /\ FwdCtrlTypes' /\ FwdPairTypes'
      BY <2>1, FwdFrame DEF FwdGood
    <3> QED BY <3>1, <3>2, <3>3 DEF FwdFields
  <2>13. Forward!Streams'
    BY <1>4, <2>1, <2>5, <2>8, <2>9, <2>10, <2>11 DEF FwdGood, Forward!Streams, Forward!Drained
  <2>14. Forward!Handshakes'
    BY <1>4, <2>1, <2>5, <2>8, <2>9, <2>10, <2>11 DEF FwdGood, Forward!Handshakes, Forward!Byed,
       Forward!Bye, Forward!Statused
  <2>15. Forward!Copiers'
    BY <1>4, <2>1, <2>5, <2>8, <2>9, <2>10, <2>11 DEF FwdGood, Forward!Copiers, Forward!Shut,
       Forward!Early, Forward!Drained
  <2>16. Forward!Leaving'
    BY <1>4, <2>1, <2>5, <2>8, <2>9, <2>10, <2>11 DEF FwdGood, Forward!Leaving, Forward!Byed,
       Forward!Bye, Forward!Error
  <2> QED BY <2>2, <2>12, <2>13, <2>14, <2>15, <2>16 DEF FwdGood
<1> QED BY <1>1, <1>2, <1>3, <1>4 DEF FwdGood, FwdShapes, FwdFields, FwdMainTypes, Forward!SrvBye,
           Forward!Write, Forward!Full, Forward!Bye

\* SrvStatus keeps the invariant.
LEMMA FwdSrvStatus ==
  ASSUME Output \in Nat, Keys \in Nat, Cap \in Nat, FwdGood, Forward!SrvStatus
  PROVE  FwdGood'
<1>1. /\ srv.pc = "status" /\ ctrl'.up = ctrl.up /\ ctrl'.down = Append(ctrl.down, srv.status)
      /\ srv'.pc = "close" /\ srv'.left = srv.left /\ srv'.wrote = srv.wrote
      /\ srv'.clean = srv.clean /\ srv'.status = srv.status /\ srv'.noRoom = srv.noRoom
      /\ UNCHANGED <<fwd, queue, copier, pair, tty>>
  BY DEF FwdGood, FwdShapes, Forward!SrvStatus, Forward!Answer
<1>2. FwdShapes'
  BY DEF FwdGood, FwdShapes, Forward!SrvStatus, Forward!Answer
<1>3. ctrl.down \in Seq(Forward!Answers)
  BY DEF FwdGood, FwdFields, FwdCtrlTypes
<1>4. srv.status \in Forward!Answers
  BY <1>1 DEF FwdGood, FwdFields, FwdSrvTypes, Forward!Answers, Forward!Reasons
<1>5. /\ Append(ctrl.down, srv.status) \in Seq(Forward!Answers) /\ Len(ctrl.down) \in Nat
      /\ Len(Append(ctrl.down, srv.status)) = Len(ctrl.down) + 1
      /\ Forward!ToSet(Append(ctrl.down, srv.status)) = Forward!ToSet(ctrl.down) \cup {srv.status}
  BY <1>3, <1>4, Appending
<1>6. FwdFields'
  <2>1. FwdCtrlTypes'
    BY <1>1, <1>5 DEF FwdGood, FwdFields, FwdCtrlTypes
  <2>2. FwdSrvTypes'
    BY <1>1, <1>5 DEF FwdGood, FwdFields, FwdSrvTypes
  <2>3. FwdMainTypes' /\ FwdCopierTypes' /\ FwdPairTypes' /\ FwdTtyTypes'
    BY <1>1, FwdFrame DEF FwdGood
  <2> QED BY <2>1, <2>2, <2>3 DEF FwdFields
<1>7. Forward!Streams'
  BY <1>1, <1>5 DEF FwdGood, Forward!Streams, Forward!Drained
<1>8. Forward!Handshakes'
  BY <1>1, <1>5 DEF FwdGood, Forward!Handshakes, Forward!Byed, Forward!Bye, Forward!Statused
<1>9. Forward!Copiers'
  BY <1>1, <1>5 DEF FwdGood, Forward!Copiers, Forward!Shut, Forward!Early, Forward!Drained
<1>10. Forward!Leaving'
  BY <1>1, <1>5 DEF FwdGood, Forward!Leaving, Forward!Byed, Forward!Bye, Forward!Error
<1> QED BY <1>2, <1>6, <1>7, <1>8, <1>9, <1>10 DEF FwdGood

\* SrvClosefd keeps the invariant.
LEMMA FwdSrvClosefd ==
  ASSUME Output \in Nat, Keys \in Nat, Cap \in Nat, FwdGood, Forward!SrvClosefd
  PROVE  FwdGood'
<1>1. /\ srv.pc = "close" /\ pair'.up = <<>> /\ pair'.down = pair.down /\ pair'.shut = pair.shut
      /\ pair'.closed = TRUE /\ pair'.reset \in BOOLEAN /\ srv'.pc = "gone"
      /\ srv'.left = srv.left /\ srv'.wrote = srv.wrote /\ srv'.clean = srv.clean
      /\ srv'.status = srv.status /\ srv'.noRoom = srv.noRoom
      /\ UNCHANGED <<fwd, queue, copier, ctrl, tty>>
  BY DEF FwdGood, FwdShapes, Forward!SrvClosefd, Forward!Closed
<1>2. FwdShapes'
  BY DEF FwdGood, FwdShapes, Forward!SrvClosefd, Forward!Closed
<1>3. <<>> \in Seq(Forward!Inputs)
  OBVIOUS
<1>4. FwdFields'
  <2>1. FwdPairTypes'
    BY <1>1, <1>3 DEF FwdGood, FwdFields, FwdPairTypes
  <2>2. FwdSrvTypes'
    BY <1>1, <1>3 DEF FwdGood, FwdFields, FwdSrvTypes
  <2>3. FwdMainTypes' /\ FwdCopierTypes' /\ FwdCtrlTypes' /\ FwdTtyTypes'
    BY <1>1, FwdFrame DEF FwdGood
  <2> QED BY <2>1, <2>2, <2>3 DEF FwdFields
<1>5. Forward!Streams'
  BY <1>1, <1>3 DEF FwdGood, Forward!Streams, Forward!Drained
<1>6. Forward!Handshakes'
  BY <1>1, <1>3 DEF FwdGood, Forward!Handshakes, Forward!Byed, Forward!Bye, Forward!Statused
<1>7. Forward!Copiers'
  BY <1>1, <1>3 DEF FwdGood, Forward!Copiers, Forward!Shut, Forward!Early, Forward!Drained
<1>8. Forward!Leaving'
  BY <1>1, <1>3 DEF FwdGood, Forward!Leaving, Forward!Byed, Forward!Bye, Forward!Error
<1> QED BY <1>2, <1>4, <1>5, <1>6, <1>7, <1>8 DEF FwdGood

\* SrvDies keeps the invariant.
LEMMA FwdSrvDies ==
  ASSUME Output \in Nat, Keys \in Nat, Cap \in Nat, FwdGood, Forward!SrvDies
  PROVE  FwdGood'
<1>1. /\ srv.pc \notin {"gone", "close"} /\ pair'.up = <<>> /\ pair'.down = pair.down
      /\ pair'.shut = pair.shut /\ pair'.closed = TRUE /\ pair'.reset \in BOOLEAN
      /\ srv'.pc = "gone" /\ srv'.left = srv.left /\ srv'.wrote = srv.wrote
      /\ srv'.clean = srv.clean /\ srv'.status = srv.status /\ srv'.noRoom = srv.noRoom
      /\ UNCHANGED <<fwd, queue, copier, ctrl, tty>>
  BY DEF FwdGood, FwdShapes, Forward!SrvDies, Forward!Closed
<1>2. FwdShapes'
  BY DEF FwdGood, FwdShapes, Forward!SrvDies, Forward!Closed
<1>3. <<>> \in Seq(Forward!Inputs)
  OBVIOUS
<1>4. FwdFields'
  <2>1. FwdPairTypes'
    BY <1>1, <1>3 DEF FwdGood, FwdFields, FwdPairTypes
  <2>2. FwdSrvTypes'
    BY <1>1, <1>3 DEF FwdGood, FwdFields, FwdSrvTypes
  <2>3. FwdMainTypes' /\ FwdCopierTypes' /\ FwdCtrlTypes' /\ FwdTtyTypes'
    BY <1>1, FwdFrame DEF FwdGood
  <2> QED BY <2>1, <2>2, <2>3 DEF FwdFields
<1>5. Forward!Streams'
  BY <1>1, <1>3 DEF FwdGood, Forward!Streams, Forward!Drained
<1>6. Forward!Handshakes'
  BY <1>1, <1>3 DEF FwdGood, Forward!Handshakes, Forward!Byed, Forward!Bye, Forward!Statused
<1>7. Forward!Copiers'
  BY <1>1, <1>3 DEF FwdGood, Forward!Copiers, Forward!Shut, Forward!Early, Forward!Drained
<1>8. Forward!Leaving'
  BY <1>1, <1>3 DEF FwdGood, Forward!Leaving, Forward!Byed, Forward!Bye, Forward!Error
<1> QED BY <1>2, <1>4, <1>5, <1>6, <1>7, <1>8 DEF FwdGood

\* ReadHandshake keeps the invariant.
LEMMA FwdReadHandshake ==
  ASSUME Output \in Nat, Keys \in Nat, Cap \in Nat, FwdGood, Forward!ReadHandshake
  PROVE  FwdGood'
<1>1. /\ fwd.pc = "ReadingHandshake" /\ ctrl.down # <<>> /\ fwd'.pc = "WritingHandshake"
      /\ fwd'.pty = fwd.pty /\ fwd'.protocol = fwd.protocol /\ fwd'.clean = fwd.clean
      /\ fwd'.writerExit = fwd.writerExit /\ fwd'.status = fwd.status /\ ctrl'.up = ctrl.up
      /\ ctrl'.down = Tail(ctrl.down) /\ UNCHANGED <<queue, copier, pair, srv, tty>>
  BY DEF FwdGood, FwdShapes, Forward!ReadHandshake
<1>2. FwdShapes'
  BY DEF FwdGood, FwdShapes, Forward!ReadHandshake
<1>3. ctrl.down \in Seq(Forward!Answers) /\ ctrl.down # <<>>
  BY <1>1 DEF FwdGood, FwdFields, FwdCtrlTypes, Forward!Typed
<1>4. /\ Tail(ctrl.down) \in Seq(Forward!Answers) /\ Len(ctrl.down) \in Nat
      /\ Len(Tail(ctrl.down)) = Len(ctrl.down) - 1 /\ Head(ctrl.down) \in Forward!Answers
      /\ Head(ctrl.down) \in Forward!ToSet(ctrl.down)
      /\ Forward!ToSet(Tail(ctrl.down)) \subseteq Forward!ToSet(ctrl.down)
  BY <1>3, Taking
<1>5. ctrl.down = <<"hello">> => ctrl'.down = <<>>
  BY <1>1, Single
<1>6. FwdFields'
  <2>1. FwdCtrlTypes'
    BY <1>1, <1>4, <1>5 DEF FwdGood, FwdFields, FwdCtrlTypes
  <2>2. FwdMainTypes'
    BY <1>1, <1>4, <1>5 DEF FwdGood, FwdFields, FwdMainTypes
  <2>3. FwdCopierTypes' /\ FwdPairTypes' /\ FwdSrvTypes' /\ FwdTtyTypes'
    BY <1>1, FwdFrame DEF FwdGood
  <2> QED BY <2>1, <2>2, <2>3 DEF FwdFields
<1>7. Forward!Streams'
  BY <1>1, <1>4, <1>5 DEF FwdGood, Forward!Streams, Forward!Drained
<1>8. Forward!Handshakes'
  BY <1>1, <1>4, <1>5 DEF FwdGood, Forward!Handshakes, Forward!Byed, Forward!Bye, Forward!Statused
<1>9. Forward!Copiers'
  BY <1>1, <1>4, <1>5 DEF FwdGood, Forward!Copiers, Forward!Shut, Forward!Early, Forward!Drained
<1>10. Forward!Leaving'
  BY <1>1, <1>4, <1>5 DEF FwdGood, Forward!Leaving, Forward!Byed, Forward!Bye, Forward!Error
<1> QED BY <1>2, <1>6, <1>7, <1>8, <1>9, <1>10 DEF FwdGood

\* WriteHandshake keeps the invariant.
LEMMA FwdWriteHandshake ==
  ASSUME Output \in Nat, Keys \in Nat, Cap \in Nat, FwdGood, Forward!WriteHandshake
  PROVE  FwdGood'
<1>1. /\ fwd.pc = "WritingHandshake" /\ srv.pc # "gone" /\ fwd'.pc = "ReadingResponse"
      /\ fwd'.pty = fwd.pty /\ fwd'.protocol = fwd.protocol /\ fwd'.clean = fwd.clean
      /\ fwd'.writerExit = fwd.writerExit /\ fwd'.status = fwd.status
      /\ ctrl'.up = Append(ctrl.up, "clientFd") /\ ctrl'.down = ctrl.down
      /\ UNCHANGED <<queue, copier, pair, srv, tty>>
  BY DEF FwdGood, FwdShapes, Forward!WriteHandshake
<1>2. FwdShapes'
  BY DEF FwdGood, FwdShapes, Forward!WriteHandshake
<1>3. ctrl.up \in Seq(Forward!Letters)
  BY DEF FwdGood, FwdFields, FwdCtrlTypes
<1>4. "clientFd" \in Forward!Letters
  BY DEF FwdGood, FwdFields, FwdSrvTypes, Forward!Letters
<1>5. /\ Append(ctrl.up, "clientFd") \in Seq(Forward!Letters) /\ Len(ctrl.up) \in Nat
      /\ Len(Append(ctrl.up, "clientFd")) = Len(ctrl.up) + 1
      /\ Forward!ToSet(Append(ctrl.up, "clientFd")) = Forward!ToSet(ctrl.up) \cup {"clientFd"}
  BY <1>3, <1>4, Appending
<1>6. ctrl.up = <<>> => ctrl'.up = <<"clientFd">>
  BY <1>1, Single
<1>7. FwdFields'
  <2>1. FwdCtrlTypes'
    BY <1>1, <1>5, <1>6 DEF FwdGood, FwdFields, FwdCtrlTypes
  <2>2. FwdMainTypes'
    BY <1>1, <1>5, <1>6 DEF FwdGood, FwdFields, FwdMainTypes
  <2>3. FwdCopierTypes' /\ FwdPairTypes' /\ FwdSrvTypes' /\ FwdTtyTypes'
    BY <1>1, FwdFrame DEF FwdGood
  <2> QED BY <2>1, <2>2, <2>3 DEF FwdFields
<1>8. Forward!Streams'
  BY <1>1, <1>5, <1>6 DEF FwdGood, Forward!Streams, Forward!Drained
<1>9. Forward!Handshakes'
  BY <1>1, <1>5, <1>6 DEF FwdGood, Forward!Handshakes, Forward!Byed, Forward!Bye, Forward!Statused
<1>10. Forward!Copiers'
  BY <1>1, <1>5, <1>6 DEF FwdGood, Forward!Copiers, Forward!Shut, Forward!Early, Forward!Drained
<1>11. Forward!Leaving'
  BY <1>1, <1>5, <1>6 DEF FwdGood, Forward!Leaving, Forward!Byed, Forward!Bye, Forward!Error
<1> QED BY <1>2, <1>7, <1>8, <1>9, <1>10, <1>11 DEF FwdGood

\* ReadResponse keeps the invariant.
LEMMA FwdReadResponse ==
  ASSUME Output \in Nat, Keys \in Nat, Cap \in Nat, FwdGood, Forward!ReadResponse
  PROVE  FwdGood'
<1>1. /\ fwd.pc = "ReadingResponse" /\ ctrl.down # <<>> /\ fwd'.pc = "WritingDescriptors"
      /\ fwd'.pty = fwd.pty /\ fwd'.protocol = fwd.protocol /\ fwd'.clean = fwd.clean
      /\ fwd'.writerExit = fwd.writerExit /\ fwd'.status = fwd.status /\ ctrl'.up = ctrl.up
      /\ ctrl'.down = Tail(ctrl.down) /\ UNCHANGED <<queue, copier, pair, srv, tty>>
  BY DEF FwdGood, FwdShapes, Forward!ReadResponse
<1>2. FwdShapes'
  BY DEF FwdGood, FwdShapes, Forward!ReadResponse
<1>3. ctrl.down \in Seq(Forward!Answers) /\ ctrl.down # <<>>
  BY <1>1 DEF FwdGood, FwdFields, FwdCtrlTypes, Forward!Typed
<1>4. /\ Tail(ctrl.down) \in Seq(Forward!Answers) /\ Len(ctrl.down) \in Nat
      /\ Len(Tail(ctrl.down)) = Len(ctrl.down) - 1 /\ Head(ctrl.down) \in Forward!Answers
      /\ Head(ctrl.down) \in Forward!ToSet(ctrl.down)
      /\ Forward!ToSet(Tail(ctrl.down)) \subseteq Forward!ToSet(ctrl.down)
  BY <1>3, Taking
<1>5. ctrl.down = <<"byte">> => ctrl'.down = <<>>
  BY <1>1, Single
<1>6. FwdFields'
  <2>1. FwdCtrlTypes'
    BY <1>1, <1>4, <1>5 DEF FwdGood, FwdFields, FwdCtrlTypes
  <2>2. FwdMainTypes'
    BY <1>1, <1>4, <1>5 DEF FwdGood, FwdFields, FwdMainTypes
  <2>3. FwdCopierTypes' /\ FwdPairTypes' /\ FwdSrvTypes' /\ FwdTtyTypes'
    BY <1>1, FwdFrame DEF FwdGood
  <2> QED BY <2>1, <2>2, <2>3 DEF FwdFields
<1>7. Forward!Streams'
  BY <1>1, <1>4, <1>5 DEF FwdGood, Forward!Streams, Forward!Drained
<1>8. Forward!Handshakes'
  BY <1>1, <1>4, <1>5 DEF FwdGood, Forward!Handshakes, Forward!Byed, Forward!Bye, Forward!Statused
<1>9. Forward!Copiers'
  BY <1>1, <1>4, <1>5 DEF FwdGood, Forward!Copiers, Forward!Shut, Forward!Early, Forward!Drained
<1>10. Forward!Leaving'
  BY <1>1, <1>4, <1>5 DEF FwdGood, Forward!Leaving, Forward!Byed, Forward!Bye, Forward!Error
<1> QED BY <1>2, <1>6, <1>7, <1>8, <1>9, <1>10 DEF FwdGood

\* WriteDescriptors keeps the invariant.
LEMMA FwdWriteDescriptors ==
  ASSUME Output \in Nat, Keys \in Nat, Cap \in Nat, FwdGood, Forward!WriteDescriptors
  PROVE  FwdGood'
<1>1. CASE /\ fwd.pty /\ fwd' = [fwd EXCEPT !.pc = "ReadingInfo"]
          /\ copier' = [c \in {"in", "out"} |-> [run |-> TRUE, held |-> <<>>]]
  <2>1. /\ fwd.pc = "WritingDescriptors" /\ srv.pc # "gone" /\ fwd'.pc = "ReadingInfo"
        /\ fwd'.pty = fwd.pty /\ fwd'.protocol = fwd.protocol /\ fwd'.clean = fwd.clean
        /\ fwd'.writerExit = fwd.writerExit /\ fwd'.status = fwd.status
        /\ ctrl'.up = Append(ctrl.up, "fds") /\ ctrl'.down = ctrl.down
        /\ UNCHANGED <<queue, pair, srv, tty>>
    BY <1>1 DEF FwdGood, FwdShapes, Forward!WriteDescriptors, Forward!Leave, Forward!Error
  <2>2. /\ FwdCopierShape' /\ copier'["in"].run = TRUE /\ copier'["out"].run = TRUE
        /\ copier'["in"].held = <<>> /\ copier'["out"].held = <<>>
    BY <1>1, FwdStarts DEF FwdGood, FwdShapes, FwdCopierShape
  <2>3. FwdShapes'
    BY <1>1, <2>1, <2>2 DEF FwdGood, FwdShapes, FwdCopierShape, Forward!WriteDescriptors, Forward!Leave,
       Forward!Error
  <2>4. ctrl.up \in Seq(Forward!Letters)
    BY DEF FwdGood, FwdFields, FwdCtrlTypes
  <2>5. "fds" \in Forward!Letters
    BY <1>1 DEF FwdGood, FwdFields, FwdSrvTypes, Forward!Letters
  <2>6. /\ Append(ctrl.up, "fds") \in Seq(Forward!Letters) /\ Len(ctrl.up) \in Nat
        /\ Len(Append(ctrl.up, "fds")) = Len(ctrl.up) + 1
        /\ Forward!ToSet(Append(ctrl.up, "fds")) = Forward!ToSet(ctrl.up) \cup {"fds"}
    BY <2>4, <2>5, Appending
  <2>7. Forward!ToSet(<<>>) = {}
    BY DEF Forward!ToSet
  <2>8. <<>> \in Seq(Forward!Inputs) /\ <<>> \in Seq(Forward!Items)
    OBVIOUS
  <2>9. FwdFields'
    <3>1. FwdCtrlTypes'
      BY <2>1, <2>2, <2>6, <2>7, <2>8 DEF FwdGood, FwdFields, FwdCtrlTypes
    <3>2. FwdMainTypes'
      BY <2>1, <2>2, <2>6, <2>7, <2>8 DEF FwdGood, FwdFields, FwdMainTypes
    <3>3. FwdCopierTypes'
      BY <2>1, <2>2, <2>6, <2>7, <2>8 DEF FwdGood, FwdFields, FwdCopierTypes
    <3>4. FwdPairTypes' /\ FwdSrvTypes' /\ FwdTtyTypes'
      BY <2>1, FwdFrame DEF FwdGood
    <3> QED BY <3>1, <3>2, <3>3, <3>4 DEF FwdFields
  <2>10. Forward!Streams'
    BY <1>1, <2>1, <2>2, <2>6, <2>7, <2>8 DEF FwdGood, Forward!Streams, Forward!Drained,
       Forward!Copiers, Forward!Early
  <2>11. Forward!Handshakes'
    BY <1>1, <2>1, <2>2, <2>6, <2>7, <2>8 DEF FwdGood, Forward!Handshakes, Forward!Byed, Forward!Bye,
       Forward!Statused
  <2>12. Forward!Copiers'
    BY <1>1, <2>1, <2>2, <2>6, <2>7, <2>8 DEF FwdGood, Forward!Copiers, Forward!Shut, Forward!Early,
       Forward!Drained
  <2>13. Forward!Leaving'
    BY <1>1, <2>1, <2>2, <2>6, <2>7, <2>8 DEF FwdGood, Forward!Leaving, Forward!Byed, Forward!Bye,
       Forward!Error
  <2> QED BY <2>3, <2>9, <2>10, <2>11, <2>12, <2>13 DEF FwdGood
<1>2. CASE ~fwd.pty /\ fwd' = [fwd EXCEPT !.pc = "ReadingInfo"] /\ UNCHANGED copier
  <2>1. /\ fwd.pc = "WritingDescriptors" /\ srv.pc # "gone" /\ fwd'.pc = "ReadingInfo"
        /\ fwd'.pty = fwd.pty /\ fwd'.protocol = fwd.protocol /\ fwd'.clean = fwd.clean
        /\ fwd'.writerExit = fwd.writerExit /\ fwd'.status = fwd.status
        /\ ctrl'.up = Append(ctrl.up, "fds") /\ ctrl'.down = ctrl.down
        /\ UNCHANGED <<queue, copier, pair, srv, tty>>
    BY <1>2 DEF FwdGood, FwdShapes, Forward!WriteDescriptors, Forward!Leave, Forward!Error
  <2>2. FwdShapes'
    BY <1>2 DEF FwdGood, FwdShapes, Forward!WriteDescriptors, Forward!Leave, Forward!Error
  <2>3. ctrl.up \in Seq(Forward!Letters)
    BY DEF FwdGood, FwdFields, FwdCtrlTypes
  <2>4. "fds" \in Forward!Letters
    BY <1>2 DEF FwdGood, FwdFields, FwdSrvTypes, Forward!Letters
  <2>5. /\ Append(ctrl.up, "fds") \in Seq(Forward!Letters) /\ Len(ctrl.up) \in Nat
        /\ Len(Append(ctrl.up, "fds")) = Len(ctrl.up) + 1
        /\ Forward!ToSet(Append(ctrl.up, "fds")) = Forward!ToSet(ctrl.up) \cup {"fds"}
    BY <2>3, <2>4, Appending
  <2>6. Forward!ToSet(<<>>) = {}
    BY DEF Forward!ToSet
  <2>7. <<>> \in Seq(Forward!Inputs) /\ <<>> \in Seq(Forward!Items)
    OBVIOUS
  <2>8. FwdFields'
    <3>1. FwdCtrlTypes'
      BY <2>1, <2>5, <2>6, <2>7 DEF FwdGood, FwdFields, FwdCtrlTypes
    <3>2. FwdMainTypes'
      BY <2>1, <2>5, <2>6, <2>7 DEF FwdGood, FwdFields, FwdMainTypes
    <3>3. FwdCopierTypes' /\ FwdPairTypes' /\ FwdSrvTypes' /\ FwdTtyTypes'
      BY <2>1, FwdFrame DEF FwdGood
    <3> QED BY <3>1, <3>2, <3>3 DEF FwdFields
  <2>9. Forward!Streams'
    BY <1>2, <2>1, <2>5, <2>6, <2>7 DEF FwdGood, Forward!Streams, Forward!Drained
  <2>10. Forward!Handshakes'
    BY <1>2, <2>1, <2>5, <2>6, <2>7 DEF FwdGood, Forward!Handshakes, Forward!Byed, Forward!Bye,
       Forward!Statused
  <2>11. Forward!Copiers'
    BY <1>2, <2>1, <2>5, <2>6, <2>7 DEF FwdGood, Forward!Copiers, Forward!Shut, Forward!Early,
       Forward!Drained
  <2>12. Forward!Leaving'
    BY <1>2, <2>1, <2>5, <2>6, <2>7 DEF FwdGood, Forward!Leaving, Forward!Byed, Forward!Bye, Forward!Error
  <2> QED BY <2>2, <2>8, <2>9, <2>10, <2>11, <2>12 DEF FwdGood
<1>3. CASE fwd.pty /\ fwd' = Forward!Leave(Forward!Error) /\ UNCHANGED copier
  <2>1. /\ fwd.pc = "WritingDescriptors" /\ srv.pc # "gone" /\ fwd'.pc = "leaving"
        /\ fwd'.pty = fwd.pty /\ fwd'.protocol = fwd.protocol /\ fwd'.clean = fwd.clean
        /\ fwd'.writerExit = fwd.writerExit /\ fwd'.status = "forwarderError"
        /\ ctrl'.up = Append(ctrl.up, "fds") /\ ctrl'.down = ctrl.down
        /\ UNCHANGED <<queue, copier, pair, srv, tty>>
    BY <1>3 DEF FwdGood, FwdShapes, Forward!WriteDescriptors, Forward!Leave, Forward!Error
  <2>2. FwdShapes'
    BY <1>3 DEF FwdGood, FwdShapes, Forward!WriteDescriptors, Forward!Leave, Forward!Error
  <2>3. ctrl.up \in Seq(Forward!Letters)
    BY DEF FwdGood, FwdFields, FwdCtrlTypes
  <2>4. "fds" \in Forward!Letters
    BY <1>3 DEF FwdGood, FwdFields, FwdSrvTypes, Forward!Letters
  <2>5. /\ Append(ctrl.up, "fds") \in Seq(Forward!Letters) /\ Len(ctrl.up) \in Nat
        /\ Len(Append(ctrl.up, "fds")) = Len(ctrl.up) + 1
        /\ Forward!ToSet(Append(ctrl.up, "fds")) = Forward!ToSet(ctrl.up) \cup {"fds"}
    BY <2>3, <2>4, Appending
  <2>6. Forward!ToSet(<<>>) = {}
    BY DEF Forward!ToSet
  <2>7. <<>> \in Seq(Forward!Inputs) /\ <<>> \in Seq(Forward!Items)
    OBVIOUS
  <2>8. FwdFields'
    <3>1. FwdCtrlTypes'
      BY <2>1, <2>5, <2>6, <2>7 DEF FwdGood, FwdFields, FwdCtrlTypes
    <3>2. FwdMainTypes'
      BY <2>1, <2>5, <2>6, <2>7 DEF FwdGood, FwdFields, FwdMainTypes
    <3>3. FwdCopierTypes' /\ FwdPairTypes' /\ FwdSrvTypes' /\ FwdTtyTypes'
      BY <2>1, FwdFrame DEF FwdGood
    <3> QED BY <3>1, <3>2, <3>3 DEF FwdFields
  <2>9. Forward!Streams'
    BY <1>3, <2>1, <2>5, <2>6, <2>7 DEF FwdGood, Forward!Streams, Forward!Drained
  <2>10. Forward!Handshakes'
    BY <1>3, <2>1, <2>5, <2>6, <2>7 DEF FwdGood, Forward!Handshakes, Forward!Byed, Forward!Bye,
       Forward!Statused
  <2>11. Forward!Copiers'
    BY <1>3, <2>1, <2>5, <2>6, <2>7 DEF FwdGood, Forward!Copiers, Forward!Shut, Forward!Early,
       Forward!Drained
  <2>12. Forward!Leaving'
    BY <1>3, <2>1, <2>5, <2>6, <2>7 DEF FwdGood, Forward!Leaving, Forward!Byed, Forward!Bye, Forward!Error
  <2> QED BY <2>2, <2>8, <2>9, <2>10, <2>11, <2>12 DEF FwdGood
<1> QED BY <1>1, <1>2, <1>3 DEF FwdGood, FwdShapes, FwdFields, FwdMainTypes, Forward!WriteDescriptors,
           Forward!Leave, Forward!Error

\* HandshakeFails keeps the invariant.
LEMMA FwdHandshakeFails ==
  ASSUME Output \in Nat, Keys \in Nat, Cap \in Nat, FwdGood, Forward!HandshakeFails
  PROVE  FwdGood'
<1>1. /\ srv.pc = "gone"
      /\ fwd.pc \in {"ReadingHandshake", "WritingHandshake", "ReadingResponse", "WritingDescriptors"}
      /\ fwd'.pc = "leaving" /\ fwd'.pty = fwd.pty /\ fwd'.protocol = fwd.protocol
      /\ fwd'.clean = fwd.clean /\ fwd'.writerExit = fwd.writerExit
      /\ fwd'.status = "forwarderError" /\ UNCHANGED <<queue, copier, ctrl, pair, srv, tty>>
  BY DEF FwdGood, FwdShapes, Forward!HandshakeFails, Forward!Leave, Forward!Error
<1>2. FwdShapes'
  BY DEF FwdGood, FwdShapes, Forward!HandshakeFails, Forward!Leave, Forward!Error
<1>3. FwdFields'
  <2>1. FwdMainTypes'
    BY <1>1 DEF FwdGood, FwdFields, FwdMainTypes
  <2>2. FwdCopierTypes' /\ FwdCtrlTypes' /\ FwdPairTypes' /\ FwdSrvTypes' /\ FwdTtyTypes'
    BY <1>1, FwdFrame DEF FwdGood
  <2> QED BY <2>1, <2>2 DEF FwdFields
<1>4. Forward!Streams'
  BY <1>1 DEF FwdGood, Forward!Streams, Forward!Drained
<1>5. Forward!Handshakes'
  BY <1>1 DEF FwdGood, Forward!Handshakes, Forward!Byed, Forward!Bye, Forward!Statused
<1>6. Forward!Copiers'
  BY <1>1 DEF FwdGood, Forward!Copiers, Forward!Shut, Forward!Early, Forward!Drained
<1>7. Forward!Leaving'
  BY <1>1 DEF FwdGood, Forward!Leaving, Forward!Byed, Forward!Bye, Forward!Error
<1> QED BY <1>2, <1>3, <1>4, <1>5, <1>6, <1>7 DEF FwdGood

\* ReadInfo keeps the invariant.
LEMMA FwdReadInfo ==
  ASSUME Output \in Nat, Keys \in Nat, Cap \in Nat, FwdGood, Forward!ReadInfo
  PROVE  FwdGood'
<1>1. CASE ctrl.down # <<>> /\ Head(ctrl.down) = "protocol"
  <2>1. /\ fwd.pc = "ReadingInfo" /\ ~fwd.clean /\ fwd'.pc = fwd.pc /\ fwd'.pty = fwd.pty
        /\ fwd'.protocol = TRUE /\ fwd'.clean = fwd.clean /\ fwd'.writerExit = fwd.writerExit
        /\ fwd'.status = fwd.status /\ ctrl'.up = ctrl.up /\ ctrl'.down = Tail(ctrl.down)
        /\ UNCHANGED <<queue, copier, pair, srv, tty>>
    BY <1>1 DEF FwdGood, FwdShapes, Forward!ReadInfo, Forward!Leave
  <2>2. FwdShapes'
    BY <1>1 DEF FwdGood, FwdShapes, Forward!ReadInfo, Forward!Leave
  <2>3. ctrl.down \in Seq(Forward!Answers) /\ ctrl.down # <<>>
    BY <1>1, <2>1 DEF FwdGood, FwdFields, FwdCtrlTypes, Forward!Typed
  <2>4. /\ Tail(ctrl.down) \in Seq(Forward!Answers) /\ Len(ctrl.down) \in Nat
        /\ Len(Tail(ctrl.down)) = Len(ctrl.down) - 1 /\ Head(ctrl.down) \in Forward!Answers
        /\ Head(ctrl.down) \in Forward!ToSet(ctrl.down)
        /\ Forward!ToSet(Tail(ctrl.down)) \subseteq Forward!ToSet(ctrl.down)
    BY <2>3, Taking
  <2>5. FwdFields'
    <3>1. FwdCtrlTypes'
      BY <2>1, <2>4 DEF FwdGood, FwdFields, FwdCtrlTypes
    <3>2. FwdMainTypes'
      BY <2>1, <2>4 DEF FwdGood, FwdFields, FwdMainTypes
    <3>3. FwdCopierTypes' /\ FwdPairTypes' /\ FwdSrvTypes' /\ FwdTtyTypes'
      BY <2>1, FwdFrame DEF FwdGood
    <3> QED BY <3>1, <3>2, <3>3 DEF FwdFields
  <2>6. Forward!Streams'
    BY <1>1, <2>1, <2>4 DEF FwdGood, Forward!Streams, Forward!Drained
  <2>7. Forward!Handshakes'
    BY <1>1, <2>1, <2>4 DEF FwdGood, Forward!Handshakes, Forward!Byed, Forward!Bye, Forward!Statused
  <2>8. Forward!Copiers'
    BY <1>1, <2>1, <2>4 DEF FwdGood, Forward!Copiers, Forward!Shut, Forward!Early, Forward!Drained
  <2>9. Forward!Leaving'
    BY <1>1, <2>1, <2>4 DEF FwdGood, Forward!Leaving, Forward!Byed, Forward!Bye, Forward!Error
  <2> QED BY <2>2, <2>5, <2>6, <2>7, <2>8, <2>9 DEF FwdGood
<1>2. CASE ctrl.down # <<>> /\ Head(ctrl.down) # "protocol" /\ fwd.pty /\ ~fwd.writerExit
  <2>1. /\ fwd.pc = "ReadingInfo" /\ ~fwd.clean /\ fwd'.pc = fwd.pc /\ fwd'.pty = fwd.pty
        /\ fwd'.protocol = fwd.protocol /\ fwd'.clean = TRUE /\ fwd'.writerExit = fwd.writerExit
        /\ fwd'.status = Head(ctrl.down) /\ ctrl'.up = ctrl.up /\ ctrl'.down = Tail(ctrl.down)
        /\ UNCHANGED <<queue, copier, pair, srv, tty>>
    BY <1>2 DEF FwdGood, FwdShapes, Forward!ReadInfo, Forward!Leave
  <2>2. FwdShapes'
    BY <1>2 DEF FwdGood, FwdShapes, Forward!ReadInfo, Forward!Leave
  <2>3. ctrl.down \in Seq(Forward!Answers) /\ ctrl.down # <<>>
    BY <1>2, <2>1 DEF FwdGood, FwdFields, FwdCtrlTypes, Forward!Typed
  <2>4. /\ Tail(ctrl.down) \in Seq(Forward!Answers) /\ Len(ctrl.down) \in Nat
        /\ Len(Tail(ctrl.down)) = Len(ctrl.down) - 1 /\ Head(ctrl.down) \in Forward!Answers
        /\ Head(ctrl.down) \in Forward!ToSet(ctrl.down)
        /\ Forward!ToSet(Tail(ctrl.down)) \subseteq Forward!ToSet(ctrl.down)
    BY <2>3, Taking
  <2>5. /\ Head(ctrl.down) = srv.status /\ srv.pc \in {"close", "gone"} /\ Forward!Byed
        /\ srv.status \in Forward!Reasons
    BY <1>2, <2>1, <2>4 DEF FwdGood, FwdFields, FwdSrvTypes, Forward!Handshakes, Forward!Statused
  <2>6. FwdFields'
    <3>1. FwdCtrlTypes'
      BY <2>1, <2>4, <2>5 DEF FwdGood, FwdFields, FwdCtrlTypes
    <3>2. FwdMainTypes'
      BY <2>1, <2>4, <2>5 DEF FwdGood, FwdFields, FwdMainTypes
    <3>3. FwdCopierTypes' /\ FwdPairTypes' /\ FwdSrvTypes' /\ FwdTtyTypes'
      BY <2>1, FwdFrame DEF FwdGood
    <3> QED BY <3>1, <3>2, <3>3 DEF FwdFields
  <2>7. Forward!Streams'
    BY <1>2, <2>1, <2>4, <2>5 DEF FwdGood, Forward!Streams, Forward!Drained
  <2>8. Forward!Handshakes'
    BY <1>2, <2>1, <2>4, <2>5 DEF FwdGood, Forward!Handshakes, Forward!Byed, Forward!Bye, Forward!Statused
  <2>9. Forward!Copiers'
    BY <1>2, <2>1, <2>4, <2>5 DEF FwdGood, Forward!Copiers, Forward!Shut, Forward!Early, Forward!Drained
  <2>10. Forward!Leaving'
    BY <1>2, <2>1, <2>4, <2>5 DEF FwdGood, Forward!Leaving, Forward!Byed, Forward!Bye, Forward!Error
  <2> QED BY <2>2, <2>6, <2>7, <2>8, <2>9, <2>10 DEF FwdGood
<1>3. CASE ctrl.down # <<>> /\ Head(ctrl.down) # "protocol" /\ ~(fwd.pty /\ ~fwd.writerExit)
  <2>1. /\ fwd.pc = "ReadingInfo" /\ ~fwd.clean /\ fwd'.pc = "leaving" /\ fwd'.pty = fwd.pty
        /\ fwd'.protocol = fwd.protocol /\ fwd'.clean = TRUE /\ fwd'.writerExit = fwd.writerExit
        /\ fwd'.status = Head(ctrl.down) /\ ctrl'.up = ctrl.up /\ ctrl'.down = Tail(ctrl.down)
        /\ UNCHANGED <<queue, copier, pair, srv, tty>>
    BY <1>3 DEF FwdGood, FwdShapes, Forward!ReadInfo, Forward!Leave
  <2>2. FwdShapes'
    BY <1>3 DEF FwdGood, FwdShapes, Forward!ReadInfo, Forward!Leave
  <2>3. ctrl.down \in Seq(Forward!Answers) /\ ctrl.down # <<>>
    BY <1>3, <2>1 DEF FwdGood, FwdFields, FwdCtrlTypes, Forward!Typed
  <2>4. /\ Tail(ctrl.down) \in Seq(Forward!Answers) /\ Len(ctrl.down) \in Nat
        /\ Len(Tail(ctrl.down)) = Len(ctrl.down) - 1 /\ Head(ctrl.down) \in Forward!Answers
        /\ Head(ctrl.down) \in Forward!ToSet(ctrl.down)
        /\ Forward!ToSet(Tail(ctrl.down)) \subseteq Forward!ToSet(ctrl.down)
    BY <2>3, Taking
  <2>5. /\ Head(ctrl.down) = srv.status /\ srv.pc \in {"close", "gone"} /\ Forward!Byed
        /\ srv.status \in Forward!Reasons
    BY <1>3, <2>1, <2>4 DEF FwdGood, FwdFields, FwdSrvTypes, Forward!Handshakes, Forward!Statused
  <2>6. FwdFields'
    <3>1. FwdCtrlTypes'
      BY <2>1, <2>4, <2>5 DEF FwdGood, FwdFields, FwdCtrlTypes
    <3>2. FwdMainTypes'
      BY <2>1, <2>4, <2>5 DEF FwdGood, FwdFields, FwdMainTypes
    <3>3. FwdCopierTypes' /\ FwdPairTypes' /\ FwdSrvTypes' /\ FwdTtyTypes'
      BY <2>1, FwdFrame DEF FwdGood
    <3> QED BY <3>1, <3>2, <3>3 DEF FwdFields
  <2>7. Forward!Streams'
    BY <1>3, <2>1, <2>4, <2>5 DEF FwdGood, Forward!Streams, Forward!Drained
  <2>8. Forward!Handshakes'
    BY <1>3, <2>1, <2>4, <2>5 DEF FwdGood, Forward!Handshakes, Forward!Byed, Forward!Bye, Forward!Statused
  <2>9. Forward!Copiers'
    BY <1>3, <2>1, <2>4, <2>5 DEF FwdGood, Forward!Copiers, Forward!Shut, Forward!Early, Forward!Drained
  <2>10. Forward!Leaving'
    BY <1>3, <2>1, <2>4, <2>5 DEF FwdGood, Forward!Leaving, Forward!Byed, Forward!Bye, Forward!Error
  <2> QED BY <2>2, <2>6, <2>7, <2>8, <2>9, <2>10 DEF FwdGood
<1>4. CASE ctrl.down = <<>>
  <2>1. /\ fwd.pc = "ReadingInfo" /\ ~fwd.clean /\ srv.pc = "gone" /\ fwd'.pc = "leaving"
        /\ fwd'.pty = fwd.pty /\ fwd'.protocol = fwd.protocol /\ fwd'.clean = fwd.clean
        /\ fwd'.writerExit = fwd.writerExit /\ fwd'.status = "lost"
        /\ UNCHANGED <<queue, copier, ctrl, pair, srv, tty>>
    BY <1>4 DEF FwdGood, FwdShapes, Forward!ReadInfo, Forward!Leave
  <2>2. FwdShapes'
    BY <1>4 DEF FwdGood, FwdShapes, Forward!ReadInfo, Forward!Leave
  <2>3. FwdFields'
    <3>1. FwdMainTypes'
      BY <2>1 DEF FwdGood, FwdFields, FwdMainTypes
    <3>2. FwdCopierTypes' /\ FwdCtrlTypes' /\ FwdPairTypes' /\ FwdSrvTypes' /\ FwdTtyTypes'
      BY <2>1, FwdFrame DEF FwdGood
    <3> QED BY <3>1, <3>2 DEF FwdFields
  <2>4. Forward!Streams'
    BY <1>4, <2>1 DEF FwdGood, Forward!Streams, Forward!Drained
  <2>5. Forward!Handshakes'
    BY <1>4, <2>1 DEF FwdGood, Forward!Handshakes, Forward!Byed, Forward!Bye, Forward!Statused
  <2>6. Forward!Copiers'
    BY <1>4, <2>1 DEF FwdGood, Forward!Copiers, Forward!Shut, Forward!Early, Forward!Drained
  <2>7. Forward!Leaving'
    BY <1>4, <2>1 DEF FwdGood, Forward!Leaving, Forward!Byed, Forward!Bye, Forward!Error
  <2> QED BY <2>2, <2>3, <2>4, <2>5, <2>6, <2>7 DEF FwdGood
<1> QED BY <1>1, <1>2, <1>3, <1>4 DEF FwdGood, FwdShapes, FwdFields, FwdMainTypes, Forward!ReadInfo,
           Forward!Leave

\* HandleWork keeps the invariant.
LEMMA FwdHandleWork ==
  ASSUME Output \in Nat, Keys \in Nat, Cap \in Nat, FwdGood, Forward!HandleWork
  PROVE  FwdGood'
<1>1. CASE Head(queue) = "readerExit"
  <2>1. /\ fwd.pc \notin {"leaving", "gone"} /\ queue # <<>> /\ fwd'.pc = "leaving"
        /\ fwd'.pty = fwd.pty /\ fwd'.protocol = fwd.protocol /\ fwd'.clean = fwd.clean
        /\ fwd'.writerExit = fwd.writerExit /\ fwd'.status = fwd.status /\ queue' = Tail(queue)
        /\ UNCHANGED <<copier, ctrl, pair, srv, tty>>
    BY <1>1 DEF FwdGood, FwdShapes, Forward!HandleWork, Forward!Leave, Forward!Error
  <2>2. FwdShapes'
    BY <1>1 DEF FwdGood, FwdShapes, Forward!HandleWork, Forward!Leave, Forward!Error
  <2>3. queue \in Seq(Forward!Ends) /\ queue # <<>>
    BY <1>1, <2>1 DEF FwdGood, FwdFields, FwdMainTypes, Forward!Typed
  <2>4. /\ Tail(queue) \in Seq(Forward!Ends) /\ Len(queue) \in Nat /\ Len(Tail(queue)) = Len(queue) - 1
        /\ Head(queue) \in Forward!Ends
        /\ Head(queue) \in Forward!ToSet(queue) /\ Forward!ToSet(Tail(queue)) \subseteq Forward!ToSet(queue)
    BY <2>3, Taking
  <2>5. FwdFields'
    <3>1. FwdMainTypes'
      BY <2>1, <2>4 DEF FwdGood, FwdFields, FwdMainTypes
    <3>2. FwdCopierTypes' /\ FwdCtrlTypes' /\ FwdPairTypes' /\ FwdSrvTypes' /\ FwdTtyTypes'
      BY <2>1, FwdFrame DEF FwdGood
    <3> QED BY <3>1, <3>2 DEF FwdFields
  <2>6. Forward!Streams'
    BY <1>1, <2>1, <2>4 DEF FwdGood, Forward!Streams, Forward!Drained
  <2>7. Forward!Handshakes'
    BY <1>1, <2>1, <2>4 DEF FwdGood, Forward!Handshakes, Forward!Byed, Forward!Bye, Forward!Statused
  <2>8. Forward!Copiers'
    BY <1>1, <2>1, <2>4 DEF FwdGood, Forward!Copiers, Forward!Shut, Forward!Early, Forward!Drained
  <2>9. Forward!Leaving'
    BY <1>1, <2>1, <2>4 DEF FwdGood, Forward!Leaving, Forward!Byed, Forward!Bye, Forward!Error,
       Forward!Copiers
  <2> QED BY <2>2, <2>5, <2>6, <2>7, <2>8, <2>9 DEF FwdGood
<1>2. CASE Head(queue) = "writerExit" /\ fwd.clean
  <2>1. /\ fwd.pc \notin {"leaving", "gone"} /\ queue # <<>> /\ fwd'.pc = "leaving"
        /\ fwd'.pty = fwd.pty /\ fwd'.protocol = fwd.protocol /\ fwd'.clean = fwd.clean
        /\ fwd'.writerExit = TRUE /\ fwd'.status = fwd.status /\ queue' = Tail(queue)
        /\ UNCHANGED <<copier, ctrl, pair, srv, tty>>
    BY <1>2 DEF FwdGood, FwdShapes, Forward!HandleWork, Forward!Leave, Forward!Error
  <2>2. FwdShapes'
    BY <1>2 DEF FwdGood, FwdShapes, Forward!HandleWork, Forward!Leave, Forward!Error
  <2>3. queue \in Seq(Forward!Ends) /\ queue # <<>>
    BY <1>2, <2>1 DEF FwdGood, FwdFields, FwdMainTypes, Forward!Typed
  <2>4. /\ Tail(queue) \in Seq(Forward!Ends) /\ Len(queue) \in Nat /\ Len(Tail(queue)) = Len(queue) - 1
        /\ Head(queue) \in Forward!Ends
        /\ Head(queue) \in Forward!ToSet(queue) /\ Forward!ToSet(Tail(queue)) \subseteq Forward!ToSet(queue)
    BY <2>3, Taking
  <2>5. FwdFields'
    <3>1. FwdMainTypes'
      BY <2>1, <2>4 DEF FwdGood, FwdFields, FwdMainTypes
    <3>2. FwdCopierTypes' /\ FwdCtrlTypes' /\ FwdPairTypes' /\ FwdSrvTypes' /\ FwdTtyTypes'
      BY <2>1, FwdFrame DEF FwdGood
    <3> QED BY <3>1, <3>2 DEF FwdFields
  <2>6. Forward!Streams'
    BY <1>2, <2>1, <2>4 DEF FwdGood, Forward!Streams, Forward!Drained
  <2>7. Forward!Handshakes'
    BY <1>2, <2>1, <2>4 DEF FwdGood, Forward!Handshakes, Forward!Byed, Forward!Bye, Forward!Statused
  <2>8. Forward!Copiers'
    BY <1>2, <2>1, <2>4 DEF FwdGood, Forward!Copiers, Forward!Shut, Forward!Early, Forward!Drained
  <2>9. Forward!Leaving'
    BY <1>2, <2>1, <2>4 DEF FwdGood, Forward!Leaving, Forward!Byed, Forward!Bye, Forward!Error,
       Forward!Copiers
  <2> QED BY <2>2, <2>5, <2>6, <2>7, <2>8, <2>9 DEF FwdGood
<1>3. CASE Head(queue) = "writerExit" /\ ~fwd.clean
  <2>1. /\ fwd.pc \notin {"leaving", "gone"} /\ queue # <<>> /\ fwd'.pc = fwd.pc
        /\ fwd'.pty = fwd.pty /\ fwd'.protocol = fwd.protocol /\ fwd'.clean = fwd.clean
        /\ fwd'.writerExit = TRUE /\ fwd'.status = fwd.status /\ queue' = Tail(queue)
        /\ UNCHANGED <<copier, ctrl, pair, srv, tty>>
    BY <1>3 DEF FwdGood, FwdShapes, Forward!HandleWork, Forward!Leave, Forward!Error
  <2>2. FwdShapes'
    BY <1>3 DEF FwdGood, FwdShapes, Forward!HandleWork, Forward!Leave, Forward!Error
  <2>3. queue \in Seq(Forward!Ends) /\ queue # <<>>
    BY <1>3, <2>1 DEF FwdGood, FwdFields, FwdMainTypes, Forward!Typed
  <2>4. /\ Tail(queue) \in Seq(Forward!Ends) /\ Len(queue) \in Nat /\ Len(Tail(queue)) = Len(queue) - 1
        /\ Head(queue) \in Forward!Ends
        /\ Head(queue) \in Forward!ToSet(queue) /\ Forward!ToSet(Tail(queue)) \subseteq Forward!ToSet(queue)
    BY <2>3, Taking
  <2>5. FwdFields'
    <3>1. FwdMainTypes'
      BY <2>1, <2>4 DEF FwdGood, FwdFields, FwdMainTypes
    <3>2. FwdCopierTypes' /\ FwdCtrlTypes' /\ FwdPairTypes' /\ FwdSrvTypes' /\ FwdTtyTypes'
      BY <2>1, FwdFrame DEF FwdGood
    <3> QED BY <3>1, <3>2 DEF FwdFields
  <2>6. Forward!Streams'
    BY <1>3, <2>1, <2>4 DEF FwdGood, Forward!Streams, Forward!Drained
  <2>7. Forward!Handshakes'
    BY <1>3, <2>1, <2>4 DEF FwdGood, Forward!Handshakes, Forward!Byed, Forward!Bye, Forward!Statused
  <2>8. Forward!Copiers'
    BY <1>3, <2>1, <2>4 DEF FwdGood, Forward!Copiers, Forward!Shut, Forward!Early, Forward!Drained
  <2>9. Forward!Leaving'
    BY <1>3, <2>1, <2>4 DEF FwdGood, Forward!Leaving, Forward!Byed, Forward!Bye, Forward!Error,
       Forward!Copiers
  <2> QED BY <2>2, <2>5, <2>6, <2>7, <2>8, <2>9 DEF FwdGood
<1>4. CASE Head(queue) \notin {"readerExit", "writerExit"}
  <2>1. /\ fwd.pc \notin {"leaving", "gone"} /\ queue # <<>> /\ fwd'.pc = "leaving"
        /\ fwd'.pty = fwd.pty /\ fwd'.protocol = fwd.protocol /\ fwd'.clean = fwd.clean
        /\ fwd'.writerExit = fwd.writerExit /\ fwd'.status = "forwarderError"
        /\ queue' = Tail(queue) /\ UNCHANGED <<copier, ctrl, pair, srv, tty>>
    BY <1>4 DEF FwdGood, FwdShapes, Forward!HandleWork, Forward!Leave, Forward!Error
  <2>2. FwdShapes'
    BY <1>4 DEF FwdGood, FwdShapes, Forward!HandleWork, Forward!Leave, Forward!Error
  <2>3. queue \in Seq(Forward!Ends) /\ queue # <<>>
    BY <1>4, <2>1 DEF FwdGood, FwdFields, FwdMainTypes, Forward!Typed
  <2>4. /\ Tail(queue) \in Seq(Forward!Ends) /\ Len(queue) \in Nat /\ Len(Tail(queue)) = Len(queue) - 1
        /\ Head(queue) \in Forward!Ends
        /\ Head(queue) \in Forward!ToSet(queue) /\ Forward!ToSet(Tail(queue)) \subseteq Forward!ToSet(queue)
    BY <2>3, Taking
  <2>5. FwdFields'
    <3>1. FwdMainTypes'
      BY <2>1, <2>4 DEF FwdGood, FwdFields, FwdMainTypes
    <3>2. FwdCopierTypes' /\ FwdCtrlTypes' /\ FwdPairTypes' /\ FwdSrvTypes' /\ FwdTtyTypes'
      BY <2>1, FwdFrame DEF FwdGood
    <3> QED BY <3>1, <3>2 DEF FwdFields
  <2>6. Forward!Streams'
    BY <1>4, <2>1, <2>4 DEF FwdGood, Forward!Streams, Forward!Drained
  <2>7. Forward!Handshakes'
    BY <1>4, <2>1, <2>4 DEF FwdGood, Forward!Handshakes, Forward!Byed, Forward!Bye, Forward!Statused
  <2>8. Forward!Copiers'
    BY <1>4, <2>1, <2>4 DEF FwdGood, Forward!Copiers, Forward!Shut, Forward!Early, Forward!Drained
  <2>9. Forward!Leaving'
    BY <1>4, <2>1, <2>4 DEF FwdGood, Forward!Leaving, Forward!Byed, Forward!Bye, Forward!Error,
       Forward!Copiers
  <2> QED BY <2>2, <2>5, <2>6, <2>7, <2>8, <2>9 DEF FwdGood
<1> QED BY <1>1, <1>2, <1>3, <1>4 DEF FwdGood, FwdShapes, FwdFields, FwdMainTypes, Forward!HandleWork,
           Forward!Leave, Forward!Error

\* HandleInterrupt keeps the invariant.
LEMMA FwdHandleInterrupt ==
  ASSUME Output \in Nat, Keys \in Nat, Cap \in Nat, FwdGood, Forward!HandleInterrupt
  PROVE  FwdGood'
<1>1. /\ fwd.pc \notin {"leaving", "gone"} /\ fwd'.pc = "leaving" /\ fwd'.pty = fwd.pty
      /\ fwd'.protocol = fwd.protocol /\ fwd'.clean = fwd.clean
      /\ fwd'.writerExit = fwd.writerExit /\ fwd'.status = "shutdown"
      /\ UNCHANGED <<queue, copier, ctrl, pair, srv, tty>>
  BY DEF FwdGood, FwdShapes, Forward!HandleInterrupt, Forward!Leave
<1>2. FwdShapes'
  BY DEF FwdGood, FwdShapes, Forward!HandleInterrupt, Forward!Leave
<1>3. FwdFields'
  <2>1. FwdMainTypes'
    BY <1>1 DEF FwdGood, FwdFields, FwdMainTypes
  <2>2. FwdCopierTypes' /\ FwdCtrlTypes' /\ FwdPairTypes' /\ FwdSrvTypes' /\ FwdTtyTypes'
    BY <1>1, FwdFrame DEF FwdGood
  <2> QED BY <2>1, <2>2 DEF FwdFields
<1>4. Forward!Streams'
  BY <1>1 DEF FwdGood, Forward!Streams, Forward!Drained
<1>5. Forward!Handshakes'
  BY <1>1 DEF FwdGood, Forward!Handshakes, Forward!Byed, Forward!Bye, Forward!Statused
<1>6. Forward!Copiers'
  BY <1>1 DEF FwdGood, Forward!Copiers, Forward!Shut, Forward!Early, Forward!Drained
<1>7. Forward!Leaving'
  BY <1>1 DEF FwdGood, Forward!Leaving, Forward!Byed, Forward!Bye, Forward!Error
<1> QED BY <1>2, <1>3, <1>4, <1>5, <1>6, <1>7 DEF FwdGood

\* FwdLeaves keeps the invariant.
LEMMA FwdFwdLeaves ==
  ASSUME Output \in Nat, Keys \in Nat, Cap \in Nat, FwdGood, Forward!FwdLeaves
  PROVE  FwdGood'
<1>1. /\ fwd.pc = "leaving" /\ ~copier["in"].run /\ ~copier["out"].run /\ fwd'.pc = "gone"
      /\ fwd'.pty = fwd.pty /\ fwd'.protocol = fwd.protocol /\ fwd'.clean = fwd.clean
      /\ fwd'.writerExit = fwd.writerExit /\ fwd'.status = fwd.status /\ pair'.up = pair.up
      /\ pair'.down = pair.down /\ pair'.shut = TRUE /\ pair'.closed = pair.closed
      /\ pair'.reset = pair.reset /\ tty'.typed = tty.typed /\ tty'.shown = tty.shown
      /\ tty'.told = (~fwd.clean /\ fwd.protocol) /\ tty'.keys = tty.keys
      /\ tty'.answered = tty.answered /\ tty'.hung = tty.hung
      /\ UNCHANGED <<queue, copier, ctrl, srv>>
  BY DEF FwdGood, FwdShapes, Forward!FwdLeaves, Forward!WriteDisconnect
<1>2. FwdShapes'
  BY DEF FwdGood, FwdShapes, Forward!FwdLeaves, Forward!WriteDisconnect
<1>3. FwdFields'
  <2>1. FwdMainTypes'
    BY <1>1 DEF FwdGood, FwdFields, FwdMainTypes
  <2>2. FwdTtyTypes'
    BY <1>1 DEF FwdGood, FwdFields, FwdTtyTypes
  <2>3. FwdPairTypes'
    BY <1>1 DEF FwdGood, FwdFields, FwdPairTypes
  <2>4. FwdCopierTypes' /\ FwdCtrlTypes' /\ FwdSrvTypes'
    BY <1>1, FwdFrame DEF FwdGood
  <2> QED BY <2>1, <2>2, <2>3, <2>4 DEF FwdFields
<1>4. Forward!Streams'
  BY <1>1 DEF FwdGood, Forward!Streams, Forward!Drained
<1>5. Forward!Handshakes'
  BY <1>1 DEF FwdGood, Forward!Handshakes, Forward!Byed, Forward!Bye, Forward!Statused
<1>6. Forward!Copiers'
  BY <1>1 DEF FwdGood, Forward!Copiers, Forward!Shut, Forward!Early, Forward!Drained
<1>7. Forward!Leaving'
  BY <1>1 DEF FwdGood, Forward!Leaving, Forward!Byed, Forward!Bye, Forward!Error
<1> QED BY <1>2, <1>3, <1>4, <1>5, <1>6, <1>7 DEF FwdGood

\* ReadTerminal keeps the invariant.
LEMMA FwdReadTerminal ==
  ASSUME Output \in Nat, Keys \in Nat, Cap \in Nat, FwdGood, Forward!ReadTerminal
  PROVE  FwdGood'
<1>1. CASE tty.typed # <<>>
  <2>1. /\ copier["in"].run /\ copier["in"].held = <<>> /\ Forward!Holds("in", <<Head(tty.typed)>>)
        /\ tty'.typed = Tail(tty.typed) /\ tty'.shown = tty.shown /\ tty'.told = tty.told
        /\ tty'.keys = tty.keys /\ tty'.answered = tty.answered /\ tty'.hung = tty.hung
        /\ UNCHANGED <<fwd, queue, ctrl, pair, srv>>
    BY <1>1 DEF FwdGood, FwdShapes, Forward!ReadTerminal, Forward!Tell
  <2>2. /\ FwdCopierShape' /\ copier'["out"] = copier["out"]
        /\ copier'["in"].held = <<Head(tty.typed)>> /\ copier'["in"].run = copier["in"].run
    BY <2>1, FwdHolds DEF FwdGood, FwdShapes, FwdCopierShape
  <2>3. FwdShapes'
    BY <1>1, <2>1, <2>2 DEF FwdGood, FwdShapes, FwdCopierShape, Forward!ReadTerminal, Forward!Tell
  <2>4. tty.typed \in Seq(Forward!Inputs) /\ tty.typed # <<>>
    BY <1>1, <2>1 DEF FwdGood, FwdFields, FwdTtyTypes, Forward!Typed
  <2>5. /\ Tail(tty.typed) \in Seq(Forward!Inputs) /\ Len(tty.typed) \in Nat
        /\ Len(Tail(tty.typed)) = Len(tty.typed) - 1 /\ Head(tty.typed) \in Forward!Inputs
        /\ Head(tty.typed) \in Forward!ToSet(tty.typed)
        /\ Forward!ToSet(Tail(tty.typed)) \subseteq Forward!ToSet(tty.typed)
    BY <2>4, Taking
  <2>6. FwdFields'
    <3>1. FwdCopierTypes'
      BY <2>1, <2>2, <2>5 DEF FwdGood, FwdFields, FwdCopierTypes
    <3>2. FwdTtyTypes'
      BY <2>1, <2>2, <2>5 DEF FwdGood, FwdFields, FwdTtyTypes
    <3>3. FwdMainTypes' /\ FwdCtrlTypes' /\ FwdPairTypes' /\ FwdSrvTypes'
      BY <2>1, FwdFrame DEF FwdGood
    <3> QED BY <3>1, <3>2, <3>3 DEF FwdFields
  <2>7. Forward!Streams'
    BY <1>1, <2>1, <2>2, <2>5 DEF FwdGood, Forward!Streams, Forward!Drained
  <2>8. Forward!Handshakes'
    BY <1>1, <2>1, <2>2, <2>5 DEF FwdGood, Forward!Handshakes, Forward!Byed, Forward!Bye, Forward!Statused
  <2>9. Forward!Copiers'
    BY <1>1, <2>1, <2>2, <2>5 DEF FwdGood, Forward!Copiers, Forward!Shut, Forward!Early, Forward!Drained
  <2>10. Forward!Leaving'
    BY <1>1, <2>1, <2>2, <2>5 DEF FwdGood, Forward!Leaving, Forward!Byed, Forward!Bye, Forward!Error
  <2> QED BY <2>3, <2>6, <2>7, <2>8, <2>9, <2>10 DEF FwdGood
<1>2. CASE tty.typed = <<>> /\ Forward!Tell("readerExit") /\ pair' = [pair EXCEPT !.shut = TRUE]
  <2>1. /\ copier["in"].run /\ copier["in"].held = <<>> /\ tty.hung /\ Forward!CopierGone("in")
        /\ queue' = Append(queue, "readerExit") /\ pair'.up = pair.up /\ pair'.down = pair.down
        /\ pair'.shut = TRUE /\ pair'.closed = pair.closed /\ pair'.reset = pair.reset
        /\ UNCHANGED <<fwd, ctrl, srv, tty>>
    BY <1>2 DEF FwdGood, FwdShapes, Forward!ReadTerminal, Forward!Tell
  <2>2. /\ FwdCopierShape' /\ copier'["out"] = copier["out"] /\ copier'["in"].run = FALSE
        /\ copier'["in"].held = copier["in"].held
    BY <2>1, FwdCopierGone DEF FwdGood, FwdShapes, FwdCopierShape
  <2>3. FwdShapes'
    BY <1>2, <2>1, <2>2 DEF FwdGood, FwdShapes, FwdCopierShape, Forward!ReadTerminal, Forward!Tell
  <2>4. queue \in Seq(Forward!Ends)
    BY DEF FwdGood, FwdFields, FwdMainTypes
  <2>5. "readerExit" \in Forward!Ends
    BY <1>2 DEF FwdGood, FwdFields, FwdSrvTypes, Forward!Ends
  <2>6. /\ Append(queue, "readerExit") \in Seq(Forward!Ends) /\ Len(queue) \in Nat
        /\ Len(Append(queue, "readerExit")) = Len(queue) + 1
        /\ Forward!ToSet(Append(queue, "readerExit")) = Forward!ToSet(queue) \cup {"readerExit"}
    BY <2>4, <2>5, Appending
  <2>7. FwdFields'
    <3>1. FwdCopierTypes'
      BY <2>1, <2>2, <2>6 DEF FwdGood, FwdFields, FwdCopierTypes
    <3>2. FwdPairTypes'
      BY <2>1, <2>2, <2>6 DEF FwdGood, FwdFields, FwdPairTypes
    <3>3. FwdMainTypes'
      BY <2>1, <2>2, <2>6 DEF FwdGood, FwdFields, FwdMainTypes
    <3>4. FwdCtrlTypes' /\ FwdSrvTypes' /\ FwdTtyTypes'
      BY <2>1, FwdFrame DEF FwdGood
    <3> QED BY <3>1, <3>2, <3>3, <3>4 DEF FwdFields
  <2>8. Forward!Streams'
    BY <1>2, <2>1, <2>2, <2>6 DEF FwdGood, Forward!Streams, Forward!Drained
  <2>9. Forward!Handshakes'
    BY <1>2, <2>1, <2>2, <2>6 DEF FwdGood, Forward!Handshakes, Forward!Byed, Forward!Bye, Forward!Statused
  <2>10. Forward!Copiers'
    BY <1>2, <2>1, <2>2, <2>6 DEF FwdGood, Forward!Copiers, Forward!Shut, Forward!Early, Forward!Drained
  <2>11. Forward!Leaving'
    BY <1>2, <2>1, <2>2, <2>6 DEF FwdGood, Forward!Leaving, Forward!Byed, Forward!Bye, Forward!Error
  <2> QED BY <2>3, <2>7, <2>8, <2>9, <2>10, <2>11 DEF FwdGood
<1>3. CASE tty.typed = <<>> /\ Forward!Tell("error") /\ UNCHANGED pair
  <2>1. /\ copier["in"].run /\ copier["in"].held = <<>> /\ tty.hung /\ Forward!CopierGone("in")
        /\ queue' = Append(queue, "error") /\ UNCHANGED <<fwd, ctrl, pair, srv, tty>>
    BY <1>3 DEF FwdGood, FwdShapes, Forward!ReadTerminal, Forward!Tell
  <2>2. /\ FwdCopierShape' /\ copier'["out"] = copier["out"] /\ copier'["in"].run = FALSE
        /\ copier'["in"].held = copier["in"].held
    BY <2>1, FwdCopierGone DEF FwdGood, FwdShapes, FwdCopierShape
  <2>3. FwdShapes'
    BY <1>3, <2>1, <2>2 DEF FwdGood, FwdShapes, FwdCopierShape, Forward!ReadTerminal, Forward!Tell
  <2>4. queue \in Seq(Forward!Ends)
    BY DEF FwdGood, FwdFields, FwdMainTypes
  <2>5. "error" \in Forward!Ends
    BY <1>3 DEF FwdGood, FwdFields, FwdSrvTypes, Forward!Ends
  <2>6. /\ Append(queue, "error") \in Seq(Forward!Ends) /\ Len(queue) \in Nat
        /\ Len(Append(queue, "error")) = Len(queue) + 1
        /\ Forward!ToSet(Append(queue, "error")) = Forward!ToSet(queue) \cup {"error"}
    BY <2>4, <2>5, Appending
  <2>7. FwdFields'
    <3>1. FwdCopierTypes'
      BY <2>1, <2>2, <2>6 DEF FwdGood, FwdFields, FwdCopierTypes
    <3>2. FwdMainTypes'
      BY <2>1, <2>2, <2>6 DEF FwdGood, FwdFields, FwdMainTypes
    <3>3. FwdCtrlTypes' /\ FwdPairTypes' /\ FwdSrvTypes' /\ FwdTtyTypes'
      BY <2>1, FwdFrame DEF FwdGood
    <3> QED BY <3>1, <3>2, <3>3 DEF FwdFields
  <2>8. Forward!Streams'
    BY <1>3, <2>1, <2>2, <2>6 DEF FwdGood, Forward!Streams, Forward!Drained
  <2>9. Forward!Handshakes'
    BY <1>3, <2>1, <2>2, <2>6 DEF FwdGood, Forward!Handshakes, Forward!Byed, Forward!Bye, Forward!Statused
  <2>10. Forward!Copiers'
    BY <1>3, <2>1, <2>2, <2>6 DEF FwdGood, Forward!Copiers, Forward!Shut, Forward!Early, Forward!Drained
  <2>11. Forward!Leaving'
    BY <1>3, <2>1, <2>2, <2>6 DEF FwdGood, Forward!Leaving, Forward!Byed, Forward!Bye, Forward!Error
  <2> QED BY <2>3, <2>7, <2>8, <2>9, <2>10, <2>11 DEF FwdGood
<1> QED BY <1>1, <1>2, <1>3 DEF FwdGood, FwdShapes, FwdFields, FwdMainTypes, Forward!ReadTerminal,
           Forward!Holds, Forward!CopierGone, Forward!Tell

\* WriteServer keeps the invariant.
LEMMA FwdWriteServer ==
  ASSUME Output \in Nat, Keys \in Nat, Cap \in Nat, FwdGood, Forward!WriteServer
  PROVE  FwdGood'
<1>1. CASE pair.closed
  <2>1. /\ copier["in"].run /\ copier["in"].held # <<>> /\ Forward!CopierGone("in")
        /\ queue' = Append(queue, "error") /\ UNCHANGED <<fwd, ctrl, pair, srv, tty>>
    BY <1>1 DEF FwdGood, FwdShapes, Forward!WriteServer, Forward!Tell
  <2>2. /\ FwdCopierShape' /\ copier'["out"] = copier["out"] /\ copier'["in"].run = FALSE
        /\ copier'["in"].held = copier["in"].held
    BY <2>1, FwdCopierGone DEF FwdGood, FwdShapes, FwdCopierShape
  <2>3. FwdShapes'
    BY <1>1, <2>1, <2>2 DEF FwdGood, FwdShapes, FwdCopierShape, Forward!WriteServer, Forward!Tell
  <2>4. queue \in Seq(Forward!Ends)
    BY DEF FwdGood, FwdFields, FwdMainTypes
  <2>5. "error" \in Forward!Ends
    BY <1>1 DEF FwdGood, FwdFields, FwdSrvTypes, Forward!Ends
  <2>6. /\ Append(queue, "error") \in Seq(Forward!Ends) /\ Len(queue) \in Nat
        /\ Len(Append(queue, "error")) = Len(queue) + 1
        /\ Forward!ToSet(Append(queue, "error")) = Forward!ToSet(queue) \cup {"error"}
    BY <2>4, <2>5, Appending
  <2>7. FwdFields'
    <3>1. FwdCopierTypes'
      BY <2>1, <2>2, <2>6 DEF FwdGood, FwdFields, FwdCopierTypes
    <3>2. FwdMainTypes'
      BY <2>1, <2>2, <2>6 DEF FwdGood, FwdFields, FwdMainTypes
    <3>3. FwdCtrlTypes' /\ FwdPairTypes' /\ FwdSrvTypes' /\ FwdTtyTypes'
      BY <2>1, FwdFrame DEF FwdGood
    <3> QED BY <3>1, <3>2, <3>3 DEF FwdFields
  <2>8. Forward!Streams'
    BY <1>1, <2>1, <2>2, <2>6 DEF FwdGood, Forward!Streams, Forward!Drained
  <2>9. Forward!Handshakes'
    BY <1>1, <2>1, <2>2, <2>6 DEF FwdGood, Forward!Handshakes, Forward!Byed, Forward!Bye, Forward!Statused
  <2>10. Forward!Copiers'
    BY <1>1, <2>1, <2>2, <2>6 DEF FwdGood, Forward!Copiers, Forward!Shut, Forward!Early, Forward!Drained
  <2>11. Forward!Leaving'
    BY <1>1, <2>1, <2>2, <2>6 DEF FwdGood, Forward!Leaving, Forward!Byed, Forward!Bye, Forward!Error
  <2> QED BY <2>3, <2>7, <2>8, <2>9, <2>10, <2>11 DEF FwdGood
<1>2. CASE ~pair.closed
  <2>1. /\ copier["in"].run /\ copier["in"].held # <<>> /\ Forward!Holds("in", <<>>)
        /\ pair'.up = pair.up \o copier["in"].held /\ pair'.down = pair.down
        /\ pair'.shut = pair.shut /\ pair'.closed = pair.closed /\ pair'.reset = pair.reset
        /\ UNCHANGED <<fwd, queue, ctrl, srv, tty>>
    BY <1>2 DEF FwdGood, FwdShapes, Forward!WriteServer, Forward!Tell
  <2>2. /\ FwdCopierShape' /\ copier'["out"] = copier["out"] /\ copier'["in"].held = <<>>
        /\ copier'["in"].run = copier["in"].run
    BY <2>1, FwdHolds DEF FwdGood, FwdShapes, FwdCopierShape
  <2>3. FwdShapes'
    BY <1>2, <2>1, <2>2 DEF FwdGood, FwdShapes, FwdCopierShape, Forward!WriteServer, Forward!Tell
  <2>4. pair.up \o copier["in"].held \in Seq(Forward!Inputs)
    BY DEF FwdGood, FwdFields, FwdCopierTypes, FwdPairTypes
  <2>5. FwdFields'
    <3>1. FwdCopierTypes'
      BY <2>1, <2>2, <2>4 DEF FwdGood, FwdFields, FwdCopierTypes
    <3>2. FwdPairTypes'
      BY <2>1, <2>2, <2>4 DEF FwdGood, FwdFields, FwdPairTypes
    <3>3. FwdMainTypes' /\ FwdCtrlTypes' /\ FwdSrvTypes' /\ FwdTtyTypes'
      BY <2>1, FwdFrame DEF FwdGood
    <3> QED BY <3>1, <3>2, <3>3 DEF FwdFields
  <2>6. Forward!Streams'
    BY <1>2, <2>1, <2>2, <2>4 DEF FwdGood, Forward!Streams, Forward!Drained
  <2>7. Forward!Handshakes'
    BY <1>2, <2>1, <2>2, <2>4 DEF FwdGood, Forward!Handshakes, Forward!Byed, Forward!Bye, Forward!Statused
  <2>8. Forward!Copiers'
    BY <1>2, <2>1, <2>2, <2>4 DEF FwdGood, Forward!Copiers, Forward!Shut, Forward!Early, Forward!Drained
  <2>9. Forward!Leaving'
    BY <1>2, <2>1, <2>2, <2>4 DEF FwdGood, Forward!Leaving, Forward!Byed, Forward!Bye, Forward!Error
  <2> QED BY <2>3, <2>5, <2>6, <2>7, <2>8, <2>9 DEF FwdGood
<1> QED BY <1>1, <1>2 DEF FwdGood, FwdShapes, FwdFields, FwdMainTypes, Forward!WriteServer,
           Forward!Holds, Forward!CopierGone, Forward!Tell

\* ReadServer keeps the invariant.
LEMMA FwdReadServer ==
  ASSUME Output \in Nat, Keys \in Nat, Cap \in Nat, FwdGood, Forward!ReadServer
  PROVE  FwdGood'
<1>1. CASE pair.down # <<>>
  <2>1. /\ copier["out"].run /\ copier["out"].held = <<>>
        /\ Forward!Holds("out", <<Head(pair.down)>>) /\ pair'.up = pair.up
        /\ pair'.down = Tail(pair.down) /\ pair'.shut = pair.shut /\ pair'.closed = pair.closed
        /\ pair'.reset = pair.reset /\ UNCHANGED <<fwd, queue, ctrl, srv, tty>>
    BY <1>1 DEF FwdGood, FwdShapes, Forward!ReadServer, Forward!Tell
  <2>2. /\ FwdCopierShape' /\ copier'["in"] = copier["in"]
        /\ copier'["out"].held = <<Head(pair.down)>> /\ copier'["out"].run = copier["out"].run
    BY <2>1, FwdHolds DEF FwdGood, FwdShapes, FwdCopierShape
  <2>3. FwdShapes'
    BY <1>1, <2>1, <2>2 DEF FwdGood, FwdShapes, FwdCopierShape, Forward!ReadServer, Forward!Tell
  <2>4. pair.down \in Seq(Forward!Items) /\ pair.down # <<>>
    BY <1>1, <2>1 DEF FwdGood, FwdFields, FwdPairTypes, Forward!Typed
  <2>5. /\ Tail(pair.down) \in Seq(Forward!Items) /\ Len(pair.down) \in Nat
        /\ Len(Tail(pair.down)) = Len(pair.down) - 1 /\ Head(pair.down) \in Forward!Items
        /\ Head(pair.down) \in Forward!ToSet(pair.down)
        /\ Forward!ToSet(Tail(pair.down)) \subseteq Forward!ToSet(pair.down)
    BY <2>4, Taking
  <2>6. /\ tty.shown \in Seq(Forward!Items) /\ copier["out"].held \in Seq(Forward!Items)
        /\ pair.down \in Seq(Forward!Items)
    BY DEF FwdGood, FwdFields, FwdCopierTypes, FwdPairTypes, FwdTtyTypes
  <2>7. <<Head(pair.down)>> \o Tail(pair.down) = copier["out"].held \o pair.down
    BY <2>1, <1>1, <2>6, Moving
  <2>8. FwdFields'
    <3>1. FwdCopierTypes'
      BY <2>1, <2>2, <2>5, <2>6, <2>7 DEF FwdGood, FwdFields, FwdCopierTypes
    <3>2. FwdPairTypes'
      BY <2>1, <2>2, <2>5, <2>6, <2>7 DEF FwdGood, FwdFields, FwdPairTypes
    <3>3. FwdMainTypes' /\ FwdCtrlTypes' /\ FwdSrvTypes' /\ FwdTtyTypes'
      BY <2>1, FwdFrame DEF FwdGood
    <3> QED BY <3>1, <3>2, <3>3 DEF FwdFields
  <2>9. tty'.shown \o (copier'["out"].held \o pair'.down) = srv'.wrote
    BY <1>1, <2>1, <2>2, <2>5, <2>6, <2>7 DEF FwdGood, Forward!Streams, Forward!Drained
  <2>10. Len(pair'.down) <= Cap + 1
    BY <2>1, <2>2, <2>5 DEF FwdGood, Forward!Streams
  <2>11. /\ fwd'.pty \/ Forward!Drained'
         /\ srv'.pc \in {"hello", "response", "fds"} => srv'.wrote = <<>>
    BY <1>1, <2>1 DEF FwdGood, Forward!Streams, Forward!Drained
  <2>12. Forward!Streams'
    BY <2>9, <2>10, <2>11 DEF Forward!Streams
  <2>13. Forward!Handshakes'
    BY <1>1, <2>1, <2>2, <2>5, <2>6, <2>7 DEF FwdGood, Forward!Handshakes, Forward!Byed, Forward!Bye,
       Forward!Statused
  <2>14. Forward!Copiers'
    BY <1>1, <2>1, <2>2, <2>5, <2>6, <2>7 DEF FwdGood, Forward!Copiers, Forward!Shut, Forward!Early,
       Forward!Drained
  <2>15. Forward!Leaving'
    BY <1>1, <2>1, <2>2, <2>5, <2>6, <2>7 DEF FwdGood, Forward!Leaving, Forward!Byed, Forward!Bye,
       Forward!Error
  <2> QED BY <2>3, <2>8, <2>12, <2>13, <2>14, <2>15 DEF FwdGood
<1>2. CASE pair.down = <<>> /\ Forward!Tell("writerExit")
  <2>1. /\ copier["out"].run /\ copier["out"].held = <<>> /\ pair.closed
        /\ Forward!CopierGone("out") /\ queue' = Append(queue, "writerExit")
        /\ UNCHANGED <<fwd, ctrl, pair, srv, tty>>
    BY <1>2 DEF FwdGood, FwdShapes, Forward!ReadServer, Forward!Tell
  <2>2. /\ FwdCopierShape' /\ copier'["in"] = copier["in"] /\ copier'["out"].run = FALSE
        /\ copier'["out"].held = copier["out"].held
    BY <2>1, FwdCopierGone DEF FwdGood, FwdShapes, FwdCopierShape
  <2>3. FwdShapes'
    BY <1>2, <2>1, <2>2 DEF FwdGood, FwdShapes, FwdCopierShape, Forward!ReadServer, Forward!Tell
  <2>4. queue \in Seq(Forward!Ends)
    BY DEF FwdGood, FwdFields, FwdMainTypes
  <2>5. "writerExit" \in Forward!Ends
    BY <1>2 DEF FwdGood, FwdFields, FwdSrvTypes, Forward!Ends
  <2>6. /\ Append(queue, "writerExit") \in Seq(Forward!Ends) /\ Len(queue) \in Nat
        /\ Len(Append(queue, "writerExit")) = Len(queue) + 1
        /\ Forward!ToSet(Append(queue, "writerExit")) = Forward!ToSet(queue) \cup {"writerExit"}
    BY <2>4, <2>5, Appending
  <2>7. FwdFields'
    <3>1. FwdCopierTypes'
      BY <2>1, <2>2, <2>6 DEF FwdGood, FwdFields, FwdCopierTypes
    <3>2. FwdMainTypes'
      BY <2>1, <2>2, <2>6 DEF FwdGood, FwdFields, FwdMainTypes
    <3>3. FwdCtrlTypes' /\ FwdPairTypes' /\ FwdSrvTypes' /\ FwdTtyTypes'
      BY <2>1, FwdFrame DEF FwdGood
    <3> QED BY <3>1, <3>2, <3>3 DEF FwdFields
  <2>8. Forward!Streams'
    BY <1>2, <2>1, <2>2, <2>6 DEF FwdGood, Forward!Streams, Forward!Drained
  <2>9. Forward!Handshakes'
    BY <1>2, <2>1, <2>2, <2>6 DEF FwdGood, Forward!Handshakes, Forward!Byed, Forward!Bye, Forward!Statused
  <2>10. Forward!Copiers'
    BY <1>2, <2>1, <2>2, <2>6 DEF FwdGood, Forward!Copiers, Forward!Shut, Forward!Early, Forward!Drained
  <2>11. Forward!Leaving'
    BY <1>2, <2>1, <2>2, <2>6 DEF FwdGood, Forward!Leaving, Forward!Byed, Forward!Bye, Forward!Error
  <2> QED BY <2>3, <2>7, <2>8, <2>9, <2>10, <2>11 DEF FwdGood
<1>3. CASE pair.down = <<>> /\ Forward!Tell("error")
  <2>1. /\ copier["out"].run /\ copier["out"].held = <<>> /\ pair.closed
        /\ Forward!CopierGone("out") /\ queue' = Append(queue, "error")
        /\ UNCHANGED <<fwd, ctrl, pair, srv, tty>>
    BY <1>3 DEF FwdGood, FwdShapes, Forward!ReadServer, Forward!Tell
  <2>2. /\ FwdCopierShape' /\ copier'["in"] = copier["in"] /\ copier'["out"].run = FALSE
        /\ copier'["out"].held = copier["out"].held
    BY <2>1, FwdCopierGone DEF FwdGood, FwdShapes, FwdCopierShape
  <2>3. FwdShapes'
    BY <1>3, <2>1, <2>2 DEF FwdGood, FwdShapes, FwdCopierShape, Forward!ReadServer, Forward!Tell
  <2>4. queue \in Seq(Forward!Ends)
    BY DEF FwdGood, FwdFields, FwdMainTypes
  <2>5. "error" \in Forward!Ends
    BY <1>3 DEF FwdGood, FwdFields, FwdSrvTypes, Forward!Ends
  <2>6. /\ Append(queue, "error") \in Seq(Forward!Ends) /\ Len(queue) \in Nat
        /\ Len(Append(queue, "error")) = Len(queue) + 1
        /\ Forward!ToSet(Append(queue, "error")) = Forward!ToSet(queue) \cup {"error"}
    BY <2>4, <2>5, Appending
  <2>7. FwdFields'
    <3>1. FwdCopierTypes'
      BY <2>1, <2>2, <2>6 DEF FwdGood, FwdFields, FwdCopierTypes
    <3>2. FwdMainTypes'
      BY <2>1, <2>2, <2>6 DEF FwdGood, FwdFields, FwdMainTypes
    <3>3. FwdCtrlTypes' /\ FwdPairTypes' /\ FwdSrvTypes' /\ FwdTtyTypes'
      BY <2>1, FwdFrame DEF FwdGood
    <3> QED BY <3>1, <3>2, <3>3 DEF FwdFields
  <2>8. Forward!Streams'
    BY <1>3, <2>1, <2>2, <2>6 DEF FwdGood, Forward!Streams, Forward!Drained
  <2>9. Forward!Handshakes'
    BY <1>3, <2>1, <2>2, <2>6 DEF FwdGood, Forward!Handshakes, Forward!Byed, Forward!Bye, Forward!Statused
  <2>10. Forward!Copiers'
    BY <1>3, <2>1, <2>2, <2>6 DEF FwdGood, Forward!Copiers, Forward!Shut, Forward!Early, Forward!Drained
  <2>11. Forward!Leaving'
    BY <1>3, <2>1, <2>2, <2>6 DEF FwdGood, Forward!Leaving, Forward!Byed, Forward!Bye, Forward!Error
  <2> QED BY <2>3, <2>7, <2>8, <2>9, <2>10, <2>11 DEF FwdGood
<1> QED BY <1>1, <1>2, <1>3 DEF FwdGood, FwdShapes, FwdFields, FwdMainTypes, Forward!ReadServer,
           Forward!Holds, Forward!CopierGone, Forward!Tell

\* WriteTerminal keeps the invariant.
LEMMA FwdWriteTerminal ==
  ASSUME Output \in Nat, Keys \in Nat, Cap \in Nat, FwdGood, Forward!WriteTerminal
  PROVE  FwdGood'
<1>1. CASE /\ tty' = [tty EXCEPT !.shown = @ \o copier["out"].held] /\ Forward!Holds("out", <<>>)
           /\ UNCHANGED queue
  <2>1. /\ copier["out"].run /\ copier["out"].held # <<>> /\ Forward!Holds("out", <<>>)
        /\ tty'.typed = tty.typed /\ tty'.shown = tty.shown \o copier["out"].held
        /\ tty'.told = tty.told /\ tty'.keys = tty.keys /\ tty'.answered = tty.answered
        /\ tty'.hung = tty.hung /\ UNCHANGED <<fwd, queue, ctrl, pair, srv>>
    BY <1>1 DEF FwdGood, FwdShapes, Forward!WriteTerminal, Forward!Tell
  <2>2. /\ FwdCopierShape' /\ copier'["in"] = copier["in"] /\ copier'["out"].held = <<>>
        /\ copier'["out"].run = copier["out"].run
    BY <2>1, FwdHolds DEF FwdGood, FwdShapes, FwdCopierShape
  <2>3. FwdShapes'
    BY <1>1, <2>1, <2>2 DEF FwdGood, FwdShapes, FwdCopierShape, Forward!WriteTerminal, Forward!Tell
  <2>4. /\ tty.shown \in Seq(Forward!Items) /\ copier["out"].held \in Seq(Forward!Items)
        /\ pair.down \in Seq(Forward!Items)
    BY DEF FwdGood, FwdFields, FwdCopierTypes, FwdPairTypes, FwdTtyTypes
  <2>5. /\ (tty.shown \o copier["out"].held) \o (<<>> \o pair.down) = tty.shown \o (copier["out"].held \o pair.down)
        /\ tty.shown \o copier["out"].held \in Seq(Forward!Items)
    BY <2>4, Onwards
  <2>6. FwdFields'
    <3>1. FwdCopierTypes'
      BY <2>1, <2>2, <2>4, <2>5 DEF FwdGood, FwdFields, FwdCopierTypes
    <3>2. FwdTtyTypes'
      BY <2>1, <2>2, <2>4, <2>5 DEF FwdGood, FwdFields, FwdTtyTypes
    <3>3. FwdMainTypes' /\ FwdCtrlTypes' /\ FwdPairTypes' /\ FwdSrvTypes'
      BY <2>1, FwdFrame DEF FwdGood
    <3> QED BY <3>1, <3>2, <3>3 DEF FwdFields
  <2>7. Forward!Streams'
    BY <1>1, <2>1, <2>2, <2>4, <2>5 DEF FwdGood, Forward!Streams, Forward!Drained
  <2>8. Forward!Handshakes'
    BY <1>1, <2>1, <2>2, <2>4, <2>5 DEF FwdGood, Forward!Handshakes, Forward!Byed, Forward!Bye,
       Forward!Statused
  <2>9. Forward!Copiers'
    BY <1>1, <2>1, <2>2, <2>4, <2>5 DEF FwdGood, Forward!Copiers, Forward!Shut, Forward!Early,
       Forward!Drained
  <2>10. Forward!Leaving'
    BY <1>1, <2>1, <2>2, <2>4, <2>5 DEF FwdGood, Forward!Leaving, Forward!Byed, Forward!Bye, Forward!Error
  <2> QED BY <2>3, <2>6, <2>7, <2>8, <2>9, <2>10 DEF FwdGood
<1>2. CASE tty.hung /\ Forward!CopierGone("out") /\ Forward!Tell("error") /\ UNCHANGED tty
  <2>1. /\ copier["out"].run /\ copier["out"].held # <<>> /\ tty.hung /\ Forward!CopierGone("out")
        /\ queue' = Append(queue, "error") /\ UNCHANGED <<fwd, ctrl, pair, srv, tty>>
    BY <1>2 DEF FwdGood, FwdShapes, Forward!WriteTerminal, Forward!Tell
  <2>2. /\ FwdCopierShape' /\ copier'["in"] = copier["in"] /\ copier'["out"].run = FALSE
        /\ copier'["out"].held = copier["out"].held
    BY <2>1, FwdCopierGone DEF FwdGood, FwdShapes, FwdCopierShape
  <2>3. FwdShapes'
    BY <1>2, <2>1, <2>2 DEF FwdGood, FwdShapes, FwdCopierShape, Forward!WriteTerminal, Forward!Tell
  <2>4. queue \in Seq(Forward!Ends)
    BY DEF FwdGood, FwdFields, FwdMainTypes
  <2>5. "error" \in Forward!Ends
    BY <1>2 DEF FwdGood, FwdFields, FwdSrvTypes, Forward!Ends
  <2>6. /\ Append(queue, "error") \in Seq(Forward!Ends) /\ Len(queue) \in Nat
        /\ Len(Append(queue, "error")) = Len(queue) + 1
        /\ Forward!ToSet(Append(queue, "error")) = Forward!ToSet(queue) \cup {"error"}
    BY <2>4, <2>5, Appending
  <2>7. FwdFields'
    <3>1. FwdCopierTypes'
      BY <2>1, <2>2, <2>6 DEF FwdGood, FwdFields, FwdCopierTypes
    <3>2. FwdMainTypes'
      BY <2>1, <2>2, <2>6 DEF FwdGood, FwdFields, FwdMainTypes
    <3>3. FwdCtrlTypes' /\ FwdPairTypes' /\ FwdSrvTypes' /\ FwdTtyTypes'
      BY <2>1, FwdFrame DEF FwdGood
    <3> QED BY <3>1, <3>2, <3>3 DEF FwdFields
  <2>8. Forward!Streams'
    BY <1>2, <2>1, <2>2, <2>6 DEF FwdGood, Forward!Streams, Forward!Drained
  <2>9. Forward!Handshakes'
    BY <1>2, <2>1, <2>2, <2>6 DEF FwdGood, Forward!Handshakes, Forward!Byed, Forward!Bye, Forward!Statused
  <2>10. Forward!Copiers'
    BY <1>2, <2>1, <2>2, <2>6 DEF FwdGood, Forward!Copiers, Forward!Shut, Forward!Early, Forward!Drained
  <2>11. Forward!Leaving'
    BY <1>2, <2>1, <2>2, <2>6 DEF FwdGood, Forward!Leaving, Forward!Byed, Forward!Bye, Forward!Error
  <2> QED BY <2>3, <2>7, <2>8, <2>9, <2>10, <2>11 DEF FwdGood
<1> QED BY <1>1, <1>2 DEF FwdGood, FwdShapes, FwdFields, FwdMainTypes, Forward!WriteTerminal,
           Forward!Holds, Forward!CopierGone, Forward!Tell

\* CopierStops("in") keeps the invariant.
LEMMA FwdCopierStopsIn ==
  ASSUME Output \in Nat, Keys \in Nat, Cap \in Nat, FwdGood, Forward!CopierStops("in")
  PROVE  FwdGood'
<1>1. /\ fwd.pc = "leaving" /\ copier["in"].run /\ Forward!CopierGone("in")
      /\ UNCHANGED <<fwd, queue, ctrl, pair, srv, tty>>
  BY DEF FwdGood, FwdShapes, Forward!CopierStops
<1>2. /\ FwdCopierShape' /\ copier'["out"] = copier["out"] /\ copier'["in"].run = FALSE
      /\ copier'["in"].held = copier["in"].held
  BY <1>1, FwdCopierGone DEF FwdGood, FwdShapes, FwdCopierShape
<1>3. FwdShapes'
  BY <1>1, <1>2 DEF FwdGood, FwdShapes, FwdCopierShape, Forward!CopierStops
<1>4. FwdFields'
  <2>1. FwdCopierTypes'
    BY <1>1, <1>2 DEF FwdGood, FwdFields, FwdCopierTypes
  <2>2. FwdMainTypes' /\ FwdCtrlTypes' /\ FwdPairTypes' /\ FwdSrvTypes' /\ FwdTtyTypes'
    BY <1>1, FwdFrame DEF FwdGood
  <2> QED BY <2>1, <2>2 DEF FwdFields
<1>5. Forward!Streams'
  BY <1>1, <1>2 DEF FwdGood, Forward!Streams, Forward!Drained
<1>6. Forward!Handshakes'
  BY <1>1, <1>2 DEF FwdGood, Forward!Handshakes, Forward!Byed, Forward!Bye, Forward!Statused
<1>7. Forward!Copiers'
  BY <1>1, <1>2 DEF FwdGood, Forward!Copiers, Forward!Shut, Forward!Early, Forward!Drained
<1>8. Forward!Leaving'
  BY <1>1, <1>2 DEF FwdGood, Forward!Leaving, Forward!Byed, Forward!Bye, Forward!Error
<1> QED BY <1>3, <1>4, <1>5, <1>6, <1>7, <1>8 DEF FwdGood

\* CopierStops("out") keeps the invariant.
LEMMA FwdCopierStopsOut ==
  ASSUME Output \in Nat, Keys \in Nat, Cap \in Nat, FwdGood, Forward!CopierStops("out")
  PROVE  FwdGood'
<1>1. /\ fwd.pc = "leaving" /\ copier["out"].run /\ Forward!CopierGone("out")
      /\ UNCHANGED <<fwd, queue, ctrl, pair, srv, tty>>
  BY DEF FwdGood, FwdShapes, Forward!CopierStops
<1>2. /\ FwdCopierShape' /\ copier'["in"] = copier["in"] /\ copier'["out"].run = FALSE
      /\ copier'["out"].held = copier["out"].held
  BY <1>1, FwdCopierGone DEF FwdGood, FwdShapes, FwdCopierShape
<1>3. FwdShapes'
  BY <1>1, <1>2 DEF FwdGood, FwdShapes, FwdCopierShape, Forward!CopierStops
<1>4. FwdFields'
  <2>1. FwdCopierTypes'
    BY <1>1, <1>2 DEF FwdGood, FwdFields, FwdCopierTypes
  <2>2. FwdMainTypes' /\ FwdCtrlTypes' /\ FwdPairTypes' /\ FwdSrvTypes' /\ FwdTtyTypes'
    BY <1>1, FwdFrame DEF FwdGood
  <2> QED BY <2>1, <2>2 DEF FwdFields
<1>5. Forward!Streams'
  BY <1>1, <1>2 DEF FwdGood, Forward!Streams, Forward!Drained
<1>6. Forward!Handshakes'
  BY <1>1, <1>2 DEF FwdGood, Forward!Handshakes, Forward!Byed, Forward!Bye, Forward!Statused
<1>7. Forward!Copiers'
  BY <1>1, <1>2 DEF FwdGood, Forward!Copiers, Forward!Shut, Forward!Early, Forward!Drained
<1>8. Forward!Leaving'
  BY <1>1, <1>2 DEF FwdGood, Forward!Leaving, Forward!Byed, Forward!Bye, Forward!Error
<1> QED BY <1>3, <1>4, <1>5, <1>6, <1>7, <1>8 DEF FwdGood

\* Respond keeps the invariant.
LEMMA FwdRespond ==
  ASSUME Output \in Nat, Keys \in Nat, Cap \in Nat, FwdGood, Forward!Respond
  PROVE  FwdGood'
<1>1. PICK response \in {"accept", "reject", "nonsense"} : Forward!Type(response)
  BY DEF Forward!Respond
<1>2. /\ ~tty.hung /\ tty'.typed = Append(tty.typed, response) /\ tty'.shown = tty.shown
      /\ tty'.told = tty.told /\ tty'.keys = tty.keys /\ tty'.answered = TRUE
      /\ tty'.hung = tty.hung /\ UNCHANGED <<fwd, queue, copier, ctrl, pair, srv>>
  BY <1>1 DEF FwdGood, FwdShapes, Forward!Respond, Forward!Type
<1>3. FwdShapes'
  BY <1>1 DEF FwdGood, FwdShapes, Forward!Respond, Forward!Type
<1>4. tty.typed \in Seq(Forward!Inputs)
  BY DEF FwdGood, FwdFields, FwdTtyTypes
<1>5. response \in Forward!Inputs
  BY <1>1 DEF FwdGood, FwdFields, FwdSrvTypes, Forward!Inputs
<1>6. /\ Append(tty.typed, response) \in Seq(Forward!Inputs) /\ Len(tty.typed) \in Nat
      /\ Len(Append(tty.typed, response)) = Len(tty.typed) + 1
      /\ Forward!ToSet(Append(tty.typed, response)) = Forward!ToSet(tty.typed) \cup {response}
  BY <1>4, <1>5, Appending
<1>7. FwdFields'
  <2>1. FwdTtyTypes'
    BY <1>2, <1>6 DEF FwdGood, FwdFields, FwdTtyTypes
  <2>2. FwdMainTypes' /\ FwdCopierTypes' /\ FwdCtrlTypes' /\ FwdPairTypes' /\ FwdSrvTypes'
    BY <1>2, FwdFrame DEF FwdGood
  <2> QED BY <2>1, <2>2 DEF FwdFields
<1>8. Forward!Streams'
  BY <1>1, <1>2, <1>6 DEF FwdGood, Forward!Streams, Forward!Drained
<1>9. Forward!Handshakes'
  BY <1>1, <1>2, <1>6 DEF FwdGood, Forward!Handshakes, Forward!Byed, Forward!Bye, Forward!Statused
<1>10. Forward!Copiers'
  BY <1>1, <1>2, <1>6 DEF FwdGood, Forward!Copiers, Forward!Shut, Forward!Early, Forward!Drained
<1>11. Forward!Leaving'
  BY <1>1, <1>2, <1>6 DEF FwdGood, Forward!Leaving, Forward!Byed, Forward!Bye, Forward!Error
<1> QED BY <1>3, <1>7, <1>8, <1>9, <1>10, <1>11 DEF FwdGood

\* Send keeps the invariant.
LEMMA FwdSend ==
  ASSUME Output \in Nat, Keys \in Nat, Cap \in Nat, FwdGood, Forward!Send
  PROVE  FwdGood'
<1>1. PICK item \in {"key", "quit"} : tty' = [tty EXCEPT !.typed = Append(@, item), !.keys = @ - 1]
  BY DEF Forward!Send
<1>2. /\ tty.keys > 0 /\ tty'.typed = Append(tty.typed, item) /\ tty'.shown = tty.shown
      /\ tty'.told = tty.told /\ tty'.keys = tty.keys - 1 /\ tty'.answered = tty.answered
      /\ tty'.hung = tty.hung /\ UNCHANGED <<fwd, queue, copier, ctrl, pair, srv>>
  BY <1>1 DEF FwdGood, FwdShapes, Forward!Send
<1>3. FwdShapes'
  BY <1>1 DEF FwdGood, FwdShapes, Forward!Send
<1>4. tty.typed \in Seq(Forward!Inputs)
  BY DEF FwdGood, FwdFields, FwdTtyTypes
<1>5. item \in Forward!Inputs
  BY <1>1 DEF FwdGood, FwdFields, FwdSrvTypes, Forward!Inputs
<1>6. /\ Append(tty.typed, item) \in Seq(Forward!Inputs) /\ Len(tty.typed) \in Nat
      /\ Len(Append(tty.typed, item)) = Len(tty.typed) + 1
      /\ Forward!ToSet(Append(tty.typed, item)) = Forward!ToSet(tty.typed) \cup {item}
  BY <1>4, <1>5, Appending
<1>7. FwdFields'
  <2>1. FwdTtyTypes'
    BY <1>2, <1>6 DEF FwdGood, FwdFields, FwdTtyTypes
  <2>2. FwdMainTypes' /\ FwdCopierTypes' /\ FwdCtrlTypes' /\ FwdPairTypes' /\ FwdSrvTypes'
    BY <1>2, FwdFrame DEF FwdGood
  <2> QED BY <2>1, <2>2 DEF FwdFields
<1>8. Forward!Streams'
  BY <1>1, <1>2, <1>6 DEF FwdGood, Forward!Streams, Forward!Drained
<1>9. Forward!Handshakes'
  BY <1>1, <1>2, <1>6 DEF FwdGood, Forward!Handshakes, Forward!Byed, Forward!Bye, Forward!Statused
<1>10. Forward!Copiers'
  BY <1>1, <1>2, <1>6 DEF FwdGood, Forward!Copiers, Forward!Shut, Forward!Early, Forward!Drained
<1>11. Forward!Leaving'
  BY <1>1, <1>2, <1>6 DEF FwdGood, Forward!Leaving, Forward!Byed, Forward!Bye, Forward!Error
<1> QED BY <1>3, <1>7, <1>8, <1>9, <1>10, <1>11 DEF FwdGood

\* HangUp keeps the invariant.
LEMMA FwdHangUp ==
  ASSUME Output \in Nat, Keys \in Nat, Cap \in Nat, FwdGood, Forward!HangUp
  PROVE  FwdGood'
<1>1. /\ ~tty.hung /\ tty'.typed = tty.typed /\ tty'.shown = tty.shown /\ tty'.told = tty.told
      /\ tty'.keys = tty.keys /\ tty'.answered = tty.answered /\ tty'.hung = TRUE
      /\ UNCHANGED <<fwd, queue, copier, ctrl, pair, srv>>
  BY DEF FwdGood, FwdShapes, Forward!HangUp
<1>2. FwdShapes'
  BY DEF FwdGood, FwdShapes, Forward!HangUp
<1>3. FwdFields'
  <2>1. FwdTtyTypes'
    BY <1>1 DEF FwdGood, FwdFields, FwdTtyTypes
  <2>2. FwdMainTypes' /\ FwdCopierTypes' /\ FwdCtrlTypes' /\ FwdPairTypes' /\ FwdSrvTypes'
    BY <1>1, FwdFrame DEF FwdGood
  <2> QED BY <2>1, <2>2 DEF FwdFields
<1>4. Forward!Streams'
  BY <1>1 DEF FwdGood, Forward!Streams, Forward!Drained
<1>5. Forward!Handshakes'
  BY <1>1 DEF FwdGood, Forward!Handshakes, Forward!Byed, Forward!Bye, Forward!Statused
<1>6. Forward!Copiers'
  BY <1>1 DEF FwdGood, Forward!Copiers, Forward!Shut, Forward!Early, Forward!Drained
<1>7. Forward!Leaving'
  BY <1>1 DEF FwdGood, Forward!Leaving, Forward!Byed, Forward!Bye, Forward!Error
<1> QED BY <1>2, <1>3, <1>4, <1>5, <1>6, <1>7 DEF FwdGood

\* A step that changes nothing.
LEMMA FwdStutters ==
  ASSUME FwdGood, UNCHANGED <<fwd, queue, copier, ctrl, pair, srv, tty>>
  PROVE  FwdGood'
<1>1. FwdShapes' /\ FwdFields'
  BY FwdFrame DEF FwdGood, FwdShapes, FwdFields
<1>2. Forward!Streams'
  BY DEF FwdGood, Forward!Streams, Forward!Drained
<1>3. Forward!Handshakes'
  BY DEF FwdGood, Forward!Handshakes, Forward!Statused, Forward!Byed
<1>4. Forward!Copiers'
  BY DEF FwdGood, Forward!Copiers, Forward!Shut, Forward!Drained
<1>5. Forward!Leaving'
  BY DEF FwdGood, Forward!Leaving, Forward!Byed
<1> QED BY <1>1, <1>2, <1>3, <1>4, <1>5 DEF FwdGood

\* It holds at first.
\* Init keeps the invariant.
LEMMA FwdInit ==
  ASSUME Output \in Nat, Keys \in Nat, Cap \in Nat, Forward!Init
  PROVE  FwdGood
<1>1. PICK pty \in BOOLEAN :
        fwd = [pc |-> "ReadingHandshake", pty |-> pty, protocol |-> FALSE, clean |-> FALSE,
               writerExit |-> FALSE, status |-> "normal"]
  BY DEF Forward!Init
<1>2. /\ fwd.pc = "ReadingHandshake" /\ fwd.pty \in BOOLEAN /\ fwd.protocol = FALSE /\ fwd.clean = FALSE
      /\ fwd.writerExit = FALSE /\ fwd.status = "normal" /\ queue = <<>>
      /\ copier["in"].run = FALSE /\ copier["in"].held = <<>>
      /\ copier["out"].run = FALSE /\ copier["out"].held = <<>>
      /\ ctrl.up = <<>> /\ ctrl.down = <<>> /\ pair.up = <<>> /\ pair.down = <<>>
      /\ pair.shut = FALSE /\ pair.closed = FALSE /\ pair.reset = FALSE
      /\ srv.pc = "hello" /\ srv.left = Output /\ srv.wrote = <<>> /\ srv.clean = FALSE
      /\ srv.status = "normal" /\ srv.noRoom = FALSE
      /\ tty.typed = <<>> /\ tty.shown = <<>> /\ tty.told = FALSE /\ tty.keys = Keys
      /\ tty.answered = FALSE /\ tty.hung = FALSE
  BY <1>1 DEF Forward!Init
<1>3. FwdShapes
  BY <1>1 DEF Forward!Init, FwdShapes
<1>4. /\ Len(<<>>) = 0 /\ Forward!ToSet(<<>>) = {} /\ <<>> \in Seq(Forward!Ends)
      /\ <<>> \in Seq(Forward!Inputs)
      /\ <<>> \in Seq(Forward!Items) /\ <<>> \in Seq(Forward!Letters) /\ <<>> \in Seq(Forward!Answers)
      /\ "normal" \in Forward!Reasons /\ Output \in 0 .. Output /\ Keys \in 0 .. Keys
  BY DEF Forward!ToSet, Forward!Reasons
<1>5. FwdFields
  <2>1. FwdMainTypes
    BY <1>2, <1>4 DEF FwdMainTypes
  <2>2. FwdCopierTypes /\ FwdCtrlTypes
    BY <1>2, <1>4 DEF FwdCopierTypes, FwdCtrlTypes
  <2>3. FwdPairTypes
    BY <1>2, <1>4 DEF FwdPairTypes
  <2>4. FwdSrvTypes
    BY <1>2, <1>4 DEF FwdSrvTypes
  <2>5. FwdTtyTypes
    BY <1>2, <1>4 DEF FwdTtyTypes
  <2> QED BY <2>1, <2>2, <2>3, <2>4, <2>5 DEF FwdFields
<1>6. Forward!Streams
  <2>1. <<>> \o (<<>> \o <<>>) = <<>>
    OBVIOUS
  <2> QED BY <1>2, <1>4, <2>1 DEF Forward!Streams, Forward!Drained
<1>7. Forward!Handshakes
  BY <1>2, <1>4 DEF Forward!Handshakes
<1>8. Forward!Copiers
  BY <1>2, <1>4 DEF Forward!Copiers, Forward!Shut
<1>9. Forward!Leaving
  BY <1>2 DEF Forward!Leaving
<1> QED BY <1>3, <1>5, <1>6, <1>7, <1>8, <1>9 DEF FwdGood

\* Every step keeps it.
LEMMA FwdNext ==
  ASSUME Output \in Nat, Keys \in Nat, Cap \in Nat, FwdGood, [Forward!Next]_(Forward!vars)
  PROVE  FwdGood'
<1>1. CASE Forward!SrvStep
  BY <1>1, FwdSrvHello, FwdSrvResponse, FwdSrvFds, FwdSrvLost, FwdSrvResponse2, FwdSrvOutput, FwdSrvInput,
     FwdSrvEof, FwdSrvBye, FwdSrvStatus, FwdSrvClosefd DEF Forward!SrvStep
<1>2. CASE Forward!FwdStep
  BY <1>2, FwdReadHandshake, FwdWriteHandshake, FwdReadResponse, FwdWriteDescriptors, FwdHandshakeFails,
     FwdReadInfo, FwdHandleWork, FwdFwdLeaves DEF Forward!FwdStep
<1>3. CASE Forward!InStep
  BY <1>3, FwdReadTerminal, FwdWriteServer, FwdCopierStopsIn DEF Forward!InStep
<1>4. CASE Forward!OutStep
  BY <1>4, FwdReadServer, FwdWriteTerminal, FwdCopierStopsOut DEF Forward!OutStep
<1>5. CASE Forward!SrvClose \/ Forward!SrvDies \/ Forward!HandleInterrupt
  BY <1>5, FwdSrvClose, FwdSrvDies, FwdHandleInterrupt
<1>6. CASE Forward!Respond \/ Forward!Send \/ Forward!HangUp
  BY <1>6, FwdRespond, FwdSend, FwdHangUp
<1>7. CASE UNCHANGED Forward!vars
  BY <1>7, FwdStutters DEF Forward!vars
<1> QED BY <1>1, <1>2, <1>3, <1>4, <1>5, <1>6, <1>7 DEF Forward!Next

\* The records are of their types.
LEMMA FwdTyped ==
  ASSUME FwdShapes, FwdFields
  PROVE  Forward!TypeOK
<1>1. fwd \in [pc : {"ReadingHandshake", "WritingHandshake", "ReadingResponse", "WritingDescriptors",
                     "ReadingInfo", "leaving", "gone"},
               pty : BOOLEAN, protocol : BOOLEAN, clean : BOOLEAN, writerExit : BOOLEAN,
               status : Forward!Reasons \cup {Forward!Error, "shutdown", "lost"}]
  BY DEF FwdShapes, FwdFields, FwdMainTypes, Forward!Error
<1>2. queue \in Seq(Forward!Ends) /\ copier = [c \in {"in", "out"} |-> copier[c]]
  BY DEF FwdShapes, FwdFields, FwdMainTypes
<1>3. /\ copier["in"] \in [run : BOOLEAN, held : Seq(Forward!Inputs)]
      /\ copier["out"] \in [run : BOOLEAN, held : Seq(Forward!Items)]
  BY DEF FwdShapes, FwdFields, FwdCopierTypes
<1>4. ctrl \in [up : Seq(Forward!Letters), down : Seq(Forward!Answers)]
  BY DEF FwdShapes, FwdFields, FwdCtrlTypes
<1>5. pair \in [up : Seq(Forward!Inputs), down : Seq(Forward!Items), shut : BOOLEAN,
                closed : BOOLEAN, reset : BOOLEAN]
  BY DEF FwdShapes, FwdFields, FwdPairTypes
<1>6. srv \in [pc : {"hello", "response", "fds", "response2", "session", "bye", "status", "close", "gone"},
               left : 0 .. Output, wrote : Seq(Forward!Items), clean : BOOLEAN, status : Forward!Reasons,
               noRoom : BOOLEAN]
  BY DEF FwdShapes, FwdFields, FwdSrvTypes
<1>7. tty \in [typed : Seq(Forward!Inputs), shown : Seq(Forward!Items), told : BOOLEAN, keys : 0 .. Keys,
               answered : BOOLEAN, hung : BOOLEAN]
  BY DEF FwdShapes, FwdFields, FwdTtyTypes
<1> QED BY <1>1, <1>2, <1>3, <1>4, <1>5, <1>6, <1>7 DEF Forward!TypeOK

\* What the invariant says of the terminal.
LEMMA FwdSound ==
  ASSUME FwdGood
  PROVE  Forward!InOrder /\ Forward!CleanIsWhole /\ Forward!Told
<1> DEFINE rest == copier["out"].held \o pair.down
<1>1. /\ tty.shown \in Seq(Forward!Items) /\ copier["out"].held \in Seq(Forward!Items)
      /\ pair.down \in Seq(Forward!Items) /\ srv.wrote \in Seq(Forward!Items)
  BY DEF FwdGood, FwdFields, FwdTtyTypes, FwdCopierTypes, FwdPairTypes, FwdSrvTypes
<1>2. rest \in Seq(Forward!Items) /\ tty.shown \o rest = srv.wrote
  BY <1>1 DEF FwdGood, Forward!Streams
<1>3. Forward!InOrder
  <2> HIDE DEF rest
  <2>1. Len(tty.shown) <= Len(srv.wrote) /\ \A j \in 1 .. Len(tty.shown) : tty.shown[j] = srv.wrote[j]
    BY <1>1, <1>2
  <2>2. SubSeq(srv.wrote, 1, Len(tty.shown)) = tty.shown
    BY <1>1, <1>2, <2>1
  <2> QED BY <2>1, <2>2 DEF Forward!InOrder, Forward!IsPrefix
<1>4. Forward!Drained => tty.shown = srv.wrote
  BY <1>1, <1>2, Empties DEF Forward!Drained
<1>5. Forward!CleanIsWhole
  BY <1>4 DEF FwdGood, Forward!Streams, Forward!Copiers, Forward!Leaving, Forward!CleanIsWhole,
     Forward!Error
<1>6. Forward!Told
  BY DEF FwdGood, Forward!Leaving, Forward!Byed, Forward!Told, Forward!CutShort
<1> QED BY <1>3, <1>5, <1>6

\* The forwarder's copies are in order, a clean end is a whole one, and a
\* terminal that was accepted is told of the end (forwarder.cpp:209, 283),
\* however many items there are and however few the pair holds.
THEOREM ForwarderSafe ==
  ASSUME Output \in Nat, Keys \in Nat, Cap \in Nat
  PROVE  Forward!Spec => [](Forward!IInv /\ Forward!InOrder /\ Forward!CleanIsWhole /\ Forward!Told)
<1>1. Forward!Init => FwdGood
  BY FwdInit
<1>2. FwdGood /\ [Forward!Next]_(Forward!vars) => FwdGood'
  BY FwdNext
<1>3. FwdGood => Forward!IInv /\ Forward!InOrder /\ Forward!CleanIsWhole /\ Forward!Told
  BY FwdTyped, FwdSound DEF FwdGood, Forward!IInv
<1> QED BY <1>1, <1>2, <1>3, PTL DEF Forward!Spec

-----------------------------------------------------------------------------
(* Connect *)

CxShapes ==
  /\ connector = [pc |-> connector.pc, task |-> connector.task, typed |-> connector.typed,
                  taken |-> connector.taken, outcome |-> connector.outcome]
  /\ instance = [pc |-> instance.pc, response |-> instance.response, was |-> instance.was]
  /\ command = [pc |-> command.pc, accepted |-> command.accepted]
  /\ loc = [up |-> loc.up, down |-> loc.down]
  /\ rem = [up |-> rem.up, down |-> rem.down]
CxMainTypes ==
  /\ connector.pc \in Connector!Remote \cup Connector!Awaiting \cup Connector!Sending \cup {"gone"}
  /\ connector.task \in BOOLEAN /\ connector.typed \in 0 .. Entered /\ connector.taken \in 0 .. MaxTyped
  /\ connector.outcome \in {"none", "error", "canceled", "finished"}
  /\ connector.outcome = "none" <=> connector.pc # "gone"
CxLocalTypes ==
  /\ reader \in {"none", "start", "response", "fd", "gone"}
  /\ instance.pc \in {"none", "start", "hello", "reply", "attributes", "connected", "gone"}
  /\ instance.response \in {"none", "accept", "reject"} /\ instance.was \in BOOLEAN
  /\ instance.pc # "none" => reader = "gone"
CxCommandTypes ==
  command.pc \in {"start", "asks", "response", "session", "gone"} /\ command.accepted \in BOOLEAN
CxLocTypes ==
  /\ loc.up = <<>> \/ \E m \in Connector!Requests : loc.up = <<m>>
  /\ loc.down = <<>> \/ \E m \in Connector!Replies : loc.down = <<m>>
CxRemTypes ==
  rem.up \in Seq({"typed", "accept", "reject"}) /\ rem.down \in Seq({"prompt", "hello"})
CxFields ==
  CxMainTypes /\ CxLocalTypes /\ CxCommandTypes /\ CxLocTypes /\ CxRemTypes

CxGood ==
  CxShapes /\ CxFields /\ Connector!Upward /\ Connector!Turns /\ Connector!Reached

\* What a step leaves alone keeps its types.
LEMMA CxFrame ==
  ASSUME CxFields
  PROVE  /\ UNCHANGED connector => CxMainTypes'
         /\ UNCHANGED <<reader, instance>> => CxLocalTypes'
         /\ UNCHANGED command => CxCommandTypes'
         /\ UNCHANGED loc => CxLocTypes'
         /\ UNCHANGED rem => CxRemTypes'
<1>1. UNCHANGED connector => CxMainTypes'
  BY DEF CxFields, CxMainTypes
<1>2. UNCHANGED <<reader, instance>> => CxLocalTypes'
  BY DEF CxFields, CxLocalTypes
<1>3. UNCHANGED command => CxCommandTypes'
  BY DEF CxFields, CxCommandTypes
<1>4. UNCHANGED loc => CxLocTypes'
  BY DEF CxFields, CxLocTypes
<1>5. UNCHANGED rem => CxRemTypes'
  BY DEF CxFields, CxRemTypes
<1> QED BY <1>1, <1>2, <1>3, <1>4, <1>5

\* There is one message, at most, on the local connection's either way.
CxLone ==
  /\ loc.up = <<>>
     \/ (Tail(loc.up) = <<>> /\ Head(loc.up) \in Connector!Requests /\ loc.up = <<Head(loc.up)>>)
  /\ loc.down = <<>>
     \/ (Tail(loc.down) = <<>> /\ Head(loc.down) \in Connector!Replies /\ loc.down = <<Head(loc.down)>>)
  /\ \A m : loc.up = <<>> => Append(loc.up, m) = <<m>>
  /\ \A m : loc.down = <<>> => Append(loc.down, m) = <<m>>
  /\ \A m : <<m>> # <<>> /\ Head(<<m>>) = m
LEMMA CxOne ==
  ASSUME CxFields
  PROVE  CxLone
<1>1. \A m : <<m>> # <<>> /\ Head(<<m>>) = m /\ Append(<<>>, m) = <<m>> /\ Tail(<<m>>) = <<>>
  BY Single
<1>2. /\ \A m : loc.up = <<>> => Append(loc.up, m) = <<m>>
      /\ \A m : loc.down = <<>> => Append(loc.down, m) = <<m>>
  BY <1>1
<1>3. loc.up = <<>>
      \/ (Tail(loc.up) = <<>> /\ Head(loc.up) \in Connector!Requests /\ loc.up = <<Head(loc.up)>>)
  <2>1. ASSUME NEW m \in Connector!Requests, loc.up = <<m>>
        PROVE  Tail(loc.up) = <<>> /\ Head(loc.up) = m
    BY <1>1, <2>1
  <2> QED BY <2>1 DEF CxFields, CxLocTypes
<1>4. loc.down = <<>>
      \/ (Tail(loc.down) = <<>> /\ Head(loc.down) \in Connector!Replies /\ loc.down = <<Head(loc.down)>>)
  <2>1. ASSUME NEW m \in Connector!Replies, loc.down = <<m>>
        PROVE  Tail(loc.down) = <<>> /\ Head(loc.down) = m
    BY <1>1, <2>1
  <2> QED BY <2>1 DEF CxFields, CxLocTypes
<1> QED BY <1>1, <1>2, <1>3, <1>4 DEF CxLone

\* What is written to the remote server, and taken.
LEMMA CxAppending ==
  ASSUME NEW S, NEW s \in Seq(S), NEW x \in S
  PROVE  /\ Append(s, x) \in Seq(S) /\ Append(s, x) # <<>>
         /\ Connector!ToSet(Append(s, x)) = Connector!ToSet(s) \cup {x}
<1>1. /\ Append(s, x) \in Seq(S) /\ Append(s, x) # <<>>
      /\ Len(Append(s, x)) = Len(s) + 1 /\ DOMAIN s = 1 .. Len(s)
  OBVIOUS
<1>2. /\ DOMAIN Append(s, x) = 1 .. Len(s) + 1
      /\ \A j \in 1 .. Len(s) : Append(s, x)[j] = s[j]
      /\ Append(s, x)[Len(s) + 1] = x
  OBVIOUS
<1>3. Len(s) + 1 \in DOMAIN Append(s, x) /\ \A j \in 1 .. Len(s) + 1 : j \in 1 .. Len(s) \/ j = Len(s) + 1
  BY <1>2
<1>4. 1 .. Len(s) \subseteq DOMAIN Append(s, x)
  BY <1>2
<1> HIDE <1>2
<1> QED BY <1>1, <1>2, <1>3, <1>4 DEF Connector!ToSet

LEMMA CxTaking ==
  ASSUME NEW S, NEW s \in Seq(S), s # <<>>
  PROVE  /\ Tail(s) \in Seq(S) /\ Head(s) \in S
         /\ Head(s) \in Connector!ToSet(s) /\ Connector!ToSet(Tail(s)) \subseteq Connector!ToSet(s)
<1>1. /\ Head(s) \in S /\ Tail(s) \in Seq(S) /\ Len(s) \in Nat \ {0} /\ DOMAIN s = 1 .. Len(s)
  OBVIOUS
<1>2. /\ DOMAIN Tail(s) = 1 .. Len(s) - 1
      /\ (\A j \in 1 .. Len(s) - 1 : Tail(s)[j] = s[j + 1]) /\ Head(s) = s[1]
  OBVIOUS
<1>3. Head(s) \in Connector!ToSet(s)
  BY <1>1, <1>2 DEF Connector!ToSet
<1>4. ASSUME NEW y \in Connector!ToSet(Tail(s)) PROVE y \in Connector!ToSet(s)
  <2>1. PICK j \in DOMAIN Tail(s) : y = Tail(s)[j]
    BY DEF Connector!ToSet
  <2>2. j \in 1 .. Len(s) - 1 /\ j + 1 \in DOMAIN s /\ y = s[j + 1]
    BY <1>1, <1>2, <2>1
  <2> QED BY <2>2 DEF Connector!ToSet
<1> QED BY <1>1, <1>3, <1>4

\* The order of the connector's states, and the message of each.
LEMMA CxOrder ==
  /\ DOMAIN Connector!Awaited = Connector!Awaiting /\ DOMAIN Connector!Sent = Connector!Sending
  /\ Connector!Awaited["ReadingLocalHandshake"] = {"hello"}
  /\ Connector!Awaited["ReadingLocalByte1"] = {"byte"}
  /\ Connector!Awaited["ReadingLocalByte2"] = {"byte"} /\ Connector!Awaited["ReadingConnId"] = {"id"}
  /\ Connector!Awaited["ReadingLocalResponse"] = {"accept", "reject"}
  /\ Connector!Sent["WritingLocalHandshake"] = "serverFd" /\ Connector!Sent["WritingDescriptor"] = "fd"
  /\ Connector!Sent["WritingHello"] = "hello" /\ Connector!Sent["WritingAttributes"] = "attributes"
  /\ Connector!NextState("ReadingLocalHandshake") = "WritingLocalHandshake"
  /\ Connector!NextState("WritingLocalHandshake") = "ReadingLocalByte1"
  /\ Connector!NextState("ReadingLocalByte1") = "WritingDescriptor"
  /\ Connector!NextState("WritingDescriptor") = "ReadingLocalByte2"
  /\ Connector!NextState("ReadingLocalByte2") = "WritingHello"
  /\ Connector!NextState("WritingHello") = "ReadingLocalResponse"
  /\ Connector!NextState("ReadingLocalResponse") = "WritingAttributes"
  /\ Connector!NextState("WritingAttributes") = "ReadingConnId"
  /\ Connector!NextState("ReadingConnId") = "done"
  BY DEF Connector!Awaited, Connector!Sent, Connector!NextState, Connector!Awaiting, Connector!Sending

\* ReadRemoteHandshake keeps the invariant.
LEMMA CxReadRemoteHandshake ==
  ASSUME Entered \in Nat, MaxTyped \in Nat, CxGood, Connector!ReadRemoteHandshake
  PROVE  CxGood'
<1>1. CASE rem.down # <<>> /\ Head(rem.down) = "prompt"
  <2>1. /\ connector.pc = "ReadingRemoteHandshake" /\ rem'.up = rem.up
        /\ rem'.down = Tail(rem.down) /\ UNCHANGED <<connector, reader, instance, command, loc>>
    BY <1>1 DEF CxGood, CxShapes, Connector!ReadRemoteHandshake, Connector!Fails, Connector!Ends,
       Connector!RemoteThere
  <2>2. CxShapes'
    BY <1>1 DEF CxGood, CxShapes, Connector!ReadRemoteHandshake, Connector!Fails, Connector!Ends,
       Connector!RemoteThere
  <2>3. rem.down \in Seq({"prompt", "hello"}) /\ rem.down # <<>>
    BY <1>1, <2>1 DEF CxGood, CxFields, CxRemTypes
  <2>4. /\ Tail(rem.down) \in Seq({"prompt", "hello"}) /\ Head(rem.down) \in {"prompt", "hello"}
        /\ Head(rem.down) \in Connector!ToSet(rem.down)
        /\ Connector!ToSet(Tail(rem.down)) \subseteq Connector!ToSet(rem.down)
    BY <2>3, CxTaking
  <2>5. CxFields'
    <3>1. CxRemTypes'
      BY <1>1, <2>1, <2>4 DEF CxGood, CxFields, CxRemTypes
    <3>2. CxMainTypes' /\ CxLocalTypes' /\ CxCommandTypes' /\ CxLocTypes'
      BY <2>1, CxFrame DEF CxGood
    <3> QED BY <3>1, <3>2 DEF CxFields
  <2>6. Connector!Upward'
    BY <1>1, <2>1, <2>4 DEF CxGood, CxFields, CxLocalTypes, Connector!Turns, Connector!Upward,
       Connector!Silent, Connector!OneOf, Connector!Remote
  <2>7. Connector!Turns'
    BY <1>1, <2>1, <2>4 DEF CxGood, CxFields, CxLocalTypes, CxMainTypes, Connector!Turns,
       Connector!Upward, Connector!Silent, Connector!OneOf, Connector!Remote
  <2>8. Connector!Reached'
    BY <1>1, <2>1, <2>4 DEF CxGood, CxFields, CxLocalTypes, CxMainTypes, Connector!Turns,
       Connector!Reached, Connector!Remote
  <2> QED BY <2>2, <2>5, <2>6, <2>7, <2>8 DEF CxGood
<1>2. CASE /\ rem.down # <<>> /\ Head(rem.down) # "prompt" /\ reader' = "start"
          /\ connector' = [connector EXCEPT !.pc = "ReadingLocalHandshake"]
  <2>1. /\ connector.pc = "ReadingRemoteHandshake" /\ connector'.pc = "ReadingLocalHandshake"
        /\ connector'.task = connector.task /\ connector'.typed = connector.typed
        /\ connector'.taken = connector.taken /\ connector'.outcome = connector.outcome
        /\ reader' = "start" /\ rem'.up = rem.up /\ rem'.down = Tail(rem.down)
        /\ UNCHANGED <<instance, command, loc>>
    BY <1>2 DEF CxGood, CxShapes, Connector!ReadRemoteHandshake, Connector!Fails, Connector!Ends,
       Connector!RemoteThere
  <2>2. CxShapes'
    BY <1>2 DEF CxGood, CxShapes, Connector!ReadRemoteHandshake, Connector!Fails, Connector!Ends,
       Connector!RemoteThere
  <2>3. rem.down \in Seq({"prompt", "hello"}) /\ rem.down # <<>>
    BY <1>2, <2>1 DEF CxGood, CxFields, CxRemTypes
  <2>4. /\ Tail(rem.down) \in Seq({"prompt", "hello"}) /\ Head(rem.down) \in {"prompt", "hello"}
        /\ Head(rem.down) \in Connector!ToSet(rem.down)
        /\ Connector!ToSet(Tail(rem.down)) \subseteq Connector!ToSet(rem.down)
    BY <2>3, CxTaking
  <2>5. CxFields'
    <3>1. CxMainTypes'
      BY <1>2, <2>1, <2>4 DEF CxGood, CxFields, CxMainTypes, Connector!Remote, Connector!Awaiting,
         Connector!Sending
    <3>2. CxLocalTypes'
      BY <1>2, <2>1, <2>4 DEF CxGood, CxFields, CxLocalTypes, Connector!Turns, Connector!Remote
    <3>3. CxRemTypes'
      BY <1>2, <2>1, <2>4 DEF CxGood, CxFields, CxRemTypes
    <3>4. CxCommandTypes' /\ CxLocTypes'
      BY <2>1, CxFrame DEF CxGood
    <3> QED BY <3>1, <3>2, <3>3, <3>4 DEF CxFields
  <2>6. Connector!Upward'
    BY <1>2, <2>1, <2>4 DEF CxGood, CxFields, CxLocalTypes, Connector!Turns, Connector!Upward,
       Connector!Silent, Connector!OneOf, Connector!Remote
  <2>7. Connector!Turns'
    BY <1>2, <2>1, <2>4 DEF CxGood, CxFields, CxLocalTypes, CxMainTypes, Connector!Turns,
       Connector!Upward, Connector!Silent, Connector!OneOf, Connector!Remote
  <2>8. Connector!Reached'
    BY <1>2, <2>1, <2>4 DEF CxGood, CxFields, CxLocalTypes, CxMainTypes, Connector!Turns,
       Connector!Reached, Connector!Remote
  <2> QED BY <2>2, <2>5, <2>6, <2>7, <2>8 DEF CxGood
<1>3. CASE rem.down # <<>> /\ Head(rem.down) # "prompt" /\ Connector!Fails /\ UNCHANGED reader
  <2>1. /\ connector.pc = "ReadingRemoteHandshake" /\ connector'.pc = "gone"
        /\ connector'.task = connector.task /\ connector'.typed = connector.typed
        /\ connector'.taken = connector.taken /\ connector'.outcome = "error" /\ rem'.up = rem.up
        /\ rem'.down = Tail(rem.down) /\ UNCHANGED <<reader, instance, command, loc>>
    BY <1>3 DEF CxGood, CxShapes, Connector!ReadRemoteHandshake, Connector!Fails, Connector!Ends,
       Connector!RemoteThere
  <2>2. CxShapes'
    BY <1>3 DEF CxGood, CxShapes, Connector!ReadRemoteHandshake, Connector!Fails, Connector!Ends,
       Connector!RemoteThere
  <2>3. rem.down \in Seq({"prompt", "hello"}) /\ rem.down # <<>>
    BY <1>3, <2>1 DEF CxGood, CxFields, CxRemTypes
  <2>4. /\ Tail(rem.down) \in Seq({"prompt", "hello"}) /\ Head(rem.down) \in {"prompt", "hello"}
        /\ Head(rem.down) \in Connector!ToSet(rem.down)
        /\ Connector!ToSet(Tail(rem.down)) \subseteq Connector!ToSet(rem.down)
    BY <2>3, CxTaking
  <2>5. CxFields'
    <3>1. CxMainTypes'
      BY <1>3, <2>1, <2>4 DEF CxGood, CxFields, CxMainTypes, Connector!Remote, Connector!Awaiting,
         Connector!Sending
    <3>2. CxRemTypes'
      BY <1>3, <2>1, <2>4 DEF CxGood, CxFields, CxRemTypes
    <3>3. CxLocalTypes' /\ CxCommandTypes' /\ CxLocTypes'
      BY <2>1, CxFrame DEF CxGood
    <3> QED BY <3>1, <3>2, <3>3 DEF CxFields
  <2>6. Connector!Upward'
    BY <1>3, <2>1, <2>4 DEF CxGood, CxFields, CxLocalTypes, Connector!Turns, Connector!Upward,
       Connector!Silent, Connector!OneOf, Connector!Remote
  <2>7. Connector!Turns'
    BY <1>3, <2>1, <2>4 DEF CxGood, CxFields, CxLocalTypes, CxMainTypes, Connector!Turns,
       Connector!Upward, Connector!Silent, Connector!OneOf, Connector!Remote
  <2>8. Connector!Reached'
    BY <1>3, <2>1, <2>4 DEF CxGood, CxFields, CxLocalTypes, CxMainTypes, Connector!Turns,
       Connector!Reached, Connector!Remote
  <2> QED BY <2>2, <2>5, <2>6, <2>7, <2>8 DEF CxGood
<1>4. CASE rem.down = <<>>
  <2>1. /\ connector.pc = "ReadingRemoteHandshake" /\ connector'.pc = "gone"
        /\ connector'.task = connector.task /\ connector'.typed = connector.typed
        /\ connector'.taken = connector.taken /\ connector'.outcome = "error"
        /\ UNCHANGED <<reader, instance, command, loc, rem>>
    BY <1>4 DEF CxGood, CxShapes, Connector!ReadRemoteHandshake, Connector!Fails, Connector!Ends,
       Connector!RemoteThere
  <2>2. CxShapes'
    BY <1>4 DEF CxGood, CxShapes, Connector!ReadRemoteHandshake, Connector!Fails, Connector!Ends,
       Connector!RemoteThere
  <2>3. CxFields'
    <3>1. CxMainTypes'
      BY <1>4, <2>1 DEF CxGood, CxFields, CxMainTypes, Connector!Remote, Connector!Awaiting,
         Connector!Sending
    <3>2. CxLocalTypes' /\ CxCommandTypes' /\ CxLocTypes' /\ CxRemTypes'
      BY <2>1, CxFrame DEF CxGood
    <3> QED BY <3>1, <3>2 DEF CxFields
  <2>4. Connector!Upward'
    BY <1>4, <2>1 DEF CxGood, CxFields, CxLocalTypes, Connector!Turns, Connector!Upward,
       Connector!Silent, Connector!OneOf, Connector!Remote
  <2>5. Connector!Turns'
    BY <1>4, <2>1 DEF CxGood, CxFields, CxLocalTypes, CxMainTypes, Connector!Turns, Connector!Upward,
       Connector!Silent, Connector!OneOf, Connector!Remote
  <2>6. Connector!Reached'
    BY <1>4, <2>1 DEF CxGood, CxFields, CxLocalTypes, CxMainTypes, Connector!Turns, Connector!Reached,
       Connector!Remote
  <2> QED BY <2>2, <2>3, <2>4, <2>5, <2>6 DEF CxGood
<1> QED BY <1>1, <1>2, <1>3, <1>4 DEF CxGood, CxShapes, CxFields, CxMainTypes, Connector!Awaiting,
           Connector!Sending, Connector!ReadRemoteHandshake, Connector!Fails, Connector!Ends,
           Connector!RemoteThere

\* HandleData keeps the invariant.
LEMMA CxHandleData ==
  ASSUME Entered \in Nat, MaxTyped \in Nat, CxGood, Connector!HandleData
  PROVE  CxGood'
<1>1. CASE connector.pc = "ReadingRemoteHandshake" /\ connector' = Connector!Ends("error")
  <2>1. /\ connector.pc = "ReadingRemoteHandshake" /\ connector'.pc = "gone"
        /\ connector'.task = connector.task /\ connector'.typed = connector.typed
        /\ connector'.taken = connector.taken /\ connector'.outcome = "error"
        /\ UNCHANGED <<reader, instance, command, loc, rem>>
    BY <1>1 DEF CxGood, CxShapes, Connector!HandleData, Connector!Fails, Connector!Ends
  <2>2. CxShapes'
    BY <1>1 DEF CxGood, CxShapes, Connector!HandleData, Connector!Fails, Connector!Ends
  <2>3. CxFields'
    <3>1. CxMainTypes'
      BY <1>1, <2>1 DEF CxGood, CxFields, CxMainTypes, Connector!Remote, Connector!Awaiting,
         Connector!Sending
    <3>2. CxLocalTypes' /\ CxCommandTypes' /\ CxLocTypes' /\ CxRemTypes'
      BY <2>1, CxFrame DEF CxGood
    <3> QED BY <3>1, <3>2 DEF CxFields
  <2>4. Connector!Upward'
    BY <1>1, <2>1 DEF CxGood, CxFields, CxLocalTypes, Connector!Turns, Connector!Upward,
       Connector!Silent, Connector!OneOf, Connector!Remote
  <2>5. Connector!Turns'
    BY <1>1, <2>1 DEF CxGood, CxFields, CxLocalTypes, CxMainTypes, Connector!Turns, Connector!Upward,
       Connector!Silent, Connector!OneOf, Connector!Remote
  <2>6. Connector!Reached'
    BY <1>1, <2>1 DEF CxGood, CxFields, CxLocalTypes, CxMainTypes, Connector!Turns, Connector!Reached,
       Connector!Remote
  <2> QED BY <2>2, <2>3, <2>4, <2>5, <2>6 DEF CxGood
<1>2. CASE /\ connector.pc = "ReadingRemoteHandshake" /\ connector.typed < Entered
           /\ ~(connector.taken >= MaxTyped)
          /\ connector' = [connector EXCEPT !.typed = @ + 1, !.taken = @ + 1, !.pc = "WritingRemoteHandshake"]
  <2>1. /\ connector.pc = "ReadingRemoteHandshake" /\ connector.typed < Entered
        /\ ~(connector.taken >= MaxTyped) /\ connector'.pc = "WritingRemoteHandshake"
        /\ connector'.task = connector.task /\ connector'.typed = connector.typed + 1
        /\ connector'.taken = connector.taken + 1 /\ connector'.outcome = connector.outcome
        /\ UNCHANGED <<reader, instance, command, loc, rem>>
    BY <1>2 DEF CxGood, CxShapes, Connector!HandleData, Connector!Fails, Connector!Ends
  <2>2. CxShapes'
    BY <1>2 DEF CxGood, CxShapes, Connector!HandleData, Connector!Fails, Connector!Ends
  <2>3. CxFields'
    <3>1. CxMainTypes'
      BY <1>2, <2>1 DEF CxGood, CxFields, CxMainTypes, Connector!Remote, Connector!Awaiting,
         Connector!Sending
    <3>2. CxLocalTypes' /\ CxCommandTypes' /\ CxLocTypes' /\ CxRemTypes'
      BY <2>1, CxFrame DEF CxGood
    <3> QED BY <3>1, <3>2 DEF CxFields
  <2>4. Connector!Upward'
    BY <1>2, <2>1 DEF CxGood, CxFields, CxLocalTypes, Connector!Turns, Connector!Upward,
       Connector!Silent, Connector!OneOf, Connector!Remote
  <2>5. Connector!Turns'
    BY <1>2, <2>1 DEF CxGood, CxFields, CxLocalTypes, CxMainTypes, Connector!Turns, Connector!Upward,
       Connector!Silent, Connector!OneOf, Connector!Remote
  <2>6. Connector!Reached'
    BY <1>2, <2>1 DEF CxGood, CxFields, CxLocalTypes, CxMainTypes, Connector!Turns, Connector!Reached,
       Connector!Remote
  <2> QED BY <2>2, <2>3, <2>4, <2>5, <2>6 DEF CxGood
<1>3. CASE connector.pc = "WritingRemoteHandshake"
  <2>1. /\ connector.pc = "WritingRemoteHandshake" /\ connector.typed < Entered
        /\ connector'.pc = connector.pc /\ connector'.task = connector.task
        /\ connector'.typed = connector.typed + 1 /\ connector'.taken = connector.taken
        /\ connector'.outcome = connector.outcome
        /\ UNCHANGED <<reader, instance, command, loc, rem>>
    BY <1>3 DEF CxGood, CxShapes, Connector!HandleData, Connector!Fails, Connector!Ends
  <2>2. CxShapes'
    BY <1>3 DEF CxGood, CxShapes, Connector!HandleData, Connector!Fails, Connector!Ends
  <2>3. CxFields'
    <3>1. CxMainTypes'
      BY <1>3, <2>1 DEF CxGood, CxFields, CxMainTypes, Connector!Remote, Connector!Awaiting,
         Connector!Sending
    <3>2. CxLocalTypes' /\ CxCommandTypes' /\ CxLocTypes' /\ CxRemTypes'
      BY <2>1, CxFrame DEF CxGood
    <3> QED BY <3>1, <3>2 DEF CxFields
  <2>4. Connector!Upward'
    BY <1>3, <2>1 DEF CxGood, CxFields, CxLocalTypes, Connector!Turns, Connector!Upward,
       Connector!Silent, Connector!OneOf, Connector!Remote
  <2>5. Connector!Turns'
    BY <1>3, <2>1 DEF CxGood, CxFields, CxLocalTypes, CxMainTypes, Connector!Turns, Connector!Upward,
       Connector!Silent, Connector!OneOf, Connector!Remote
  <2>6. Connector!Reached'
    BY <1>3, <2>1 DEF CxGood, CxFields, CxLocalTypes, CxMainTypes, Connector!Turns, Connector!Reached,
       Connector!Remote
  <2> QED BY <2>2, <2>3, <2>4, <2>5, <2>6 DEF CxGood
<1> QED BY <1>1, <1>2, <1>3 DEF CxGood, CxShapes, CxFields, CxMainTypes, Connector!Awaiting,
           Connector!Sending, Connector!HandleData, Connector!Fails, Connector!Ends

\* WriteRemoteHandshake keeps the invariant.
LEMMA CxWriteRemoteHandshake ==
  ASSUME Entered \in Nat, MaxTyped \in Nat, CxGood, Connector!WriteRemoteHandshake
  PROVE  CxGood'
<1>1. CASE Connector!RemoteThere
  <2>1. /\ connector.pc = "WritingRemoteHandshake" /\ connector'.pc = "ReadingRemoteHandshake"
        /\ connector'.task = connector.task /\ connector'.typed = connector.typed
        /\ connector'.taken = connector.taken /\ connector'.outcome = connector.outcome
        /\ rem'.up = Append(rem.up, "typed") /\ rem'.down = rem.down
        /\ UNCHANGED <<reader, instance, command, loc>>
    BY <1>1 DEF CxGood, CxShapes, Connector!WriteRemoteHandshake, Connector!Fails, Connector!Ends,
       Connector!RemoteThere
  <2>2. CxShapes'
    BY <1>1 DEF CxGood, CxShapes, Connector!WriteRemoteHandshake, Connector!Fails, Connector!Ends,
       Connector!RemoteThere
  <2>3. rem.up \in Seq({"typed", "accept", "reject"}) /\ "typed" \in {"typed", "accept", "reject"}
    BY <2>1 DEF CxGood, CxFields, CxRemTypes, CxLocalTypes, Connector!Reached
  <2>4. /\ Append(rem.up, "typed") \in Seq({"typed", "accept", "reject"}) /\ Append(rem.up, "typed") # <<>>
        /\ Connector!ToSet(Append(rem.up, "typed")) = Connector!ToSet(rem.up) \cup {"typed"}
    BY <2>3, CxAppending
  <2>5. CxFields'
    <3>1. CxRemTypes'
      BY <1>1, <2>1, <2>4 DEF CxGood, CxFields, CxRemTypes
    <3>2. CxMainTypes'
      BY <1>1, <2>1, <2>4 DEF CxGood, CxFields, CxMainTypes, Connector!Remote, Connector!Awaiting,
         Connector!Sending
    <3>3. CxLocalTypes' /\ CxCommandTypes' /\ CxLocTypes'
      BY <2>1, CxFrame DEF CxGood
    <3> QED BY <3>1, <3>2, <3>3 DEF CxFields
  <2>6. Connector!Upward'
    BY <1>1, <2>1, <2>4 DEF CxGood, CxFields, CxLocalTypes, Connector!Turns, Connector!Upward,
       Connector!Silent, Connector!OneOf, Connector!Remote, Connector!RemoteThere
  <2>7. Connector!Turns'
    BY <1>1, <2>1, <2>4 DEF CxGood, CxFields, CxLocalTypes, CxMainTypes, Connector!Turns,
       Connector!Upward, Connector!Silent, Connector!OneOf, Connector!Remote, Connector!RemoteThere
  <2>8. Connector!Reached'
    BY <1>1, <2>1, <2>4 DEF CxGood, CxFields, CxLocalTypes, CxMainTypes, Connector!Turns,
       Connector!Reached, Connector!Remote, Connector!RemoteThere
  <2> QED BY <2>2, <2>5, <2>6, <2>7, <2>8 DEF CxGood
<1>2. CASE ~Connector!RemoteThere
  <2>1. /\ connector.pc = "WritingRemoteHandshake" /\ connector'.pc = "gone"
        /\ connector'.task = connector.task /\ connector'.typed = connector.typed
        /\ connector'.taken = connector.taken /\ connector'.outcome = "error"
        /\ UNCHANGED <<reader, instance, command, loc, rem>>
    BY <1>2 DEF CxGood, CxShapes, Connector!WriteRemoteHandshake, Connector!Fails, Connector!Ends,
       Connector!RemoteThere
  <2>2. CxShapes'
    BY <1>2 DEF CxGood, CxShapes, Connector!WriteRemoteHandshake, Connector!Fails, Connector!Ends,
       Connector!RemoteThere
  <2>3. CxFields'
    <3>1. CxMainTypes'
      BY <1>2, <2>1 DEF CxGood, CxFields, CxMainTypes, Connector!Remote, Connector!Awaiting,
         Connector!Sending
    <3>2. CxLocalTypes' /\ CxCommandTypes' /\ CxLocTypes' /\ CxRemTypes'
      BY <2>1, CxFrame DEF CxGood
    <3> QED BY <3>1, <3>2 DEF CxFields
  <2>4. Connector!Upward'
    BY <1>2, <2>1 DEF CxGood, CxFields, CxLocalTypes, Connector!Turns, Connector!Upward,
       Connector!Silent, Connector!OneOf, Connector!Remote, Connector!RemoteThere
  <2>5. Connector!Turns'
    BY <1>2, <2>1 DEF CxGood, CxFields, CxLocalTypes, CxMainTypes, Connector!Turns, Connector!Upward,
       Connector!Silent, Connector!OneOf, Connector!Remote, Connector!RemoteThere
  <2>6. Connector!Reached'
    BY <1>2, <2>1 DEF CxGood, CxFields, CxLocalTypes, CxMainTypes, Connector!Turns, Connector!Reached,
       Connector!Remote, Connector!RemoteThere
  <2> QED BY <2>2, <2>3, <2>4, <2>5, <2>6 DEF CxGood
<1> QED BY <1>1, <1>2 DEF CxGood, CxShapes, CxFields, CxMainTypes, Connector!Awaiting,
           Connector!Sending, Connector!WriteRemoteHandshake, Connector!Fails, Connector!Ends,
           Connector!RemoteThere

\* ReadLocal keeps the invariant.
LEMMA CxReadLocal ==
  ASSUME Entered \in Nat, MaxTyped \in Nat, CxGood, Connector!ReadLocal
  PROVE  CxGood'
<1>1. CASE connector.pc = "ReadingLocalHandshake" /\ loc.down # <<>> /\ Connector!Continues
  <2>1. /\ connector.pc = "ReadingLocalHandshake" /\ loc.down # <<>>
        /\ connector'.pc = "WritingLocalHandshake" /\ connector'.task = connector.task
        /\ connector'.typed = connector.typed /\ connector'.taken = connector.taken
        /\ connector'.outcome = connector.outcome /\ loc'.up = loc.up /\ loc'.down = Tail(loc.down)
        /\ UNCHANGED <<reader, instance, command, rem>>
    BY <1>1, CxOrder DEF CxGood, CxShapes, Connector!ReadLocal, Connector!FromLocal, Connector!Fails,
       Connector!Ends, Connector!Continues
  <2>2. CxShapes'
    BY <1>1, CxOrder DEF CxGood, CxShapes, Connector!ReadLocal, Connector!FromLocal, Connector!Fails,
       Connector!Ends, Connector!Continues
  <2>3. CxFields
    BY DEF CxGood
  <2>4. CxLone
    BY <2>3, CxOne
  <2>5. CxFields'
    <3>1. CxMainTypes'
      BY <1>1, <2>1, <2>4 DEF CxGood, CxFields, CxLone, CxMainTypes, Connector!Remote,
         Connector!Awaiting, Connector!Sending
    <3>2. CxLocTypes'
      BY <1>1, <2>1, <2>4 DEF CxGood, CxFields, CxLone, CxLocTypes, CxLocalTypes, Connector!Requests,
         Connector!Replies, Connector!Turns, Connector!Upward, Connector!Silent, Connector!OneOf,
         Connector!Remote
    <3>3. CxLocalTypes' /\ CxCommandTypes' /\ CxRemTypes'
      BY <2>1, CxFrame DEF CxGood
    <3> QED BY <3>1, <3>2, <3>3 DEF CxFields
  <2>6. Connector!Upward'
    BY <1>1, <2>1, <2>4 DEF CxGood, CxLone, CxFields, CxLocalTypes, Connector!Turns, Connector!Upward,
       Connector!Silent, Connector!OneOf, Connector!Remote
  <2>7. Connector!Turns'
    BY <1>1, <2>1, <2>4 DEF CxGood, CxLone, CxFields, CxLocalTypes, CxMainTypes, Connector!Turns,
       Connector!Upward, Connector!Silent, Connector!OneOf, Connector!Remote
  <2>8. Connector!Reached'
    BY <1>1, <2>1, <2>4 DEF CxGood, CxLone, CxFields, CxLocalTypes, CxMainTypes, Connector!Turns,
       Connector!Reached, Connector!Remote
  <2> QED BY <2>2, <2>5, <2>6, <2>7, <2>8 DEF CxGood
<1>2. CASE connector.pc = "ReadingLocalByte1" /\ loc.down # <<>> /\ Connector!Continues
  <2>1. /\ connector.pc = "ReadingLocalByte1" /\ loc.down # <<>>
        /\ connector'.pc = "WritingDescriptor" /\ connector'.task = connector.task
        /\ connector'.typed = connector.typed /\ connector'.taken = connector.taken
        /\ connector'.outcome = connector.outcome /\ loc'.up = loc.up /\ loc'.down = Tail(loc.down)
        /\ UNCHANGED <<reader, instance, command, rem>>
    BY <1>2, CxOrder DEF CxGood, CxShapes, Connector!ReadLocal, Connector!FromLocal, Connector!Fails,
       Connector!Ends, Connector!Continues
  <2>2. CxShapes'
    BY <1>2, CxOrder DEF CxGood, CxShapes, Connector!ReadLocal, Connector!FromLocal, Connector!Fails,
       Connector!Ends, Connector!Continues
  <2>3. CxFields
    BY DEF CxGood
  <2>4. CxLone
    BY <2>3, CxOne
  <2>5. CxFields'
    <3>1. CxMainTypes'
      BY <1>2, <2>1, <2>4 DEF CxGood, CxFields, CxLone, CxMainTypes, Connector!Remote,
         Connector!Awaiting, Connector!Sending
    <3>2. CxLocTypes'
      BY <1>2, <2>1, <2>4 DEF CxGood, CxFields, CxLone, CxLocTypes, CxLocalTypes, Connector!Requests,
         Connector!Replies, Connector!Turns, Connector!Upward, Connector!Silent, Connector!OneOf,
         Connector!Remote
    <3>3. CxLocalTypes' /\ CxCommandTypes' /\ CxRemTypes'
      BY <2>1, CxFrame DEF CxGood
    <3> QED BY <3>1, <3>2, <3>3 DEF CxFields
  <2>6. Connector!Upward'
    BY <1>2, <2>1, <2>4 DEF CxGood, CxLone, CxFields, CxLocalTypes, Connector!Turns, Connector!Upward,
       Connector!Silent, Connector!OneOf, Connector!Remote
  <2>7. Connector!Turns'
    BY <1>2, <2>1, <2>4 DEF CxGood, CxLone, CxFields, CxLocalTypes, CxMainTypes, Connector!Turns,
       Connector!Upward, Connector!Silent, Connector!OneOf, Connector!Remote
  <2>8. Connector!Reached'
    BY <1>2, <2>1, <2>4 DEF CxGood, CxLone, CxFields, CxLocalTypes, CxMainTypes, Connector!Turns,
       Connector!Reached, Connector!Remote
  <2> QED BY <2>2, <2>5, <2>6, <2>7, <2>8 DEF CxGood
<1>3. CASE connector.pc = "ReadingLocalByte2" /\ loc.down # <<>> /\ Connector!Continues
  <2>1. /\ connector.pc = "ReadingLocalByte2" /\ loc.down # <<>> /\ connector'.pc = "WritingHello"
        /\ connector'.task = connector.task /\ connector'.typed = connector.typed
        /\ connector'.taken = connector.taken /\ connector'.outcome = connector.outcome
        /\ loc'.up = loc.up /\ loc'.down = Tail(loc.down)
        /\ UNCHANGED <<reader, instance, command, rem>>
    BY <1>3, CxOrder DEF CxGood, CxShapes, Connector!ReadLocal, Connector!FromLocal, Connector!Fails,
       Connector!Ends, Connector!Continues
  <2>2. CxShapes'
    BY <1>3, CxOrder DEF CxGood, CxShapes, Connector!ReadLocal, Connector!FromLocal, Connector!Fails,
       Connector!Ends, Connector!Continues
  <2>3. CxFields
    BY DEF CxGood
  <2>4. CxLone
    BY <2>3, CxOne
  <2>5. CxFields'
    <3>1. CxMainTypes'
      BY <1>3, <2>1, <2>4 DEF CxGood, CxFields, CxLone, CxMainTypes, Connector!Remote,
         Connector!Awaiting, Connector!Sending
    <3>2. CxLocTypes'
      BY <1>3, <2>1, <2>4 DEF CxGood, CxFields, CxLone, CxLocTypes, CxLocalTypes, Connector!Requests,
         Connector!Replies, Connector!Turns, Connector!Upward, Connector!Silent, Connector!OneOf,
         Connector!Remote
    <3>3. CxLocalTypes' /\ CxCommandTypes' /\ CxRemTypes'
      BY <2>1, CxFrame DEF CxGood
    <3> QED BY <3>1, <3>2, <3>3 DEF CxFields
  <2>6. Connector!Upward'
    BY <1>3, <2>1, <2>4 DEF CxGood, CxLone, CxFields, CxLocalTypes, Connector!Turns, Connector!Upward,
       Connector!Silent, Connector!OneOf, Connector!Remote
  <2>7. Connector!Turns'
    BY <1>3, <2>1, <2>4 DEF CxGood, CxLone, CxFields, CxLocalTypes, CxMainTypes, Connector!Turns,
       Connector!Upward, Connector!Silent, Connector!OneOf, Connector!Remote
  <2>8. Connector!Reached'
    BY <1>3, <2>1, <2>4 DEF CxGood, CxLone, CxFields, CxLocalTypes, CxMainTypes, Connector!Turns,
       Connector!Reached, Connector!Remote
  <2> QED BY <2>2, <2>5, <2>6, <2>7, <2>8 DEF CxGood
<1>4. CASE connector.pc = "ReadingLocalResponse" /\ loc.down # <<>> /\ Connector!Continues
  <2>1. /\ connector.pc = "ReadingLocalResponse" /\ loc.down # <<>>
        /\ connector'.pc = "WritingAttributes" /\ connector'.task = connector.task
        /\ connector'.typed = connector.typed /\ connector'.taken = connector.taken
        /\ connector'.outcome = connector.outcome /\ loc'.up = loc.up /\ loc'.down = Tail(loc.down)
        /\ UNCHANGED <<reader, instance, command, rem>>
    BY <1>4, CxOrder DEF CxGood, CxShapes, Connector!ReadLocal, Connector!FromLocal, Connector!Fails,
       Connector!Ends, Connector!Continues
  <2>2. CxShapes'
    BY <1>4, CxOrder DEF CxGood, CxShapes, Connector!ReadLocal, Connector!FromLocal, Connector!Fails,
       Connector!Ends, Connector!Continues
  <2>3. CxFields
    BY DEF CxGood
  <2>4. CxLone
    BY <2>3, CxOne
  <2>5. CxFields'
    <3>1. CxMainTypes'
      BY <1>4, <2>1, <2>4 DEF CxGood, CxFields, CxLone, CxMainTypes, Connector!Remote,
         Connector!Awaiting, Connector!Sending
    <3>2. CxLocTypes'
      BY <1>4, <2>1, <2>4 DEF CxGood, CxFields, CxLone, CxLocTypes, CxLocalTypes, Connector!Requests,
         Connector!Replies, Connector!Turns, Connector!Upward, Connector!Silent, Connector!OneOf,
         Connector!Remote
    <3>3. CxLocalTypes' /\ CxCommandTypes' /\ CxRemTypes'
      BY <2>1, CxFrame DEF CxGood
    <3> QED BY <3>1, <3>2, <3>3 DEF CxFields
  <2>6. Connector!Upward'
    BY <1>4, <2>1, <2>4 DEF CxGood, CxLone, CxFields, CxLocalTypes, Connector!Turns, Connector!Upward,
       Connector!Silent, Connector!OneOf, Connector!Remote
  <2>7. Connector!Turns'
    BY <1>4, <2>1, <2>4 DEF CxGood, CxLone, CxFields, CxLocalTypes, CxMainTypes, Connector!Turns,
       Connector!Upward, Connector!Silent, Connector!OneOf, Connector!Remote
  <2>8. Connector!Reached'
    BY <1>4, <2>1, <2>4 DEF CxGood, CxLone, CxFields, CxLocalTypes, CxMainTypes, Connector!Turns,
       Connector!Reached, Connector!Remote
  <2> QED BY <2>2, <2>5, <2>6, <2>7, <2>8 DEF CxGood
<1>5. CASE connector.pc = "ReadingConnId" /\ loc.down # <<>> /\ Connector!Continues
  <2>1. /\ connector.pc = "ReadingConnId" /\ loc.down # <<>> /\ connector'.pc = "gone"
        /\ connector'.task = connector.task /\ connector'.typed = connector.typed
        /\ connector'.taken = connector.taken /\ connector'.outcome = "finished"
        /\ loc'.up = loc.up /\ loc'.down = Tail(loc.down)
        /\ UNCHANGED <<reader, instance, command, rem>>
    BY <1>5, CxOrder DEF CxGood, CxShapes, Connector!ReadLocal, Connector!FromLocal, Connector!Fails,
       Connector!Ends, Connector!Continues
  <2>2. CxShapes'
    BY <1>5, CxOrder DEF CxGood, CxShapes, Connector!ReadLocal, Connector!FromLocal, Connector!Fails,
       Connector!Ends, Connector!Continues
  <2>3. CxFields
    BY DEF CxGood
  <2>4. CxLone
    BY <2>3, CxOne
  <2>5. CxFields'
    <3>1. CxMainTypes'
      BY <1>5, <2>1, <2>4 DEF CxGood, CxFields, CxLone, CxMainTypes, Connector!Remote,
         Connector!Awaiting, Connector!Sending
    <3>2. CxLocTypes'
      BY <1>5, <2>1, <2>4 DEF CxGood, CxFields, CxLone, CxLocTypes, CxLocalTypes, Connector!Requests,
         Connector!Replies, Connector!Turns, Connector!Upward, Connector!Silent, Connector!OneOf,
         Connector!Remote
    <3>3. CxLocalTypes' /\ CxCommandTypes' /\ CxRemTypes'
      BY <2>1, CxFrame DEF CxGood
    <3> QED BY <3>1, <3>2, <3>3 DEF CxFields
  <2>6. Connector!Upward'
    BY <1>5, <2>1, <2>4 DEF CxGood, CxLone, CxFields, CxLocalTypes, Connector!Turns, Connector!Upward,
       Connector!Silent, Connector!OneOf, Connector!Remote
  <2>7. Connector!Turns'
    BY <1>5, <2>1, <2>4 DEF CxGood, CxLone, CxFields, CxLocalTypes, CxMainTypes, Connector!Turns,
       Connector!Upward, Connector!Silent, Connector!OneOf, Connector!Remote
  <2>8. Connector!Reached'
    BY <1>5, <2>1, <2>4 DEF CxGood, CxLone, CxFields, CxLocalTypes, CxMainTypes, Connector!Turns,
       Connector!Reached, Connector!Remote
  <2> QED BY <2>2, <2>5, <2>6, <2>7, <2>8 DEF CxGood
<1>6. CASE loc.down # <<>> /\ Connector!Fails
  <2>1. /\ connector.pc \in Connector!Awaiting /\ connector'.pc = "gone"
        /\ connector'.task = connector.task /\ connector'.typed = connector.typed
        /\ connector'.taken = connector.taken /\ connector'.outcome = "error" /\ loc'.up = loc.up
        /\ loc'.down = Tail(loc.down) /\ UNCHANGED <<reader, instance, command, rem>>
    BY <1>6, CxOrder DEF CxGood, CxShapes, Connector!ReadLocal, Connector!FromLocal, Connector!Fails,
       Connector!Ends, Connector!Continues
  <2>2. CxShapes'
    BY <1>6, CxOrder DEF CxGood, CxShapes, Connector!ReadLocal, Connector!FromLocal, Connector!Fails,
       Connector!Ends, Connector!Continues
  <2>3. CxFields
    BY DEF CxGood
  <2>4. CxLone
    BY <2>3, CxOne
  <2>5. CxFields'
    <3>1. CxMainTypes'
      BY <1>6, <2>1, <2>4 DEF CxGood, CxFields, CxLone, CxMainTypes, Connector!Remote,
         Connector!Awaiting, Connector!Sending
    <3>2. CxLocTypes'
      BY <1>6, <2>1, <2>4 DEF CxGood, CxFields, CxLone, CxLocTypes, CxLocalTypes, Connector!Requests,
         Connector!Replies, Connector!Turns, Connector!Upward, Connector!Silent, Connector!OneOf,
         Connector!Remote
    <3>3. CxLocalTypes' /\ CxCommandTypes' /\ CxRemTypes'
      BY <2>1, CxFrame DEF CxGood
    <3> QED BY <3>1, <3>2, <3>3 DEF CxFields
  <2>6. Connector!Upward'
    BY <1>6, <2>1, <2>4 DEF CxGood, CxLone, CxFields, CxLocalTypes, Connector!Turns, Connector!Upward,
       Connector!Silent, Connector!OneOf, Connector!Remote, Connector!Awaiting, Connector!Sending
  <2>7. Connector!Turns'
    BY <1>6, <2>1, <2>4 DEF CxGood, CxLone, CxFields, CxLocalTypes, CxMainTypes, Connector!Turns,
       Connector!Upward, Connector!Silent, Connector!OneOf, Connector!Remote, Connector!Awaiting,
       Connector!Sending
  <2>8. Connector!Reached'
    BY <1>6, <2>1, <2>4 DEF CxGood, CxLone, CxFields, CxLocalTypes, CxMainTypes, Connector!Turns,
       Connector!Reached, Connector!Remote, Connector!Awaiting, Connector!Sending
  <2> QED BY <2>2, <2>5, <2>6, <2>7, <2>8 DEF CxGood
<1>7. CASE loc.down = <<>>
  <2>1. /\ connector.pc \in Connector!Awaiting /\ connector'.pc = "gone"
        /\ connector'.task = connector.task /\ connector'.typed = connector.typed
        /\ connector'.taken = connector.taken /\ connector'.outcome = "error"
        /\ UNCHANGED <<reader, instance, command, loc, rem>>
    BY <1>7, CxOrder DEF CxGood, CxShapes, Connector!ReadLocal, Connector!FromLocal, Connector!Fails,
       Connector!Ends, Connector!Continues
  <2>2. CxShapes'
    BY <1>7, CxOrder DEF CxGood, CxShapes, Connector!ReadLocal, Connector!FromLocal, Connector!Fails,
       Connector!Ends, Connector!Continues
  <2>3. CxFields'
    <3>1. CxMainTypes'
      BY <1>7, <2>1 DEF CxGood, CxFields, CxMainTypes, Connector!Remote, Connector!Awaiting,
         Connector!Sending
    <3>2. CxLocalTypes' /\ CxCommandTypes' /\ CxLocTypes' /\ CxRemTypes'
      BY <2>1, CxFrame DEF CxGood
    <3> QED BY <3>1, <3>2 DEF CxFields
  <2>4. Connector!Upward'
    BY <1>7, <2>1 DEF CxGood, CxFields, CxLocalTypes, Connector!Turns, Connector!Upward,
       Connector!Silent, Connector!OneOf, Connector!Remote, Connector!Awaiting, Connector!Sending
  <2>5. Connector!Turns'
    BY <1>7, <2>1 DEF CxGood, CxFields, CxLocalTypes, CxMainTypes, Connector!Turns, Connector!Upward,
       Connector!Silent, Connector!OneOf, Connector!Remote, Connector!Awaiting, Connector!Sending
  <2>6. Connector!Reached'
    BY <1>7, <2>1 DEF CxGood, CxFields, CxLocalTypes, CxMainTypes, Connector!Turns, Connector!Reached,
       Connector!Remote, Connector!Awaiting, Connector!Sending
  <2> QED BY <2>2, <2>3, <2>4, <2>5, <2>6 DEF CxGood
<1> QED BY <1>1, <1>2, <1>3, <1>4, <1>5, <1>6, <1>7, CxOrder DEF CxGood, CxShapes, CxFields,
           CxMainTypes, Connector!Awaiting, Connector!Sending, Connector!ReadLocal, Connector!FromLocal,
           Connector!Fails, Connector!Ends, Connector!Continues

\* WriteLocal keeps the invariant.
LEMMA CxWriteLocal ==
  ASSUME Entered \in Nat, MaxTyped \in Nat, CxGood, Connector!WriteLocal
  PROVE  CxGood'
<1>1. CASE connector.pc = "WritingLocalHandshake" /\ Connector!LocalThere
  <2>1. /\ connector.pc = "WritingLocalHandshake" /\ connector'.pc = "ReadingLocalByte1"
        /\ connector'.task = connector.task /\ connector'.typed = connector.typed
        /\ connector'.taken = connector.taken /\ connector'.outcome = connector.outcome
        /\ loc'.up = Append(loc.up, "serverFd") /\ loc'.down = loc.down
        /\ UNCHANGED <<reader, instance, command, rem>>
    BY <1>1, CxOrder DEF CxGood, CxShapes, Connector!WriteLocal, Connector!LocalThere,
       Connector!ToLocal, Connector!Fails, Connector!Ends, Connector!Continues
  <2>2. CxShapes'
    BY <1>1, CxOrder DEF CxGood, CxShapes, Connector!WriteLocal, Connector!LocalThere,
       Connector!ToLocal, Connector!Fails, Connector!Ends, Connector!Continues
  <2>3. CxFields
    BY DEF CxGood
  <2>4. CxLone
    BY <2>3, CxOne
  <2>5. CxFields'
    <3>1. CxMainTypes'
      BY <1>1, <2>1, <2>4 DEF CxGood, CxFields, CxLone, CxMainTypes, Connector!Remote,
         Connector!Awaiting, Connector!Sending
    <3>2. CxLocTypes'
      BY <1>1, <2>1, <2>4 DEF CxGood, CxFields, CxLone, CxLocTypes, CxLocalTypes, Connector!Requests,
         Connector!Replies, Connector!Turns, Connector!Upward, Connector!Silent, Connector!OneOf,
         Connector!Remote
    <3>3. CxLocalTypes' /\ CxCommandTypes' /\ CxRemTypes'
      BY <2>1, CxFrame DEF CxGood
    <3> QED BY <3>1, <3>2, <3>3 DEF CxFields
  <2>6. Connector!Upward'
    BY <1>1, <2>1, <2>4 DEF CxGood, CxLone, CxFields, CxLocalTypes, Connector!Turns, Connector!Upward,
       Connector!Silent, Connector!OneOf, Connector!Remote, Connector!LocalThere
  <2>7. Connector!Turns'
    BY <1>1, <2>1, <2>4 DEF CxGood, CxLone, CxFields, CxLocalTypes, CxMainTypes, Connector!Turns,
       Connector!Upward, Connector!Silent, Connector!OneOf, Connector!Remote, Connector!LocalThere
  <2>8. Connector!Reached'
    BY <1>1, <2>1, <2>4 DEF CxGood, CxLone, CxFields, CxLocalTypes, CxMainTypes, Connector!Turns,
       Connector!Reached, Connector!Remote, Connector!LocalThere
  <2> QED BY <2>2, <2>5, <2>6, <2>7, <2>8 DEF CxGood
<1>2. CASE connector.pc = "WritingDescriptor" /\ Connector!LocalThere
  <2>1. /\ connector.pc = "WritingDescriptor" /\ connector'.pc = "ReadingLocalByte2"
        /\ connector'.task = connector.task /\ connector'.typed = connector.typed
        /\ connector'.taken = connector.taken /\ connector'.outcome = connector.outcome
        /\ loc'.up = Append(loc.up, "fd") /\ loc'.down = loc.down
        /\ UNCHANGED <<reader, instance, command, rem>>
    BY <1>2, CxOrder DEF CxGood, CxShapes, Connector!WriteLocal, Connector!LocalThere,
       Connector!ToLocal, Connector!Fails, Connector!Ends, Connector!Continues
  <2>2. CxShapes'
    BY <1>2, CxOrder DEF CxGood, CxShapes, Connector!WriteLocal, Connector!LocalThere,
       Connector!ToLocal, Connector!Fails, Connector!Ends, Connector!Continues
  <2>3. CxFields
    BY DEF CxGood
  <2>4. CxLone
    BY <2>3, CxOne
  <2>5. CxFields'
    <3>1. CxMainTypes'
      BY <1>2, <2>1, <2>4 DEF CxGood, CxFields, CxLone, CxMainTypes, Connector!Remote,
         Connector!Awaiting, Connector!Sending
    <3>2. CxLocTypes'
      BY <1>2, <2>1, <2>4 DEF CxGood, CxFields, CxLone, CxLocTypes, CxLocalTypes, Connector!Requests,
         Connector!Replies, Connector!Turns, Connector!Upward, Connector!Silent, Connector!OneOf,
         Connector!Remote
    <3>3. CxLocalTypes' /\ CxCommandTypes' /\ CxRemTypes'
      BY <2>1, CxFrame DEF CxGood
    <3> QED BY <3>1, <3>2, <3>3 DEF CxFields
  <2>6. Connector!Upward'
    BY <1>2, <2>1, <2>4 DEF CxGood, CxLone, CxFields, CxLocalTypes, Connector!Turns, Connector!Upward,
       Connector!Silent, Connector!OneOf, Connector!Remote, Connector!LocalThere
  <2>7. Connector!Turns'
    BY <1>2, <2>1, <2>4 DEF CxGood, CxLone, CxFields, CxLocalTypes, CxMainTypes, Connector!Turns,
       Connector!Upward, Connector!Silent, Connector!OneOf, Connector!Remote, Connector!LocalThere
  <2>8. Connector!Reached'
    BY <1>2, <2>1, <2>4 DEF CxGood, CxLone, CxFields, CxLocalTypes, CxMainTypes, Connector!Turns,
       Connector!Reached, Connector!Remote, Connector!LocalThere
  <2> QED BY <2>2, <2>5, <2>6, <2>7, <2>8 DEF CxGood
<1>3. CASE connector.pc = "WritingHello" /\ Connector!LocalThere
  <2>1. /\ connector.pc = "WritingHello" /\ connector'.pc = "ReadingLocalResponse"
        /\ connector'.task = connector.task /\ connector'.typed = connector.typed
        /\ connector'.taken = connector.taken /\ connector'.outcome = connector.outcome
        /\ loc'.up = Append(loc.up, "hello") /\ loc'.down = loc.down
        /\ UNCHANGED <<reader, instance, command, rem>>
    BY <1>3, CxOrder DEF CxGood, CxShapes, Connector!WriteLocal, Connector!LocalThere,
       Connector!ToLocal, Connector!Fails, Connector!Ends, Connector!Continues
  <2>2. CxShapes'
    BY <1>3, CxOrder DEF CxGood, CxShapes, Connector!WriteLocal, Connector!LocalThere,
       Connector!ToLocal, Connector!Fails, Connector!Ends, Connector!Continues
  <2>3. CxFields
    BY DEF CxGood
  <2>4. CxLone
    BY <2>3, CxOne
  <2>5. CxFields'
    <3>1. CxMainTypes'
      BY <1>3, <2>1, <2>4 DEF CxGood, CxFields, CxLone, CxMainTypes, Connector!Remote,
         Connector!Awaiting, Connector!Sending
    <3>2. CxLocTypes'
      BY <1>3, <2>1, <2>4 DEF CxGood, CxFields, CxLone, CxLocTypes, CxLocalTypes, Connector!Requests,
         Connector!Replies, Connector!Turns, Connector!Upward, Connector!Silent, Connector!OneOf,
         Connector!Remote
    <3>3. CxLocalTypes' /\ CxCommandTypes' /\ CxRemTypes'
      BY <2>1, CxFrame DEF CxGood
    <3> QED BY <3>1, <3>2, <3>3 DEF CxFields
  <2>6. Connector!Upward'
    BY <1>3, <2>1, <2>4 DEF CxGood, CxLone, CxFields, CxLocalTypes, Connector!Turns, Connector!Upward,
       Connector!Silent, Connector!OneOf, Connector!Remote, Connector!LocalThere
  <2>7. Connector!Turns'
    BY <1>3, <2>1, <2>4 DEF CxGood, CxLone, CxFields, CxLocalTypes, CxMainTypes, Connector!Turns,
       Connector!Upward, Connector!Silent, Connector!OneOf, Connector!Remote, Connector!LocalThere
  <2>8. Connector!Reached'
    BY <1>3, <2>1, <2>4 DEF CxGood, CxLone, CxFields, CxLocalTypes, CxMainTypes, Connector!Turns,
       Connector!Reached, Connector!Remote, Connector!LocalThere
  <2> QED BY <2>2, <2>5, <2>6, <2>7, <2>8 DEF CxGood
<1>4. CASE connector.pc = "WritingAttributes" /\ Connector!LocalThere
  <2>1. /\ connector.pc = "WritingAttributes" /\ connector'.pc = "ReadingConnId"
        /\ connector'.task = connector.task /\ connector'.typed = connector.typed
        /\ connector'.taken = connector.taken /\ connector'.outcome = connector.outcome
        /\ loc'.up = Append(loc.up, "attributes") /\ loc'.down = loc.down
        /\ UNCHANGED <<reader, instance, command, rem>>
    BY <1>4, CxOrder DEF CxGood, CxShapes, Connector!WriteLocal, Connector!LocalThere,
       Connector!ToLocal, Connector!Fails, Connector!Ends, Connector!Continues
  <2>2. CxShapes'
    BY <1>4, CxOrder DEF CxGood, CxShapes, Connector!WriteLocal, Connector!LocalThere,
       Connector!ToLocal, Connector!Fails, Connector!Ends, Connector!Continues
  <2>3. CxFields
    BY DEF CxGood
  <2>4. CxLone
    BY <2>3, CxOne
  <2>5. CxFields'
    <3>1. CxMainTypes'
      BY <1>4, <2>1, <2>4 DEF CxGood, CxFields, CxLone, CxMainTypes, Connector!Remote,
         Connector!Awaiting, Connector!Sending
    <3>2. CxLocTypes'
      BY <1>4, <2>1, <2>4 DEF CxGood, CxFields, CxLone, CxLocTypes, CxLocalTypes, Connector!Requests,
         Connector!Replies, Connector!Turns, Connector!Upward, Connector!Silent, Connector!OneOf,
         Connector!Remote
    <3>3. CxLocalTypes' /\ CxCommandTypes' /\ CxRemTypes'
      BY <2>1, CxFrame DEF CxGood
    <3> QED BY <3>1, <3>2, <3>3 DEF CxFields
  <2>6. Connector!Upward'
    BY <1>4, <2>1, <2>4 DEF CxGood, CxLone, CxFields, CxLocalTypes, Connector!Turns, Connector!Upward,
       Connector!Silent, Connector!OneOf, Connector!Remote, Connector!LocalThere
  <2>7. Connector!Turns'
    BY <1>4, <2>1, <2>4 DEF CxGood, CxLone, CxFields, CxLocalTypes, CxMainTypes, Connector!Turns,
       Connector!Upward, Connector!Silent, Connector!OneOf, Connector!Remote, Connector!LocalThere
  <2>8. Connector!Reached'
    BY <1>4, <2>1, <2>4 DEF CxGood, CxLone, CxFields, CxLocalTypes, CxMainTypes, Connector!Turns,
       Connector!Reached, Connector!Remote, Connector!LocalThere
  <2> QED BY <2>2, <2>5, <2>6, <2>7, <2>8 DEF CxGood
<1>5. CASE ~Connector!LocalThere
  <2>1. /\ connector.pc \in Connector!Sending /\ connector'.pc = "gone"
        /\ connector'.task = connector.task /\ connector'.typed = connector.typed
        /\ connector'.taken = connector.taken /\ connector'.outcome = "error"
        /\ UNCHANGED <<reader, instance, command, loc, rem>>
    BY <1>5, CxOrder DEF CxGood, CxShapes, Connector!WriteLocal, Connector!LocalThere,
       Connector!ToLocal, Connector!Fails, Connector!Ends, Connector!Continues
  <2>2. CxShapes'
    BY <1>5, CxOrder DEF CxGood, CxShapes, Connector!WriteLocal, Connector!LocalThere,
       Connector!ToLocal, Connector!Fails, Connector!Ends, Connector!Continues
  <2>3. CxFields'
    <3>1. CxMainTypes'
      BY <1>5, <2>1 DEF CxGood, CxFields, CxMainTypes, Connector!Remote, Connector!Awaiting,
         Connector!Sending
    <3>2. CxLocalTypes' /\ CxCommandTypes' /\ CxLocTypes' /\ CxRemTypes'
      BY <2>1, CxFrame DEF CxGood
    <3> QED BY <3>1, <3>2 DEF CxFields
  <2>4. Connector!Upward'
    BY <1>5, <2>1 DEF CxGood, CxFields, CxLocalTypes, Connector!Turns, Connector!Upward,
       Connector!Silent, Connector!OneOf, Connector!Remote, Connector!Awaiting, Connector!Sending,
       Connector!LocalThere
  <2>5. Connector!Turns'
    BY <1>5, <2>1 DEF CxGood, CxFields, CxLocalTypes, CxMainTypes, Connector!Turns, Connector!Upward,
       Connector!Silent, Connector!OneOf, Connector!Remote, Connector!Awaiting, Connector!Sending,
       Connector!LocalThere
  <2>6. Connector!Reached'
    BY <1>5, <2>1 DEF CxGood, CxFields, CxLocalTypes, CxMainTypes, Connector!Turns, Connector!Reached,
       Connector!Remote, Connector!Awaiting, Connector!Sending, Connector!LocalThere
  <2> QED BY <2>2, <2>3, <2>4, <2>5, <2>6 DEF CxGood
<1> QED BY <1>1, <1>2, <1>3, <1>4, <1>5, CxOrder DEF CxGood, CxShapes, CxFields, CxMainTypes,
           Connector!Awaiting, Connector!Sending, Connector!WriteLocal, Connector!LocalThere,
           Connector!ToLocal, Connector!Fails, Connector!Ends, Connector!Continues

\* Cancel keeps the invariant.
LEMMA CxCancel ==
  ASSUME Entered \in Nat, MaxTyped \in Nat, CxGood, Connector!Cancel
  PROVE  CxGood'
<1>1. CASE connector.task
  <2>1. /\ connector.pc # "gone" /\ connector'.pc = "gone" /\ connector'.task = connector.task
        /\ connector'.typed = connector.typed /\ connector'.taken = connector.taken
        /\ connector'.outcome = "canceled" /\ command'.pc = "gone"
        /\ command'.accepted = command.accepted /\ UNCHANGED <<reader, instance, loc, rem>>
    BY <1>1 DEF CxGood, CxShapes, Connector!Cancel, Connector!KThere, Connector!Ends
  <2>2. CxShapes'
    BY <1>1 DEF CxGood, CxShapes, Connector!Cancel, Connector!KThere, Connector!Ends
  <2>3. CxFields'
    <3>1. CxMainTypes'
      BY <1>1, <2>1 DEF CxGood, CxFields, CxMainTypes, Connector!Remote, Connector!Awaiting,
         Connector!Sending
    <3>2. CxCommandTypes'
      BY <1>1, <2>1 DEF CxGood, CxFields, CxCommandTypes
    <3>3. CxLocalTypes' /\ CxLocTypes' /\ CxRemTypes'
      BY <2>1, CxFrame DEF CxGood
    <3> QED BY <3>1, <3>2, <3>3 DEF CxFields
  <2>4. Connector!Upward'
    BY <1>1, <2>1 DEF CxGood, CxFields, CxLocalTypes, Connector!Turns, Connector!Upward,
       Connector!Silent, Connector!OneOf, Connector!Remote
  <2>5. Connector!Turns'
    BY <1>1, <2>1 DEF CxGood, CxFields, CxLocalTypes, CxMainTypes, Connector!Turns, Connector!Upward,
       Connector!Silent, Connector!OneOf, Connector!Remote
  <2>6. Connector!Reached'
    BY <1>1, <2>1 DEF CxGood, CxFields, CxLocalTypes, CxMainTypes, Connector!Turns, Connector!Reached,
       Connector!Remote
  <2> QED BY <2>2, <2>3, <2>4, <2>5, <2>6 DEF CxGood
<1>2. CASE ~connector.task
  <2>1. /\ connector.pc # "gone" /\ connector'.pc = "gone" /\ connector'.task = connector.task
        /\ connector'.typed = connector.typed /\ connector'.taken = connector.taken
        /\ connector'.outcome = "canceled" /\ UNCHANGED <<reader, instance, command, loc, rem>>
    BY <1>2 DEF CxGood, CxShapes, Connector!Cancel, Connector!KThere, Connector!Ends
  <2>2. CxShapes'
    BY <1>2 DEF CxGood, CxShapes, Connector!Cancel, Connector!KThere, Connector!Ends
  <2>3. CxFields'
    <3>1. CxMainTypes'
      BY <1>2, <2>1 DEF CxGood, CxFields, CxMainTypes, Connector!Remote, Connector!Awaiting,
         Connector!Sending
    <3>2. CxLocalTypes' /\ CxCommandTypes' /\ CxLocTypes' /\ CxRemTypes'
      BY <2>1, CxFrame DEF CxGood
    <3> QED BY <3>1, <3>2 DEF CxFields
  <2>4. Connector!Upward'
    BY <1>2, <2>1 DEF CxGood, CxFields, CxLocalTypes, Connector!Turns, Connector!Upward,
       Connector!Silent, Connector!OneOf, Connector!Remote
  <2>5. Connector!Turns'
    BY <1>2, <2>1 DEF CxGood, CxFields, CxLocalTypes, CxMainTypes, Connector!Turns, Connector!Upward,
       Connector!Silent, Connector!OneOf, Connector!Remote
  <2>6. Connector!Reached'
    BY <1>2, <2>1 DEF CxGood, CxFields, CxLocalTypes, CxMainTypes, Connector!Turns, Connector!Reached,
       Connector!Remote
  <2> QED BY <2>2, <2>3, <2>4, <2>5, <2>6 DEF CxGood
<1> QED BY <1>1, <1>2 DEF CxGood, CxShapes, CxFields, CxMainTypes, Connector!Awaiting,
           Connector!Sending, Connector!Cancel, Connector!KThere, Connector!Ends

\* Reader keeps the invariant.
LEMMA CxReader ==
  ASSUME Entered \in Nat, MaxTyped \in Nat, CxGood, Connector!Reader
  PROVE  CxGood'
<1>1. CASE reader = "start" /\ Connector!KThere
  <2>1. /\ connector.pc # "gone" /\ reader' = "response" /\ loc'.up = loc.up
        /\ loc'.down = Append(loc.down, "hello") /\ UNCHANGED <<connector, instance, command, rem>>
    BY <1>1 DEF CxGood, CxShapes, Connector!Reader, Connector!KThere, Connector!ToConnector,
       Connector!FromConnector
  <2>2. CxShapes'
    BY <1>1 DEF CxGood, CxShapes, Connector!Reader, Connector!KThere, Connector!ToConnector,
       Connector!FromConnector
  <2>3. CxFields
    BY DEF CxGood
  <2>4. CxLone
    BY <2>3, CxOne
  <2>5. loc.down = <<>>
    BY <1>1, <2>1, <2>4 DEF CxGood, CxLone, CxFields, CxMainTypes, CxLocalTypes, Connector!Turns,
       Connector!Remote, Connector!Awaiting, Connector!Sending, Connector!Silent, Connector!OneOf
  <2>6. CxFields'
    <3>1. CxLocalTypes'
      BY <1>1, <2>1, <2>4, <2>5 DEF CxGood, CxFields, CxLone, CxLocalTypes
    <3>2. CxLocTypes'
      BY <1>1, <2>1, <2>4, <2>5 DEF CxGood, CxFields, CxLone, CxLocTypes, CxLocalTypes,
         Connector!Requests, Connector!Replies, Connector!Turns, Connector!Upward, Connector!Silent,
         Connector!OneOf, Connector!Remote
    <3>3. CxMainTypes' /\ CxCommandTypes' /\ CxRemTypes'
      BY <2>1, CxFrame DEF CxGood
    <3> QED BY <3>1, <3>2, <3>3 DEF CxFields
  <2>7. Connector!Upward'
    BY <1>1, <2>1, <2>4, <2>5 DEF CxGood, CxLone, CxFields, CxLocalTypes, Connector!Turns,
       Connector!Upward, Connector!Silent, Connector!OneOf, Connector!Remote
  <2>8. Connector!Turns'
    BY <1>1, <2>1, <2>4, <2>5 DEF CxGood, CxLone, CxFields, CxLocalTypes, CxMainTypes, Connector!Turns,
       Connector!Upward, Connector!Silent, Connector!OneOf, Connector!Remote
  <2>9. Connector!Reached'
    BY <1>1, <2>1, <2>4, <2>5 DEF CxGood, CxLone, CxFields, CxLocalTypes, CxMainTypes, Connector!Turns,
       Connector!Reached, Connector!Remote
  <2> QED BY <2>2, <2>6, <2>7, <2>8, <2>9 DEF CxGood
<1>2. CASE reader = "start" /\ ~Connector!KThere
  <2>1. /\ connector.pc = "gone" /\ reader' = "response"
        /\ UNCHANGED <<connector, instance, command, loc, rem>>
    BY <1>2 DEF CxGood, CxShapes, Connector!Reader, Connector!KThere, Connector!ToConnector,
       Connector!FromConnector
  <2>2. CxShapes'
    BY <1>2 DEF CxGood, CxShapes, Connector!Reader, Connector!KThere, Connector!ToConnector,
       Connector!FromConnector
  <2>3. CxFields'
    <3>1. CxLocalTypes'
      BY <1>2, <2>1 DEF CxGood, CxFields, CxLocalTypes
    <3>2. CxMainTypes' /\ CxCommandTypes' /\ CxLocTypes' /\ CxRemTypes'
      BY <2>1, CxFrame DEF CxGood
    <3> QED BY <3>1, <3>2 DEF CxFields
  <2>4. Connector!Upward'
    BY <1>2, <2>1 DEF CxGood, CxFields, CxLocalTypes, Connector!Turns, Connector!Upward,
       Connector!Silent, Connector!OneOf, Connector!Remote
  <2>5. Connector!Turns'
    BY <1>2, <2>1 DEF CxGood, CxFields, CxLocalTypes, CxMainTypes, Connector!Turns, Connector!Upward,
       Connector!Silent, Connector!OneOf, Connector!Remote
  <2>6. Connector!Reached'
    BY <1>2, <2>1 DEF CxGood, CxFields, CxLocalTypes, CxMainTypes, Connector!Turns, Connector!Reached,
       Connector!Remote
  <2> QED BY <2>2, <2>3, <2>4, <2>5, <2>6 DEF CxGood
<1>3. CASE reader = "response" /\ loc.up # <<>> /\ Head(loc.up) = "serverFd" /\ Connector!KThere
  <2>1. /\ connector.pc # "gone" /\ reader' = "fd" /\ loc'.up = Tail(loc.up)
        /\ loc'.down = Append(loc.down, "byte") /\ UNCHANGED <<connector, instance, command, rem>>
    BY <1>3 DEF CxGood, CxShapes, Connector!Reader, Connector!KThere, Connector!ToConnector,
       Connector!FromConnector
  <2>2. CxShapes'
    BY <1>3 DEF CxGood, CxShapes, Connector!Reader, Connector!KThere, Connector!ToConnector,
       Connector!FromConnector
  <2>3. CxFields
    BY DEF CxGood
  <2>4. CxLone
    BY <2>3, CxOne
  <2>5. loc.down = <<>>
    BY <1>3, <2>1, <2>4 DEF CxGood, CxLone, CxFields, CxMainTypes, CxLocalTypes, Connector!Turns,
       Connector!Remote, Connector!Awaiting, Connector!Sending, Connector!Silent, Connector!OneOf
  <2>6. CxFields'
    <3>1. CxLocalTypes'
      BY <1>3, <2>1, <2>4, <2>5 DEF CxGood, CxFields, CxLone, CxLocalTypes
    <3>2. CxLocTypes'
      BY <1>3, <2>1, <2>4, <2>5 DEF CxGood, CxFields, CxLone, CxLocTypes, CxLocalTypes,
         Connector!Requests, Connector!Replies, Connector!Turns, Connector!Upward, Connector!Silent,
         Connector!OneOf, Connector!Remote
    <3>3. CxMainTypes' /\ CxCommandTypes' /\ CxRemTypes'
      BY <2>1, CxFrame DEF CxGood
    <3> QED BY <3>1, <3>2, <3>3 DEF CxFields
  <2>7. Connector!Upward'
    BY <1>3, <2>1, <2>4, <2>5 DEF CxGood, CxLone, CxFields, CxLocalTypes, Connector!Turns,
       Connector!Upward, Connector!Silent, Connector!OneOf, Connector!Remote
  <2>8. Connector!Turns'
    BY <1>3, <2>1, <2>4, <2>5 DEF CxGood, CxLone, CxFields, CxLocalTypes, CxMainTypes, Connector!Turns,
       Connector!Upward, Connector!Silent, Connector!OneOf, Connector!Remote
  <2>9. Connector!Reached'
    BY <1>3, <2>1, <2>4, <2>5 DEF CxGood, CxLone, CxFields, CxLocalTypes, CxMainTypes, Connector!Turns,
       Connector!Reached, Connector!Remote
  <2> QED BY <2>2, <2>6, <2>7, <2>8, <2>9 DEF CxGood
<1>4. CASE reader = "fd" /\ loc.up # <<>> /\ Head(loc.up) = "fd"
  <2>1. /\ reader' = "gone" /\ instance'.pc = "start" /\ instance'.response = instance.response
        /\ instance'.was = instance.was /\ loc'.up = Tail(loc.up) /\ loc'.down = loc.down
        /\ UNCHANGED <<connector, command, rem>>
    BY <1>4 DEF CxGood, CxShapes, Connector!Reader, Connector!KThere, Connector!ToConnector,
       Connector!FromConnector
  <2>2. CxShapes'
    BY <1>4 DEF CxGood, CxShapes, Connector!Reader, Connector!KThere, Connector!ToConnector,
       Connector!FromConnector
  <2>3. CxFields
    BY DEF CxGood
  <2>4. CxLone
    BY <2>3, CxOne
  <2>5. CxFields'
    <3>1. CxLocalTypes'
      BY <1>4, <2>1, <2>4 DEF CxGood, CxFields, CxLone, CxLocalTypes
    <3>2. CxLocTypes'
      BY <1>4, <2>1, <2>4 DEF CxGood, CxFields, CxLone, CxLocTypes, CxLocalTypes, Connector!Requests,
         Connector!Replies, Connector!Turns, Connector!Upward, Connector!Silent, Connector!OneOf,
         Connector!Remote
    <3>3. CxMainTypes' /\ CxCommandTypes' /\ CxRemTypes'
      BY <2>1, CxFrame DEF CxGood
    <3> QED BY <3>1, <3>2, <3>3 DEF CxFields
  <2>6. Connector!Upward'
    BY <1>4, <2>1, <2>4 DEF CxGood, CxLone, CxFields, CxLocalTypes, Connector!Turns, Connector!Upward,
       Connector!Silent, Connector!OneOf, Connector!Remote
  <2>7. Connector!Turns'
    BY <1>4, <2>1, <2>4 DEF CxGood, CxLone, CxFields, CxLocalTypes, CxMainTypes, Connector!Turns,
       Connector!Upward, Connector!Silent, Connector!OneOf, Connector!Remote
  <2>8. Connector!Reached'
    BY <1>4, <2>1, <2>4 DEF CxGood, CxLone, CxFields, CxLocalTypes, CxMainTypes, Connector!Turns,
       Connector!Reached, Connector!Remote
  <2> QED BY <2>2, <2>5, <2>6, <2>7, <2>8 DEF CxGood
<1>5. CASE /\ reader \in {"response", "fd"} /\ loc.up # <<>> /\ ~(reader = "fd" /\ Head(loc.up) = "fd")
          /\ ~(reader = "response" /\ Head(loc.up) = "serverFd" /\ Connector!KThere)
  <2>1. /\ reader' = "gone" /\ loc'.up = Tail(loc.up) /\ loc'.down = loc.down
        /\ UNCHANGED <<connector, instance, command, rem>>
    BY <1>5 DEF CxGood, CxShapes, Connector!Reader, Connector!KThere, Connector!ToConnector,
       Connector!FromConnector
  <2>2. CxShapes'
    BY <1>5 DEF CxGood, CxShapes, Connector!Reader, Connector!KThere, Connector!ToConnector,
       Connector!FromConnector
  <2>3. CxFields
    BY DEF CxGood
  <2>4. CxLone
    BY <2>3, CxOne
  <2>5. CxFields'
    <3>1. CxLocalTypes'
      BY <1>5, <2>1, <2>4 DEF CxGood, CxFields, CxLone, CxLocalTypes
    <3>2. CxLocTypes'
      BY <1>5, <2>1, <2>4 DEF CxGood, CxFields, CxLone, CxLocTypes, CxLocalTypes, Connector!Requests,
         Connector!Replies, Connector!Turns, Connector!Upward, Connector!Silent, Connector!OneOf,
         Connector!Remote
    <3>3. CxMainTypes' /\ CxCommandTypes' /\ CxRemTypes'
      BY <2>1, CxFrame DEF CxGood
    <3> QED BY <3>1, <3>2, <3>3 DEF CxFields
  <2>6. Connector!Upward'
    BY <1>5, <2>1, <2>4 DEF CxGood, CxLone, CxFields, CxLocalTypes, Connector!Turns, Connector!Upward,
       Connector!Silent, Connector!OneOf, Connector!Remote
  <2>7. Connector!Turns'
    BY <1>5, <2>1, <2>4 DEF CxGood, CxLone, CxFields, CxLocalTypes, CxMainTypes, Connector!Turns,
       Connector!Upward, Connector!Silent, Connector!OneOf, Connector!Remote
  <2>8. Connector!Reached'
    BY <1>5, <2>1, <2>4 DEF CxGood, CxLone, CxFields, CxLocalTypes, CxMainTypes, Connector!Turns,
       Connector!Reached, Connector!Remote
  <2> QED BY <2>2, <2>5, <2>6, <2>7, <2>8 DEF CxGood
<1>6. CASE reader \in {"response", "fd"} /\ loc.up = <<>>
  <2>1. /\ connector.pc = "gone" /\ reader' = "gone"
        /\ UNCHANGED <<connector, instance, command, loc, rem>>
    BY <1>6 DEF CxGood, CxShapes, Connector!Reader, Connector!KThere, Connector!ToConnector,
       Connector!FromConnector
  <2>2. CxShapes'
    BY <1>6 DEF CxGood, CxShapes, Connector!Reader, Connector!KThere, Connector!ToConnector,
       Connector!FromConnector
  <2>3. CxFields'
    <3>1. CxLocalTypes'
      BY <1>6, <2>1 DEF CxGood, CxFields, CxLocalTypes
    <3>2. CxMainTypes' /\ CxCommandTypes' /\ CxLocTypes' /\ CxRemTypes'
      BY <2>1, CxFrame DEF CxGood
    <3> QED BY <3>1, <3>2 DEF CxFields
  <2>4. Connector!Upward'
    BY <1>6, <2>1 DEF CxGood, CxFields, CxLocalTypes, Connector!Turns, Connector!Upward,
       Connector!Silent, Connector!OneOf, Connector!Remote
  <2>5. Connector!Turns'
    BY <1>6, <2>1 DEF CxGood, CxFields, CxLocalTypes, CxMainTypes, Connector!Turns, Connector!Upward,
       Connector!Silent, Connector!OneOf, Connector!Remote
  <2>6. Connector!Reached'
    BY <1>6, <2>1 DEF CxGood, CxFields, CxLocalTypes, CxMainTypes, Connector!Turns, Connector!Reached,
       Connector!Remote
  <2> QED BY <2>2, <2>3, <2>4, <2>5, <2>6 DEF CxGood
<1> QED BY <1>1, <1>2, <1>3, <1>4, <1>5, <1>6 DEF CxGood, CxShapes, CxFields, CxMainTypes,
           Connector!Awaiting, Connector!Sending, Connector!Reader, Connector!KThere,
           Connector!ToConnector, Connector!FromConnector

\* StartThread keeps the invariant.
LEMMA CxStartThread ==
  ASSUME Entered \in Nat, MaxTyped \in Nat, CxGood, Connector!StartThread
  PROVE  CxGood'
<1>1. CASE Connector!KThere
  <2>1. /\ instance.pc = "start" /\ connector.pc # "gone" /\ instance'.pc = "hello"
        /\ instance'.response = instance.response /\ instance'.was = instance.was
        /\ loc'.up = loc.up /\ loc'.down = Append(loc.down, "byte")
        /\ UNCHANGED <<connector, reader, command, rem>>
    BY <1>1 DEF CxGood, CxShapes, Connector!StartThread, Connector!KThere, Connector!ToConnector,
       Connector!InstanceGoes
  <2>2. CxShapes'
    BY <1>1 DEF CxGood, CxShapes, Connector!StartThread, Connector!KThere, Connector!ToConnector,
       Connector!InstanceGoes
  <2>3. CxFields
    BY DEF CxGood
  <2>4. CxLone
    BY <2>3, CxOne
  <2>5. loc.down = <<>>
    BY <1>1, <2>1, <2>4 DEF CxGood, CxLone, CxFields, CxMainTypes, CxLocalTypes, Connector!Turns,
       Connector!Remote, Connector!Awaiting, Connector!Sending, Connector!Silent, Connector!OneOf
  <2>6. CxFields'
    <3>1. CxLocalTypes'
      BY <1>1, <2>1, <2>4, <2>5 DEF CxGood, CxFields, CxLone, CxLocalTypes
    <3>2. CxLocTypes'
      BY <1>1, <2>1, <2>4, <2>5 DEF CxGood, CxFields, CxLone, CxLocTypes, CxLocalTypes,
         Connector!Requests, Connector!Replies, Connector!Turns, Connector!Upward, Connector!Silent,
         Connector!OneOf, Connector!Remote
    <3>3. CxMainTypes' /\ CxCommandTypes' /\ CxRemTypes'
      BY <2>1, CxFrame DEF CxGood
    <3> QED BY <3>1, <3>2, <3>3 DEF CxFields
  <2>7. Connector!Upward'
    BY <1>1, <2>1, <2>4, <2>5 DEF CxGood, CxLone, CxFields, CxLocalTypes, Connector!Turns,
       Connector!Upward, Connector!Silent, Connector!OneOf, Connector!Remote
  <2>8. Connector!Turns'
    BY <1>1, <2>1, <2>4, <2>5 DEF CxGood, CxLone, CxFields, CxLocalTypes, CxMainTypes, Connector!Turns,
       Connector!Upward, Connector!Silent, Connector!OneOf, Connector!Remote
  <2>9. Connector!Reached'
    BY <1>1, <2>1, <2>4, <2>5 DEF CxGood, CxLone, CxFields, CxLocalTypes, CxMainTypes, Connector!Turns,
       Connector!Reached, Connector!Remote
  <2> QED BY <2>2, <2>6, <2>7, <2>8, <2>9 DEF CxGood
<1>2. CASE ~Connector!KThere
  <2>1. /\ instance.pc = "start" /\ connector.pc = "gone" /\ instance'.pc = "gone"
        /\ instance'.response = instance.response /\ instance'.was = instance.was
        /\ UNCHANGED <<connector, reader, command, loc, rem>>
    BY <1>2 DEF CxGood, CxShapes, Connector!StartThread, Connector!KThere, Connector!ToConnector,
       Connector!InstanceGoes
  <2>2. CxShapes'
    BY <1>2 DEF CxGood, CxShapes, Connector!StartThread, Connector!KThere, Connector!ToConnector,
       Connector!InstanceGoes
  <2>3. CxFields'
    <3>1. CxLocalTypes'
      BY <1>2, <2>1 DEF CxGood, CxFields, CxLocalTypes
    <3>2. CxMainTypes' /\ CxCommandTypes' /\ CxLocTypes' /\ CxRemTypes'
      BY <2>1, CxFrame DEF CxGood
    <3> QED BY <3>1, <3>2 DEF CxFields
  <2>4. Connector!Upward'
    BY <1>2, <2>1 DEF CxGood, CxFields, CxLocalTypes, Connector!Turns, Connector!Upward,
       Connector!Silent, Connector!OneOf, Connector!Remote
  <2>5. Connector!Turns'
    BY <1>2, <2>1 DEF CxGood, CxFields, CxLocalTypes, CxMainTypes, Connector!Turns, Connector!Upward,
       Connector!Silent, Connector!OneOf, Connector!Remote
  <2>6. Connector!Reached'
    BY <1>2, <2>1 DEF CxGood, CxFields, CxLocalTypes, CxMainTypes, Connector!Turns, Connector!Reached,
       Connector!Remote
  <2> QED BY <2>2, <2>3, <2>4, <2>5, <2>6 DEF CxGood
<1> QED BY <1>1, <1>2 DEF CxGood, CxShapes, CxFields, CxMainTypes, Connector!Awaiting,
           Connector!Sending, Connector!StartThread, Connector!KThere, Connector!ToConnector,
           Connector!InstanceGoes

\* HandshakeRead keeps the invariant.
LEMMA CxHandshakeRead ==
  ASSUME Entered \in Nat, MaxTyped \in Nat, CxGood, Connector!HandshakeRead
  PROVE  CxGood'
<1>0. PICK answer \in {"accept", "reject"} :
        IF Head(loc.up) = "hello" /\ Connector!KThere
        THEN /\ loc' = [up |-> Tail(loc.up), down |-> Append(loc.down, answer)]
             /\ instance' = [pc |-> "reply", response |-> answer, was |-> FALSE]
        ELSE Connector!InstanceGoes /\ Connector!FromConnector
  BY DEF Connector!HandshakeRead
<1>1. CASE Head(loc.up) = "hello" /\ Connector!KThere
  <2>1. /\ instance.pc = "hello" /\ loc.up # <<>> /\ connector.pc # "gone"
        /\ instance'.pc = "reply" /\ instance'.response = answer /\ instance'.was = FALSE
        /\ loc'.up = Tail(loc.up) /\ loc'.down = Append(loc.down, answer)
        /\ UNCHANGED <<connector, reader, command, rem>>
    BY <1>1, <1>0 DEF CxGood, CxShapes, Connector!HandshakeRead, Connector!KThere,
       Connector!InstanceGoes, Connector!FromConnector
  <2>2. CxShapes'
    BY <1>1, <1>0 DEF CxGood, CxShapes, Connector!HandshakeRead, Connector!KThere,
       Connector!InstanceGoes, Connector!FromConnector
  <2>3. CxFields
    BY DEF CxGood
  <2>4. CxLone
    BY <2>3, CxOne
  <2>5. loc.down = <<>>
    BY <1>1, <1>0, <2>1, <2>4 DEF CxGood, CxLone, CxFields, CxMainTypes, CxLocalTypes, Connector!Turns,
       Connector!Remote, Connector!Awaiting, Connector!Sending, Connector!Silent, Connector!OneOf
  <2>6. CxFields'
    <3>1. CxLocalTypes'
      BY <1>1, <1>0, <2>1, <2>4, <2>5 DEF CxGood, CxFields, CxLone, CxLocalTypes
    <3>2. CxLocTypes'
      BY <1>1, <1>0, <2>1, <2>4, <2>5 DEF CxGood, CxFields, CxLone, CxLocTypes, CxLocalTypes,
         Connector!Requests, Connector!Replies, Connector!Turns, Connector!Upward, Connector!Silent,
         Connector!OneOf, Connector!Remote
    <3>3. CxMainTypes' /\ CxCommandTypes' /\ CxRemTypes'
      BY <2>1, CxFrame DEF CxGood
    <3> QED BY <3>1, <3>2, <3>3 DEF CxFields
  <2>7. Connector!Upward'
    BY <1>1, <1>0, <2>1, <2>4, <2>5 DEF CxGood, CxLone, CxFields, CxLocalTypes, Connector!Turns,
       Connector!Upward, Connector!Silent, Connector!OneOf, Connector!Remote
  <2>8. Connector!Turns'
    BY <1>1, <1>0, <2>1, <2>4, <2>5 DEF CxGood, CxLone, CxFields, CxLocalTypes, CxMainTypes,
       Connector!Turns, Connector!Upward, Connector!Silent, Connector!OneOf, Connector!Remote
  <2>9. Connector!Reached'
    BY <1>1, <1>0, <2>1, <2>4, <2>5 DEF CxGood, CxLone, CxFields, CxLocalTypes, CxMainTypes,
       Connector!Turns, Connector!Reached, Connector!Remote
  <2> QED BY <2>2, <2>6, <2>7, <2>8, <2>9 DEF CxGood
<1>2. CASE ~(Head(loc.up) = "hello" /\ Connector!KThere)
  <2>1. /\ instance.pc = "hello" /\ loc.up # <<>> /\ instance'.pc = "gone"
        /\ instance'.response = instance.response /\ instance'.was = instance.was
        /\ loc'.up = Tail(loc.up) /\ loc'.down = loc.down
        /\ UNCHANGED <<connector, reader, command, rem>>
    BY <1>2, <1>0 DEF CxGood, CxShapes, Connector!HandshakeRead, Connector!KThere,
       Connector!InstanceGoes, Connector!FromConnector
  <2>2. CxShapes'
    BY <1>2, <1>0 DEF CxGood, CxShapes, Connector!HandshakeRead, Connector!KThere,
       Connector!InstanceGoes, Connector!FromConnector
  <2>3. CxFields
    BY DEF CxGood
  <2>4. CxLone
    BY <2>3, CxOne
  <2>5. CxFields'
    <3>1. CxLocalTypes'
      BY <1>2, <1>0, <2>1, <2>4 DEF CxGood, CxFields, CxLone, CxLocalTypes
    <3>2. CxLocTypes'
      BY <1>2, <1>0, <2>1, <2>4 DEF CxGood, CxFields, CxLone, CxLocTypes, CxLocalTypes,
         Connector!Requests, Connector!Replies, Connector!Turns, Connector!Upward, Connector!Silent,
         Connector!OneOf, Connector!Remote
    <3>3. CxMainTypes' /\ CxCommandTypes' /\ CxRemTypes'
      BY <2>1, CxFrame DEF CxGood
    <3> QED BY <3>1, <3>2, <3>3 DEF CxFields
  <2>6. Connector!Upward'
    BY <1>2, <1>0, <2>1, <2>4 DEF CxGood, CxLone, CxFields, CxLocalTypes, Connector!Turns,
       Connector!Upward, Connector!Silent, Connector!OneOf, Connector!Remote
  <2>7. Connector!Turns'
    BY <1>2, <1>0, <2>1, <2>4 DEF CxGood, CxLone, CxFields, CxLocalTypes, CxMainTypes, Connector!Turns,
       Connector!Upward, Connector!Silent, Connector!OneOf, Connector!Remote
  <2>8. Connector!Reached'
    BY <1>2, <1>0, <2>1, <2>4 DEF CxGood, CxLone, CxFields, CxLocalTypes, CxMainTypes, Connector!Turns,
       Connector!Reached, Connector!Remote
  <2> QED BY <2>2, <2>5, <2>6, <2>7, <2>8 DEF CxGood
<1> QED BY <1>0, <1>1, <1>2 DEF CxGood, CxShapes, CxFields, CxMainTypes, Connector!Awaiting,
           Connector!Sending, Connector!HandshakeRead, Connector!KThere, Connector!InstanceGoes,
           Connector!FromConnector

\* WriteResponse keeps the invariant.
LEMMA CxWriteResponse ==
  ASSUME Entered \in Nat, MaxTyped \in Nat, CxGood, Connector!WriteResponse
  PROVE  CxGood'
<1>1. CASE Connector!RemoteThere /\ instance.response = "accept"
  <2>1. /\ instance.pc = "reply" /\ instance'.pc = "attributes"
        /\ instance'.response = instance.response /\ instance'.was = instance.was
        /\ rem'.up = Append(rem.up, instance.response) /\ rem'.down = rem.down
        /\ UNCHANGED <<connector, reader, command, loc>>
    BY <1>1 DEF CxGood, CxShapes, Connector!WriteResponse, Connector!RemoteThere, Connector!InstanceGoes
  <2>2. CxShapes'
    BY <1>1 DEF CxGood, CxShapes, Connector!WriteResponse, Connector!RemoteThere, Connector!InstanceGoes
  <2>3. rem.up \in Seq({"typed", "accept", "reject"}) /\ instance.response \in {"typed", "accept", "reject"}
    BY <2>1 DEF CxGood, CxFields, CxRemTypes, CxLocalTypes, Connector!Reached
  <2>4. /\ Append(rem.up, instance.response) \in Seq({"typed", "accept", "reject"})
        /\ Append(rem.up, instance.response) # <<>>
        /\ Connector!ToSet(Append(rem.up, instance.response)) = Connector!ToSet(rem.up) \cup {instance.response}
    BY <2>3, CxAppending
  <2>5. CxFields'
    <3>1. CxLocalTypes'
      BY <1>1, <2>1, <2>4 DEF CxGood, CxFields, CxLocalTypes
    <3>2. CxRemTypes'
      BY <1>1, <2>1, <2>4 DEF CxGood, CxFields, CxRemTypes
    <3>3. CxMainTypes' /\ CxCommandTypes' /\ CxLocTypes'
      BY <2>1, CxFrame DEF CxGood
    <3> QED BY <3>1, <3>2, <3>3 DEF CxFields
  <2>6. Connector!Upward'
    BY <1>1, <2>1, <2>4 DEF CxGood, CxFields, CxLocalTypes, Connector!Turns, Connector!Upward,
       Connector!Silent, Connector!OneOf, Connector!Remote, Connector!RemoteThere
  <2>7. Connector!Turns'
    BY <1>1, <2>1, <2>4 DEF CxGood, CxFields, CxLocalTypes, CxMainTypes, Connector!Turns,
       Connector!Upward, Connector!Silent, Connector!OneOf, Connector!Remote, Connector!RemoteThere
  <2>8. Connector!Reached'
    BY <1>1, <2>1, <2>4 DEF CxGood, CxFields, CxLocalTypes, CxMainTypes, Connector!Turns,
       Connector!Reached, Connector!Remote, Connector!RemoteThere
  <2> QED BY <2>2, <2>5, <2>6, <2>7, <2>8 DEF CxGood
<1>2. CASE Connector!RemoteThere /\ instance.response # "accept"
  <2>1. /\ instance.pc = "reply" /\ instance'.pc = "gone" /\ instance'.response = instance.response
        /\ instance'.was = instance.was /\ rem'.up = Append(rem.up, instance.response)
        /\ rem'.down = rem.down /\ UNCHANGED <<connector, reader, command, loc>>
    BY <1>2 DEF CxGood, CxShapes, Connector!WriteResponse, Connector!RemoteThere, Connector!InstanceGoes
  <2>2. CxShapes'
    BY <1>2 DEF CxGood, CxShapes, Connector!WriteResponse, Connector!RemoteThere, Connector!InstanceGoes
  <2>3. rem.up \in Seq({"typed", "accept", "reject"}) /\ instance.response \in {"typed", "accept", "reject"}
    BY <2>1 DEF CxGood, CxFields, CxRemTypes, CxLocalTypes, Connector!Reached
  <2>4. /\ Append(rem.up, instance.response) \in Seq({"typed", "accept", "reject"})
        /\ Append(rem.up, instance.response) # <<>>
        /\ Connector!ToSet(Append(rem.up, instance.response)) = Connector!ToSet(rem.up) \cup {instance.response}
    BY <2>3, CxAppending
  <2>5. CxFields'
    <3>1. CxLocalTypes'
      BY <1>2, <2>1, <2>4 DEF CxGood, CxFields, CxLocalTypes
    <3>2. CxRemTypes'
      BY <1>2, <2>1, <2>4 DEF CxGood, CxFields, CxRemTypes
    <3>3. CxMainTypes' /\ CxCommandTypes' /\ CxLocTypes'
      BY <2>1, CxFrame DEF CxGood
    <3> QED BY <3>1, <3>2, <3>3 DEF CxFields
  <2>6. Connector!Upward'
    BY <1>2, <2>1, <2>4 DEF CxGood, CxFields, CxLocalTypes, Connector!Turns, Connector!Upward,
       Connector!Silent, Connector!OneOf, Connector!Remote, Connector!RemoteThere
  <2>7. Connector!Turns'
    BY <1>2, <2>1, <2>4 DEF CxGood, CxFields, CxLocalTypes, CxMainTypes, Connector!Turns,
       Connector!Upward, Connector!Silent, Connector!OneOf, Connector!Remote, Connector!RemoteThere
  <2>8. Connector!Reached'
    BY <1>2, <2>1, <2>4 DEF CxGood, CxFields, CxLocalTypes, CxMainTypes, Connector!Turns,
       Connector!Reached, Connector!Remote, Connector!RemoteThere
  <2> QED BY <2>2, <2>5, <2>6, <2>7, <2>8 DEF CxGood
<1>3. CASE ~Connector!RemoteThere
  <2>1. /\ instance.pc = "reply" /\ instance'.pc = "gone" /\ instance'.response = instance.response
        /\ instance'.was = instance.was /\ UNCHANGED <<connector, reader, command, loc, rem>>
    BY <1>3 DEF CxGood, CxShapes, Connector!WriteResponse, Connector!RemoteThere, Connector!InstanceGoes
  <2>2. CxShapes'
    BY <1>3 DEF CxGood, CxShapes, Connector!WriteResponse, Connector!RemoteThere, Connector!InstanceGoes
  <2>3. CxFields'
    <3>1. CxLocalTypes'
      BY <1>3, <2>1 DEF CxGood, CxFields, CxLocalTypes
    <3>2. CxMainTypes' /\ CxCommandTypes' /\ CxLocTypes' /\ CxRemTypes'
      BY <2>1, CxFrame DEF CxGood
    <3> QED BY <3>1, <3>2 DEF CxFields
  <2>4. Connector!Upward'
    BY <1>3, <2>1 DEF CxGood, CxFields, CxLocalTypes, Connector!Turns, Connector!Upward,
       Connector!Silent, Connector!OneOf, Connector!Remote, Connector!RemoteThere
  <2>5. Connector!Turns'
    BY <1>3, <2>1 DEF CxGood, CxFields, CxLocalTypes, CxMainTypes, Connector!Turns, Connector!Upward,
       Connector!Silent, Connector!OneOf, Connector!Remote, Connector!RemoteThere
  <2>6. Connector!Reached'
    BY <1>3, <2>1 DEF CxGood, CxFields, CxLocalTypes, CxMainTypes, Connector!Turns, Connector!Reached,
       Connector!Remote, Connector!RemoteThere
  <2> QED BY <2>2, <2>3, <2>4, <2>5, <2>6 DEF CxGood
<1> QED BY <1>1, <1>2, <1>3 DEF CxGood, CxShapes, CxFields, CxMainTypes, Connector!Awaiting,
           Connector!Sending, Connector!WriteResponse, Connector!RemoteThere, Connector!InstanceGoes

\* Finish keeps the invariant.
LEMMA CxFinish ==
  ASSUME Entered \in Nat, MaxTyped \in Nat, CxGood, Connector!Finish
  PROVE  CxGood'
<1>1. CASE /\ Connector!KThere /\ loc' = [up |-> Tail(loc.up), down |-> Append(loc.down, "id")]
          /\ instance' = [instance EXCEPT !.pc = "connected", !.was = TRUE]
  <2>1. /\ instance.pc = "attributes" /\ loc.up # <<>> /\ connector.pc # "gone"
        /\ instance'.pc = "connected" /\ instance'.response = instance.response
        /\ instance'.was = TRUE /\ loc'.up = Tail(loc.up) /\ loc'.down = Append(loc.down, "id")
        /\ UNCHANGED <<connector, reader, command, rem>>
    BY <1>1 DEF CxGood, CxShapes, Connector!Finish, Connector!KThere, Connector!InstanceGoes,
       Connector!FromConnector
  <2>2. CxShapes'
    BY <1>1 DEF CxGood, CxShapes, Connector!Finish, Connector!KThere, Connector!InstanceGoes,
       Connector!FromConnector
  <2>3. CxFields
    BY DEF CxGood
  <2>4. CxLone
    BY <2>3, CxOne
  <2>5. loc.down = <<>>
    BY <1>1, <2>1, <2>4 DEF CxGood, CxLone, CxFields, CxMainTypes, CxLocalTypes, Connector!Turns,
       Connector!Remote, Connector!Awaiting, Connector!Sending, Connector!Silent, Connector!OneOf
  <2>6. CxFields'
    <3>1. CxLocalTypes'
      BY <1>1, <2>1, <2>4, <2>5 DEF CxGood, CxFields, CxLone, CxLocalTypes
    <3>2. CxLocTypes'
      BY <1>1, <2>1, <2>4, <2>5 DEF CxGood, CxFields, CxLone, CxLocTypes, CxLocalTypes,
         Connector!Requests, Connector!Replies, Connector!Turns, Connector!Upward, Connector!Silent,
         Connector!OneOf, Connector!Remote
    <3>3. CxMainTypes' /\ CxCommandTypes' /\ CxRemTypes'
      BY <2>1, CxFrame DEF CxGood
    <3> QED BY <3>1, <3>2, <3>3 DEF CxFields
  <2>7. Connector!Upward'
    BY <1>1, <2>1, <2>4, <2>5 DEF CxGood, CxLone, CxFields, CxLocalTypes, Connector!Turns,
       Connector!Upward, Connector!Silent, Connector!OneOf, Connector!Remote
  <2>8. Connector!Turns'
    BY <1>1, <2>1, <2>4, <2>5 DEF CxGood, CxLone, CxFields, CxLocalTypes, CxMainTypes, Connector!Turns,
       Connector!Upward, Connector!Silent, Connector!OneOf, Connector!Remote
  <2>9. Connector!Reached'
    BY <1>1, <2>1, <2>4, <2>5 DEF CxGood, CxLone, CxFields, CxLocalTypes, CxMainTypes, Connector!Turns,
       Connector!Reached, Connector!Remote
  <2> QED BY <2>2, <2>6, <2>7, <2>8, <2>9 DEF CxGood
<1>2. CASE ~Connector!KThere
  <2>1. /\ instance.pc = "attributes" /\ loc.up # <<>> /\ connector.pc = "gone"
        /\ instance'.pc = "gone" /\ instance'.response = instance.response
        /\ instance'.was = instance.was /\ loc'.up = Tail(loc.up) /\ loc'.down = loc.down
        /\ UNCHANGED <<connector, reader, command, rem>>
    BY <1>2 DEF CxGood, CxShapes, Connector!Finish, Connector!KThere, Connector!InstanceGoes,
       Connector!FromConnector
  <2>2. CxShapes'
    BY <1>2 DEF CxGood, CxShapes, Connector!Finish, Connector!KThere, Connector!InstanceGoes,
       Connector!FromConnector
  <2>3. CxFields
    BY DEF CxGood
  <2>4. CxLone
    BY <2>3, CxOne
  <2>5. CxFields'
    <3>1. CxLocalTypes'
      BY <1>2, <2>1, <2>4 DEF CxGood, CxFields, CxLone, CxLocalTypes
    <3>2. CxLocTypes'
      BY <1>2, <2>1, <2>4 DEF CxGood, CxFields, CxLone, CxLocTypes, CxLocalTypes, Connector!Requests,
         Connector!Replies, Connector!Turns, Connector!Upward, Connector!Silent, Connector!OneOf,
         Connector!Remote
    <3>3. CxMainTypes' /\ CxCommandTypes' /\ CxRemTypes'
      BY <2>1, CxFrame DEF CxGood
    <3> QED BY <3>1, <3>2, <3>3 DEF CxFields
  <2>6. Connector!Upward'
    BY <1>2, <2>1, <2>4 DEF CxGood, CxLone, CxFields, CxLocalTypes, Connector!Turns, Connector!Upward,
       Connector!Silent, Connector!OneOf, Connector!Remote
  <2>7. Connector!Turns'
    BY <1>2, <2>1, <2>4 DEF CxGood, CxLone, CxFields, CxLocalTypes, CxMainTypes, Connector!Turns,
       Connector!Upward, Connector!Silent, Connector!OneOf, Connector!Remote
  <2>8. Connector!Reached'
    BY <1>2, <2>1, <2>4 DEF CxGood, CxLone, CxFields, CxLocalTypes, CxMainTypes, Connector!Turns,
       Connector!Reached, Connector!Remote
  <2> QED BY <2>2, <2>5, <2>6, <2>7, <2>8 DEF CxGood
<1> QED BY <1>1, <1>2 DEF CxGood, CxShapes, CxFields, CxMainTypes, Connector!Awaiting,
           Connector!Sending, Connector!Finish, Connector!KThere, Connector!InstanceGoes,
           Connector!FromConnector

\* InstanceEof keeps the invariant.
LEMMA CxInstanceEof ==
  ASSUME Entered \in Nat, MaxTyped \in Nat, CxGood, Connector!InstanceEof
  PROVE  CxGood'
<1>1. /\ instance.pc \in {"hello", "attributes", "connected"}
      /\ (instance.pc = "connected" \/ connector.pc = "gone") /\ instance'.pc = "gone"
      /\ instance'.response = instance.response /\ instance'.was = instance.was
      /\ UNCHANGED <<connector, reader, command, loc, rem>>
  BY DEF CxGood, CxShapes, Connector!InstanceEof, Connector!KThere, Connector!InstanceGoes,
     Connector!RemoteThere
<1>2. CxShapes'
  BY DEF CxGood, CxShapes, Connector!InstanceEof, Connector!KThere, Connector!InstanceGoes,
     Connector!RemoteThere
<1>3. CxFields'
  <2>1. CxLocalTypes'
    BY <1>1 DEF CxGood, CxFields, CxLocalTypes
  <2>2. CxMainTypes' /\ CxCommandTypes' /\ CxLocTypes' /\ CxRemTypes'
    BY <1>1, CxFrame DEF CxGood
  <2> QED BY <2>1, <2>2 DEF CxFields
<1>4. Connector!Upward'
  BY <1>1 DEF CxGood, CxFields, CxLocalTypes, Connector!Turns, Connector!Upward, Connector!Silent,
     Connector!OneOf, Connector!Remote
<1>5. Connector!Turns'
  BY <1>1 DEF CxGood, CxFields, CxLocalTypes, CxMainTypes, Connector!Turns, Connector!Upward,
     Connector!Silent, Connector!OneOf, Connector!Remote
<1>6. Connector!Reached'
  BY <1>1 DEF CxGood, CxFields, CxLocalTypes, CxMainTypes, Connector!Turns, Connector!Reached,
     Connector!Remote
<1> QED BY <1>2, <1>3, <1>4, <1>5, <1>6 DEF CxGood

\* LocalCloses keeps the invariant.
LEMMA CxLocalCloses ==
  ASSUME Entered \in Nat, MaxTyped \in Nat, CxGood, Connector!LocalCloses
  PROVE  CxGood'
<1>1. CASE reader \notin {"none", "gone"} /\ reader' = "gone" /\ UNCHANGED instance
  <2>1. /\ reader' = "gone" /\ UNCHANGED <<connector, instance, command, loc, rem>>
    BY <1>1 DEF CxGood, CxShapes, Connector!LocalCloses, Connector!InstanceGoes
  <2>2. CxShapes'
    BY <1>1 DEF CxGood, CxShapes, Connector!LocalCloses, Connector!InstanceGoes
  <2>3. CxFields'
    <3>1. CxLocalTypes'
      BY <1>1, <2>1 DEF CxGood, CxFields, CxLocalTypes
    <3>2. CxMainTypes' /\ CxCommandTypes' /\ CxLocTypes' /\ CxRemTypes'
      BY <2>1, CxFrame DEF CxGood
    <3> QED BY <3>1, <3>2 DEF CxFields
  <2>4. Connector!Upward'
    BY <1>1, <2>1 DEF CxGood, CxFields, CxLocalTypes, Connector!Turns, Connector!Upward,
       Connector!Silent, Connector!OneOf, Connector!Remote
  <2>5. Connector!Turns'
    BY <1>1, <2>1 DEF CxGood, CxFields, CxLocalTypes, CxMainTypes, Connector!Turns, Connector!Upward,
       Connector!Silent, Connector!OneOf, Connector!Remote
  <2>6. Connector!Reached'
    BY <1>1, <2>1 DEF CxGood, CxFields, CxLocalTypes, CxMainTypes, Connector!Turns, Connector!Reached,
       Connector!Remote
  <2> QED BY <2>2, <2>3, <2>4, <2>5, <2>6 DEF CxGood
<1>2. CASE instance.pc \notin {"none", "gone"} /\ Connector!InstanceGoes /\ UNCHANGED reader
  <2>1. /\ instance'.pc = "gone" /\ instance'.response = instance.response
        /\ instance'.was = instance.was /\ UNCHANGED <<connector, reader, command, loc, rem>>
    BY <1>2 DEF CxGood, CxShapes, Connector!LocalCloses, Connector!InstanceGoes
  <2>2. CxShapes'
    BY <1>2 DEF CxGood, CxShapes, Connector!LocalCloses, Connector!InstanceGoes
  <2>3. CxFields'
    <3>1. CxLocalTypes'
      BY <1>2, <2>1 DEF CxGood, CxFields, CxLocalTypes
    <3>2. CxMainTypes' /\ CxCommandTypes' /\ CxLocTypes' /\ CxRemTypes'
      BY <2>1, CxFrame DEF CxGood
    <3> QED BY <3>1, <3>2 DEF CxFields
  <2>4. Connector!Upward'
    BY <1>2, <2>1 DEF CxGood, CxFields, CxLocalTypes, Connector!Turns, Connector!Upward,
       Connector!Silent, Connector!OneOf, Connector!Remote
  <2>5. Connector!Turns'
    BY <1>2, <2>1 DEF CxGood, CxFields, CxLocalTypes, CxMainTypes, Connector!Turns, Connector!Upward,
       Connector!Silent, Connector!OneOf, Connector!Remote
  <2>6. Connector!Reached'
    BY <1>2, <2>1 DEF CxGood, CxFields, CxLocalTypes, CxMainTypes, Connector!Turns, Connector!Reached,
       Connector!Remote
  <2> QED BY <2>2, <2>3, <2>4, <2>5, <2>6 DEF CxGood
<1> QED BY <1>1, <1>2 DEF CxGood, CxShapes, CxFields, CxMainTypes, Connector!Awaiting,
           Connector!Sending, Connector!LocalCloses, Connector!InstanceGoes

\* CommandAsks keeps the invariant.
LEMMA CxCommandAsks ==
  ASSUME Entered \in Nat, MaxTyped \in Nat, CxGood, Connector!CommandAsks
  PROVE  CxGood'
<1>1. /\ command.pc = "start" /\ command'.pc = "asks" /\ command'.accepted = command.accepted
      /\ rem'.up = rem.up /\ rem'.down = Append(rem.down, "prompt")
      /\ UNCHANGED <<connector, reader, instance, loc>>
  BY DEF CxGood, CxShapes, Connector!CommandAsks
<1>2. CxShapes'
  BY DEF CxGood, CxShapes, Connector!CommandAsks
<1>3. rem.down \in Seq({"prompt", "hello"}) /\ "prompt" \in {"prompt", "hello"}
  BY <1>1 DEF CxGood, CxFields, CxRemTypes, CxLocalTypes, Connector!Reached
<1>4. /\ Append(rem.down, "prompt") \in Seq({"prompt", "hello"}) /\ Append(rem.down, "prompt") # <<>>
      /\ Connector!ToSet(Append(rem.down, "prompt")) = Connector!ToSet(rem.down) \cup {"prompt"}
  BY <1>3, CxAppending
<1>5. CxFields'
  <2>1. CxCommandTypes'
    BY <1>1, <1>4 DEF CxGood, CxFields, CxCommandTypes
  <2>2. CxRemTypes'
    BY <1>1, <1>4 DEF CxGood, CxFields, CxRemTypes
  <2>3. CxMainTypes' /\ CxLocalTypes' /\ CxLocTypes'
    BY <1>1, CxFrame DEF CxGood
  <2> QED BY <2>1, <2>2, <2>3 DEF CxFields
<1>6. Connector!Upward'
  BY <1>1, <1>4 DEF CxGood, CxFields, CxLocalTypes, Connector!Turns, Connector!Upward, Connector!Silent,
     Connector!OneOf, Connector!Remote
<1>7. Connector!Turns'
  BY <1>1, <1>4 DEF CxGood, CxFields, CxLocalTypes, CxMainTypes, Connector!Turns, Connector!Upward,
     Connector!Silent, Connector!OneOf, Connector!Remote
<1>8. Connector!Reached'
  BY <1>1, <1>4 DEF CxGood, CxFields, CxLocalTypes, CxMainTypes, Connector!Turns, Connector!Reached,
     Connector!Remote
<1> QED BY <1>2, <1>5, <1>6, <1>7, <1>8 DEF CxGood

\* CommandTakes keeps the invariant.
LEMMA CxCommandTakes ==
  ASSUME Entered \in Nat, MaxTyped \in Nat, CxGood, Connector!CommandTakes
  PROVE  CxGood'
<1>1. /\ command.pc = "asks" /\ rem.up # <<>> /\ command'.pc = "start"
      /\ command'.accepted = command.accepted /\ rem'.up = Tail(rem.up) /\ rem'.down = rem.down
      /\ UNCHANGED <<connector, reader, instance, loc>>
  BY DEF CxGood, CxShapes, Connector!CommandTakes
<1>2. CxShapes'
  BY DEF CxGood, CxShapes, Connector!CommandTakes
<1>3. rem.up \in Seq({"typed", "accept", "reject"}) /\ rem.up # <<>>
  BY <1>1 DEF CxGood, CxFields, CxRemTypes
<1>4. /\ Tail(rem.up) \in Seq({"typed", "accept", "reject"})
      /\ Head(rem.up) \in {"typed", "accept", "reject"}
      /\ Head(rem.up) \in Connector!ToSet(rem.up)
      /\ Connector!ToSet(Tail(rem.up)) \subseteq Connector!ToSet(rem.up)
  BY <1>3, CxTaking
<1>5. CxFields'
  <2>1. CxCommandTypes'
    BY <1>1, <1>4 DEF CxGood, CxFields, CxCommandTypes
  <2>2. CxRemTypes'
    BY <1>1, <1>4 DEF CxGood, CxFields, CxRemTypes
  <2>3. CxMainTypes' /\ CxLocalTypes' /\ CxLocTypes'
    BY <1>1, CxFrame DEF CxGood
  <2> QED BY <2>1, <2>2, <2>3 DEF CxFields
<1>6. Connector!Upward'
  BY <1>1, <1>4 DEF CxGood, CxFields, CxLocalTypes, Connector!Turns, Connector!Upward, Connector!Silent,
     Connector!OneOf, Connector!Remote
<1>7. Connector!Turns'
  BY <1>1, <1>4 DEF CxGood, CxFields, CxLocalTypes, CxMainTypes, Connector!Turns, Connector!Upward,
     Connector!Silent, Connector!OneOf, Connector!Remote
<1>8. Connector!Reached'
  BY <1>1, <1>4 DEF CxGood, CxFields, CxLocalTypes, CxMainTypes, Connector!Turns, Connector!Reached,
     Connector!Remote
<1> QED BY <1>2, <1>5, <1>6, <1>7, <1>8 DEF CxGood

\* RemoteHello keeps the invariant.
LEMMA CxRemoteHello ==
  ASSUME Entered \in Nat, MaxTyped \in Nat, CxGood, Connector!RemoteHello
  PROVE  CxGood'
<1>1. /\ command.pc = "start" /\ command'.pc = "response" /\ command'.accepted = command.accepted
      /\ rem'.up = rem.up /\ rem'.down = Append(rem.down, "hello")
      /\ UNCHANGED <<connector, reader, instance, loc>>
  BY DEF CxGood, CxShapes, Connector!RemoteHello
<1>2. CxShapes'
  BY DEF CxGood, CxShapes, Connector!RemoteHello
<1>3. rem.down \in Seq({"prompt", "hello"}) /\ "hello" \in {"prompt", "hello"}
  BY <1>1 DEF CxGood, CxFields, CxRemTypes, CxLocalTypes, Connector!Reached
<1>4. /\ Append(rem.down, "hello") \in Seq({"prompt", "hello"}) /\ Append(rem.down, "hello") # <<>>
      /\ Connector!ToSet(Append(rem.down, "hello")) = Connector!ToSet(rem.down) \cup {"hello"}
  BY <1>3, CxAppending
<1>5. CxFields'
  <2>1. CxCommandTypes'
    BY <1>1, <1>4 DEF CxGood, CxFields, CxCommandTypes
  <2>2. CxRemTypes'
    BY <1>1, <1>4 DEF CxGood, CxFields, CxRemTypes
  <2>3. CxMainTypes' /\ CxLocalTypes' /\ CxLocTypes'
    BY <1>1, CxFrame DEF CxGood
  <2> QED BY <2>1, <2>2, <2>3 DEF CxFields
<1>6. Connector!Upward'
  BY <1>1, <1>4 DEF CxGood, CxFields, CxLocalTypes, Connector!Turns, Connector!Upward, Connector!Silent,
     Connector!OneOf, Connector!Remote
<1>7. Connector!Turns'
  BY <1>1, <1>4 DEF CxGood, CxFields, CxLocalTypes, CxMainTypes, Connector!Turns, Connector!Upward,
     Connector!Silent, Connector!OneOf, Connector!Remote
<1>8. Connector!Reached'
  BY <1>1, <1>4 DEF CxGood, CxFields, CxLocalTypes, CxMainTypes, Connector!Turns, Connector!Reached,
     Connector!Remote
<1> QED BY <1>2, <1>5, <1>6, <1>7, <1>8 DEF CxGood

\* RemoteResponse keeps the invariant.
LEMMA CxRemoteResponse ==
  ASSUME Entered \in Nat, MaxTyped \in Nat, CxGood, Connector!RemoteResponse
  PROVE  CxGood'
<1>1. CASE Head(rem.up) = "accept"
  <2>1. /\ command.pc = "response" /\ rem.up # <<>> /\ command'.pc = "session"
        /\ command'.accepted = TRUE /\ rem'.up = Tail(rem.up) /\ rem'.down = rem.down
        /\ UNCHANGED <<connector, reader, instance, loc>>
    BY <1>1 DEF CxGood, CxShapes, Connector!RemoteResponse
  <2>2. CxShapes'
    BY <1>1 DEF CxGood, CxShapes, Connector!RemoteResponse
  <2>3. rem.up \in Seq({"typed", "accept", "reject"}) /\ rem.up # <<>>
    BY <1>1, <2>1 DEF CxGood, CxFields, CxRemTypes
  <2>4. /\ Tail(rem.up) \in Seq({"typed", "accept", "reject"})
        /\ Head(rem.up) \in {"typed", "accept", "reject"}
        /\ Head(rem.up) \in Connector!ToSet(rem.up)
        /\ Connector!ToSet(Tail(rem.up)) \subseteq Connector!ToSet(rem.up)
    BY <2>3, CxTaking
  <2>5. CxFields'
    <3>1. CxCommandTypes'
      BY <1>1, <2>1, <2>4 DEF CxGood, CxFields, CxCommandTypes
    <3>2. CxRemTypes'
      BY <1>1, <2>1, <2>4 DEF CxGood, CxFields, CxRemTypes
    <3>3. CxMainTypes' /\ CxLocalTypes' /\ CxLocTypes'
      BY <2>1, CxFrame DEF CxGood
    <3> QED BY <3>1, <3>2, <3>3 DEF CxFields
  <2>6. Connector!Upward'
    BY <1>1, <2>1, <2>4 DEF CxGood, CxFields, CxLocalTypes, Connector!Turns, Connector!Upward,
       Connector!Silent, Connector!OneOf, Connector!Remote
  <2>7. Connector!Turns'
    BY <1>1, <2>1, <2>4 DEF CxGood, CxFields, CxLocalTypes, CxMainTypes, Connector!Turns,
       Connector!Upward, Connector!Silent, Connector!OneOf, Connector!Remote
  <2>8. Connector!Reached'
    BY <1>1, <2>1, <2>4 DEF CxGood, CxFields, CxLocalTypes, CxMainTypes, Connector!Turns,
       Connector!Reached, Connector!Remote
  <2> QED BY <2>2, <2>5, <2>6, <2>7, <2>8 DEF CxGood
<1>2. CASE Head(rem.up) # "accept"
  <2>1. /\ command.pc = "response" /\ rem.up # <<>> /\ command'.pc = "gone"
        /\ command'.accepted = command.accepted /\ rem'.up = Tail(rem.up) /\ rem'.down = rem.down
        /\ UNCHANGED <<connector, reader, instance, loc>>
    BY <1>2 DEF CxGood, CxShapes, Connector!RemoteResponse
  <2>2. CxShapes'
    BY <1>2 DEF CxGood, CxShapes, Connector!RemoteResponse
  <2>3. rem.up \in Seq({"typed", "accept", "reject"}) /\ rem.up # <<>>
    BY <1>2, <2>1 DEF CxGood, CxFields, CxRemTypes
  <2>4. /\ Tail(rem.up) \in Seq({"typed", "accept", "reject"})
        /\ Head(rem.up) \in {"typed", "accept", "reject"}
        /\ Head(rem.up) \in Connector!ToSet(rem.up)
        /\ Connector!ToSet(Tail(rem.up)) \subseteq Connector!ToSet(rem.up)
    BY <2>3, CxTaking
  <2>5. CxFields'
    <3>1. CxCommandTypes'
      BY <1>2, <2>1, <2>4 DEF CxGood, CxFields, CxCommandTypes
    <3>2. CxRemTypes'
      BY <1>2, <2>1, <2>4 DEF CxGood, CxFields, CxRemTypes
    <3>3. CxMainTypes' /\ CxLocalTypes' /\ CxLocTypes'
      BY <2>1, CxFrame DEF CxGood
    <3> QED BY <3>1, <3>2, <3>3 DEF CxFields
  <2>6. Connector!Upward'
    BY <1>2, <2>1, <2>4 DEF CxGood, CxFields, CxLocalTypes, Connector!Turns, Connector!Upward,
       Connector!Silent, Connector!OneOf, Connector!Remote
  <2>7. Connector!Turns'
    BY <1>2, <2>1, <2>4 DEF CxGood, CxFields, CxLocalTypes, CxMainTypes, Connector!Turns,
       Connector!Upward, Connector!Silent, Connector!OneOf, Connector!Remote
  <2>8. Connector!Reached'
    BY <1>2, <2>1, <2>4 DEF CxGood, CxFields, CxLocalTypes, CxMainTypes, Connector!Turns,
       Connector!Reached, Connector!Remote
  <2> QED BY <2>2, <2>5, <2>6, <2>7, <2>8 DEF CxGood
<1> QED BY <1>1, <1>2 DEF CxGood, CxShapes, CxFields, CxMainTypes, Connector!Awaiting,
           Connector!Sending, Connector!RemoteResponse

\* RemoteEof keeps the invariant.
LEMMA CxRemoteEof ==
  ASSUME Entered \in Nat, MaxTyped \in Nat, CxGood, Connector!RemoteEof
  PROVE  CxGood'
<1>1. /\ command.pc # "gone" /\ command'.pc = "gone" /\ command'.accepted = command.accepted
      /\ UNCHANGED <<connector, reader, instance, loc, rem>>
  BY DEF CxGood, CxShapes, Connector!RemoteEof, Connector!RemoteThere
<1>2. CxShapes'
  BY DEF CxGood, CxShapes, Connector!RemoteEof, Connector!RemoteThere
<1>3. CxFields'
  <2>1. CxCommandTypes'
    BY <1>1 DEF CxGood, CxFields, CxCommandTypes
  <2>2. CxMainTypes' /\ CxLocalTypes' /\ CxLocTypes' /\ CxRemTypes'
    BY <1>1, CxFrame DEF CxGood
  <2> QED BY <2>1, <2>2 DEF CxFields
<1>4. Connector!Upward'
  BY <1>1 DEF CxGood, CxFields, CxLocalTypes, Connector!Turns, Connector!Upward, Connector!Silent,
     Connector!OneOf, Connector!Remote
<1>5. Connector!Turns'
  BY <1>1 DEF CxGood, CxFields, CxLocalTypes, CxMainTypes, Connector!Turns, Connector!Upward,
     Connector!Silent, Connector!OneOf, Connector!Remote
<1>6. Connector!Reached'
  BY <1>1 DEF CxGood, CxFields, CxLocalTypes, CxMainTypes, Connector!Turns, Connector!Reached,
     Connector!Remote
<1> QED BY <1>2, <1>3, <1>4, <1>5, <1>6 DEF CxGood

\* RemoteDies keeps the invariant.
LEMMA CxRemoteDies ==
  ASSUME Entered \in Nat, MaxTyped \in Nat, CxGood, Connector!RemoteDies
  PROVE  CxGood'
<1>1. /\ command.pc # "gone" /\ command'.pc = "gone" /\ command'.accepted = command.accepted
      /\ UNCHANGED <<connector, reader, instance, loc, rem>>
  BY DEF CxGood, CxShapes, Connector!RemoteDies, Connector!RemoteThere
<1>2. CxShapes'
  BY DEF CxGood, CxShapes, Connector!RemoteDies, Connector!RemoteThere
<1>3. CxFields'
  <2>1. CxCommandTypes'
    BY <1>1 DEF CxGood, CxFields, CxCommandTypes
  <2>2. CxMainTypes' /\ CxLocalTypes' /\ CxLocTypes' /\ CxRemTypes'
    BY <1>1, CxFrame DEF CxGood
  <2> QED BY <2>1, <2>2 DEF CxFields
<1>4. Connector!Upward'
  BY <1>1 DEF CxGood, CxFields, CxLocalTypes, Connector!Turns, Connector!Upward, Connector!Silent,
     Connector!OneOf, Connector!Remote
<1>5. Connector!Turns'
  BY <1>1 DEF CxGood, CxFields, CxLocalTypes, CxMainTypes, Connector!Turns, Connector!Upward,
     Connector!Silent, Connector!OneOf, Connector!Remote
<1>6. Connector!Reached'
  BY <1>1 DEF CxGood, CxFields, CxLocalTypes, CxMainTypes, Connector!Turns, Connector!Reached,
     Connector!Remote
<1> QED BY <1>2, <1>3, <1>4, <1>5, <1>6 DEF CxGood

\* A step that changes nothing.
LEMMA CxStutters ==
  ASSUME CxGood, UNCHANGED <<connector, reader, instance, command, loc, rem>>
  PROVE  CxGood'
<1>1. CxShapes' /\ CxFields'
  BY CxFrame DEF CxGood, CxShapes, CxFields
<1>2. Connector!Upward'
  BY DEF CxGood, Connector!Upward
<1>3. Connector!Turns'
  BY DEF CxGood, Connector!Turns, Connector!Silent, Connector!OneOf
<1>4. Connector!Reached'
  BY DEF CxGood, Connector!Reached
<1> QED BY <1>1, <1>2, <1>3, <1>4 DEF CxGood

\* It holds at first.
\* Init keeps the invariant.
LEMMA CxInit ==
  ASSUME Entered \in Nat, MaxTyped \in Nat, Connector!Init
  PROVE  CxGood
<1>1. PICK task \in BOOLEAN :
        connector = [pc |-> "ReadingRemoteHandshake", task |-> task,
                     typed |-> 0, taken |-> 0, outcome |-> "none"]
  BY DEF Connector!Init
<1>2. /\ connector.pc = "ReadingRemoteHandshake" /\ connector.task \in BOOLEAN
      /\ connector.typed = 0 /\ connector.taken = 0 /\ connector.outcome = "none"
      /\ reader = "none" /\ instance.pc = "none" /\ instance.response = "none" /\ instance.was = FALSE
      /\ command.pc = "start" /\ command.accepted = FALSE
      /\ loc.up = <<>> /\ loc.down = <<>> /\ rem.up = <<>> /\ rem.down = <<>>
  BY <1>1 DEF Connector!Init
<1>3. CxShapes
  BY <1>1 DEF Connector!Init, CxShapes
<1>4. /\ Connector!ToSet(<<>>) = {} /\ <<>> \in Seq({"typed", "accept", "reject"})
      /\ <<>> \in Seq({"prompt", "hello"})
  BY DEF Connector!ToSet
<1>5. CxFields
  <2>1. CxMainTypes
    BY <1>2 DEF CxMainTypes, Connector!Remote
  <2>2. CxLocalTypes /\ CxCommandTypes
    BY <1>2 DEF CxLocalTypes, CxCommandTypes
  <2>3. CxLocTypes /\ CxRemTypes
    BY <1>2, <1>4 DEF CxLocTypes, CxRemTypes
  <2> QED BY <2>1, <2>2, <2>3 DEF CxFields
<1>6. Connector!Upward
  BY <1>2 DEF Connector!Upward
<1>7. Connector!Turns
  BY <1>2 DEF Connector!Turns, Connector!Silent
<1>8. Connector!Reached
  BY <1>2, <1>4 DEF Connector!Reached
<1> QED BY <1>3, <1>5, <1>6, <1>7, <1>8 DEF CxGood

\* Every step keeps it.
LEMMA CxNext ==
  ASSUME Entered \in Nat, MaxTyped \in Nat, CxGood, [Connector!Next]_(Connector!vars)
  PROVE  CxGood'
<1>1. CASE Connector!KStep
  BY <1>1, CxReadRemoteHandshake, CxWriteRemoteHandshake, CxReadLocal, CxWriteLocal DEF Connector!KStep
<1>2. CASE Connector!HandleData \/ Connector!Cancel \/ Connector!Reader \/ Connector!LocalCloses
  BY <1>2, CxHandleData, CxCancel, CxReader, CxLocalCloses
<1>3. CASE Connector!InstanceStep
  BY <1>3, CxStartThread, CxHandshakeRead, CxWriteResponse, CxFinish,
     CxInstanceEof DEF Connector!InstanceStep
<1>4. CASE Connector!RemoteStep
  BY <1>4, CxCommandTakes, CxRemoteResponse, CxRemoteEof DEF Connector!RemoteStep
<1>5. CASE Connector!CommandAsks \/ Connector!RemoteHello \/ Connector!RemoteDies
  BY <1>5, CxCommandAsks, CxRemoteHello, CxRemoteDies
<1>6. CASE UNCHANGED Connector!vars
  BY <1>6, CxStutters DEF Connector!vars
<1> QED BY <1>1, <1>2, <1>3, <1>4, <1>5, <1>6 DEF Connector!Next

\* The records are of their types.
LEMMA CxTyped ==
  ASSUME CxShapes, CxFields
  PROVE  Connector!TypeOK
<1>1. /\ connector \in [pc : Connector!Remote \cup Connector!Awaiting \cup Connector!Sending \cup {"gone"},
                        task : BOOLEAN, typed : 0 .. Entered, taken : 0 .. MaxTyped,
                        outcome : {"none", "error", "canceled", "finished"}]
      /\ connector.outcome = "none" <=> connector.pc # "gone"
  BY DEF CxShapes, CxFields, CxMainTypes
<1>2. /\ reader \in {"none", "start", "response", "fd", "gone"}
      /\ instance \in [pc : {"none", "start", "hello", "reply", "attributes", "connected", "gone"},
                       response : {"none", "accept", "reject"}, was : BOOLEAN]
      /\ instance.pc # "none" => reader = "gone"
  BY DEF CxShapes, CxFields, CxLocalTypes
<1>3. command \in [pc : {"start", "asks", "response", "session", "gone"}, accepted : BOOLEAN]
  BY DEF CxShapes, CxFields, CxCommandTypes
<1>4. loc \in [up : {<<>>} \cup {<<m>> : m \in Connector!Requests},
               down : {<<>>} \cup {<<m>> : m \in Connector!Replies}]
  <2>1. loc.up \in {<<>>} \cup {<<m>> : m \in Connector!Requests}
    BY DEF CxFields, CxLocTypes
  <2>2. loc.down \in {<<>>} \cup {<<m>> : m \in Connector!Replies}
    BY DEF CxFields, CxLocTypes
  <2> QED BY <2>1, <2>2 DEF CxShapes
<1>5. rem \in [up : Seq({"typed", "accept", "reject"}), down : Seq({"prompt", "hello"})]
  BY DEF CxShapes, CxFields, CxRemTypes
<1> QED BY <1>1, <1>2, <1>3, <1>4, <1>5 DEF Connector!TypeOK

\* What the invariant says of who reads what, and of a connector that reports an id.
LEMMA CxSound ==
  ASSUME CxGood
  PROVE  Connector!Phases /\ Connector!FinishedIsConnected
<1>1. /\ \A m : <<m>> # <<>> /\ Head(<<m>>) = m
      /\ loc.down = <<>> \/ loc.down = <<Head(loc.down)>>
      /\ loc.up = <<>> \/ loc.up = <<Head(loc.up)>>
  <2>1. CxFields
    BY DEF CxGood
  <2> QED BY <2>1, CxOne DEF CxLone
<1>2. connector.pc \in DOMAIN Connector!Awaited /\ loc.down # <<>> =>
        Head(loc.down) \in Connector!Awaited[connector.pc]
  BY <1>1, CxOrder DEF CxGood, Connector!Turns, Connector!OneOf, Connector!Awaiting
<1>3. loc.up # <<>> =>
        /\ reader = "response" => Head(loc.up) = "serverFd"
        /\ reader = "fd" => Head(loc.up) = "fd"
        /\ instance.pc = "hello" => Head(loc.up) = "hello"
        /\ instance.pc = "attributes" => Head(loc.up) = "attributes"
  BY <1>1 DEF CxGood, Connector!Upward
<1>4. rem.up # <<>> =>
        Head(rem.up) \in {"typed", "accept", "reject"} /\ Head(rem.up) \in Connector!ToSet(rem.up)
  <2>1. rem.up \in Seq({"typed", "accept", "reject"})
    BY DEF CxGood, CxFields, CxRemTypes
  <2> QED BY <2>1, CxTaking
<1>5. command.pc = "response" /\ rem.up # <<>> /\ Head(rem.up) \notin {"accept", "reject"} =>
        connector.taken > 0
  BY <1>4 DEF CxGood, Connector!Reached
<1>6. Connector!FinishedIsConnected
  <2>1. connector.outcome = "finished" => instance.was
    BY DEF CxGood, Connector!Turns
  <2>2. instance.was /\ Connector!RemoteThere => command.accepted \/ rem.up # <<>>
    BY DEF CxGood, Connector!Reached, Connector!RemoteThere
  <2>3. rem.up # <<>> => Len(rem.up) > 0
    BY DEF CxGood, CxFields, CxRemTypes
  <2> QED BY <2>1, <2>2, <2>3 DEF Connector!FinishedIsConnected
<1> QED BY <1>2, <1>3, <1>5, <1>6 DEF Connector!Phases

\* The connector's invariant, and its properties.
LEMMA ConnectInvariance ==
  ASSUME Entered \in Nat, MaxTyped \in Nat
  PROVE  Connector!Spec => [](Connector!IInv /\ Connector!Phases /\ Connector!FinishedIsConnected)
<1>1. Connector!Init => CxGood
  BY CxInit
<1>2. CxGood /\ [Connector!Next]_(Connector!vars) => CxGood'
  BY CxNext
<1>3. CxGood => Connector!IInv /\ Connector!Phases /\ Connector!FinishedIsConnected
  BY CxTyped, CxSound DEF CxGood, Connector!IInv
<1> QED BY <1>1, <1>2, <1>3, PTL DEF Connector!Spec

-----------------------------------------------------------------------------
(* Both *)

\* LinksSafe, of the forwarder and of the connector: the terminal shows the server's
\* bytes once and in order, a clean end is a whole one, and every other end is told
\* (forwarder.cpp:209, 283), however much is written and however little the pair
\* holds; every message finds its reader in the state that awaits it, and a connector
\* that reports an id has a connection (connectbase.cpp:256), whatever the user types.
THEOREM LinksAreSafe ==
  ASSUME Output \in Nat, Keys \in Nat, Cap \in Nat, Entered \in Nat, MaxTyped \in Nat
  PROVE  /\ \/ system = "forward" /\ Forward!Spec
            \/ system = "connector" /\ Connector!Spec
         /\ [][UNCHANGED system]_system
         => []LinksSafe
<1> DEFINE FwdSafe == Forward!IInv /\ Forward!InOrder /\ Forward!CleanIsWhole /\ Forward!Told
           CxSafe == Connector!IInv /\ Connector!Phases /\ Connector!FinishedIsConnected
<1>1. Forward!Spec => []FwdSafe
  BY ForwarderSafe
<1>2. Connector!Spec => []CxSafe
  BY ConnectInvariance
<1>3. system = "forward" /\ FwdSafe => LinksSafe
  BY DEF LinksSafe
<1>4. system = "connector" /\ CxSafe => LinksSafe
  BY DEF LinksSafe
<1>5. system = "forward" /\ [UNCHANGED system]_system => (system = "forward")'
  OBVIOUS
<1>6. system = "connector" /\ [UNCHANGED system]_system => (system = "connector")'
  OBVIOUS
<1> HIDE DEF FwdSafe, CxSafe
<1> QED BY <1>1, <1>2, <1>3, <1>4, <1>5, <1>6, PTL
===============================================================================
