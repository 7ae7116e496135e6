------------------------------- MODULE Ownership -------------------------------
(***************************************************************************)
(* Clients and the terminals they own (src/mux/base/listener.cpp, conn.cpp, *)
(* commands.cpp).  A client is announced by the reader it comes through,   *)
(* possibly over several servers and by several readers, of which the      *)
(* first registers it and the others ignore it.  When the owner of a       *)
(* terminal leaves, the nearest client that takes ownership is to follow;  *)
(* registrations are made by the readers' threads under the listener's     *)
(* lock, and the changes of owner they ask for are applied later, by the   *)
(* listener's thread.                                                      *)
(***************************************************************************)
EXTENDS Integers, Sequences, FiniteSets, SequencesExt

CONSTANTS Readers, Clients, Terms,
          Hops,          \* each client's number of servers in between
          TakeOwnership, \* clients that take ownership
          None,          \* the null id
          MaxAnnounces   \* bound on the announcements

VARIABLES
  known,        \* each reader's m_knownClients
  ignored,      \* each reader's m_ignoredClients
  order,        \* m_clientOrder: the keys of m_clientMap
  ownerclients, \* m_ownerclients
  lq,           \* the listener's queue
  terms,        \* m_terms
  owner,        \* each terminal's m_owner
  leaving,      \* readers in the loop of disconnect()
  stray,        \* terminals given to a client that is not registered
  announces

vars == <<known, ignored, order, ownerclients, lq, terms, owner, leaving, stray, announces>>

Registered == ToSet(order)
Change(old, new) == [op |-> "change", old |-> old, new |-> new]
Clear(old) == [op |-> "clear", old |-> old, new |-> None]
AddTerm(t) == [op |-> "add", term |-> t]
-----------------------------------------------------------------------------
(* m_clientOrder is sorted by hops, an older client before a newer one. *)
Inserted(x) ==
  LET farther == {i \in DOMAIN order : Hops[order[i]] > Hops[x]}
  IN InsertAt(order, Min(farther \cup {Len(order) + 1}), x)

(* What removeOne leaves of it. *)
Remaining(x) == RemoveAt(order, CHOOSE i \in DOMAIN order : order[i] = x)

(* The nearest client that takes ownership. *)
Heir(clients) == clients[Min({i \in DOMAIN clients : clients[i] \in TakeOwnership})]

(* registerClient: the first client that takes ownership gets the          *)
(* terminals nobody owns.                                                  *)
RegisterClient(x) ==
  /\ order' = Inserted(x)
  /\ ownerclients' = IF x \in TakeOwnership THEN ownerclients + 1 ELSE ownerclients
  /\ lq' = IF x \in TakeOwnership /\ ownerclients = 0 THEN Append(lq, Change(None, x)) ELSE lq

(* commandClientAnnounce *)
ClientAnnounce(r, x) ==
  /\ x \notin known[r] /\ r \notin leaving /\ announces < MaxAnnounces
  /\ announces' = announces + 1
  /\ known' = [known EXCEPT ![r] = @ \cup {x}]
  /\ IF x \in Registered
     THEN /\ ignored' = [ignored EXCEPT ![r] = @ \cup {x}]
          /\ UNCHANGED <<order, ownerclients, lq>>
     ELSE RegisterClient(x) /\ UNCHANGED ignored
  /\ UNCHANGED <<terms, owner, leaving, stray>>

(* Mutant: a client that takes no ownership itself leaves without a word. *)
UnregisterIfOwner(x) ==
  /\ order' = Remaining(x)
  /\ ownerclients' = IF x \in TakeOwnership THEN ownerclients - 1 ELSE ownerclients
  /\ lq' = IF x \notin TakeOwnership THEN lq
           ELSE Append(lq, IF ownerclients' > 0 THEN Change(x, Heir(order')) ELSE Clear(x))

(* unregisterClient *)
UnregisterClient(x) ==
  IF x \notin Registered THEN UNCHANGED <<order, ownerclients, lq>>
  ELSE /\ order' = Remaining(x)
       /\ ownerclients' = IF x \in TakeOwnership THEN ownerclients - 1 ELSE ownerclients
       /\ lq' = Append(lq, IF ownerclients' > 0 THEN Change(x, Heir(order')) ELSE Clear(x))

(* commandClientRemove, and a step of disconnect(). *)
Forget(r, x) ==
  /\ known' = [known EXCEPT ![r] = @ \ {x}]
  /\ ignored' = [ignored EXCEPT ![r] = @ \ {x}]
  /\ IF x \in ignored[r] THEN UNCHANGED <<order, ownerclients, lq>> ELSE UnregisterClient(x)

ClientRemove(r, x) ==
  /\ x \in known[r] /\ r \notin leaving
  /\ Forget(r, x)
  /\ UNCHANGED <<terms, owner, leaving, stray, announces>>

Disconnect(r) ==
  /\ r \notin leaving /\ known[r] # {}
  /\ leaving' = leaving \cup {r}
  /\ UNCHANGED <<known, ignored, order, ownerclients, lq, terms, owner, stray, announces>>

DisconnectNext(r, x) ==
  /\ r \in leaving /\ x \in known[r]
  /\ Forget(r, x)
  /\ leaving' = IF known[r] = {x} THEN leaving \ {r} ELSE leaving
  /\ UNCHANGED <<terms, owner, stray, announces>>
-----------------------------------------------------------------------------
(* A terminal is given to a client, whoever that is. *)
Give(t, x) ==
  /\ owner' = [owner EXCEPT ![t] = x]
  /\ stray' = IF x \in Registered THEN stray \ {t} ELSE stray \cup {t}

(* What a client asks comes through a reader that knows it. *)
Asks(r, x) == x \in known[r] /\ r \notin leaving

Created == terms \cup {lq[i].term : i \in {j \in DOMAIN lq : lq[j].op = "add"}}

(* commandServerCreateTerm, commandTermDuplicate *)
CreateTerm(r, x, t) ==
  /\ Asks(r, x) /\ t \notin Created
  /\ Give(t, x)
  /\ lq' = Append(lq, AddTerm(t))
  /\ UNCHANGED <<known, ignored, order, ownerclients, terms, leaving, announces>>

(* testOwner, testSender: a terminal without an owner is taken. *)
TestOwner(r, x, t) ==
  /\ Asks(r, x) /\ t \in terms /\ owner[t] = None
  /\ Give(t, x)
  /\ UNCHANGED <<known, ignored, order, ownerclients, lq, terms, leaving, announces>>

(* commandTermChangeOwner, setOwner: any client may be named. *)
SetOwner(r, y, t) ==
  /\ known[r] # {} /\ r \notin leaving /\ t \in terms /\ owner[t] # y
  /\ Give(t, y)
  /\ UNCHANGED <<known, ignored, order, ownerclients, lq, terms, leaving, announces>>
-----------------------------------------------------------------------------
(* The listener's thread.  A terminal is removed when it has ended. *)
HandleAddTerm ==
  /\ lq # <<>> /\ Head(lq).op = "add"
  /\ terms' = terms \cup {Head(lq).term} /\ lq' = Tail(lq)
  /\ UNCHANGED <<known, ignored, order, ownerclients, owner, leaving, stray, announces>>

(* changeOwner, clearOwner *)
Owned(x) == {t \in terms : owner[t] = x}

HandleOwnership ==
  /\ lq # <<>> /\ Head(lq).op \in {"change", "clear"}
  /\ LET item == Head(lq)
     IN /\ owner' = [t \in Terms |-> IF t \in Owned(item.old) THEN item.new ELSE owner[t]]
        /\ stray' = stray \ Owned(item.old)
  /\ lq' = Tail(lq)
  /\ UNCHANGED <<known, ignored, order, ownerclients, terms, leaving, announces>>

HandleRemoveTerm(t) ==
  /\ t \in terms
  /\ terms' = terms \ {t} /\ owner' = [owner EXCEPT ![t] = None] /\ stray' = stray \ {t}
  /\ UNCHANGED <<known, ignored, order, ownerclients, lq, leaving, announces>>
-----------------------------------------------------------------------------
Init ==
  /\ known = [r \in Readers |-> {}] /\ ignored = [r \in Readers |-> {}]
  /\ order = <<>> /\ ownerclients = 0
  /\ lq = <<>> /\ terms = {} /\ owner = [t \in Terms |-> None]
  /\ leaving = {} /\ stray = {} /\ announces = 0

Next ==
  \/ \E r \in Readers, x \in Clients :
       \/ ClientAnnounce(r, x) \/ ClientRemove(r, x) \/ DisconnectNext(r, x)
       \/ \E t \in Terms : CreateTerm(r, x, t) \/ TestOwner(r, x, t) \/ SetOwner(r, x, t)
  \/ \E r \in Readers : Disconnect(r)
  \/ HandleAddTerm \/ HandleOwnership
  \/ \E t \in Terms : HandleRemoveTerm(t)

Spec == Init /\ [][Next]_vars
-----------------------------------------------------------------------------
Items ==
  {Change(old, new) : old \in Clients \cup {None}, new \in Clients}
  \cup {Clear(old) : old \in Clients} \cup {AddTerm(t) : t \in Terms}

(* Clients, terminals and counters are the known ones; the listener knows  *)
(* the clients its readers have not ignored.                               *)
TypeOK ==
  /\ order \in Seq(Clients) /\ IsInjective(order) /\ announces \in 0 .. MaxAnnounces
  /\ owner \in [Terms -> Clients \cup {None}] /\ terms \subseteq Terms /\ stray \subseteq Terms
  /\ lq \in Seq(Items)
  /\ known \in [Readers -> SUBSET Clients] /\ ignored \in [Readers -> SUBSET Clients]
  /\ \A r \in Readers : ignored[r] \subseteq known[r] /\ known[r] \ ignored[r] \subseteq Registered
  /\ ownerclients = Cardinality(Registered \cap TakeOwnership)

(* The inductive invariant: who owns a terminal, or is to own it by a      *)
(* change in the queue, is there, or is the former owner of a change       *)
(* further back.                                                           *)
Hands(item) == item.op \in {"change", "clear"}
Settled == Registered \cup {x \in {None} : ownerclients = 0}
Provided(i) == Settled \cup {lq[j].old : j \in {k \in DOMAIN lq : k > i /\ Hands(lq[k])}}

OwnersProvided == \A t \in terms \ stray : owner[t] \in Provided(0)
HeirsProvided == \A i \in DOMAIN lq : Hands(lq[i]) => lq[i].new \in Provided(i)
NewProvided ==
  \A i \in DOMAIN lq : lq[i].op = "add" =>
    /\ lq[i].term \notin terms
    /\ lq[i].term \notin stray => owner[lq[i].term] \in Provided(i)
    /\ \A j \in DOMAIN lq : lq[j] = lq[i] => j = i

(* A client is not ignored by one reader at most. *)
OneRegistrar ==
  \A r1, r2 \in Readers : (known[r1] \ ignored[r1]) \cap (known[r2] \ ignored[r2]) # {} => r1 = r2

IInv == TypeOK /\ OneRegistrar /\ OwnersProvided /\ HeirsProvided /\ NewProvided

(* A client that leaves takes nothing with it: whatever comes and goes     *)
(* between the request and its handling, a terminal ends with an owner     *)
(* that is there, or with none when nobody takes ownership                 *)
(* (listener.cpp:345).  Not so when it was given to a client that is not   *)
(* registered, because that left or is known to a reader that ignored it   *)
(* (commands.cpp:444).                                                     *)
OwnerPresent ==
  lq = <<>> => \A t \in terms \ stray :
    owner[t] \in Registered \/ (owner[t] = None /\ ownerclients = 0)
=============================================================================
