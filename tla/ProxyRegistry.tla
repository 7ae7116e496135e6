---------------------------- MODULE ProxyRegistry ----------------------------
(***************************************************************************)
(* Remote servers and terminals.  A ConnInstance speaks to another server, *)
(* which announces the servers and terminals it can reach; for each one    *)
(* the connection creates a proxy and registers it with the listener,      *)
(* first come first served.  Registration takes the listener's lock; the   *)
(* listener thread learns of it later, through its queue, and it is the    *)
(* one that gives the proxy to the clients and takes it back.              *)
(*                                                                         *)
(* Giving back the watches of a proxy is WatchLifecycle's subject: here a  *)
(* proxy the listener has closed is released some time later, a terminal's *)
(* before its server's (readers and writers release in that order).        *)
(***************************************************************************)
EXTENDS Naturals, Sequences, FiniteSets

CONSTANTS
  Conns,             \* connections to other servers
  InTerm,            \* those that run inside a terminal (TermInstance)
  Servers, Terms,    \* ids of remote servers and terminals
  Host,              \* the server each terminal runs on
  Self,              \* this server's own id
  None,              \* no connection
  MaxInitial,        \* bound: terminals a server is announced with
  MaxAnnounces,      \* bound: announcements of each id by one peer in a session
  MaxConnects        \* bound: sessions of one connection

ASSUME InTermAssumption == InTerm \subseteq Conns
ASSUME HostAssumption == Host \in [Terms -> Servers]
ASSUME NoneAssumption == None \notin Conns
ASSUME IdsAssumption == Servers \cap Terms = {}

Ids == Servers \cup Terms

\* A third announcement may make a second proxy of an id whose first is still
\* being given back; the sets of ids below do not tell the two apart.
ASSUME AnnouncesAssumption == MaxAnnounces \in [Ids -> 0..2]

VARIABLES
  conn,              \* the connection's sets of known, ignored, ... ids
  registered,        \* m_serverConns and m_proxyConns: id -> connection
  mapped,            \* m_serverMap and m_proxyMap: id -> connection whose proxy it is
  lq,                \* the listener's queue
  closing,           \* proxies the listener has asked to be released
  released,          \* connection -> queue of released proxies
  nTerms,            \* connection -> server -> m_nTerms and m_startingTerms
  remote,            \* connection -> ids the peer has announced and not removed
  sent,              \* connection -> id -> announcements in this session
  sessions,          \* connection -> sessions so far
  lost,              \* history: announced in this session and passed over
  down               \* the listener thread ended on an unknown hop

vars == <<conn, registered, mapped, lq, closing, released, nTerms, remote, sent,
          sessions, lost, down>>
peerVars == <<remote, sent, sessions, lost>>

NoProxies == [known |-> {}, ignored |-> {}, active |-> {}, removing |-> {},
              have |-> FALSE, leaving |-> FALSE, draining |-> FALSE]

Init ==
  /\ conn = [c \in Conns |-> NoProxies]
  /\ registered = [i \in Ids |-> None]
  /\ mapped = [i \in Ids |-> None]
  /\ lq = <<>>
  /\ closing = {}
  /\ released = [c \in Conns |-> <<>>]
  /\ nTerms = [c \in Conns |-> [s \in Servers |-> [n |-> 0, starting |-> 0]]]
  /\ remote = [c \in Conns |-> {}]
  /\ sent = [c \in Conns |-> [i \in Ids |-> 0]]
  /\ sessions = [c \in Conns |-> 0]
  /\ lost = {}
  /\ down = FALSE

-----------------------------------------------------------------------------
(* The connection's thread *)

Connected(c) == conn[c].have /\ ~conn[c].leaving

\* A terminal still reads what its peer sent before it saw the disconnection.
Receiving(c) == conn[c].have /\ (conn[c].leaving => conn[c].draining)

Connect(c) ==
  /\ ~conn[c].have
  /\ sessions[c] < MaxConnects
  /\ conn' = [conn EXCEPT ![c].have = TRUE]
  /\ sessions' = [sessions EXCEPT ![c] = @ + 1]
  /\ UNCHANGED <<registered, mapped, lq, closing, released, nTerms, remote, sent, lost, down>>

\* registerServer, registerProxy: refused when a connection has the id.
Unclaimed(i) == registered[i] = None

Register(c, i) ==
  /\ registered' = [registered EXCEPT ![i] = c]
  /\ lq' = Append(lq, [op |-> "add", conn |-> c, id |-> i])
  /\ conn' = [conn EXCEPT ![c].known = @ \cup {i}, ![c].active = @ \cup {i}]

Ignore(c, i) ==
  /\ conn' = [conn EXCEPT ![c].known = @ \cup {i}, ![c].ignored = @ \cup {i}]
  /\ UNCHANGED <<registered, lq>>

\* The peer announces an id again only after removing it, and a terminal only
\* while its server is announced.
PeerAnnounces(c, i) ==
  /\ Receiving(c)
  /\ i \notin remote[c]
  /\ sent[c][i] < MaxAnnounces[i]
  /\ i \in Terms => Host[i] \in remote[c]
  /\ remote' = [remote EXCEPT ![c] = @ \cup {i}]
  /\ sent' = [sent EXCEPT ![c][i] = @ + 1]
  /\ UNCHANGED <<sessions, mapped, closing, released, down>>

WireServerAnnounce(c, s, k) ==
  /\ PeerAnnounces(c, s)
  /\ lost' = IF s \in conn[c].removing THEN lost \cup {<<c, s>>} ELSE lost
  /\ IF s \in conn[c].known
     THEN UNCHANGED <<conn, registered, lq, nTerms>>
     ELSE IF s # Self /\ Unclaimed(s)
     THEN /\ Register(c, s)
          /\ nTerms' = [nTerms EXCEPT ![c][s] = [n |-> k, starting |-> k]]
     ELSE Ignore(c, s) /\ UNCHANGED nTerms

\* m_ignoredServers is asked for the terminal's own id, which it never holds:
\* a terminal on an ignored server is registered like any other.
WireTermAnnounce(c, t) ==
  /\ PeerAnnounces(c, t)
  /\ lost' = IF Host[t] \notin conn[c].known \/ t \in conn[c].removing
             THEN lost \cup {<<c, t>>} ELSE lost
  /\ IF Host[t] \notin conn[c].known \/ t \in conn[c].known
     THEN UNCHANGED <<conn, registered, lq>>
     ELSE IF t \notin conn[c].ignored \cap Servers /\ Unclaimed(t)
     THEN Register(c, t)
     ELSE Ignore(c, t)
  /\ UNCHANGED nTerms

\* Every order in which the ids of a set may be visited.
Orders(S) == {q \in [1..Cardinality(S) -> S] : \A i, j \in DOMAIN q : q[i] = q[j] => i = j}

\* unregisterServer, unregisterProxy look for the id, not for whose it is.
Found(S) == {i \in S : registered[i] # None}

\* They are called for the ids of a sequence, in its order.
Unregister(c, order) ==
  /\ registered' = [i \in Ids |-> IF \E j \in DOMAIN order : order[j] = i
                                  THEN None ELSE registered[i]]
  /\ lq' = lq \o [j \in DOMAIN order |-> [op |-> "remove", conn |-> c, id |-> order[j]]]

\* Mutant: the proxy stays among the active ones.
RemovingActive(p, i) == [p EXCEPT !.removing = @ \cup {i}, !.ignored = @ \ {i}]

Removing(p, i) == [p EXCEPT !.removing = @ \cup {i}, !.active = @ \ {i}, !.ignored = @ \ {i}]

\* wireServerRemove, wireTermRemove.  The peer removes terminals before servers.
WireRemove(c, i) ==
  /\ Receiving(c)
  /\ i \in remote[c]
  /\ i \in Servers => \A t \in Terms : Host[t] = i => t \notin remote[c]
  /\ remote' = [remote EXCEPT ![c] = @ \ {i}]
  /\ IF i \in conn[c].known
     THEN IF i \in conn[c].active
          THEN /\ conn' = [conn EXCEPT ![c] = Removing(@, i)]
               /\ \E p \in Orders(Found({i})) : Unregister(c, p)
          ELSE /\ conn' = [conn EXCEPT ![c].known = @ \ {i}, ![c].ignored = @ \ {i}]
               /\ UNCHANGED <<registered, lq>>
     ELSE UNCHANGED <<conn, registered, lq>>
  /\ lost' = lost \ {<<c, i>>}
  /\ UNCHANGED <<mapped, closing, released, nTerms, sent, sessions, down>>

\* What the connection is left with when its last server proxy is gone: the
\* maps of active and removing proxies are not cleared.
Over(p) == [NoProxies EXCEPT !.active = p.active, !.removing = p.removing]

\* The peer's next session starts afresh.
SessionOver(c) ==
  /\ remote' = [remote EXCEPT ![c] = {}]
  /\ sent' = [sent EXCEPT ![c] = [i \in Ids |-> 0]]
  /\ lost' = {l \in lost : l[1] # c}
  /\ UNCHANGED sessions

\* Mutant: servers are unregistered before their terminals.
UnregisterServersFirst(c) ==
  \E p \in Orders(Found(conn[c].active \cap Servers)),
     q \in Orders(Found(conn[c].active \cap Terms)) :
    Unregister(c, p \o q)

\* Mutant: the ignored ids are unregistered too.
UnregisterKnown(c) ==
  \E p \in Orders(Found(conn[c].known \cap Terms)),
     q \in Orders(Found(conn[c].known \cap Servers)) :
    Unregister(c, p \o q)

\* Terminals first, then servers.
UnregisterActive(c) ==
  \E p \in Orders(Found(conn[c].active \cap Terms)),
     q \in Orders(Found(conn[c].active \cap Servers)) :
    Unregister(c, p \o q)

\* ConnInstance::disconnect.  more: the peer may have sent something that is
\* still on its way.
Disconnect(c, more) ==
  /\ Connected(c)
  /\ more => c \in InTerm
  /\ UnregisterActive(c)
  /\ LET left == [conn[c] EXCEPT !.removing = @ \cup conn[c].active, !.active = {}] IN
     IF left.removing \cap Servers = {}
     THEN conn' = [conn EXCEPT ![c] = Over(left)] /\ SessionOver(c)
     ELSE /\ conn' = [conn EXCEPT ![c] = [left EXCEPT !.leaving = TRUE, !.draining = more]]
          /\ UNCHANGED peerVars
  /\ UNCHANGED <<mapped, closing, released, nTerms, down>>

\* Mutant: the first server proxy to come back ends the connection.
FirstServer(p, i) == i \in Servers /\ p.leaving

\* Mutant: the end is tested before the proxy is taken out of the set.
TestedEarly(p, i) == i \in Servers /\ p.leaving /\ p.removing \cap Servers = {}

\* The last server proxy of a connection that is being taken down is back.
LastServer(p, i) == i \in Servers /\ p.leaving /\ p.removing \cap Servers = {i}

Forget(p, i) == [p EXCEPT !.known = @ \ {i}, !.removing = @ \ {i}]

\* handleServerReleased, handleProxyReleased.
HandleReleased(c) ==
  /\ released[c] # <<>>
  /\ released' = [released EXCEPT ![c] = Tail(@)]
  /\ LET i == Head(released[c])
         left == Forget(conn[c], i)
     IN IF LastServer(conn[c], i)
        THEN conn' = [conn EXCEPT ![c] = Over(left)] /\ SessionOver(c)
        ELSE conn' = [conn EXCEPT ![c] = left] /\ UNCHANGED peerVars
  /\ UNCHANGED <<registered, mapped, lq, closing, nTerms, down>>

-----------------------------------------------------------------------------
(* The listener's thread *)

Item == Head(lq)
Item_server == Host[Item.id]

\* Mutant: a terminal the server started with is counted again.
AddTermTwice(p) ==
  IF p.starting = 0 THEN [p EXCEPT !.n = @ + 1] ELSE [p EXCEPT !.starting = @ - 1, !.n = @ + 1]

\* ServerProxy::addTerm.
AddTerm(p) == IF p.starting = 0 THEN [p EXCEPT !.n = @ + 1] ELSE [p EXCEPT !.starting = @ - 1]

\* handleAddServer; handleAddProxy, which counts the terminal on its server.
HandleAdd ==
  /\ ~down /\ lq # <<>> /\ Item.op = "add"
  /\ lq' = Tail(lq)
  /\ mapped' = [mapped EXCEPT ![Item.id] = Item.conn]
  /\ IF Item.id \in Servers
     THEN UNCHANGED <<nTerms, down>>
     ELSE IF mapped[Item_server] = None
     THEN down' = TRUE /\ UNCHANGED nTerms
     ELSE /\ nTerms' = [nTerms EXCEPT ![mapped[Item_server]][Item_server] = AddTerm(@)]
          /\ UNCHANGED down
  /\ UNCHANGED <<conn, registered, closing, released, peerVars>>

\* Mutant: a server stays in the map.
UnmapTerms(i) == IF i \in Terms THEN [mapped EXCEPT ![i] = None] ELSE mapped

Unmap(i) == [mapped EXCEPT ![i] = None]

\* handleRemoveServer, handleRemoveProxy: the proxy is asked to be released.
HandleRemove ==
  /\ ~down /\ lq # <<>> /\ Item.op = "remove"
  /\ lq' = Tail(lq)
  /\ IF Item.id \in Terms /\ mapped[Item_server] = None
     THEN down' = TRUE /\ UNCHANGED <<mapped, closing, nTerms>>
     ELSE /\ mapped' = Unmap(Item.id)
          /\ closing' = closing \cup {<<Item.conn, Item.id>>}
          /\ nTerms' = IF Item.id \in Terms
                       THEN [nTerms EXCEPT ![mapped[Item_server]][Item_server].n = @ - 1]
                       ELSE nTerms
          /\ UNCHANGED down
  /\ UNCHANGED <<conn, registered, released, peerVars>>

\* The last watch of the proxy is back: the connection is told.
Release(c, i) ==
  /\ <<c, i>> \in closing
  /\ i \in Servers => \A t \in Terms : Host[t] = i => <<c, t>> \notin closing
  /\ closing' = closing \ {<<c, i>>}
  /\ released' = [released EXCEPT ![c] = Append(@, i)]
  /\ UNCHANGED <<conn, registered, mapped, lq, nTerms, peerVars, down>>

-----------------------------------------------------------------------------
ListenerStep == HandleAdd \/ HandleRemove

Next ==
  \/ ListenerStep
  \/ \E c \in Conns :
       \/ Connect(c) \/ HandleReleased(c)
       \/ \E more \in BOOLEAN : Disconnect(c, more)
       \/ \E s \in Servers, k \in 0..MaxInitial : WireServerAnnounce(c, s, k)
       \/ \E t \in Terms : WireTermAnnounce(c, t)
       \/ \E i \in Ids : WireRemove(c, i) \/ Release(c, i)

\* Peers may say nothing; the server's own threads keep running, and clients
\* give their watches back (CloseCompletes of WatchLifecycle).
Fairness ==
  /\ WF_vars(ListenerStep)
  /\ \A c \in Conns : WF_vars(HandleReleased(c)) /\ \A i \in Ids : WF_vars(Release(c, i))

Spec == Init /\ [][Next]_vars /\ Fairness

-----------------------------------------------------------------------------
TypeOK ==
  /\ \A c \in Conns :
       /\ conn[c].known \subseteq Ids /\ conn[c].ignored \subseteq Ids
       /\ conn[c].active \subseteq Ids /\ conn[c].removing \subseteq Ids
       /\ {conn[c].have, conn[c].leaving, conn[c].draining} \subseteq BOOLEAN
       /\ released[c] \in Seq(Ids)
       /\ remote[c] \subseteq Ids
       /\ sessions[c] \in 0..MaxConnects
       /\ \A i \in Ids : sent[c][i] \in 0..MaxAnnounces[i]
       /\ \A s \in Servers : nTerms[c][s].starting \in 0..MaxInitial /\ nTerms[c][s].n \in Nat
  /\ registered \in [Ids -> Conns \cup {None}]
  /\ mapped \in [Ids -> Conns \cup {None}]
  /\ lq \in Seq([op : {"add", "remove"}, conn : Conns, id : Ids])
  /\ closing \subseteq Conns \X Ids /\ lost \subseteq Conns \X Ids
  /\ down \in BOOLEAN

\* What the listener routes by (m_serverConns, m_proxyConns) and what each
\* connection believes it registered are the same, though ids are shared by
\* the connections, taken first come first served and given back without a
\* look at whose they are (listener.cpp:131, 192).
RegistryMatches ==
  \A c \in Conns, i \in Ids : i \in conn[c].active <=> registered[i] = c

\* Once it has worked off its queue, the listener's maps, which clients are
\* served from, hold the registered proxies and no other; and every id has one
\* live proxy at most: it is mapped again only after the old proxy left the map
\* (the emplace of handleAddServer and handleAddProxy would keep the old one).
MapsAgree ==
  /\ lq = <<>> /\ ~down => mapped = registered
  /\ ~down /\ lq # <<>> /\ Item.op = "add" => mapped[Item.id] = None

\* assert(m_serverMap.count(proxy->hopId())), listener.cpp:695 and 710: the
\* listener knows the server of every terminal it adds or removes.
HopKnown == ~down

\* A server proxy counts the terminals it was announced with and those added
\* since, less those removed; the ones still to come explain the difference.
ServerCounts ==
  \A s \in Servers : mapped[s] # None /\ ~down =>
    LET p == nTerms[mapped[s]][s]
    IN p.n = p.starting + Cardinality({t \in Terms : Host[t] = s /\ mapped[t] # None})

\* A connection that is over has no proxy on any of its ways: none active or
\* being removed (assert(m_removingTerms.empty()), conn.cpp:403), none in the
\* listener's queue or maps, none waiting for clients.
NoOrphans == \A c \in Conns : ~conn[c].have =>
  /\ conn[c].known = {} /\ conn[c].active = {} /\ conn[c].removing = {}
  /\ \A j \in DOMAIN lq : lq[j].conn # c
  /\ \A i \in Ids : mapped[i] # c /\ <<c, i>> \notin closing
  /\ released[c] = <<>>

\* When everything has been worked off, a connection and its peer agree: each
\* id the peer announced is active or ignored, unless it was passed over
\* because its old proxy was still being removed, and nothing else is active.
Agreement ==
  lq = <<>> /\ closing = {} /\ (\A c \in Conns : released[c] = <<>>) /\ ~down =>
    \A c \in Conns : Connected(c) =>
      /\ conn[c].active \subseteq remote[c]
      /\ \A i \in remote[c] : <<c, i>> \notin lost => i \in conn[c].active \cup conn[c].ignored

\* A connection that is taken down comes to its end, so that the terminal can
\* connect again and its thread can end (checkCloseConditions, conn.cpp:290).
DisconnectCompletes == \A c \in Conns : conn[c].leaving ~> ~conn[c].have
=============================================================================
