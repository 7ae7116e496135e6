------------------------------- MODULE MCSessions -------------------------------
(***************************************************************************)
(* The sessions of one connection (ProxyRegistry) as one of several        *)
(* systems that a behaviour may be about: what a run says of them, and     *)
(* what is proved.  The connection runs in no terminal.                    *)
(***************************************************************************)
EXTENDS MCSystem, Naturals, Sequences, FiniteSets

CONSTANTS Peer, Servers, Terms, Host, Self, Nobody, MaxInitial, MaxAnnounces, MaxConnects

VARIABLES
  conn, registered, mapped, lq, closing, released,
  nTerms, remote, sent, sessions, lost, down            \* ProxyRegistry

Session == INSTANCE ProxyRegistry WITH Conns <- {Peer}, InTerm <- {}, None <- Nobody

Ids == Servers \cup Terms

\* Ids are 128 bits long.  Two things the code does not exclude are left out,
\* for HopKnown fails then (conn.cpp:479, 524): a peer that announces a server
\* twice in a session, and one that announces this server's own terminals.
ASSUME SessionAssumption ==
  /\ IsFiniteSet(Ids) /\ Servers \cap Terms = {} /\ Peer # Nobody
  /\ Host \in [Terms -> Servers \ {Self}]
  /\ MaxAnnounces \in [Ids -> 0..2] /\ \A s \in Servers : MaxAnnounces[s] < 2

-----------------------------------------------------------------------------
(* What the proof of SessionSound rests on *)

Known == conn[Peer].known
Ignored == conn[Peer].ignored
Active == conn[Peer].active
Withdrawn == conn[Peer].removing
Held == Active \cup Withdrawn

Proxies == [known : SUBSET Ids, ignored : SUBSET Ids, active : SUBSET Ids,
            removing : SUBSET Ids, have : BOOLEAN, leaving : BOOLEAN, draining : BOOLEAN]

SessionTypes ==
  /\ conn \in [{Peer} -> Proxies]
  /\ registered \in [Ids -> {Peer, Nobody}] /\ mapped \in [Ids -> {Peer, Nobody}]
  /\ lq \in Seq([op : {"add", "remove"}, conn : {Peer}, id : Ids])
  /\ closing \subseteq {Peer} \X Ids
  /\ released \in [{Peer} -> Seq(Ids)]
  /\ nTerms \in [{Peer} -> [Servers -> [n : Nat, starting : Nat]]]
  /\ remote \in [{Peer} -> SUBSET Ids]
  /\ sent \in [{Peer} -> [Ids -> Nat]]

\* The connection's sets agree with each other and with the registry; a
\* terminal is held with its server.
Books ==
  /\ ~conn[Peer].draining
  /\ conn[Peer].leaving => conn[Peer].have /\ Active = {}
  /\ ~conn[Peer].have => Known \cup Ignored \cup Held \cup remote[Peer] = {}
  /\ Active \cap Withdrawn = {} /\ Ignored \cap Held = {} /\ Ignored \subseteq {Self}
  /\ Active \cup Ignored \subseteq Known /\ Known \subseteq Held \cup Ignored
  /\ \A i \in Ids : registered[i] = Peer <=> i \in Active
  /\ \A t \in Terms : /\ t \in Held => Host[t] \in Held
                      /\ t \in Active => Host[t] \in Active

\* What the peer has said in a session, and how often; an id that was
\* forgotten before its proxy came back is not announced again.
Announced ==
  Session!Connected(Peer) =>
    /\ Active \cup Ignored \subseteq remote[Peer]
    /\ \A i \in remote[Peer] : i \in Servers \/ <<Peer, i>> \notin lost => i \in Active \cup Ignored
    /\ \A i \in Known \cup Withdrawn \cup remote[Peer] : sent[Peer][i] >= 1
    /\ \A i \in Withdrawn : i \in remote[Peer] \/ i \notin Known => sent[Peer][i] >= 2

Waits(i) == \E j \in DOMAIN lq : lq[j].id = i
Leaves(i) == \E j \in DOMAIN lq : lq[j].id = i /\ lq[j].op = "remove"
Closing(i) == <<Peer, i>> \in closing
Returned(i) == \E k \in DOMAIN released[Peer] : released[Peer][k] = i

\* Where the proxy of each id is: a proxy that is held is on one of its ways.
Ways ==
  \A i \in Ids :
    /\ i \notin Held => ~Waits(i) /\ mapped[i] = Nobody /\ ~Closing(i) /\ ~Returned(i)
    /\ i \in Active => ~Leaves(i) /\ ~Closing(i) /\ ~Returned(i) /\ (mapped[i] = Peer \/ Waits(i))
    /\ i \in Withdrawn => Leaves(i) \/ Closing(i) \/ Returned(i)
    /\ Closing(i) \/ Returned(i) => mapped[i] = Nobody /\ ~Waits(i)
    /\ Closing(i) => ~Returned(i)

\* The order in the queues: an id is added and then removed, and the terminals
\* of a server between its addition and its removal; they come back before it.
Turns ==
  /\ \A j, k \in DOMAIN lq :
       j < k /\ lq[j].id = lq[k].id => lq[j].op = "add" /\ lq[k].op = "remove"
  /\ \A j \in DOMAIN lq :
       IF lq[j].op = "add" THEN mapped[lq[j].id] = Nobody
       ELSE mapped[lq[j].id] = Peer \/ \E k \in 1..j - 1 : lq[k].id = lq[j].id
  /\ \A j \in DOMAIN lq : lq[j].id \in Terms =>
       /\ mapped[Host[lq[j].id]] = Peer \/ \E k \in 1..j - 1 : lq[k].id = Host[lq[j].id]
       /\ \A k \in 1..j - 1 : lq[k].id = Host[lq[j].id] => lq[k].op = "add"
  /\ \A t \in Terms : /\ mapped[t] = Peer => mapped[Host[t]] = Peer
                      /\ Closing(t) => ~Returned(Host[t])
  /\ \A k, l \in DOMAIN released[Peer] :
       /\ released[Peer][k] = released[Peer][l] => k = l
       /\ released[Peer][k] \in Terms /\ released[Peer][l] = Host[released[Peer][k]] => k < l

Mapped(s) == {t \in Terms : Host[t] = s /\ mapped[t] = Peer}

\* A server's count, also while the server waits to be added.
Counts ==
  \A s \in Servers :
    LET p == nTerms[Peer][s]
    IN /\ mapped[s] = Peer => p.n = p.starting + Cardinality(Mapped(s))
       /\ (\E j \in DOMAIN lq : lq[j].id = s /\ lq[j].op = "add") => p.n = p.starting

Kept == SessionTypes /\ Books /\ Announced /\ Ways /\ Turns /\ Counts /\ ~down

(* ProxyRegistry: the listener knows the server of every terminal, servers *)
(* count their terminals, a connection that is over leaves nothing behind, *)
(* and what peer and connection know agrees (conn.cpp:346, 391, 479).      *)
SessionSound ==
  system = "session" =>
    Kept /\ Session!HopKnown /\ Session!ServerCounts /\ Session!NoOrphans /\ Session!Agreement
=================================================================================
