--------------------------------- MODULE Scoper ---------------------------------
(***************************************************************************)
(* A terminal's child runs in a scope of systemd's.  The terminal forks    *)
(* the child, which waits on a pipe before it becomes the command, and     *)
(* gives the pipe's other end to the scoper's thread (TermScoper).  That   *)
(* asks systemd for a scope over the user's bus and closes the pipe when   *)
(* the job is done; the scope's name becomes an attribute of the terminal. *)
(* A terminal that starts its command again, or leaves, gives up the       *)
(* scope.  A new terminal may lie at the address of one that was deleted.  *)
(*                                                                         *)
(* The n-th child, its pipe, its ScopeInfo and its unit share the name n.  *)
(***************************************************************************)
EXTENDS Naturals, Sequences, FiniteSets, TLC

CONSTANTS Addrs,       \* addresses of terminals, numbers but 0
          MaxLaunches, \* bound on the children started
          MaxStops     \* bound on the scopes somebody stops

VARIABLES
  term,   \* per address: where the terminal's thread is, its id, child and attr_SCOPE_NAME
  scope,  \* per child: the ScopeInfo with its pipe, and the child
  terms,  \* m_terms
  units,  \* m_units
  queue,  \* the scoper's work
  bus,    \* whether it is up, systemd's jobs, signals on their way; history: children
          \* whose job has ended silently, and how many scopes may still be stopped
  made,   \* scopes there are or have been
  last,   \* the last child
  late    \* history: a job of an earlier child ended after the terminal had its next one

scopeVars == <<term, scope, terms, units, queue, bus, made, last, late>>

Launches == 1..MaxLaunches
NoOne == 0
NoScope == [addr |-> NoOne, id |-> 0, pipe |-> "none", copies |-> {}, alive |-> FALSE, child |-> "none"]
Waiting(n) == scope[n].child = "waiting"
-----------------------------------------------------------------------------
(* The terminals. *)
New(t) ==
  /\ term[t].pc = "none" /\ last < MaxLaunches
  /\ term' = [term EXCEPT ![t] = [pc |-> "launching", id |-> last + 1, child |-> NoOne, name |-> NoOne]]
  /\ UNCHANGED <<scope, terms, units, queue, bus, made, last, late>>

(* launch: a child holds a copy of every pipe that is open at the fork. *)
Fork(t) ==
  /\ term[t].pc = "launching" /\ last < MaxLaunches
  /\ last' = last + 1
  /\ scope' = [n \in Launches |->
       IF n = last' THEN [addr |-> t, id |-> term[t].id, pipe |-> "open", copies |-> {},
                          alive |-> TRUE, child |-> "waiting"]
       ELSE IF scope[n].pipe = "open" THEN [scope[n] EXCEPT !.copies = @ \cup {last'}] ELSE scope[n]]
  /\ term' = [term EXCEPT ![t].pc = "forked", ![t].child = last']
  /\ UNCHANGED <<terms, units, queue, bus, made, late>>

ForkFails(t) ==
  /\ term[t].pc = "launching"
  /\ term' = [term EXCEPT ![t].pc = "loop", ![t].child = NoOne]
  /\ UNCHANGED <<scope, terms, units, queue, bus, made, last, late>>

CreateScope(t) ==
  /\ term[t].pc = "forked"
  /\ terms' = [u \in DOMAIN terms \cup {t} |-> IF u = t THEN term[t].child ELSE terms[u]]
  /\ queue' = Append(queue, [op |-> "Create", n |-> term[t].child])
  /\ term' = [term EXCEPT ![t].pc = "loop"]
  /\ UNCHANGED <<scope, units, bus, made, last, late>>

(* unregisterTerm, first thing when the terminal starts again and when it  *)
(* leaves.                                                                 *)
UnregisterTerm(t, next) ==
  /\ term[t].pc = "loop"
  /\ next = "restarting" => term[t].child # NoOne /\ scope[term[t].child].child = "dead"
  /\ IF t \in DOMAIN terms
     THEN /\ queue' = Append(queue, [op |-> "Abandon", n |-> terms[t]])
          /\ terms' = [u \in DOMAIN terms \ {t} |-> terms[u]]
     ELSE UNCHANGED <<queue, terms>>
  /\ term' = [term EXCEPT ![t].pc = next]
  /\ UNCHANGED <<scope, units, bus, made, last, late>>

RemoveStatusAttributes(t) ==
  /\ term[t].pc = "restarting"
  /\ term' = [term EXCEPT ![t].pc = "launching", ![t].name = NoOne]
  /\ UNCHANGED <<scope, terms, units, queue, bus, made, last, late>>

(* The listener deletes the terminal. *)
Delete(t) ==
  /\ term[t].pc = "leaving"
  /\ term' = [term EXCEPT ![t] = [pc |-> "none", id |-> 0, child |-> NoOne, name |-> NoOne]]
  /\ UNCHANGED <<scope, terms, units, queue, bus, made, last, late>>
-----------------------------------------------------------------------------
(* The children: poll returns when the pipe has no other end any more, or  *)
(* after ATTRIBUTE_SCRIPT_TIMEOUT.                                         *)
Hung(n) == scope[n].pipe # "open" /\ scope[n].copies = {}
Becomes(n, child) ==
  [m \in Launches |-> [IF m = n THEN [scope[n] EXCEPT !.child = child] ELSE scope[m]
                        EXCEPT !.copies = @ \ {n}]]
Exec(n) ==
  /\ Waiting(n) /\ Hung(n)
  /\ scope' = Becomes(n, "running")
  /\ UNCHANGED <<term, terms, units, queue, bus, made, last, late>>
ExecAnyway(n) ==
  /\ Waiting(n) /\ ~Hung(n)
  /\ scope' = Becomes(n, "hasty")
  /\ UNCHANGED <<term, terms, units, queue, bus, made, last, late>>
Exit(n) ==
  /\ scope[n].child \in {"waiting", "running", "hasty"}
  /\ scope' = Becomes(n, "dead")
  /\ UNCHANGED <<term, terms, units, queue, bus, made, last, late>>

(* systemd: a job that makes a scope, or one that stops it, ends; or the    *)
(* call is answered with an error, which the scoper does not ask for.       *)
EndJob(n, result) ==
  /\ bus.up /\ n \in bus.jobs
  /\ bus' = IF result = "refused" THEN [bus EXCEPT !.jobs = @ \ {n}, !.silent = @ \cup {n}]
            ELSE [bus EXCEPT !.jobs = @ \ {n}, !.signals = Append(@, [n |-> n, result |-> result])]
  /\ made' = IF result = "done" THEN made \cup {n} ELSE made
  /\ UNCHANGED <<term, scope, terms, units, queue, last, late>>
StopScope(n) ==
  /\ bus.up /\ n \in made /\ bus.stops > 0
  /\ bus' = [bus EXCEPT !.stops = @ - 1, !.signals = Append(@, [n |-> n, result |-> "done"])]
  /\ UNCHANGED <<term, scope, terms, units, queue, made, last, late>>
-----------------------------------------------------------------------------
(* The scoper. *)
ClosePipe(n, why) == [scope EXCEPT ![n].pipe = IF @ = "open" THEN why ELSE @]

(* handleCreate; without a bus the call cannot be made. *)
HandleCreate(sent) ==
  /\ queue # <<>> /\ Head(queue).op = "Create" /\ (sent => bus.up)
  /\ LET n == Head(queue).n IN
     IF sent THEN units' = units \cup {n} /\ bus' = [bus EXCEPT !.jobs = @ \cup {n}] /\ scope' = scope
     ELSE scope' = ClosePipe(n, "failed") /\ UNCHANGED <<units, bus>>
  /\ queue' = Tail(queue)
  /\ UNCHANGED <<term, terms, made, last, late>>

HandleAbandon ==
  /\ queue # <<>> /\ Head(queue).op = "Abandon"
  /\ LET n == Head(queue).n IN
     /\ units' = units \ {n}
     /\ scope' = [ClosePipe(n, "abandoned") EXCEPT ![n].alive = FALSE]
  /\ queue' = Tail(queue)
  /\ UNCHANGED <<term, terms, bus, made, last, late>>

\* Mutant: the address alone tells the terminal.
NamedByAddress(n) == scope[n].addr \in DOMAIN terms

(* The terminal is there, and it is the one the scope was made for. *)
Named(n) == scope[n].addr \in DOMAIN terms /\ term[scope[n].addr].id = scope[n].id

(* handleJob: a JobRemoved signal. *)
HandleJob ==
  /\ bus.signals # <<>>
  /\ LET n == Head(bus.signals).n
         t == scope[n].addr
         known == n \in units
         named == known /\ Head(bus.signals).result = "done" /\ Named(n)
     IN /\ scope' = IF known THEN ClosePipe(n, Head(bus.signals).result) ELSE scope
        /\ term' = IF named THEN [term EXCEPT ![t].name = n] ELSE term
        /\ late' = (late \/ (named /\ terms[t] # n /\ term[t].id = scope[n].id))
  /\ bus' = [bus EXCEPT !.signals = Tail(@)]
  /\ UNCHANGED <<terms, units, queue, made, last>>

(* closeBus *)
LoseBus ==
  /\ bus.up
  /\ bus' = [bus EXCEPT !.up = FALSE, !.jobs = {}, !.signals = <<>>,
                        !.silent = @ \cup bus.jobs \cup {bus.signals[i].n : i \in DOMAIN bus.signals}]
  /\ UNCHANGED <<term, scope, terms, units, queue, made, last, late>>
-----------------------------------------------------------------------------
(* openBus may fail. *)
Init ==
  /\ term = [t \in Addrs |-> [pc |-> "none", id |-> 0, child |-> NoOne, name |-> NoOne]]
  /\ scope = [n \in Launches |-> NoScope]
  /\ terms = <<>> /\ units = {} /\ queue = <<>>
  /\ \E up \in BOOLEAN : bus = [up |-> up, jobs |-> {}, stops |-> MaxStops, silent |-> {}, signals |-> <<>>]
  /\ made = {} /\ last = 0 /\ late = FALSE

Next ==
  \/ \E t \in Addrs :
       \/ New(t) \/ Fork(t) \/ ForkFails(t) \/ CreateScope(t)
       \/ UnregisterTerm(t, "restarting") \/ UnregisterTerm(t, "leaving")
       \/ RemoveStatusAttributes(t) \/ Delete(t)
  \/ \E n \in Launches :
       \/ Exec(n) \/ ExecAnyway(n) \/ Exit(n) \/ StopScope(n)
       \/ \E result \in {"done", "failed", "refused"} : EndJob(n, result)
  \/ \E sent \in BOOLEAN : HandleCreate(sent)
  \/ HandleAbandon \/ HandleJob \/ LoseBus

Spec == Init /\ [][Next]_scopeVars
-----------------------------------------------------------------------------
(* A child that was let go by the scoper runs in its scope, unless systemd *)
(* could not make one or the terminal had given it up.                     *)
InScope ==
  \A n \in Launches :
    scope[n].child = "running" => n \in made \/ scope[n].pipe \in {"failed", "abandoned"}

(* A terminal's scope attribute names the scope of the child it has, of no *)
(* other terminal's and no earlier one's (but for `late`): the scoper's    *)
(* table, its queue and the bus all lag behind (scoper.cpp:90).            *)
NameRight ==
  ~late => \A t \in Addrs : term[t].name # NoOne => term[t].name = term[t].child

(* What the scoper points to is there: a ScopeInfo is deleted when nothing *)
(* refers to it any more, and is given up once (scoper.cpp:178).           *)
InfosLive ==
  /\ \A n \in units \cup {terms[t] : t \in DOMAIN terms} \cup {queue[i].n : i \in DOMAIN queue} :
       scope[n].alive
  /\ \A i, j \in DOMAIN queue :
       queue[i].n = queue[j].n /\ i < j => queue[i].op = "Create" /\ queue[j].op = "Abandon"
  /\ \A t \in DOMAIN terms : term[t].pc = "loop" /\ term[t].child = terms[t]

(* Once all is handled a pipe is open only when systemd never said that a  *)
(* job had ended, or the bus was lost before it did; then the child waits  *)
(* for its own timer (scoper.cpp:145).                                     *)
PipesClosed ==
  queue = <<>> /\ bus.signals = <<>> /\ bus.jobs = {} =>
    \A n \in Launches : scope[n].pipe = "open" =>
      n \in bus.silent \/ \E t \in Addrs : term[t].pc = "forked" /\ term[t].child = n

ScopesTrue == InScope /\ NameRight /\ InfosLive /\ PipesClosed
-----------------------------------------------------------------------------
(* The inductive invariant. *)
Pcs == {"none", "launching", "forked", "loop", "restarting", "leaving"}
Closings == {"done", "failed", "abandoned"}
Work == [op : {"Create", "Abandon"}, n : Launches]
Results == [n : Launches, result : {"done", "failed"}]

(* Terminals, children, scopes, work and signals are the known ones. *)
TypeOK ==
  /\ term \in [Addrs -> [pc : Pcs, id : Nat, child : {NoOne} \cup Launches, name : {NoOne} \cup Launches]]
  /\ scope \in [Launches -> [addr : {NoOne} \cup Addrs, id : Nat, pipe : {"none", "open"} \cup Closings,
                             copies : SUBSET Launches, alive : BOOLEAN,
                             child : {"none", "waiting", "running", "hasty", "dead"}]]
  /\ DOMAIN terms \subseteq Addrs /\ \A t \in DOMAIN terms : terms[t] \in Launches
  /\ units \subseteq Launches /\ queue \in Seq(Work)
  /\ bus \in [up : BOOLEAN, jobs : SUBSET Launches, stops : Nat, silent : SUBSET Launches,
              signals : Seq(Results)]
  /\ made \subseteq Launches /\ last \in 0..MaxLaunches /\ late \in BOOLEAN

Queued == {queue[i].n : i \in DOMAIN queue}
Signalled == {bus.signals[i].n : i \in DOMAIN bus.signals}
Referred == units \cup {terms[t] : t \in DOMAIN terms} \cup Queued
Called == bus.jobs \cup Signalled \cup made

(* A terminal's present child was made for it; until it is registered it   *)
(* has no name and nobody refers to it.                                    *)
ChildRight(t) ==
  /\ term[t].child # NoOne => scope[term[t].child].addr = t /\ term[t].child <= last
  /\ term[t].pc \in {"launching", "forked"} => term[t].name = NoOne
  /\ term[t].pc = "forked" =>
       /\ term[t].child \in Launches \ Referred
       /\ scope[term[t].child].alive
  /\ t \in DOMAIN terms => term[t].pc = "loop" /\ term[t].child = terms[t]

(* A scope that is given up in the queue is not in the table, and is given *)
(* up after it was asked for.                                              *)
WorkRight ==
  /\ \A i, j \in DOMAIN queue :
       queue[i].n = queue[j].n /\ i < j => queue[i].op = "Create" /\ queue[j].op = "Abandon"
  /\ \A i \in DOMAIN queue : queue[i].op = "Abandon" => \A t \in DOMAIN terms : terms[t] # queue[i].n

(* A pipe is open only while somebody is to close it. *)
PipeRight(n) ==
  /\ scope[n].child # "none" => scope[n].pipe # "none"
  /\ scope[n].child = "running" => scope[n].pipe \in Closings
  /\ scope[n].pipe = "done" => n \in made
  /\ n \in Called => n \in units \/ scope[n].pipe # "open"
  /\ scope[n].pipe = "open" =>
       \/ n \in Queued \cup bus.jobs \cup Signalled \cup bus.silent
       \/ \E t \in Addrs : term[t].pc = "forked" /\ term[t].child = n
  /\ n \in Referred => scope[n].alive
  /\ n > last => n \notin Referred \cup Called

IInv ==
  /\ TypeOK /\ WorkRight /\ NameRight
  /\ \A t \in Addrs : ChildRight(t)
  /\ \A n \in Launches : PipeRight(n)
  /\ \A i \in DOMAIN bus.signals : bus.signals[i].result = "done" => bus.signals[i].n \in made
=============================================================================
