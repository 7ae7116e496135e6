---------------------------- MODULE AttributeSync ----------------------------
(***************************************************************************)
(* Attributes and the clients' copies of them.  An object (the server, a   *)
(* terminal, a connection) keeps a map of attributes that several threads  *)
(* change; each watch collects the changes, keyed by attribute, until its  *)
(* writer sends them.  A change is written under the object's state lock   *)
(* and pushed to the watches under the object's own lock, later.           *)
(*                                                                         *)
(* A change is a function from some keys to their new values, None for an  *)
(* attribute removed; what a watch or a writer holds is one, too.  Empty   *)
(* is the value left behind by a string that was moved away.  The          *)
(* announcement, which the writer sends before any change (WireOrder of    *)
(* WatchLifecycle), reaches view at once.                                  *)
(***************************************************************************)
EXTENDS Naturals, FiniteSets, Sequences, SequencesExt

CONSTANTS
  Objects,           \* objects with attributes
  Readers,           \* clients, each with a watch on every object
  Setters,           \* threads that change attributes
  Keys, Values,      \* attributes and their values
  None, Empty,       \* an attribute removed; a moved-from string
  BulkSets,          \* ways of changing several attributes at once
  MaxWrites          \* bound: changes

ASSUME BulkSetsAssumption == BulkSets \subseteq {"set", "locked"}
ASSUME MaxWritesAssumption == MaxWrites \in Nat
ASSUME ValuesAssumption == {None, Empty} \cap Values = {} /\ None # Empty

VARIABLES
  attrs,             \* object -> m_attributes
  setter,            \* setter -> a change written and not pushed yet
  watch,             \* reader -> object -> BaseWatch
  writer,            \* reader -> TermWriter with its m_transfer
  view,              \* reader -> object -> what the client has been told
  writes,            \* changes so far
  crossed,           \* history: attributes two threads were changing at once
  blended            \* history: readers whose writer closed a watch while held back

vars == <<attrs, setter, watch, writer, view, writes, crossed, blended>>

NoChange == <<>>
Set1(k, v) == [x \in {k} |-> v]
Over(f, g) == [k \in DOMAIN f \cup DOMAIN g |-> IF k \in DOMAIN f THEN f[k] ELSE g[k]]
NoAttributes == [k \in Keys |-> None]

Init ==
  /\ attrs = [o \in Objects |-> NoAttributes]
  /\ setter = [p \in Setters |-> [pc |-> "idle", o |-> None, change |-> NoChange]]
  /\ watch = [r \in Readers |-> [o \in Objects |->
                [active |-> FALSE, started |-> FALSE, closing |-> FALSE, pend |-> NoChange]]]
  /\ writer = [r \in Readers |-> [pc |-> "wait", blocked |-> TRUE, held |-> {}, act |-> {},
                clo |-> {}, cAct |-> {}, cClo |-> {}, cur |-> None, transfer |-> NoChange]]
  /\ view = [r \in Readers |-> [o \in Objects |-> NoAttributes]]
  /\ writes = 0
  /\ crossed = {}
  /\ blended = {}

-----------------------------------------------------------------------------
(* Threads that change attributes *)

\* The part of a change that changes something.
Changed(o, m) == [k \in {x \in DOMAIN m : attrs[o][x] # m[x]} |-> m[k]]
Others(p, o) == UNION {DOMAIN setter[q].change : q \in {x \in Setters \ {p} : setter[x].o = o}}

Write(p, o, m) ==
  /\ writes < MaxWrites
  /\ DOMAIN m # {}
  /\ attrs' = [attrs EXCEPT ![o] = Over(m, @)]
  /\ writes' = writes + 1
  /\ crossed' = (crossed \ ({o} \X DOMAIN m)) \cup ({o} \X (DOMAIN m \cap Others(p, o)))

\* Mutant: the side set is still used after the writer was unblocked.
ActivateHeld(w, o) == [w EXCEPT !.held = @ \cup {o}]

\* TermWriter::activate: held back until the client has asked for updates.
Activate(w, o) == IF w.blocked THEN [w EXCEPT !.held = @ \cup {o}]
                               ELSE [w EXCEPT !.act = @ \cup {o}]

Taking(o) == {r \in Readers : watch[r][o].active}

ActivateAll(o) == writer' = [r \in Readers |->
                               IF r \in Taking(o) THEN Activate(writer[r], o) ELSE writer[r]]

\* Mutant: a change is pushed to the watches that have none pending.
PushIfClean(o, m) ==
  /\ watch' = [r \in Readers |-> IF r \in Taking(o) /\ watch[r][o].pend = NoChange
       THEN [watch[r] EXCEPT ![o].pend = Over(m, @)] ELSE watch[r]]
  /\ ActivateAll(o)

\* pushAttributeChange, on every watch of the object.
PushOne(o, m) ==
  /\ watch' = [r \in Readers |-> IF r \in Taking(o)
                                 THEN [watch[r] EXCEPT ![o].pend = Over(m, @)] ELSE watch[r]]
  /\ ActivateAll(o)

\* pushAttributeChanges moves its argument into the watch: the nodes of new
\* keys by merge, and the values of the keys that were pending already.  A
\* later watch gets what the ones before it left: the keys that were pending
\* in each of them, with moved-from values.
Rest(m, pends) == [k \in {x \in DOMAIN m : \A f \in pends : x \in DOMAIN f} |-> Empty]

PushMany(o, m) ==
  \E order \in SetToSeqs(Taking(o)) :
    LET Left(i) == IF i = 1 THEN m ELSE Rest(m, {watch[order[j]][o].pend : j \in 1..i - 1})
    IN /\ watch' = [r \in Readers |->
            IF r \in Taking(o)
            THEN [watch[r] EXCEPT ![o].pend =
                    Over(Left(CHOOSE i \in DOMAIN order : order[i] = r), @)]
            ELSE watch[r]]
       /\ ActivateAll(o)

Idle(p) == setter[p].pc = "idle"

\* commandSetAttribute; commandRemoveAttribute when v is None.
SetAttribute(p, o, k, v) ==
  /\ Idle(p)
  /\ attrs[o][k] # v
  /\ Write(p, o, Set1(k, v))
  /\ setter' = [setter EXCEPT ![p] = [pc |-> "one", o |-> o, change |-> Set1(k, v)]]
  /\ UNCHANGED <<watch, writer, view, blended>>

\* commandSetAttributes.
SetAttributes(p, o, m) ==
  /\ "set" \in BulkSets
  /\ Idle(p)
  /\ Write(p, o, Changed(o, m))
  /\ setter' = [setter EXCEPT ![p] = [pc |-> "many", o |-> o, change |-> Changed(o, m)]]
  /\ UNCHANGED <<watch, writer, view, blended>>

\* doSetOwner, doSetSender: written and pushed under the object's lock; the
\* keys that were there before are reported even when they keep their value.
SetLocked(p, o, m) ==
  /\ "locked" \in BulkSets
  /\ Idle(p)
  /\ Write(p, o, m)
  /\ PushMany(o, m)
  /\ UNCHANGED <<setter, view, blended>>

Push(p) ==
  /\ ~Idle(p)
  /\ IF setter[p].pc = "one" THEN PushOne(setter[p].o, setter[p].change)
                             ELSE PushMany(setter[p].o, setter[p].change)
  /\ setter' = [setter EXCEPT ![p] = [pc |-> "idle", o |-> None, change |-> NoChange]]
  /\ UNCHANGED <<attrs, view, writes, crossed, blended>>

\* The object's thread asks for its watches back.
RequestRelease(o) ==
  /\ \A r \in Readers : ~watch[r][o].closing
  /\ watch' = [r \in Readers |->
                 [watch[r] EXCEPT ![o].active = FALSE, ![o].closing = TRUE]]
  /\ writer' = [r \in Readers |-> [writer[r] EXCEPT !.clo = @ \cup {o}]]
  /\ UNCHANGED <<attrs, setter, view, writes, crossed, blended>>

-----------------------------------------------------------------------------
(* Reader *)

\* BaseWatch::start: the announcement carries the attributes of this moment.
Start(r, o) ==
  /\ ~watch[r][o].started /\ ~watch[r][o].closing
  /\ watch' = [watch EXCEPT ![r][o].active = TRUE, ![r][o].started = TRUE]
  /\ view' = [view EXCEPT ![r][o] = attrs[o]]
  /\ writer' = [writer EXCEPT ![r] = Activate(@, o)]
  /\ UNCHANGED <<attrs, setter, writes, crossed, blended>>

Unblock(r) ==
  /\ writer[r].blocked
  /\ writer' = [writer EXCEPT ![r].blocked = FALSE, ![r].act = writer[r].held, ![r].held = {}]
  /\ UNCHANGED <<attrs, setter, watch, view, writes, crossed, blended>>

-----------------------------------------------------------------------------
(* Writer *)

WriterSwap(r) ==
  /\ writer[r].pc = "wait"
  /\ writer[r].act \cup writer[r].clo # {}
  /\ writer' = [writer EXCEPT ![r].pc = "work", ![r].cAct = writer[r].act, ![r].act = {},
                              ![r].cClo = writer[r].clo, ![r].clo = {}]
  /\ UNCHANGED <<attrs, setter, watch, view, writes, crossed, blended>>

\* transferBaseState of an active watch: the two maps are swapped.
Transfer(r, o) ==
  /\ writer[r].pc = "work"
  /\ o \in writer[r].cAct
  /\ writer' = [writer EXCEPT ![r].pc = "write", ![r].cur = o, ![r].cAct = @ \ {o},
                              ![r].transfer = watch[r][o].pend]
  /\ watch' = [watch EXCEPT ![r][o].pend = writer[r].transfer]
  /\ UNCHANGED <<attrs, setter, view, writes, crossed, blended>>

\* The client applies what it is told; an empty specification says nothing.
Told(v, m) == [k \in Keys |-> IF k \in DOMAIN m /\ m[k] # Empty THEN m[k] ELSE v[k]]

\* writeBaseResponses.
WriteResponses(r) ==
  /\ writer[r].pc = "write"
  /\ view' = [view EXCEPT ![r][writer[r].cur] = Told(@, writer[r].transfer)]
  /\ writer' = [writer EXCEPT ![r].pc = "work", ![r].cur = None, ![r].transfer = NoChange]
  /\ UNCHANGED <<attrs, setter, watch, writes, crossed, blended>>

\* handleClosingWatch: the maps are swapped here, too, and nothing is written.
CloseWatch(r, o) ==
  /\ writer[r].pc = "work"
  /\ writer[r].cAct = {}
  /\ o \in writer[r].cClo
  /\ blended' = IF watch[r][o].pend # NoChange THEN blended \cup {r} ELSE blended
  /\ writer' = [writer EXCEPT ![r].cClo = @ \ {o}, ![r].transfer = watch[r][o].pend,
                              ![r].act = @ \ {o}, ![r].held = @ \ {o}]
  /\ watch' = [watch EXCEPT ![r][o].active = FALSE, ![r][o].pend = writer[r].transfer]
  /\ UNCHANGED <<attrs, setter, view, writes, crossed>>

WriterDone(r) ==
  /\ writer[r].pc = "work"
  /\ writer[r].cAct \cup writer[r].cClo = {}
  /\ writer' = [writer EXCEPT ![r].pc = "wait"]
  /\ UNCHANGED <<attrs, setter, watch, view, writes, crossed, blended>>

-----------------------------------------------------------------------------
WriterStep(r) ==
  \/ WriterSwap(r) \/ WriteResponses(r) \/ WriterDone(r)
  \/ \E o \in Objects : Transfer(r, o) \/ CloseWatch(r, o)

Changes == UNION {[D -> Values \cup {None}] : D \in SUBSET Keys \ {{}}}

Next ==
  \/ \E p \in Setters :
       \/ Push(p)
       \/ \E o \in Objects :
            \/ \E k \in Keys, v \in Values \cup {None} : SetAttribute(p, o, k, v)
            \/ \E m \in Changes : SetAttributes(p, o, m) \/ SetLocked(p, o, m)
  \/ \E r \in Readers : WriterStep(r) \/ Unblock(r) \/ \E o \in Objects : Start(r, o)
  \/ \E o \in Objects : RequestRelease(o)

\* The threads of the server keep running; clients unblock when they like.
Fairness == /\ \A p \in Setters : WF_vars(Push(p))
            /\ \A r \in Readers : WF_vars(WriterStep(r))

Spec == Init /\ [][Next]_vars /\ Fairness

-----------------------------------------------------------------------------
Change(f) == DOMAIN f \subseteq Keys /\ \A k \in DOMAIN f : f[k] \in Values \cup {None, Empty}

TypeOK ==
  /\ attrs \in [Objects -> [Keys -> Values \cup {None}]]
  /\ view \in [Readers -> [Objects -> [Keys -> Values \cup {None}]]]
  /\ writes \in 0..MaxWrites
  /\ \A p \in Setters : setter[p].pc \in {"idle", "one", "many"} /\ Change(setter[p].change)
  /\ \A r \in Readers :
       /\ writer[r].pc \in {"wait", "work", "write"} /\ Change(writer[r].transfer)
       /\ (writer[r].pc = "write") = (writer[r].cur \in Objects)
       /\ writer[r].held = {} \/ writer[r].blocked
       /\ \A o \in Objects : Change(watch[r][o].pend)
  /\ crossed \subseteq Objects \X Keys /\ blended \subseteq Readers

\* Nothing is on its way to the client about the object.
Settled(r, o) ==
  /\ watch[r][o].started /\ ~watch[r][o].closing
  /\ \A p \in Setters : setter[p].o # o
  /\ watch[r][o].pend = NoChange /\ writer[r].transfer = NoChange

\* When nothing is on its way any more, the client's copy is the object's map:
\* no change slips between the announcement and the first push, between the
\* writer's swap and the next push, or into another object's update.  Two
\* exceptions: an attribute two threads changed at once, pushed in the other
\* order; and a writer that closed a watch while it was held back, which
\* takes the changes of that watch for another's.
Converges ==
  \A r \in Readers \ blended, o \in Objects : Settled(r, o) =>
    \A k \in Keys : <<o, k>> \notin crossed => view[r][o][k] = attrs[o][k]

\* A watch with changes to send is on its writer's list: it is never left with
\* changes until some later one happens to wake the writer for it.
NothingForgotten ==
  \A r \in Readers \ blended, o \in Objects : watch[r][o].pend # NoChange =>
    \/ o \in writer[r].act \cup writer[r].cAct \cup writer[r].clo \cup writer[r].cClo
    \/ writer[r].blocked /\ o \in writer[r].held

\* An attribute that keeps its value is told to every client that stays and
\* takes updates.
EventuallyTold ==
  \A r \in Readers, o \in Objects, k \in Keys, v \in Values \cup {None} :
    <>[](attrs[o][k] = v /\ watch[r][o].active /\ ~writer[r].blocked) =>
      <>[](view[r][o][k] = v \/ <<o, k>> \in crossed \/ r \in blended)

\* "to set system-specific UTF-8 key-value pairs reported to clients": the
\* attributes set are reported, to each client, once nothing is on its way.
Reported ==
  \A r \in Readers, o \in Objects : Settled(r, o) =>
    \A k \in Keys : view[r][o][k] = attrs[o][k]
=============================================================================
