---------------------------- MODULE WatchLifecycle ----------------------------
(***************************************************************************)
(* The life of the watches on one object of the server: each client        *)
(* connection (a TermReader with its TermWriter) gets one BaseWatch on the *)
(* object, shared by four threads.                                         *)
(*                                                                         *)
(*   listener  creates the watch, hands it to the writer and the reader,   *)
(*             and deletes readers                                         *)
(*   owner     the thread the watch reports to; it asks for the release    *)
(*             and deletes the watch                                       *)
(*   reader    announces the object, drops the first of two references     *)
(*   writer    sends updates and the removal, drops the second reference   *)
(*                                                                         *)
(* owner.proxy is FALSE for a terminal or connection, whose own thread     *)
(* closes it (ConnInstance), and TRUE for a proxy, closed by the listener  *)
(* (BaseProxy).  Watch r stands for reader r's watch on the object.        *)
(***************************************************************************)
EXTENDS Naturals, Sequences, FiniteSets, SequencesExt

CONSTANTS
  Readers,           \* client connections
  MaxChanges         \* bound: changes of the object that reach a watch

ASSUME MaxChangesAssumption == MaxChanges \in Nat

VARIABLES
  owner,             \* the object: its m_closing, m_watches and owner thread
  pq,                \* owner thread's queue of released watches
  lq,                \* listener's queue
  job,               \* what the listener is in the middle of
  watch,             \* reader -> the watch
  reader,            \* reader -> TermReader
  writer,            \* reader -> TermWriter
  wire,              \* reader -> what the client was sent about the object
  changes,           \* changes pushed so far
  raced,             \* history: watches released before the reader had them
  early              \* history: watches activated before they were started

vars == <<owner, pq, lq, job, watch, reader, writer, wire, changes, raced, early>>

NoWatch == [mem |-> "none", refs |-> 2, active |-> FALSE, started |-> FALSE,
            closing |-> FALSE, reader |-> TRUE, writer |-> TRUE, dirty |-> FALSE]

Idle == [step |-> "idle", todo |-> {}, cur |-> {}, kind |-> "none"]

Init ==
  /\ owner \in [proxy : BOOLEAN, added : {FALSE}, listed : {FALSE}, closing : {FALSE},
               watches : {{}}, ask : {{}}, asked : {FALSE}, ended : {FALSE}]
  /\ pq = <<>>
  /\ lq = <<>>
  /\ job = Idle
  /\ watch = [r \in Readers |-> NoWatch]
  /\ reader = [r \in Readers |-> [pc |-> "shake", q |-> <<>>, has |-> FALSE,
                                  confirmed |-> FALSE]]
  /\ writer = [r \in Readers |-> [pc |-> "off", has |-> FALSE, resp |-> <<>>,
                 held |-> FALSE, act |-> FALSE, clo |-> FALSE, cResp |-> <<>>,
                 cAct |-> FALSE, cClo |-> FALSE, unblocked |-> FALSE,
                 todo |-> FALSE, stop |-> FALSE]]
  /\ wire = [r \in Readers |-> <<>>]
  /\ changes = 0
  /\ raced = {}
  /\ early = {}

-----------------------------------------------------------------------------
(* Operations on a watch, called by several threads *)

\* TermWriter::activate: p_active is a side set until the writer is unblocked.
Activated(w) ==
  IF w.unblocked THEN [w EXCEPT !.act = TRUE, !.todo = TRUE]
                 ELSE [w EXCEPT !.held = TRUE, !.todo = TRUE]

Live(r) == watch[r].mem = "live"

\* Mutant: the watch is deleted when the first of its holders lets go of it.
DroppedFirst(w) == w.refs = 2

\* The last reference tells the owner thread to delete the watch.
Dropped(w) == w.refs = 1

\* BaseWatch::requestRelease: both holders are asked, with the watch locked.
RequestRelease(r) ==
  /\ watch' = [watch EXCEPT ![r].active = FALSE, ![r].closing = TRUE]
  /\ reader' = IF watch[r].reader
               THEN [reader EXCEPT ![r].q = Append(@, "release")]
               ELSE reader
  /\ writer' = IF watch[r].writer
               THEN [writer EXCEPT ![r].clo = TRUE, ![r].todo = TRUE]
               ELSE writer
  /\ raced' = IF job.cur = {r} /\ job.step # "next" THEN raced \cup {r} ELSE raced

-----------------------------------------------------------------------------
(* Owner thread *)

\* ListenerConfirmTerm from a connection, ListenerAddProxy for a proxy.
PostAdd ==
  /\ ~owner.added
  /\ ~owner.closing
  /\ owner' = [owner EXCEPT !.added = TRUE]
  /\ lq' = Append(lq, <<"add">>)
  /\ UNCHANGED <<pq, job, watch, reader, writer, wire, changes, raced, early>>

\* ConnInstance::handleClose.
HandleClose ==
  /\ ~owner.proxy
  /\ ~owner.closing
  /\ owner' = [owner EXCEPT !.closing = TRUE, !.ask = owner.watches,
                            !.ended = (owner.watches = {})]
  /\ lq' = IF owner.watches = {} THEN Append(lq, <<"remove">>) ELSE lq
  /\ UNCHANGED <<pq, job, watch, reader, writer, wire, changes, raced, early>>

\* A proxy is unregistered: the listener is told to close it.
PostRemove ==
  /\ owner.proxy
  /\ owner.added
  /\ ~owner.asked
  /\ owner' = [owner EXCEPT !.asked = TRUE]
  /\ lq' = Append(lq, <<"remove">>)
  /\ UNCHANGED <<pq, job, watch, reader, writer, wire, changes, raced, early>>

\* One turn of the loop over m_watches, in handleClose or BaseProxy::requestRelease.
AskRelease(r) ==
  /\ r \in owner.ask
  /\ owner' = [owner EXCEPT !.ask = @ \ {r}]
  /\ RequestRelease(r)
  /\ UNCHANGED <<pq, lq, job, wire, changes, early>>

\* Mutant: one watch that is back ends a closing object.
AnyBack(left) == owner.closing

\* checkCloseConditions: the object is closing and has its watches back.
AllBack(left) == owner.closing /\ left = {}

\* ConnInstance::handleWatchReleased, BaseProxy::removeWatch.
HandleWatchReleased ==
  /\ pq # <<>>
  /\ ~owner.ended
  /\ owner.ask = {}
  /\ LET r == Head(pq)
         left == owner.watches \ {r}
         done == AllBack(left)
     IN /\ owner' = [owner EXCEPT !.watches = left, !.ended = done]
        /\ watch' = [watch EXCEPT ![r].mem = "freed"]
        /\ lq' = IF done /\ ~owner.proxy THEN Append(lq, <<"remove">>) ELSE lq
  /\ pq' = Tail(pq)
  /\ UNCHANGED <<job, reader, writer, wire, changes, raced, early>>

\* pushAttributeChange and its like: only an active watch takes the change.
PushChange(r) ==
  /\ r \in owner.watches
  /\ changes < MaxChanges
  /\ watch[r].active
  /\ changes' = changes + 1
  /\ watch' = [watch EXCEPT ![r].dirty = TRUE]
  /\ writer' = [writer EXCEPT ![r] = Activated(@)]
  /\ UNCHANGED <<owner, pq, lq, job, reader, wire, raced, early>>

\* TermWatch::pushUserRegion looks at closing only, so it also activates a
\* watch the reader has not started yet.
PushUserRegion(r) ==
  /\ ~owner.proxy
  /\ r \in owner.watches
  /\ changes < MaxChanges
  /\ ~watch[r].closing
  /\ changes' = changes + 1
  /\ watch' = [watch EXCEPT ![r].dirty = TRUE]
  /\ writer' = [writer EXCEPT ![r] = Activated(@)]
  /\ early' = IF watch[r].started THEN early ELSE early \cup {r}
  /\ UNCHANGED <<owner, pq, lq, job, reader, wire, raced>>

-----------------------------------------------------------------------------
(* Listener *)

\* The listener takes its next item; a proxy's release loop is its own work.
Free == job.step = "idle" /\ (owner.proxy => owner.ask = {})

InReaders(r) == reader[r].pc # "freed"

\* handleConfirmTerm, handleAddProxy: every confirmed reader gets a watch.
ListenerAdd ==
  /\ lq # <<>> /\ Head(lq) = <<"add">>
  /\ Free
  /\ owner' = [owner EXCEPT !.listed = TRUE]
  /\ job' = [Idle EXCEPT !.step = "next", !.kind = "add",
               !.todo = {r \in Readers : InReaders(r) /\ reader[r].confirmed}]
  /\ lq' = Tail(lq)
  /\ UNCHANGED <<pq, watch, reader, writer, wire, changes, raced, early>>

\* handleConfirmReader: the new reader gets a watch on every object.
ListenerConfirm(r) ==
  /\ lq # <<>> /\ Head(lq) = <<"confirm", r>>
  /\ Free
  /\ job' = [step |-> "next", kind |-> "confirm", cur |-> {r},
             todo |-> IF owner.listed THEN {r} ELSE {}]
  /\ lq' = Tail(lq)
  /\ UNCHANGED <<owner, pq, watch, reader, writer, wire, changes, raced, early>>

\* Mutant: the proxy is closed without going through the listener's queue.
RemoveAnyTime ==
  /\ owner.proxy
  /\ owner.added /\ ~owner.closing
  /\ owner' = [owner EXCEPT !.listed = FALSE, !.closing = TRUE, !.ask = owner.watches,
                            !.ended = (owner.watches = {})]
  /\ UNCHANGED <<pq, lq, job, watch, reader, writer, wire, changes, raced, early>>

\* handleRemoveProxy starts BaseProxy::requestRelease; handleRemoveTerm.
ListenerRemove ==
  /\ lq # <<>> /\ Head(lq) = <<"remove">>
  /\ Free
  /\ lq' = Tail(lq)
  /\ owner' = IF owner.proxy
              THEN [owner EXCEPT !.listed = FALSE, !.closing = TRUE, !.ask = owner.watches,
                                 !.ended = (owner.watches = {})]
              ELSE [owner EXCEPT !.listed = FALSE]
  /\ UNCHANGED <<pq, job, watch, reader, writer, wire, changes, raced, early>>

\* ConnInstance::addWatch, BaseProxy::addWatch.
Refused == owner.closing

\* addConnWatch: refused once the object is closing.
AddConnWatch(r) ==
  /\ job.step = "next"
  /\ r \in job.todo
  /\ IF Refused
     THEN /\ job' = [job EXCEPT !.todo = @ \ {r}]
          /\ UNCHANGED <<owner, watch>>
     ELSE /\ job' = [job EXCEPT !.todo = @ \ {r}, !.cur = {r}, !.step = "toWriter"]
          /\ owner' = [owner EXCEPT !.watches = @ \cup {r}]
          /\ watch' = [watch EXCEPT ![r].mem = "live"]
  /\ UNCHANGED <<pq, lq, reader, writer, wire, changes, raced, early>>

\* TermReader::addWatch and setWatches: the writer first, ...
AddToWriter(r) ==
  /\ job.step = "toWriter"
  /\ job.cur = {r}
  /\ writer' = [writer EXCEPT ![r].has = TRUE]
  /\ job' = [job EXCEPT !.step = "toReader"]
  /\ UNCHANGED <<owner, pq, lq, watch, reader, wire, changes, raced, early>>

\* ... then the reader, which is told to start the watch.
AddToReader(r) ==
  /\ job.step = "toReader"
  /\ job.cur = {r}
  /\ reader' = [reader EXCEPT ![r].has = TRUE, ![r].q = Append(@, "added")]
  /\ job' = [job EXCEPT !.step = "next", !.cur = IF job.kind = "confirm" THEN @ ELSE {}]
  /\ UNCHANGED <<owner, pq, lq, watch, writer, wire, changes, raced, early>>

\* The end of handleConfirmTerm, or of handleConfirmReader with confirm and PostConfirm.
JobDone ==
  /\ job.step = "next"
  /\ job.todo = {}
  /\ job' = Idle
  /\ reader' = IF job.kind = "confirm"
               THEN [r \in Readers |->
                       IF job.cur = {r}
                       THEN [reader[r] EXCEPT !.confirmed = TRUE, !.q = Append(@, "confirm")]
                       ELSE reader[r]]
               ELSE reader
  /\ UNCHANGED <<owner, pq, lq, watch, writer, wire, changes, raced, early>>

\* Mutant: the destructor does not look at what its writer still holds.
RemoveReaderForgets(r) ==
  /\ lq # <<>> /\ Head(lq) = <<"removeReader", r>>
  /\ Free
  /\ lq' = Tail(lq)
  /\ reader' = [reader EXCEPT ![r].pc = "freed"]
  /\ IF reader[r].has
     THEN /\ watch' = [watch EXCEPT ![r].active = FALSE, ![r].closing = TRUE,
                                    ![r].reader = FALSE, ![r].writer = FALSE]
          /\ pq' = Append(pq, r)
     ELSE UNCHANGED <<watch, pq>>
  /\ UNCHANGED <<owner, job, writer, wire, changes, raced, early>>

\* handleRemoveReader: the reader's destructor releases what is still held.
ListenerRemoveReader(r) ==
  /\ lq # <<>> /\ Head(lq) = <<"removeReader", r>>
  /\ Free
  /\ lq' = Tail(lq)
  /\ reader' = [reader EXCEPT ![r].pc = "freed"]
  /\ IF reader[r].has \/ writer[r].has
     THEN /\ watch' = [watch EXCEPT ![r].active = FALSE, ![r].closing = TRUE,
                                    ![r].reader = FALSE, ![r].writer = FALSE]
          /\ pq' = Append(pq, r)
     ELSE UNCHANGED <<watch, pq>>
  /\ UNCHANGED <<owner, job, writer, wire, changes, raced, early>>

-----------------------------------------------------------------------------
(* Readers *)

Running(r) == reader[r].pc = "run"

\* The handshake is over: ListenerConfirmReader is posted.
PostConfirmReader(r) ==
  /\ reader[r].pc = "shake"
  /\ reader' = [reader EXCEPT ![r].pc = "run"]
  /\ lq' = Append(lq, <<"confirm", r>>)
  /\ UNCHANGED <<owner, pq, job, watch, writer, wire, changes, raced, early>>

ReaderItem(r, item) ==
  /\ Running(r)
  /\ reader[r].q # <<>>
  /\ Head(reader[r].q) = item

\* Mutant: the announcement is made even when the release was asked before.
StartAnyway(r) ==
  /\ ReaderItem(r, "added")
  /\ reader' = [reader EXCEPT ![r].q = Tail(@)]
  /\ watch' = [watch EXCEPT ![r].active = TRUE, ![r].started = TRUE, ![r].dirty = TRUE]
  /\ writer' = [writer EXCEPT ![r] = Activated([writer[r] EXCEPT !.resp = Append(@, "announce")])]
  /\ UNCHANGED <<owner, pq, lq, job, wire, changes, raced, early>>

\* handleWatchAdded and BaseWatch::start.
HandleWatchAdded(r) ==
  /\ ReaderItem(r, "added")
  /\ reader' = [reader EXCEPT ![r].q = Tail(@)]
  /\ IF watch[r].closing
     THEN UNCHANGED <<watch, writer>>
     ELSE /\ watch' = [watch EXCEPT ![r].active = TRUE, ![r].started = TRUE, ![r].dirty = TRUE]
          /\ writer' = [writer EXCEPT ![r] = Activated([writer[r] EXCEPT !.resp = Append(@, "announce")])]
  /\ UNCHANGED <<owner, pq, lq, job, wire, changes, raced, early>>

\* Mutant: the reference is given back without taking the watch out of m_watches.
ReleaseKeepsWatch(r) ==
  /\ ReaderItem(r, "release")
  /\ reader' = [reader EXCEPT ![r].q = Tail(@)]
  /\ IF reader[r].has
     THEN /\ watch' = [watch EXCEPT ![r].active = FALSE, ![r].reader = FALSE, ![r].refs = @ - 1]
          /\ pq' = IF Dropped(watch[r]) THEN Append(pq, r) ELSE pq
     ELSE UNCHANGED <<watch, pq>>
  /\ UNCHANGED <<owner, lq, job, writer, wire, changes, raced, early>>

\* handleWatchRelease and putReaderReference.
HandleWatchRelease(r) ==
  /\ ReaderItem(r, "release")
  /\ reader' = [reader EXCEPT ![r].q = Tail(@), ![r].has = FALSE]
  /\ IF reader[r].has
     THEN /\ watch' = [watch EXCEPT ![r].active = FALSE, ![r].reader = FALSE, ![r].refs = @ - 1]
          /\ pq' = IF Dropped(watch[r]) THEN Append(pq, r) ELSE pq
     ELSE UNCHANGED <<watch, pq>>
  /\ UNCHANGED <<owner, lq, job, writer, wire, changes, raced, early>>

\* ReaderPostConfirm starts the writer.
HandlePostConfirm(r) ==
  /\ ReaderItem(r, "confirm")
  /\ reader' = [reader EXCEPT ![r].q = Tail(@)]
  /\ writer' = [writer EXCEPT ![r].pc = "wait"]
  /\ UNCHANGED <<owner, pq, lq, job, watch, wire, changes, raced, early>>

\* The client announces itself: TermWriter::unblock.
Unblock(r) ==
  /\ Running(r)
  /\ ~writer[r].unblocked
  /\ writer' = [writer EXCEPT ![r].unblocked = TRUE, ![r].act = writer[r].held,
                              ![r].held = FALSE, ![r].todo = TRUE]
  /\ UNCHANGED <<owner, pq, lq, job, watch, reader, wire, changes, raced, early>>

\* The client hangs up, or ReaderClose is handled; a started writer is stopped.
ReaderQuit(r) ==
  /\ reader[r].pc \in {"shake", "run"}
  /\ reader' = [reader EXCEPT ![r].pc = "join"]
  /\ writer' = [writer EXCEPT ![r].stop = TRUE]
  /\ UNCHANGED <<owner, pq, lq, job, watch, wire, changes, raced, early>>

HandleReaderClose(r) ==
  /\ ReaderItem(r, "close")
  /\ ReaderQuit(r)

\* The writer is joined and the listener told to remove the reader.
ReaderGone(r) ==
  /\ reader[r].pc = "join"
  /\ writer[r].pc \in {"off", "ended"}
  /\ reader' = [reader EXCEPT ![r].pc = "gone"]
  /\ lq' = Append(lq, <<"removeReader", r>>)
  /\ UNCHANGED <<owner, pq, job, watch, writer, wire, changes, raced, early>>

-----------------------------------------------------------------------------
(* Writers: lockLoop *)

\* The critical section of lockLoop.
WriterSwap(r) ==
  /\ writer[r].pc = "wait"
  /\ writer[r].todo
  /\ ~writer[r].stop
  /\ writer' = [writer EXCEPT ![r].pc = "send", ![r].todo = FALSE,
       ![r].cResp = writer[r].resp, ![r].resp = <<>>,
       ![r].cAct = writer[r].act, ![r].act = FALSE,
       ![r].cClo = writer[r].clo, ![r].clo = FALSE]
  /\ UNCHANGED <<owner, pq, lq, job, watch, reader, wire, changes, raced, early>>

\* Mutant: active watches are written before the responses.
WriterSendLate(r) ==
  /\ writer[r].pc = "send"
  /\ wire' = [wire EXCEPT ![r] = @ \o (IF writer[r].cAct THEN <<"update">> ELSE <<>>)
                                     \o writer[r].cResp]
  /\ writer' = [writer EXCEPT ![r].cResp = <<>>, ![r].pc = "active"]
  /\ UNCHANGED <<owner, pq, lq, job, watch, reader, changes, raced, early>>

WriterSend(r) ==
  /\ writer[r].pc = "send"
  /\ wire' = [wire EXCEPT ![r] = @ \o writer[r].cResp]
  /\ writer' = [writer EXCEPT ![r].cResp = <<>>, ![r].pc = "active"]
  /\ UNCHANGED <<owner, pq, lq, job, watch, reader, changes, raced, early>>

\* handleBaseWatch, handleTermWatch, handleProxyWatch.
WriterActive(r) ==
  /\ writer[r].pc = "active"
  /\ writer' = [writer EXCEPT ![r].cAct = FALSE, ![r].pc = "closing"]
  /\ IF writer[r].cAct /\ watch[r].dirty
     THEN /\ wire' = [wire EXCEPT ![r] = Append(@, "update")]
          /\ watch' = [watch EXCEPT ![r].dirty = FALSE]
     ELSE UNCHANGED <<wire, watch>>
  /\ UNCHANGED <<owner, pq, lq, job, reader, changes, raced, early>>

\* handleClosingWatch and putWriterReference.
WriterClosing(r) ==
  /\ writer[r].pc = "closing"
  /\ IF writer[r].cClo
     THEN /\ writer' = [writer EXCEPT ![r].pc = "wait", ![r].cClo = FALSE, ![r].act = FALSE,
                                      ![r].held = FALSE, ![r].has = FALSE]
          /\ watch' = [watch EXCEPT ![r].active = FALSE, ![r].writer = FALSE,
                                    ![r].dirty = FALSE, ![r].refs = @ - 1]
          /\ pq' = IF Dropped(watch[r]) THEN Append(pq, r) ELSE pq
          /\ wire' = IF watch[r].started THEN [wire EXCEPT ![r] = Append(@, "remove")] ELSE wire
     ELSE /\ writer' = [writer EXCEPT ![r].pc = "wait"]
          /\ UNCHANGED <<watch, pq, wire>>
  /\ UNCHANGED <<owner, lq, job, reader, changes, raced, early>>

WriterStop(r) ==
  /\ writer[r].pc = "wait"
  /\ writer[r].stop
  /\ writer' = [writer EXCEPT ![r].pc = "ended"]
  /\ UNCHANGED <<owner, pq, lq, job, watch, reader, wire, changes, raced, early>>

\* A write fails: the writer ends and asks its reader to close.
WriterFail(r) ==
  /\ writer[r].pc \in {"send", "active"}
  /\ writer' = [writer EXCEPT ![r].pc = "ended", ![r].stop = TRUE]
  /\ reader' = [reader EXCEPT ![r].q = Append(@, "close")]
  /\ UNCHANGED <<owner, pq, lq, job, watch, wire, changes, raced, early>>

-----------------------------------------------------------------------------
OwnerStep == HandleWatchReleased \/ (\E r \in Readers : AskRelease(r))

ListenerStep ==
  \/ ListenerAdd \/ ListenerRemove \/ JobDone
  \/ \E r \in Readers : ListenerConfirm(r) \/ AddConnWatch(r) \/ AddToWriter(r)
                          \/ AddToReader(r) \/ ListenerRemoveReader(r)

ReaderStep(r) ==
  \/ HandleWatchAdded(r) \/ HandleWatchRelease(r) \/ HandlePostConfirm(r)
  \/ HandleReaderClose(r) \/ ReaderGone(r)

WriterStep(r) ==
  WriterSwap(r) \/ WriterSend(r) \/ WriterActive(r) \/ WriterClosing(r) \/ WriterStop(r)

Next ==
  \/ PostAdd \/ HandleClose \/ PostRemove
  \/ OwnerStep
  \/ ListenerStep
  \/ \E r \in Readers :
       \/ ReaderStep(r) \/ WriterStep(r) \/ WriterFail(r)
       \/ PostConfirmReader(r) \/ Unblock(r) \/ ReaderQuit(r)
       \/ PushChange(r) \/ PushUserRegion(r)

\* Every thread that has work keeps running; clients and the object are free
\* to do nothing.
Fairness ==
  /\ WF_vars(OwnerStep)
  /\ WF_vars(ListenerStep)
  /\ \A r \in Readers : WF_vars(ReaderStep(r)) /\ WF_vars(WriterStep(r))

Spec == Init /\ [][Next]_vars /\ Fairness

-----------------------------------------------------------------------------
Count(seq, x) == Cardinality({i \in DOMAIN seq : seq[i] = x})
Sent(r, msg) == Count(wire[r], msg) > 0

TypeOK ==
  /\ owner.watches \in SUBSET Readers /\ owner.ask \in SUBSET owner.watches
  /\ pq \in Seq(Readers)
  /\ lq \in Seq({<<"add">>, <<"remove">>} \cup ({"confirm", "removeReader"} \X Readers))
  /\ job.step \in {"idle", "next", "toWriter", "toReader"}
  /\ \A r \in Readers :
       /\ watch[r].mem \in {"none", "live", "freed"} /\ watch[r].refs \in 0..2
       /\ reader[r].pc \in {"shake", "run", "join", "gone", "freed"}
       /\ reader[r].q \in Seq({"added", "release", "confirm", "close"})
       /\ writer[r].pc \in {"off", "wait", "send", "active", "closing", "ended"}
       /\ wire[r] \in Seq({"announce", "update", "remove"})
  /\ changes \in 0..MaxChanges
  /\ raced \in SUBSET Readers /\ early \in SUBSET Readers

\* The owner is told of a released watch once, while the watch still exists,
\* however the two references and the reader's destructor interleave.
ReleasedOnce ==
  \A r \in Readers \ raced : Count(pq, r) <= IF Live(r) THEN 1 ELSE 0

\* A thread that can still follow its pointer to the watch finds it alive.  The
\* exception is a watch the owner released before the reader was given it:
\* then "added" is queued behind "release", and both may outlive the watch.
ReaderPoints(r) ==
  /\ Running(r)
  /\ \E i \in DOMAIN reader[r].q : reader[r].q[i] \in {"added", "release"}
WriterPoints(r) ==
  /\ writer[r].pc \in {"wait", "send", "active", "closing"}
  /\ writer[r].held \/ writer[r].act \/ writer[r].clo \/ writer[r].cAct \/ writer[r].cClo
DestructorPoints(r) == InReaders(r) /\ (reader[r].has \/ writer[r].has)
NoUseAfterFree ==
  \A r \in Readers \ raced :
    ReaderPoints(r) \/ WriterPoints(r) \/ DestructorPoints(r) => Live(r)

\* The reverse pointers: a watch that can still be activated or released has
\* its reader and writer alive.
NoDeadThreadUsed ==
  \A r \in Readers : Live(r) /\ reader[r].pc = "freed" =>
    ~watch[r].active /\ ~watch[r].reader /\ ~watch[r].writer

\* The client is told of the object, then of its changes, then of its end,
\* each end once.  Only a user region pushed to a watch its reader has not
\* started yet reaches the client before the announcement.
WireOrder ==
  \A r \in Readers : LET w == wire[r] IN
    /\ Count(w, "announce") <= 1 /\ Count(w, "remove") <= 1
    /\ \A i \in DOMAIN w : w[i] = "remove" => i = Len(w) /\ Sent(r, "announce")
    /\ \A i, j \in DOMAIN w : w[i] = "update" /\ w[j] = "announce" /\ r \notin early => j < i

\* An object whose thread has ended has no watch left (conn.cpp's asserts, and
\* the leak handleRemoveTerm reports when it is not so).
NoWatchOutlivesOwner == owner.ended => \A r \in Readers : ~Live(r)

\* A proxy is never released before its readers have it: the listener that
\* closes it is the thread that hands its watches out.
ProxyNeverRaces == owner.proxy => raced = {}

\* A closing object gets all its watches back, whatever its readers do, unless
\* one was released before its reader was given it.
CloseCompletes == owner.closing ~> (owner.ended \/ raced # {})

\* A client that was told of the object is told of its end, or has gone.
RemovalSent ==
  \A r \in Readers :
    Sent(r, "announce") /\ owner.closing ~> Sent(r, "remove") \/ ~Running(r) \/ writer[r].pc = "ended"
=============================================================================
