----------------------------- MODULE PortForward -----------------------------
(***************************************************************************)
(* Port forwarding: one end listens, the other connects, and every         *)
(* connection accepted by the first is a stream in both directions over    *)
(* one task (src/mux/base/portfwdtask.cpp, portintask.cpp, portouttask.cpp *)
(* at the server, src/src/base/portfwdtask.cpp and its two kinds at the    *)
(* client, which are the same code but for what is said here).  The window *)
(* is that of the task, not of a connection.  Bytes are numbered from 1 in *)
(* each direction of a connection; an end of file is a message without     *)
(* bytes.  The programs at the two sockets of a connection are "app".      *)
(***************************************************************************)
EXTENDS Integers, Sequences, SequencesExt, FiniteSets

CONSTANTS Ids,        \* connections, numbered from 1
          Asked,      \* bytes a program that was accepted has to send
          Answered,   \* bytes a program that was connected to has
          Chunk,      \* most bytes of a message (m_chunkSize)
          Window,     \* chunks that may be unacknowledged (m_windowSize)
          MaxPauses   \* how often output is throttled

Ends == {"server", "client"}
Other(e) == IF e = "server" THEN "client" ELSE "server"

VARIABLES
  listener,  \* the end that listens
  end,       \* each end of the task and its connections
  chan,      \* messages on the way to an end
  app,       \* the program at each end of each connection
  dropped,   \* bytes an end closed a connection on before it wrote them
  pauses,    \* how often output was throttled
  crashed    \* the client used a reader it does not have

vars == <<listener, end, chan, app, dropped, pauses, crashed>>

Start(id) == [type |-> "start", id |-> id, data |-> <<>>]
Bytes(id, data) == [type |-> "bytes", id |-> id, data |-> data]
Eof(id) == Bytes(id, <<>>)
Ack(n) == [type |-> "ack", n |-> n]
Cancelled == [type |-> "cancel"]

Unused == [st |-> "none", out |-> <<>>, reading |-> FALSE]
Fresh(st) == [st |-> st, out |-> <<>>, reading |-> TRUE]
Live(d) == {id \in Ids : d.conn[id].st \in {"connecting", "open"}}
Length(chunks) == FoldLeft(LAMBDA n, data : n + Len(data), 0, chunks)

WindowFull(d) == d.sent - d.acked >= Window * Chunk

WatchReads(d, on) ==
  [d EXCEPT !.listens = on,
            !.conn = [id \in Ids |-> IF id \in Live(d) THEN [d.conn[id] EXCEPT !.reading = on]
                                     ELSE d.conn[id]]]

(* The client's connections have no reader until they are connected, and   *)
(* watchReads does not look.                                               *)
NoReader(e) == e = "client" /\ \E id \in Ids : end[e].conn[id].st = "connecting"

(* What a handler of end e leaves: the messages still to be read, its      *)
(* state, and the messages it pushes.  The server's output may be found    *)
(* throttled (throttledOutput).                                            *)
Throttled(d) == [WatchReads(d, FALSE) EXCEPT !.throttled = TRUE]
LeaveTaken(e, todo, d, msgs) ==
  /\ chan' = [chan EXCEPT ![e] = todo, ![Other(e)] = @ \o msgs]
  /\ \/ end' = [end EXCEPT ![e] = d] /\ UNCHANGED pauses
     \/ /\ e = "server" /\ msgs # <<>> /\ pauses < MaxPauses
        /\ end' = [end EXCEPT ![e] = Throttled(d)]
        /\ pauses' = pauses + 1
Leave(e, d, msgs) == LeaveTaken(e, chan[e], d, msgs)

(* closefd: what was to be written is dropped. *)
Closed(d, id) == [d EXCEPT !.conn[id] = [Unused EXCEPT !.st = "closed"]]
Drop(e, bytes) == dropped' = [dropped EXCEPT ![e] = @ + bytes]
Queued(e, id) == Length(end[e].conn[id].out)

(* Bytes written to the program: acknowledged by whole chunks. *)
Counted(d, n) ==
  [d EXCEPT !.received = @ + n,
            !.chunks = IF @ < (d.received + n) \div Chunk THEN (d.received + n) \div Chunk ELSE @]
Acks(d, n) ==
  IF d.chunks < (d.received + n) \div Chunk THEN <<Ack(d.received + n)>> ELSE <<>>

Take(data, n) == SubSeq(data, 1, n)
Rest(data, n) == SubSeq(data, n + 1, Len(data))
Deliver(e, id, data) == app' = [app EXCEPT ![e][id].got = @ \o data]

Up(e) == end[e].up
-----------------------------------------------------------------------------
(* A descriptor is readable while the window is full. *)
StopAtWindow(e) ==
  /\ Up(e) /\ WindowFull(end[e]) /\ ~NoReader(e)
  /\ \/ end[e].listens /\ e = listener
     \/ \E id \in Live(end[e]) : end[e].conn[id].reading
  /\ end' = [end EXCEPT ![e] = [WatchReads(end[e], FALSE) EXCEPT !.running = FALSE]]
  /\ UNCHANGED <<listener, chan, app, dropped, pauses, crashed>>

Accept(e) ==
  /\ Up(e) /\ e = listener /\ end[e].listens /\ ~WindowFull(end[e])
  /\ end[e].nextId \in Ids
  /\ Leave(e, [end[e] EXCEPT !.conn[end[e].nextId] = Fresh("open"), !.nextId = @ + 1],
           <<Start(end[e].nextId)>>)
  /\ UNCHANGED <<listener, app, dropped, crashed>>

Total(e) == IF e = listener THEN Asked ELSE Answered
Position(e, id) == Total(e) - app[e][id].left + 1
ReadFd(e, id, n) ==
  /\ Up(e) /\ end[e].conn[id].st = "open" /\ end[e].conn[id].reading /\ ~WindowFull(end[e])
  /\ LET a == app[e][id]
         data == [i \in 1 .. n |-> Position(e, id) + i - 1]
     IN /\ n <= a.left
        /\ Leave(e, [end[e] EXCEPT !.sent = @ + n], <<Bytes(id, data)>>)
        /\ app' = [app EXCEPT ![e][id].left = @ - n]
  /\ UNCHANGED <<listener, dropped, crashed>>

(* The program has sent what it had, or is gone; what it still had is     *)
(* lost then.                                                              *)
ReadEnds(e, id) ==
  /\ Up(e) /\ end[e].conn[id].st = "open" /\ end[e].conn[id].reading /\ ~WindowFull(end[e])
  /\ Leave(e, Closed(end[e], id), <<Eof(id)>>)
  /\ Drop(e, Queued(e, id))
  /\ UNCHANGED <<listener, app, crashed>>

WriteFd(e, id) ==
  /\ Up(e) /\ end[e].conn[id].st = "open" /\ end[e].conn[id].out # <<>>
  /\ LET data == Head(end[e].conn[id].out)
         d == [end[e] EXCEPT !.conn[id].out = Tail(@)]
     IN \/ /\ data = <<>>
           /\ end' = [end EXCEPT ![e] = Closed(end[e], id)]
           /\ app' = [app EXCEPT ![e][id].ended = TRUE]
           /\ Drop(e, Length(d.conn[id].out))
           /\ UNCHANGED <<chan, pauses>>
        \/ /\ data # <<>>
           /\ Leave(e, Closed(end[e], id), <<Eof(id)>>)
           /\ Drop(e, Queued(e, id))
           /\ UNCHANGED app
        \/ /\ \E n \in 1 .. Len(data) :
                LET kept == IF n = Len(data) THEN d
                            ELSE [d EXCEPT !.conn[id].out = <<Rest(data, n)>> \o @]
                IN /\ Leave(e, Counted(kept, n), Acks(kept, n))
                   /\ Deliver(e, id, Take(data, n))
           /\ UNCHANGED dropped
  /\ UNCHANGED <<listener, crashed>>
-----------------------------------------------------------------------------
(* Mutant: a quick write is tried though others wait. *)
MustWaitNever(c, data) == c.st = "connecting" \/ data = <<>>

MustWait(c, data) == c.out # <<>> \/ c.st = "connecting" \/ data = <<>>

(* The messages of the other end.  A chunk is written at once if it can,   *)
(* and waits behind the others if it cannot; a write to a program that is  *)
(* gone fails, and closes the connection.                                  *)
HandleBytes(e, id, data) ==
  LET d == end[e]
      todo == Tail(chan[e])
      Pushed(rest) == [d EXCEPT !.conn[id].out = Append(@, rest)]
  IN \/ /\ id \notin Live(d)
        /\ Drop(e, Len(data)) /\ LeaveTaken(e, todo, d, <<>>) /\ UNCHANGED app
     \/ /\ id \in Live(d) /\ MustWait(d.conn[id], data)
        /\ LeaveTaken(e, todo, Pushed(data), <<>>) /\ UNCHANGED <<app, dropped>>
     \/ /\ id \in Live(d) /\ ~MustWait(d.conn[id], data)
        /\ \E n \in 0 .. Len(data) :
             /\ LeaveTaken(e, todo, Counted(IF n = Len(data) THEN d ELSE Pushed(Rest(data, n)), n),
                           Acks(d, n))
             /\ Deliver(e, id, Take(data, n))
        /\ UNCHANGED dropped
     \/ /\ id \in Live(d) /\ ~MustWait(d.conn[id], data)
        /\ LeaveTaken(e, todo, Closed(d, id), <<Eof(id)>>)
        /\ Drop(e, Len(data) + Queued(e, id)) /\ UNCHANGED app

(* A connection is attempted: at once, deferred, or not at all. *)
HandleStart(e, id) ==
  LET todo == Tail(chan[e])
  IN /\ \/ \E st \in {"open", "connecting"} :
             LeaveTaken(e, todo, [end[e] EXCEPT !.conn[id] = Fresh(st)], <<>>)
        \/ LeaveTaken(e, todo, Closed(end[e], id), <<Eof(id)>>)
     /\ UNCHANGED <<app, dropped>>

(* The server looks whether it had stopped, the client does not; the       *)
(* client's readers are all watched, also those that are not there yet.    *)
HandleAck(e, n) ==
  LET d == [end[e] EXCEPT !.acked = n, !.running = TRUE]
  IN /\ LeaveTaken(e, Tail(chan[e]),
          IF e = "server" /\ end[e].running THEN d ELSE WatchReads(d, ~d.throttled), <<>>)
     /\ UNCHANGED <<app, dropped>>

CloseAll(d) ==
  [d EXCEPT !.up = FALSE, !.conn = [id \in Ids |-> [Unused EXCEPT !.st = "closed"]]]

HandleMessage(e) ==
  /\ Up(e) /\ chan[e] # <<>>
  /\ LET msg == Head(chan[e])
     IN \/ msg.type = "bytes" /\ HandleBytes(e, msg.id, msg.data)
        \/ msg.type = "start" /\ HandleStart(e, msg.id)
        \/ msg.type = "ack" /\ ~NoReader(e) /\ HandleAck(e, msg.n)
        \/ msg.type = "cancel" /\ LeaveTaken(e, <<>>, CloseAll(end[e]), <<>>) /\ UNCHANGED <<app, dropped>>
  /\ UNCHANGED <<listener, crashed>>

(* connectfd, handleConnect: the deferred connection is there, or the last *)
(* address has failed.                                                     *)
Connect(e, id) ==
  /\ Up(e) /\ end[e].conn[id].st = "connecting"
  /\ \/ /\ Leave(e, [end[e] EXCEPT !.conn[id].st = "open", !.conn[id].reading = TRUE], <<>>)
        /\ UNCHANGED dropped
     \/ Leave(e, Closed(end[e], id), <<Eof(id)>>) /\ Drop(e, Queued(e, id))
  /\ UNCHANGED <<listener, app, crashed>>

(* Mutant: a resume does not tell what was received meanwhile. *)
HandleResumeStopped(e) ==
  /\ Up(e) /\ end[e].throttled /\ ~NoReader(e)
  /\ Leave(e, [end[e] EXCEPT !.throttled = FALSE], <<>>)
  /\ UNCHANGED <<listener, app, dropped, crashed>>

(* TaskPause of a hop, and a connection of the client that is throttled. *)
HandlePause(e) ==
  /\ Up(e) /\ ~end[e].throttled /\ pauses < MaxPauses /\ ~NoReader(e)
  /\ end' = [end EXCEPT ![e] = Throttled(@)]
  /\ pauses' = pauses + 1
  /\ UNCHANGED <<listener, chan, app, dropped, crashed>>

(* The server acknowledges, and watches its readers whatever becomes of    *)
(* that acknowledgement.                                                   *)
HandleResume(e) ==
  LET d == WatchReads([end[e] EXCEPT !.throttled = FALSE], end[e].running)
  IN /\ Up(e) /\ end[e].throttled /\ ~NoReader(e)
     /\ \/ Leave(e, d, <<>>) /\ e = "client"
        \/ /\ e = "server"
           /\ chan' = [chan EXCEPT !["client"] = Append(@, Ack(d.received))]
           /\ \/ end' = [end EXCEPT ![e] = d] /\ UNCHANGED pauses
              \/ /\ pauses < MaxPauses /\ pauses' = pauses + 1
                 /\ end' = [end EXCEPT ![e] = [d EXCEPT !.throttled = TRUE]]
     /\ UNCHANGED <<listener, app, dropped, crashed>>

(* watchReads on a connection that has no reader yet: the client is gone. *)
Crash ==
  /\ Up("client") /\ NoReader("client")
  /\ \/ chan["client"] # <<>> /\ Head(chan["client"]).type = "ack"
     \/ end["client"].throttled \/ pauses < MaxPauses
     \/ WindowFull(end["client"]) /\ \E id \in Live(end["client"]) : end["client"].conn[id].reading
  /\ crashed' = TRUE
  /\ end' = [end EXCEPT !["client"] = CloseAll(@)]
  /\ chan' = [chan EXCEPT !["server"] = Append(@, Cancelled)]
  /\ UNCHANGED <<listener, app, dropped, pauses>>
-----------------------------------------------------------------------------
(* The user: one connection, or the task. *)
KillConnection(id) ==
  /\ Up("client") /\ id \in Live(end["client"])
  /\ Leave("client", Closed(end["client"], id), <<Eof(id)>>)
  /\ Drop("client", Queued("client", id))
  /\ UNCHANGED <<listener, app, crashed>>

Cancel ==
  /\ Up("client")
  /\ Leave("client", CloseAll(end["client"]), <<Cancelled>>)
  /\ UNCHANGED <<listener, app, dropped, crashed>>

Init ==
  /\ listener \in Ends
  /\ end = [e \in Ends |-> [sent |-> 0, acked |-> 0, received |-> 0, chunks |-> 0,
                            running |-> TRUE, throttled |-> FALSE, listens |-> e = listener,
                            nextId |-> 1, up |-> TRUE, conn |-> [id \in Ids |-> Unused]]]
  /\ chan = [e \in Ends |-> <<>>]
  /\ app = [e \in Ends |-> [id \in Ids |-> [left |-> Total(e), got |-> <<>>, ended |-> FALSE]]]
  /\ dropped = [e \in Ends |-> 0]
  /\ pauses = 0 /\ crashed = FALSE

EndStep(e) ==
  \/ HandleMessage(e) \/ HandleResume(e) \/ StopAtWindow(e)
  \/ \E id \in Ids :
       \/ WriteFd(e, id) \/ ReadEnds(e, id) \/ Connect(e, id)
       \/ \E n \in 1 .. Chunk : ReadFd(e, id, n)

Next ==
  \/ \E e \in Ends : EndStep(e) \/ Accept(e) \/ HandlePause(e)
  \/ Crash \/ Cancel \/ \E id \in Ids : KillConnection(id)

(* Both ends go on while they can; a throttle is followed by a resume      *)
(* (FlowControl).  Nothing is assumed of the programs and the user.        *)
Spec == Init /\ [][Next]_vars /\ \A e \in Ends : WF_vars(EndStep(e))
-----------------------------------------------------------------------------
InChan(e) == Length([i \in DOMAIN chan[e] |-> IF chan[e][i].type = "bytes" THEN chan[e][i].data ELSE <<>>])
InQueues(e) == FoldFunction(LAMBDA c, n : Length(c.out) + n, 0, end[e].conn)
Running == Up("server") /\ Up("client")

(* Counters and flags have the values the code gives them. *)
TypeOK ==
  \A e \in Ends :
    /\ end[e].acked \in 0 .. end[e].sent /\ end[e].chunks <= end[e].received \div Chunk
    /\ \A id \in Ids :
         /\ end[e].conn[id].st \in {"none", "connecting", "open", "closed"}
         /\ end[e].conn[id].st \in {"none", "closed"} => end[e].conn[id].out = <<>>

(* Each program gets the other's bytes from the first on, in order, and an *)
(* end of file after the last one that was read (portfwdtask.cpp:149).     *)
StreamsIntact ==
  \A e \in Ends, id \in Ids :
    /\ \A i \in DOMAIN app[e][id].got : app[e][id].got[i] = i
    /\ app[e][id].ended => Len(app[e][id].got) = Total(Other(e)) - app[Other(e)][id].left

(* Every byte is on its way, queued, written or dropped, and what is on    *)
(* its way or queued is bounded by the window.                             *)
Accounted ==
  Running =>
    \A e \in Ends :
      LET open == InChan(Other(e)) + InQueues(Other(e))
      IN /\ end[e].sent = end[Other(e)].received + dropped[Other(e)] + open
         /\ open < (Window + 1) * Chunk

(* An end that may read does (portfwdtask.cpp:53): when nothing is on its  *)
(* way, it has stopped for bytes that were dropped and are never           *)
(* acknowledged, and for nothing else.                                     *)
ReadsResume ==
  \A e \in Ends :
    Up(e) /\ end[e].running /\ ~end[e].throttled =>
      \A id \in Ids : end[e].conn[id].st = "open" => end[e].conn[id].reading
NoStall ==
  Running /\ chan = [e \in Ends |-> <<>>] /\ (\A e \in Ends : InQueues(e) = 0) =>
    \A e \in Ends : ~end[e].running => dropped[Other(e)] > 0

(* What a program sends on an open connection arrives in the end, unless   *)
(* the task's window was lost to dropped bytes (portfwdtask.cpp:136).  As  *)
(* the bytes are bounded, "each arrives" is "in the end all have".         *)
Settled ==
  Running =>
    \A e \in Ends, id \in Ids :
      end[e].conn[id].st = "open" /\ dropped[Other(e)] = 0 =>
        app[e][id].left = 0 /\ Len(app[Other(e)][id].got) = Total(e)
Flows == <>[]Settled
=============================================================================
