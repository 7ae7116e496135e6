-------------------------------- MODULE Upload --------------------------------
(***************************************************************************)
(* An upload: the client's side (src/src/base/uploadtask.cpp) reads a file *)
(* in chunks, at most a window of them ahead of the acknowledgements, and  *)
(* the server's task (src/mux/base/uploadtask.cpp) writes them to a file   *)
(* that may exist already: it is then overwritten, another name is chosen, *)
(* the upload fails or the user is asked.  What is not finished is         *)
(* unlinked.  The bytes of the file are the numbers from 1 to Total; an     *)
(* empty chunk ends it.                                                    *)
(***************************************************************************)
EXTENDS Integers, Sequences, SequencesExt

CONSTANTS Total,   \* length of the client's file
          Chunk,   \* PAYLOADSIZE
          Window   \* WINDOWSIZE

VARIABLES
  task,    \* the server's thread
  disk,    \* the files the task may write: the target and a renamed one
  existed, \* whether the target existed before
  up,      \* messages to the task
  down,    \* messages to the client
  client   \* the client's side

vars == <<task, disk, existed, up, down, client>>

Msg(type, count) == [type |-> type, count |-> count, bytes |-> <<>>]
Data(bytes) == [type |-> "data", count |-> 0, bytes |-> bytes]
Bytes(from, to) == [i \in 1 .. to - from + 1 |-> from + i - 1]
Told(type) == Append(down, Msg(type, task.received))
Ended(state) == state \in {"finished", "failed"}
Absent == [kind |-> "absent", bytes |-> <<>>]
-----------------------------------------------------------------------------
(* The server's task. *)

(* closefd: what has not succeeded is unlinked. *)
CloseFile(done) ==
  disk' = IF task.name = "none" \/ done THEN disk ELSE [disk EXCEPT ![task.name] = Absent]

(* The thread leaves its loop. *)
Leave(done) == task' = [task EXCEPT !.pc = "gone"] /\ CloseFile(done)
Fail == Leave(FALSE) /\ down' = Told("error")

(* open(2) of a name, which is truncated, or its failure. *)
Open(name, config, told) ==
  \/ /\ task' = [task EXCEPT !.pc = "loop", !.name = name, !.config = config, !.asking = FALSE]
     /\ disk' = [disk EXCEPT ![name] = [kind |-> "new", bytes |-> <<>>]]
     /\ down' = Append(told, Msg("ack", 0))
  \/ /\ task' = [task EXCEPT !.pc = "gone", !.config = config, !.asking = FALSE]
     /\ down' = Append(told, Msg("error", 0))
     /\ UNCHANGED disk

OpenFd(config) ==
  LET exists == disk["target"].kind # "absent"
  IN CASE ~exists \/ config = "overwrite" -> Open("target", config, down)
       [] exists /\ config = "rename" -> Open("renamed", config, Told("starting"))
       [] exists /\ config = "ask" ->
            /\ task' = [task EXCEPT !.pc = "loop", !.asking = TRUE]
            /\ down' = Told("question") /\ UNCHANGED disk
       [] OTHER -> Fail

Start ==
  /\ task.pc = "open"
  /\ OpenFd(task.config)
  /\ UNCHANGED <<existed, up, client>>

Working == task.pc = "loop"

(* The file has taken n bytes of a chunk, and outdata waits: a chunk's     *)
(* worth is acknowledged.                                                  *)
Wrote(bytes, n, outdata) ==
  LET received == task.received + n
      chunks == received \div Chunk
  IN /\ task' = [task EXCEPT !.received = received, !.outdata = outdata,
                             !.chunks = IF @ < chunks THEN chunks ELSE @,
                             !.out = IF outdata = <<>> THEN @ ELSE TRUE]
     /\ disk' = [disk EXCEPT ![task.name].bytes = @ \o SubSeq(bytes, 1, n)]
     /\ down' = IF task.chunks < chunks THEN Append(down, Msg("ack", received)) ELSE down

(* What is left of a chunk of which n bytes were written. *)
Left(bytes, n) == IF n = Len(bytes) THEN <<>> ELSE <<SubSeq(bytes, n + 1, Len(bytes))>>

(* handleFd: the file takes the first chunk that waits. *)
HandleFd ==
  /\ Working /\ task.out
  /\ UNCHANGED <<existed, up, client>>
  /\ IF task.outdata = <<>>
     THEN task' = [task EXCEPT !.out = FALSE] /\ UNCHANGED <<disk, down>>
     ELSE LET bytes == Head(task.outdata)
          IN \/ bytes = <<>> /\ Leave(TRUE) /\ down' = Told("finished")
             \/ \E n \in 1 .. Len(bytes) :
                  Wrote(bytes, n, Left(bytes, n) \o Tail(task.outdata))
             \/ bytes # <<>> /\ Fail

Waits(bytes) ==
  /\ task' = [task EXCEPT !.outdata = Append(@, bytes), !.out = TRUE]
  /\ UNCHANGED <<disk, down>>

(* Mutant: a chunk is written at once though others wait. *)
HandleDataFirst(bytes) ==
  IF bytes = <<>> THEN Waits(bytes)
  ELSE \/ \E n \in 1 .. Len(bytes) : Wrote(bytes, n, task.outdata \o Left(bytes, n))
       \/ Fail
       \/ Waits(bytes)

(* handleData: written at once when nothing waits.  The file may take less *)
(* (a pipe), nothing yet, or fail.                                         *)
HandleData(bytes) ==
  IF task.outdata # <<>> \/ bytes = <<>> THEN Waits(bytes)
  ELSE \/ \E n \in 1 .. Len(bytes) : Wrote(bytes, n, Left(bytes, n))
       \/ Fail
       \/ Waits(bytes)

HandleAnswer(answer) ==
  IF ~task.asking THEN Leave(FALSE) /\ UNCHANGED down
  ELSE IF answer \in {"overwrite", "rename"} THEN OpenFd(answer)
  ELSE Fail

HandleWork ==
  /\ Working /\ up # <<>>
  /\ up' = Tail(up)
  /\ CASE Head(up).type = "cancel" -> Leave(FALSE) /\ UNCHANGED down
       [] Head(up).type = "data" -> HandleData(Head(up).bytes)
       [] OTHER -> HandleAnswer(Head(up).type)
  /\ UNCHANGED <<existed, client>>

HandleIdle ==
  /\ Working /\ ~task.out /\ up = <<>>
  /\ Fail
  /\ UNCHANGED <<existed, up, client>>

(* The next hop is gone: forwardToClient drops the output, and the client  *)
(* is told by its own connection.                                          *)
LoseConnection ==
  /\ ~Ended(client.state)
  /\ client' = [client EXCEPT !.state = "failed", !.open = FALSE, !.running = FALSE]
  /\ up' = Append(up, Msg("cancel", 0))
  /\ down' = <<>>
  /\ UNCHANGED <<task, disk, existed>>
-----------------------------------------------------------------------------
(* The client's side. *)
Running == client.open /\ client.running /\ ~client.throttled

(* closefd *)
Closed(c) == [c EXCEPT !.open = FALSE, !.running = FALSE]

InWindow == client.sent - client.acked < Window * Chunk

(* handleFile *)
StopAtWindow ==
  /\ Running /\ ~InWindow
  /\ client' = [client EXCEPT !.running = FALSE]
  /\ UNCHANGED <<task, disk, existed, up, down>>

ReadFile(n) ==
  /\ Running /\ InWindow
  /\ n <= Total - client.sent /\ (n = 0 => client.sent = Total)
  /\ client' = IF n = 0 THEN Closed(client) ELSE [client EXCEPT !.sent = @ + n]
  /\ up' = Append(up, Data(Bytes(client.sent + 1, client.sent + n)))
  /\ UNCHANGED <<task, disk, existed, down>>

ReadFails ==
  /\ Running /\ InWindow
  /\ client' = [Closed(client) EXCEPT !.state = "failed"]
  /\ up' = Append(up, Msg("cancel", 0))
  /\ UNCHANGED <<task, disk, existed, down>>

(* Reading goes on with the first acknowledgement and after the window.    *)
Acked(n) == [client EXCEPT !.acked = n, !.running = TRUE]

HandleOutput ==
  /\ down # <<>>
  /\ down' = Tail(down)
  /\ LET msg == Head(down)
     IN client' = IF Ended(client.state) THEN client
                  ELSE CASE msg.type = "ack" -> Acked(msg.count)
                         [] msg.type = "question" -> [client EXCEPT !.state = "asked"]
                         [] msg.type = "starting" -> client
                         [] msg.type = "finished" -> [client EXCEPT !.state = "finished"]
                         [] msg.type = "error" -> [Closed(client) EXCEPT !.state = "failed"]
  /\ UNCHANGED <<task, disk, existed, up>>

Answer(answer) ==
  /\ client.state = "asked"
  /\ client' = [client EXCEPT !.state = "started"]
  /\ up' = Append(up, Msg(answer, 0))
  /\ UNCHANGED <<task, disk, existed, down>>

Cancel ==
  /\ ~Ended(client.state)
  /\ client' = [Closed(client) EXCEPT !.state = "failed"]
  /\ up' = Append(up, Msg("cancel", 0))
  /\ UNCHANGED <<task, disk, existed, down>>

(* The connection the client writes to is full, or no longer. *)
HandleThrottle ==
  /\ ~Ended(client.state)
  /\ client' = [client EXCEPT !.throttled = ~@]
  /\ UNCHANGED <<task, disk, existed, up, down>>
-----------------------------------------------------------------------------
Init ==
  /\ existed \in BOOLEAN
  /\ disk = [target |-> IF existed THEN [kind |-> "original", len |-> 0] ELSE Absent,
             renamed |-> Absent]
  /\ \E config \in {"overwrite", "ask", "rename", "fail"} :
       task = [pc |-> "open", config |-> config, name |-> "none", asking |-> FALSE,
               out |-> FALSE, outdata |-> <<>>, received |-> 0, chunks |-> 0]
  /\ up = <<>> /\ down = <<>>
  /\ client = [state |-> "started", open |-> TRUE, running |-> FALSE, throttled |-> FALSE,
               sent |-> 0, acked |-> 0]

TaskStep == Start \/ HandleFd \/ HandleWork
ClientStep == StopAtWindow \/ (\E n \in 0 .. Chunk : ReadFile(n)) \/ HandleOutput

Next ==
  \/ TaskStep \/ HandleIdle \/ LoseConnection
  \/ ClientStep \/ ReadFails \/ Cancel \/ HandleThrottle
  \/ \E answer \in {"overwrite", "rename", "no"} : Answer(answer)

(* The threads go on while they can and poll's timeout comes; nothing is   *)
(* assumed of the user or of the connection's room.                        *)
Spec ==
  Init /\ [][Next]_vars /\ WF_vars(TaskStep) /\ WF_vars(HandleIdle) /\ WF_vars(ClientStep)
-----------------------------------------------------------------------------
InFlight == FlattenSeq([i \in DOMAIN up |-> up[i].bytes])

(* Where the two sides are and what they count. *)
TypeOK ==
  /\ task.pc \in {"open", "loop", "gone"} /\ task.name \in {"none", "target", "renamed"}
  /\ task.asking => task.name = "none" /\ task.outdata = <<>>
  /\ task.chunks = task.received \div Chunk
  /\ client.acked \in 0 .. client.sent /\ client.sent \in 0 .. Total

(* A file that existed is not touched unless overwriting it was configured *)
(* or answered.                                                            *)
OriginalSafe ==
  existed /\ disk["target"].kind # "original" => task.config = "overwrite"

(* No part of a file is left behind: when the task is gone its file is     *)
(* whole or is not there.                                                  *)
NoPartLeft ==
  task.pc = "gone" => \A name \in DOMAIN disk : disk[name].kind = "new" => disk[name].bytes = Bytes(1, Total)

(* The client says "finished" only when the whole file is in place.        *)
FinishedIsWhole ==
  client.state = "finished" => task.name # "none" /\
    disk[task.name] = [kind |-> "new", bytes |-> Bytes(1, Total)]

(* Nothing is lost, written twice or out of order, and what waits in the   *)
(* server is bounded by the window, whatever the file takes.               *)
WithinWindow ==
  Working /\ task.name # "none" /\ ~Ended(client.state) =>
    /\ disk[task.name].bytes \o FlattenSeq(task.outdata) \o InFlight = Bytes(1, client.sent)
    /\ client.sent - task.received < (Window + 1) * Chunk

(* An upload waits for nobody but the user: when both sides are idle, it   *)
(* has been asked a question or its connection is full.                    *)
NoStall ==
  Working /\ ~task.out /\ up = <<>> /\ down = <<>> /\ ~Running /\ ~Ended(client.state)
    => client.state = "asked" \/ client.throttled

(* An upload ends on both sides. *)
Ends == <>(task.pc = "gone" /\ Ended(client.state))
=============================================================================
