----------------------------- MODULE FlowControl -----------------------------
(***************************************************************************)
(* A download over two hops and the backpressure along them.  The task     *)
(* (src/mux/base/downloadtask.cpp, taskbase.cpp) runs in a thread of       *)
(* server A and submits its chunks to A's writer for the next hop; server  *)
(* B relays them (conn.cpp) to its own writer, whose client acknowledges   *)
(* them (src/src/base/downloadtask.cpp).  A writer that holds too much     *)
(* tells the submitter, who notes the throttle or sends a pause; the       *)
(* writer's thread sends a resume when it has taken what it held.          *)
(* Acknowledgements, pauses, resumes and cancellations reach A through one *)
(* channel.  A chunk is its length, which is all that is ever counted.     *)
(***************************************************************************)
EXTENDS Integers, Sequences, SequencesExt

CONSTANTS Total,      \* length of the file
          Chunk,      \* largest length of one chunk (m_chunkSize)
          Window,     \* chunks that may be unacknowledged (m_windowSize)
          Threshold,  \* what a writer holds before it throttles
          NetCap,     \* messages a connection takes before its writer blocks
          Noisy       \* writers to which other output is submitted, once each

Hops == {"A", "B"}

VARIABLES
  task,       \* the task's thread: where it is, its flags and its counters
  work,       \* the task's queue
  throttles,  \* hops the task is throttled by (m_throttles)
  writer,     \* each hop's writer
  net,        \* messages on the way from a hop to the next one
  relay,      \* B's thread for the connection to A
  back,       \* messages on the way to A
  client,     \* the client's side of the task
  noise,      \* writers to which other output may still come
  crossed     \* hops whose resume was given before their throttle was noted

vars == <<task, work, throttles, writer, net, relay, back, client, noise, crossed>>

Data(n) == [type |-> "data", len |-> n]
Plain(type) == [type |-> type, len |-> 0]
Ack(n) == [type |-> "ack", len |-> n]

Ended(side) == side \in {"finished", "failed"}

(* submitResponse: the message is queued, and whether there is room is     *)
(* the result.                                                             *)
Size(msg) == IF msg.type = "noise" THEN Threshold + 1 ELSE msg.len
HasRoom(w, msg) == w.amount + Size(msg) <= Threshold

Submitted(w, msg) ==
  [w EXCEPT !.responses = Append(@, msg),
            !.amount = @ + Size(msg),
            !.flag = @ \/ w.amount + Size(msg) > Threshold]
Submit(h, msg) == writer' = [writer EXCEPT ![h] = Submitted(@, msg)]

(* The resume of a throttle that is noted or told now has gone out before. *)
ResumePassed(h) == ~writer[h].flag /\ writer[h].pc # "resume"
Pause(late) == [type |-> "pause", len |-> 0, late |-> late]
Crosses(h, late) == crossed' = IF late THEN crossed \cup {h} ELSE crossed \ {h}

Working == task.pc = "loop"
-----------------------------------------------------------------------------
(* FileDownload, in the task's thread. *)
OpenFile ==
  /\ task.pc = "open"
  /\ \/ Submit("A", Plain("starting")) /\ task' = [task EXCEPT !.pc = "loop"]
     \/ Submit("A", Plain("error")) /\ task' = [task EXCEPT !.pc = "gone"]
  /\ UNCHANGED <<work, throttles, net, relay, back, client, noise, crossed>>

WindowFull == task.sent - task.acked >= Window * Chunk

StopAtWindow ==
  /\ Working /\ task.enabled /\ WindowFull
  /\ task' = [task EXCEPT !.running = FALSE, !.enabled = FALSE]
  /\ UNCHANGED <<work, throttles, writer, net, relay, back, client, noise, crossed>>

ReadFile(n) ==
  /\ Working /\ task.enabled /\ ~WindowFull
  /\ n <= Total - task.sent /\ (n = 0 => task.sent = Total)
  /\ Submit("A", Data(n))
  /\ task' = [task EXCEPT !.sent = @ + n, !.last = n = 0,
                          !.pc = IF ~HasRoom(writer["A"], Data(n)) THEN "noting"
                                 ELSE IF n = 0 THEN "gone" ELSE "loop"]
  /\ UNCHANGED <<work, throttles, net, relay, back, client, noise, crossed>>

ReadFails ==
  /\ Working /\ task.enabled /\ ~WindowFull
  /\ Submit("A", Plain("error"))
  /\ task' = [task EXCEPT !.pc = "gone"]
  /\ UNCHANGED <<work, throttles, net, relay, back, client, noise, crossed>>

(* throttledOutput notes the local throttle when forwardToClient has       *)
(* returned: the writer may have given its resume in between.              *)
NoteThrottle ==
  /\ task.pc = "noting"
  /\ throttles' = throttles \cup {"A"}
  /\ task' = [task EXCEPT !.throttled = TRUE, !.enabled = FALSE,
                          !.pc = IF task.last THEN "gone" ELSE "loop"]
  /\ Crosses("A", ResumePassed("A"))
  /\ UNCHANGED <<work, writer, net, relay, back, client, noise>>

(* forwardToClient finds no client: the task throws, or is told to close. *)
LoseClient ==
  /\ ~Ended(client.state)
  /\ task.pc # "gone"
  /\ task' = [task EXCEPT !.pc = "gone"]
  /\ client' = [client EXCEPT !.state = "failed"]
  /\ UNCHANGED <<work, throttles, writer, net, relay, back, noise, crossed>>

HandleData(n) ==
  IF task.running THEN [task EXCEPT !.acked = n]
  ELSE [task EXCEPT !.acked = n, !.running = TRUE, !.enabled = ~task.throttled]

HandleWork ==
  /\ Working /\ work # <<>>
  /\ work' = Tail(work)
  /\ task' = CASE Head(work).type = "ack" -> HandleData(Head(work).len)
               [] Head(work).type = "pause" -> [task EXCEPT !.throttled = TRUE, !.enabled = FALSE]
               [] Head(work).type = "resume" -> [task EXCEPT !.throttled = FALSE, !.enabled = task.running]
               [] Head(work).type = "cancel" -> [task EXCEPT !.pc = "gone"]
  /\ UNCHANGED <<throttles, writer, net, relay, back, client, noise, crossed>>

(* Mutant: the timeout is reported and the task goes on. *)
HandleIdleContinues ==
  /\ Working /\ ~task.enabled /\ work = <<>>
  /\ Submit("A", Plain("error"))
  /\ UNCHANGED <<task, work, throttles, net, relay, back, client, noise, crossed>>

(* poll times out: nothing has come for a long time. *)
HandleIdle ==
  /\ Working /\ ~task.enabled /\ work = <<>>
  /\ Submit("A", Plain("error"))
  /\ task' = [task EXCEPT !.pc = "gone"]
  /\ UNCHANGED <<work, throttles, net, relay, back, client, noise, crossed>>
-----------------------------------------------------------------------------
(* pause() and resume(), called by other threads of A. *)
Resumed(h) ==
  /\ throttles' = throttles \ {h}
  /\ crossed' = crossed \ {h}
  /\ work' = IF throttles \ {h} = {} THEN Append(work, Plain("resume")) ELSE work

Paused(h) ==
  /\ throttles' = throttles \cup {h}
  /\ work' = IF throttles = {} THEN Append(work, Plain("pause")) ELSE work

(* A's reader for the hop: what comes back. *)
TakeBack ==
  /\ back # <<>>
  /\ back' = Tail(back)
  /\ LET msg == Head(back)
     IN CASE msg.type = "pause" -> Paused("B") /\ Crosses("B", msg.late)
          [] msg.type = "resume" -> Resumed("B")
          [] OTHER -> work' = Append(work, msg) /\ UNCHANGED <<throttles, crossed>>
  /\ UNCHANGED <<task, writer, net, relay, client, noise>>
-----------------------------------------------------------------------------
(* Mutant: m_throttled is cleared and forgotten. *)
SwapSilently(h) ==
  /\ writer[h].pc = "idle" /\ writer[h].responses # <<>>
  /\ writer' = [writer EXCEPT ![h] = [responses |-> <<>>, amount |-> 0, flag |-> FALSE,
                                      batch |-> writer[h].responses, pc |-> "send"]]
  /\ UNCHANGED <<task, work, throttles, net, relay, back, client, noise, crossed>>

(* A writer's thread takes what is queued, gives the resume it owes, and   *)
(* sends.                                                                  *)
Swap(h) ==
  /\ writer[h].pc = "idle" /\ writer[h].responses # <<>>
  /\ writer' = [writer EXCEPT ![h] = [responses |-> <<>>, amount |-> 0, flag |-> FALSE,
                                      batch |-> writer[h].responses,
                                      pc |-> IF writer[h].flag THEN "resume" ELSE "send"]]
  /\ UNCHANGED <<task, work, throttles, net, relay, back, client, noise, crossed>>

PushTaskResume(h) ==
  /\ writer[h].pc = "resume"
  /\ writer' = [writer EXCEPT ![h].pc = "send"]
  /\ \/ h = "A" /\ Resumed("A") /\ UNCHANGED back
     \/ h = "B" /\ back' = Append(back, Plain("resume")) /\ UNCHANGED <<work, throttles, crossed>>
  /\ UNCHANGED <<task, net, relay, client, noise>>

Send(h) ==
  /\ writer[h].pc = "send" /\ writer[h].batch # <<>> /\ Len(net[h]) < NetCap
  /\ net' = [net EXCEPT ![h] = Append(@, Head(writer[h].batch))]
  /\ writer' = [writer EXCEPT ![h].batch = Tail(@),
                              ![h].pc = IF Len(writer[h].batch) = 1 THEN "idle" ELSE "send"]
  /\ UNCHANGED <<task, work, throttles, relay, back, client, noise, crossed>>

(* Other threads submit to the same writers. *)
OtherOutput(h) ==
  /\ h \in noise
  /\ noise' = noise \ {h}
  /\ Submit(h, Plain("noise"))
  /\ UNCHANGED <<task, work, throttles, net, relay, back, client, crossed>>

(* wireClientCommand: B passes the message on, and then sends a pause if   *)
(* its writer holds too much.                                              *)
Relay ==
  /\ relay = "idle" /\ net["A"] # <<>>
  /\ net' = [net EXCEPT !["A"] = Tail(@)]
  /\ LET msg == Head(net["A"])
     IN IF msg.type = "noise" THEN UNCHANGED <<writer, relay>>
        ELSE /\ Submit("B", msg)
             /\ relay' = IF HasRoom(writer["B"], msg) THEN "idle" ELSE "pausing"
  /\ UNCHANGED <<task, work, throttles, back, client, noise, crossed>>

PushTaskPause ==
  /\ relay = "pausing"
  /\ relay' = "idle"
  /\ back' = Append(back, Pause(ResumePassed("B")))
  /\ UNCHANGED <<task, work, throttles, writer, net, client, noise, crossed>>
-----------------------------------------------------------------------------
(* The client: a chunk of length zero is the end of the file. *)
Received(n) ==
  LET received == client.received + n
  IN IF n = 0
     THEN client' = [client EXCEPT !.state = "finished"] /\ UNCHANGED back
     ELSE /\ client' = [client EXCEPT !.received = received,
                                      !.chunks = IF @ < received \div Chunk THEN received \div Chunk ELSE @]
          /\ back' = IF client.chunks < received \div Chunk THEN Append(back, Ack(received)) ELSE back

(* Or it cannot be written, and the task is canceled. *)
WriteFails ==
  /\ client' = [client EXCEPT !.state = "failed"]
  /\ back' = Append(back, Plain("cancel"))

HandleOutput ==
  /\ net["B"] # <<>>
  /\ net' = [net EXCEPT !["B"] = Tail(@)]
  /\ LET msg == Head(net["B"])
     IN IF Ended(client.state) \/ msg.type = "noise" THEN UNCHANGED <<client, back>>
        ELSE \/ msg.type = "data" /\ Received(msg.len)
             \/ msg.type = "data" /\ msg.len > 0 /\ WriteFails
             \/ msg.type = "starting" /\ client' = [client EXCEPT !.state = "opening"] /\ UNCHANGED back
             \/ msg.type = "error" /\ client' = [client EXCEPT !.state = "failed"] /\ UNCHANGED back
  /\ UNCHANGED <<task, work, throttles, writer, relay, noise, crossed>>

(* openFile, at once or when the user has answered what to do about an     *)
(* existing file.                                                          *)
AnswerAndOpen ==
  /\ client.state = "opening"
  /\ client' = [client EXCEPT !.state = "running"]
  /\ back' = Append(back, Ack(0))
  /\ UNCHANGED <<task, work, throttles, writer, net, relay, noise, crossed>>

Cancel ==
  /\ ~Ended(client.state)
  /\ client' = [client EXCEPT !.state = "failed"]
  /\ back' = Append(back, Plain("cancel"))
  /\ UNCHANGED <<task, work, throttles, writer, net, relay, noise, crossed>>
-----------------------------------------------------------------------------
Init ==
  /\ task = [pc |-> "open", enabled |-> FALSE, running |-> FALSE, throttled |-> FALSE,
             sent |-> 0, acked |-> 0, last |-> FALSE]
  /\ work = <<>> /\ back = <<>>
  /\ throttles = {} /\ crossed = {}
  /\ writer = [h \in Hops |-> [responses |-> <<>>, amount |-> 0, flag |-> FALSE,
                               batch |-> <<>>, pc |-> "idle"]]
  /\ net = [h \in Hops |-> <<>>]
  /\ relay = "idle"
  /\ client = [state |-> "started", received |-> 0, chunks |-> 0]
  /\ noise = Noisy

TaskStep == OpenFile \/ StopAtWindow \/ (\E n \in 0 .. Chunk : ReadFile(n)) \/ ReadFails
            \/ NoteThrottle \/ HandleWork
WriterStep(h) == Swap(h) \/ PushTaskResume(h) \/ Send(h)
RelayStep == Relay \/ PushTaskPause

Next ==
  \/ TaskStep \/ HandleIdle \/ LoseClient
  \/ TakeBack \/ RelayStep \/ HandleOutput
  \/ \E h \in Hops : WriterStep(h) \/ OtherOutput(h)
  \/ AnswerAndOpen \/ Cancel

(* Every thread goes on while it can, and poll's timeout comes.  Nothing   *)
(* is assumed of the user and of the other output.                         *)
Spec ==
  /\ Init /\ [][Next]_vars
  /\ WF_vars(TaskStep) /\ WF_vars(HandleIdle)
  /\ WF_vars(TakeBack) /\ WF_vars(RelayStep) /\ WF_vars(HandleOutput)
  /\ \A h \in Hops : WF_vars(WriterStep(h))
-----------------------------------------------------------------------------
Lengths(msgs) == FoldLeft(LAMBDA sum, msg : sum + msg.len, 0, SelectSeq(msgs, LAMBDA msg : msg.type = "data"))
InFlight(h) == Lengths(writer[h].responses) + Lengths(writer[h].batch) + Lengths(net[h])

(* Counters, flags and queues have the values the code gives them. *)
TypeOK ==
  /\ task.pc \in {"open", "loop", "noting", "gone"}
  /\ task.enabled => task.running /\ ~task.throttled
  /\ task.sent \in 0 .. Total /\ task.acked \in 0 .. task.sent
  /\ throttles \subseteq Hops /\ crossed \subseteq Hops
  /\ \A h \in Hops : writer[h].pc = "idle" => writer[h].batch = <<>>

(* Whatever the writers say of their room, every chunk reaches the client  *)
(* once, and what is neither acknowledged nor received is within the      *)
(* window (downloadtask.cpp:83).                                           *)
NothingLost ==
  client.state \in {"running", "finished"} =>
    /\ task.sent = client.received + InFlight("A") + InFlight("B")
    /\ task.sent - client.received < (Window + 1) * Chunk
    /\ client.state = "finished" => client.received = Total

(* A hop that throttles the task still owes it a resume, which is behind   *)
(* the pause, unless the resume was given before the throttle was noted    *)
(* (taskbase.cpp:91, conn.cpp:712).                                        *)
ResumeOwed ==
  task.pc = "loop" =>
    \A h \in throttles \ crossed :
      \/ writer[h].flag \/ writer[h].pc = "resume"
      \/ h = "B" /\ \E i \in DOMAIN back : back[i].type = "resume"

(* When nothing is left to do and the client still waits, a resume has     *)
(* been lost in that way: there is no other way for a download to stop.    *)
Quiet ==
  /\ Working /\ ~task.enabled /\ work = <<>> /\ back = <<>> /\ relay = "idle"
  /\ \A h \in Hops : writer[h].pc = "idle" /\ writer[h].responses = <<>> /\ net[h] = <<>>
NoStall == (Quiet /\ client.state = "running") => crossed # {}

(* A download ends on both sides, by its end, by an error or by the idle   *)
(* timeout (FILETASK_IDLE_TIME), even when a resume is lost.               *)
Ends == <>(task.pc = "gone" /\ Ended(client.state))
=============================================================================
