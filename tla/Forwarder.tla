------------------------------ MODULE Forwarder ------------------------------
(***************************************************************************)
(* termy-server run from a terminal: a process that connects to the        *)
(* running server, passes it two descriptors, and waits for its status     *)
(* (src/mux/app/forwarder.cpp).  If its input is a terminal the server     *)
(* gets one end of a socket pair, and two threads copy between the other   *)
(* end and the terminal; if not, the server gets the input and output      *)
(* themselves.  The server's side is a reader (src/mux/base/reader.cpp,    *)
(* servermachine.cpp).  What the server writes is a sequence of items: its *)
(* hello, its output (numbered from 1), and a last Bye when it is the one  *)
(* that disconnects; the forwarder's own is writeDisconnect.               *)
(***************************************************************************)
EXTENDS Integers, Sequences, SequencesExt

CONSTANTS Output,   \* items the server has to write in a session
          Keys,     \* items the terminal sends in a session
          Cap       \* items the socket pair holds towards the terminal

VARIABLES
  fwd,     \* the forwarder's main thread
  work,    \* its queue
  copier,  \* the threads: terminal to server ("in"), server to terminal ("out")
  ctrl,    \* the connection to the server
  pair,    \* the socket pair
  srv,     \* the server's reader
  tty      \* what is at the forwarder's input and output, and what it has shown

vars == <<fwd, work, copier, ctrl, pair, srv, tty>>

Hello == 0
Bye == Output + 1

Error == "forwarderError"
Leave(status) == [fwd EXCEPT !.pc = "leaving", !.status = status]
-----------------------------------------------------------------------------
(* The server.  Its descriptors are those of the connection until it has   *)
(* received others: an end of the pair, or the terminal's own.             *)
Typed == IF fwd.pty THEN pair.up ELSE tty.typed
TypedEnds == IF fwd.pty THEN pair.up = <<>> /\ pair.shut ELSE tty.typed = <<>> /\ tty.hung
TakeTyped ==
  IF fwd.pty THEN pair' = [pair EXCEPT !.up = Tail(@)] /\ UNCHANGED tty
  ELSE tty' = [tty EXCEPT !.typed = Tail(@)] /\ UNCHANGED pair
Write(item) ==
  IF fwd.pty THEN pair' = [pair EXCEPT !.down = Append(@, item)] /\ UNCHANGED tty
  ELSE tty' = [tty EXCEPT !.shown = Append(@, item)] /\ UNCHANGED pair
Full == fwd.pty /\ Len(pair.down) >= Cap
FwdThere == fwd.pc # "gone"

Answer(item) == ctrl' = [ctrl EXCEPT !.down = Append(@, item)]

SrvHello ==
  /\ srv.pc = "hello"
  /\ Answer("hello") /\ srv' = [srv EXCEPT !.pc = "response"]
  /\ UNCHANGED <<fwd, work, copier, pair, tty>>

SrvResponse ==
  /\ srv.pc = "response" /\ ctrl.up # <<>>
  /\ ctrl' = [up |-> Tail(ctrl.up), down |-> Append(ctrl.down, "byte")]
  /\ srv' = [srv EXCEPT !.pc = "fds"]
  /\ UNCHANGED <<fwd, work, copier, pair, tty>>

(* receiveFd: the handshake starts again on the new descriptors. *)
SrvFds ==
  /\ srv.pc = "fds" /\ ctrl.up # <<>>
  /\ ctrl' = [ctrl EXCEPT !.up = Tail(@)]
  /\ Write(Hello)
  /\ srv' = [srv EXCEPT !.pc = "response2", !.wrote = <<Hello>>]
  /\ UNCHANGED <<fwd, work, copier>>

SrvEnds(clean, status) == [srv EXCEPT !.pc = "bye", !.clean = clean, !.status = status]

(* The forwarder is gone: an end of file, or a message without descriptors. *)
SrvLost ==
  /\ srv.pc \in {"response", "fds"} /\ ctrl.up = <<>> /\ ~FwdThere
  /\ srv' = [srv EXCEPT !.pc = "gone"]
  /\ UNCHANGED <<fwd, work, copier, ctrl, pair, tty>>

SrvResponse2 ==
  /\ srv.pc = "response2" /\ Typed # <<>> /\ TakeTyped
  /\ CASE Head(Typed) = "accept" -> Answer("protocol") /\ srv' = [srv EXCEPT !.pc = "session"]
       [] Head(Typed) = "reject" -> srv' = SrvEnds(TRUE, "rejected") /\ UNCHANGED ctrl
       [] OTHER -> srv' = SrvEnds(FALSE, "protocolError") /\ UNCHANGED ctrl
  /\ UNCHANGED <<fwd, work, copier>>

SrvOutput ==
  /\ srv.pc = "session" /\ srv.left > 0 /\ ~Full
  /\ LET item == Output - srv.left + 1
     IN Write(item) /\ srv' = [srv EXCEPT !.left = @ - 1, !.wrote = Append(@, item)]
  /\ UNCHANGED <<fwd, work, copier, ctrl>>

(* The end of the input is a clean end, as is a disconnect message. *)
SrvInput ==
  /\ srv.pc = "session" /\ Typed # <<>> /\ TakeTyped
  /\ srv' = IF Head(Typed) = "quit" THEN SrvEnds(TRUE, "quit") ELSE srv
  /\ UNCHANGED <<fwd, work, copier, ctrl>>
SrvEof ==
  /\ srv.pc \in {"response2", "session"} /\ TypedEnds
  /\ srv' = SrvEnds(TRUE, "normal")
  /\ UNCHANGED <<fwd, work, copier, ctrl, pair, tty>>

(* ReaderClose: a shutdown, a keepalive that ran out, a write that failed. *)
SrvClose ==
  /\ srv.pc \in {"response2", "session"}
  /\ srv' = SrvEnds(FALSE, "closed")
  /\ UNCHANGED <<fwd, work, copier, ctrl, pair, tty>>

(* The end of threadMain.  The bye is written once, and not at all when    *)
(* there is no room for it.                                                *)
SrvBye ==
  /\ srv.pc = "bye"
  /\ IF srv.clean THEN srv' = [srv EXCEPT !.pc = "status"] /\ UNCHANGED <<pair, tty>>
     ELSE IF Full THEN srv' = [srv EXCEPT !.pc = "status", !.noRoom = TRUE] /\ UNCHANGED <<pair, tty>>
     ELSE Write(Bye) /\ srv' = [srv EXCEPT !.pc = "status", !.wrote = Append(@, Bye)]
  /\ UNCHANGED <<fwd, work, copier, ctrl>>
SrvStatus ==
  /\ srv.pc = "status"
  /\ Answer(srv.status) /\ srv' = [srv EXCEPT !.pc = "close"]
  /\ UNCHANGED <<fwd, work, copier, pair, tty>>

(* Closed with input unread, the pair is reset. *)
Closed == pair' = [pair EXCEPT !.closed = TRUE, !.reset = pair.up # <<>>, !.up = <<>>]
SrvClosefd ==
  /\ srv.pc = "close"
  /\ Closed /\ srv' = [srv EXCEPT !.pc = "gone"]
  /\ UNCHANGED <<fwd, work, copier, ctrl, tty>>

(* The server's process dies: no bye, no status. *)
SrvDies ==
  /\ srv.pc \notin {"gone", "close"}
  /\ Closed /\ srv' = [srv EXCEPT !.pc = "gone"]
  /\ UNCHANGED <<fwd, work, copier, ctrl, tty>>

SrvStep ==
  \/ SrvHello \/ SrvResponse \/ SrvFds \/ SrvLost \/ SrvResponse2 \/ SrvOutput
  \/ SrvInput \/ SrvEof \/ SrvBye \/ SrvStatus \/ SrvClosefd
-----------------------------------------------------------------------------
(* The forwarder's handshake. *)
ReadHandshake ==
  /\ fwd.pc = "ReadingHandshake" /\ ctrl.down # <<>>
  /\ ctrl' = [ctrl EXCEPT !.down = Tail(@)]
  /\ fwd' = [fwd EXCEPT !.pc = "WritingHandshake"]
  /\ UNCHANGED <<work, copier, pair, srv, tty>>

WriteHandshake ==
  /\ fwd.pc = "WritingHandshake" /\ srv.pc # "gone"
  /\ ctrl' = [ctrl EXCEPT !.up = Append(@, "clientFd")]
  /\ fwd' = [fwd EXCEPT !.pc = "ReadingResponse"]
  /\ UNCHANGED <<work, copier, pair, srv, tty>>

ReadResponse ==
  /\ fwd.pc = "ReadingResponse" /\ ctrl.down # <<>>
  /\ ctrl' = [ctrl EXCEPT !.down = Tail(@)]
  /\ fwd' = [fwd EXCEPT !.pc = "WritingDescriptors"]
  /\ UNCHANGED <<work, copier, pair, srv, tty>>

(* The copiers start once the descriptors are sent, and not at all if the  *)
(* forwarder finds itself in the background then.                          *)
WriteDescriptors ==
  /\ fwd.pc = "WritingDescriptors" /\ srv.pc # "gone"
  /\ ctrl' = [ctrl EXCEPT !.up = Append(@, "fds")]
  /\ \/ /\ fwd' = [fwd EXCEPT !.pc = "ReadingInfo"]
        /\ copier' = IF fwd.pty THEN [c \in {"in", "out"} |-> [run |-> TRUE, held |-> <<>>]] ELSE copier
     \/ fwd.pty /\ fwd' = Leave(Error) /\ UNCHANGED copier
  /\ UNCHANGED <<work, pair, srv, tty>>

(* An end of file, or a write that fails, in the handshake. *)
HandshakeFails ==
  /\ srv.pc = "gone"
  /\ \/ fwd.pc \in {"ReadingHandshake", "ReadingResponse"} /\ ctrl.down = <<>>
     \/ fwd.pc \in {"WritingHandshake", "WritingDescriptors"}
  /\ fwd' = Leave(Error)
  /\ UNCHANGED <<work, copier, ctrl, pair, srv, tty>>

(* Mutant: the status ends the forwarder whether or not all is copied. *)
ReadInfoAtOnce ==
  /\ fwd.pc = "ReadingInfo" /\ ~fwd.clean
  /\ \/ /\ ctrl.down # <<>> /\ ctrl' = [ctrl EXCEPT !.down = Tail(@)]
        /\ fwd' = IF Head(ctrl.down) = "protocol" THEN [fwd EXCEPT !.protocol = TRUE]
                  ELSE [Leave(Head(ctrl.down)) EXCEPT !.clean = TRUE]
     \/ ctrl.down = <<>> /\ srv.pc = "gone" /\ fwd' = Leave("lost") /\ UNCHANGED ctrl
  /\ UNCHANGED <<work, copier, pair, srv, tty>>

(* The protocol that was chosen, and then the status: the forwarder stays  *)
(* until all was copied.                                                   *)
ReadInfo ==
  /\ fwd.pc = "ReadingInfo" /\ ~fwd.clean
  /\ \/ /\ ctrl.down # <<>> /\ ctrl' = [ctrl EXCEPT !.down = Tail(@)]
        /\ fwd' = IF Head(ctrl.down) = "protocol" THEN [fwd EXCEPT !.protocol = TRUE]
                  ELSE [fwd EXCEPT !.status = Head(ctrl.down), !.clean = TRUE,
                                   !.pc = IF fwd.pty /\ ~fwd.writerExit THEN @ ELSE "leaving"]
     \/ ctrl.down = <<>> /\ srv.pc = "gone" /\ fwd' = Leave("lost") /\ UNCHANGED ctrl
  /\ UNCHANGED <<work, copier, pair, srv, tty>>

HandleWork ==
  /\ fwd.pc \notin {"leaving", "gone"} /\ work # <<>>
  /\ work' = Tail(work)
  /\ fwd' = CASE Head(work) = "readerExit" -> Leave(fwd.status)
              [] Head(work) = "writerExit" ->
                   [fwd EXCEPT !.writerExit = TRUE, !.pc = IF fwd.clean THEN "leaving" ELSE @]
              [] OTHER -> Leave(Error)
  /\ UNCHANGED <<copier, ctrl, pair, srv, tty>>

HandleInterrupt ==
  /\ fwd.pc \notin {"leaving", "gone"}
  /\ fwd' = Leave("shutdown")
  /\ UNCHANGED <<work, copier, ctrl, pair, srv, tty>>

(* The end of threadMain: the copiers are joined, the terminal is told if  *)
(* the server has not ended in order, and the process ends.                *)
WriteDisconnect == ~fwd.clean /\ fwd.protocol
FwdLeaves ==
  /\ fwd.pc = "leaving" /\ ~copier["in"].run /\ ~copier["out"].run
  /\ fwd' = [fwd EXCEPT !.pc = "gone"]
  /\ tty' = [tty EXCEPT !.told = WriteDisconnect]
  /\ pair' = [pair EXCEPT !.shut = TRUE]
  /\ UNCHANGED <<work, copier, ctrl, srv>>

FwdStep ==
  \/ ReadHandshake \/ WriteHandshake \/ ReadResponse \/ WriteDescriptors
  \/ HandshakeFails \/ ReadInfo \/ HandleWork \/ FwdLeaves
-----------------------------------------------------------------------------
(* The copiers (TermForwarderWriter): one buffer each. *)
CopierGone(c) == copier' = [copier EXCEPT ![c].run = FALSE]
Holds(c, items) == copier' = [copier EXCEPT ![c].held = items]
Tell(item) == work' = Append(work, item)

ReadTerminal ==
  /\ copier["in"].run /\ copier["in"].held = <<>>
  /\ \/ /\ tty.typed # <<>> /\ Holds("in", <<Head(tty.typed)>>)
        /\ tty' = [tty EXCEPT !.typed = Tail(@)] /\ UNCHANGED <<work, pair>>
     \/ /\ tty.typed = <<>> /\ tty.hung
        /\ CopierGone("in") /\ UNCHANGED tty
        /\ \/ pair' = [pair EXCEPT !.shut = TRUE] /\ Tell("readerExit")
           \/ Tell("error") /\ UNCHANGED pair
  /\ UNCHANGED <<fwd, ctrl, srv>>

WriteServer ==
  /\ copier["in"].run /\ copier["in"].held # <<>>
  /\ IF pair.closed THEN CopierGone("in") /\ Tell("error") /\ UNCHANGED pair
     ELSE /\ pair' = [pair EXCEPT !.up = @ \o copier["in"].held]
          /\ Holds("in", <<>>) /\ UNCHANGED work
  /\ UNCHANGED <<fwd, ctrl, srv, tty>>

ReadServer ==
  /\ copier["out"].run /\ copier["out"].held = <<>>
  /\ \/ /\ pair.down # <<>> /\ Holds("out", <<Head(pair.down)>>)
        /\ pair' = [pair EXCEPT !.down = Tail(@)] /\ UNCHANGED work
     \/ /\ pair.down = <<>> /\ pair.closed
        /\ CopierGone("out") /\ UNCHANGED pair
        /\ (Tell("writerExit") \/ (pair.reset /\ Tell("error")))
  /\ UNCHANGED <<fwd, ctrl, srv, tty>>

WriteTerminal ==
  /\ copier["out"].run /\ copier["out"].held # <<>>
  /\ \/ tty' = [tty EXCEPT !.shown = @ \o copier["out"].held] /\ Holds("out", <<>>) /\ UNCHANGED work
     \/ tty.hung /\ CopierGone("out") /\ Tell("error") /\ UNCHANGED tty
  /\ UNCHANGED <<fwd, ctrl, pair, srv>>

(* stop(0), once the main thread leaves. *)
CopierStops(c) ==
  /\ fwd.pc = "leaving" /\ copier[c].run
  /\ CopierGone(c)
  /\ UNCHANGED <<fwd, work, ctrl, pair, srv, tty>>

InStep == ReadTerminal \/ WriteServer \/ CopierStops("in")
OutStep == ReadServer \/ WriteTerminal \/ CopierStops("out")
-----------------------------------------------------------------------------
(* The program at the terminal answers the hello, sends what it likes, and *)
(* may go away at any time.                                                *)
Type(item) == tty' = [tty EXCEPT !.typed = Append(@, item), !.answered = TRUE]
Respond ==
  /\ ~tty.hung /\ ~tty.answered /\ tty.shown # <<>>
  /\ \E response \in {"accept", "reject", "nonsense"} : Type(response)
  /\ UNCHANGED <<fwd, work, copier, ctrl, pair, srv>>
Send ==
  /\ ~tty.hung /\ tty.answered /\ tty.keys > 0
  /\ \E item \in {"key", "quit"} :
       tty' = [tty EXCEPT !.typed = Append(@, item), !.keys = @ - 1]
  /\ UNCHANGED <<fwd, work, copier, ctrl, pair, srv>>
HangUp ==
  /\ ~tty.hung /\ tty' = [tty EXCEPT !.hung = TRUE]
  /\ UNCHANGED <<fwd, work, copier, ctrl, pair, srv>>

Init ==
  /\ \E pty \in BOOLEAN :
       fwd = [pc |-> "ReadingHandshake", pty |-> pty, protocol |-> FALSE, clean |-> FALSE,
              writerExit |-> FALSE, status |-> "normal"]
  /\ work = <<>>
  /\ copier = [c \in {"in", "out"} |-> [run |-> FALSE, held |-> <<>>]]
  /\ ctrl = [up |-> <<>>, down |-> <<>>]
  /\ pair = [up |-> <<>>, down |-> <<>>, shut |-> FALSE, closed |-> FALSE, reset |-> FALSE]
  /\ srv = [pc |-> "hello", left |-> Output, wrote |-> <<>>, clean |-> FALSE,
            status |-> "normal", noRoom |-> FALSE]
  /\ tty = [typed |-> <<>>, shown |-> <<>>, told |-> FALSE, keys |-> Keys, answered |-> FALSE, hung |-> FALSE]

Next ==
  \/ SrvStep \/ SrvClose \/ SrvDies \/ FwdStep \/ HandleInterrupt
  \/ InStep \/ OutStep \/ Respond \/ Send \/ HangUp

(* The threads go on while they can.  Nothing is assumed of the terminal   *)
(* but that it takes what it is sent, nor that a signal is noticed.        *)
Spec ==
  Init /\ [][Next]_vars
  /\ WF_vars(SrvStep) /\ WF_vars(FwdStep) /\ WF_vars(InStep) /\ WF_vars(OutStep)
-----------------------------------------------------------------------------
Inputs == {"accept", "reject", "nonsense", "key", "quit"}
Items == Hello .. Bye
Letters == {"clientFd", "fds"}
Ends == {"readerExit", "writerExit", "error"}
Reasons == {"normal", "rejected", "protocolError", "quit", "closed"}
Answers == {"hello", "byte", "protocol"} \cup Reasons
TypeOK ==
  /\ fwd \in [pc : {"ReadingHandshake", "WritingHandshake", "ReadingResponse", "WritingDescriptors",
                     "ReadingInfo", "leaving", "gone"},
              pty : BOOLEAN, protocol : BOOLEAN, clean : BOOLEAN, writerExit : BOOLEAN,
              status : Reasons \cup {Error, "shutdown", "lost"}]
  /\ work \in Seq(Ends)
  /\ copier = [c \in {"in", "out"} |-> copier[c]]
  /\ copier["in"] \in [run : BOOLEAN, held : Seq(Inputs)]
  /\ copier["out"] \in [run : BOOLEAN, held : Seq(Items)]
  /\ ctrl \in [up : Seq(Letters), down : Seq(Answers)]
  /\ pair \in [up : Seq(Inputs), down : Seq(Items), shut : BOOLEAN, closed : BOOLEAN, reset : BOOLEAN]
  /\ srv \in [pc : {"hello", "response", "fds", "response2", "session", "bye", "status", "close", "gone"},
              left : 0 .. Output, wrote : Seq(Items), clean : BOOLEAN, status : Reasons, noRoom : BOOLEAN]
  /\ tty \in [typed : Seq(Inputs), shown : Seq(Items), told : BOOLEAN, keys : 0 .. Keys,
              answered : BOOLEAN, hung : BOOLEAN]

(* The terminal sees what the server wrote, in the order it was written,   *)
(* and all of it when the forwarder ends in order: the status does not     *)
(* overtake the output (forwarder.cpp:209).  A key that is typed after the *)
(* server is gone is an error, and the status then says so.                *)
InOrder == IsPrefix(tty.shown, srv.wrote)
CleanIsWhole ==
  fwd.pc = "gone" /\ fwd.clean /\ fwd.status \notin {Error, "shutdown"} /\ ~tty.hung =>
    tty.shown = srv.wrote /\ fwd.status = srv.status

(* A terminal that was accepted is told of the end, by the server or by    *)
(* the forwarder (forwarder.cpp:283), unless it asked for it itself, or    *)
(* the server had no room to tell it, or the forwarder left while the      *)
(* server's bye was still to be copied.                                    *)
CutShort == fwd.clean /\ tty.shown # srv.wrote
Told ==
  fwd.pc = "gone" /\ fwd.protocol /\ ~tty.hung =>
    \/ tty.told \/ Bye \in ToSet(tty.shown)
    \/ srv.clean \/ srv.noRoom \/ CutShort

(* The inductive invariant.  What the terminal shows, what the copier holds *)
(* and what the pair still has are what the server wrote.                  *)
Drained == copier["out"].held = <<>> /\ pair.down = <<>>
Streams ==
  /\ tty.shown \o (copier["out"].held \o pair.down) = srv.wrote
  /\ fwd.pty \/ Drained
  /\ srv.pc \in {"hello", "response", "fds"} => srv.wrote = <<>>
  /\ Len(pair.down) <= Cap + 1

(* The messages of the handshake, and the answers after it: the status is  *)
(* given when the bye was written, if one was due.                         *)
Byed == srv.clean \/ srv.noRoom \/ Bye \in ToSet(srv.wrote)
Statused(status) == status = srv.status /\ srv.pc \in {"close", "gone"} /\ Byed
Handshakes ==
  /\ fwd.pc = "ReadingHandshake" =>
       /\ ctrl.up = <<>>
       /\ \/ srv.pc = "hello" /\ ctrl.down = <<>>
          \/ srv.pc \in {"response", "gone"} /\ ctrl.down \in {<<>>, <<"hello">>}
  /\ fwd.pc = "WritingHandshake" =>
       ctrl.up = <<>> /\ ctrl.down = <<>> /\ srv.pc \in {"response", "gone"}
  /\ fwd.pc = "ReadingResponse" =>
       \/ srv.pc = "response" /\ ctrl.up = <<"clientFd">> /\ ctrl.down = <<>>
       \/ srv.pc \in {"fds", "gone"} /\ (srv.pc = "fds" => ctrl.up = <<>>) /\ ctrl.down \in {<<>>, <<"byte">>}
  /\ fwd.pc = "WritingDescriptors" =>
       srv.pc \in {"fds", "gone"} /\ (srv.pc = "fds" => ctrl.up = <<>>) /\ ctrl.down = <<>>
  /\ fwd.pc = "ReadingInfo" =>
       /\ srv.pc \notin {"hello", "response"}
       /\ \A answer \in ToSet(ctrl.down) : answer = "protocol" \/ Statused(answer)
  /\ srv.pc \in {"status", "close"} => Byed

(* The copiers run from the end of the handshake, and tell of their ends.  *)
Early == {"ReadingHandshake", "WritingHandshake", "ReadingResponse", "WritingDescriptors"}
Shut(c) == ~copier[c].run
Copiers ==
  /\ fwd.pc \in Early \/ ~fwd.pty =>
       /\ work = <<>> /\ Shut("in") /\ Shut("out")
       /\ copier["in"].held = <<>> /\ copier["out"].held = <<>>
  /\ Len(work) <= IF Shut("in") /\ Shut("out") THEN 2 ELSE IF Shut("in") \/ Shut("out") THEN 1 ELSE 0
  /\ fwd.pc = "gone" => Shut("in") /\ Shut("out")
  /\ pair.closed => srv.pc = "gone"
  /\ fwd.writerExit \/ "writerExit" \in ToSet(work) => Drained /\ pair.closed /\ Shut("out")
  /\ "readerExit" \in ToSet(work) => tty.hung

(* How the forwarder leaves. *)
Leaving ==
  /\ fwd.clean =>
       /\ fwd.pc \in {"ReadingInfo", "leaving", "gone"}
       /\ srv.pc \in {"close", "gone"} /\ Byed
       /\ fwd.pc = "ReadingInfo" => fwd.status = srv.status
       /\ fwd.pc # "ReadingInfo" /\ fwd.status \notin {Error, "shutdown"} /\ ~tty.hung =>
            fwd.status = srv.status /\ (~fwd.pty \/ fwd.writerExit)
  /\ fwd.pc = "gone" /\ ~fwd.clean /\ fwd.protocol => tty.told

IInv == TypeOK /\ Streams /\ Handshakes /\ Copiers /\ Leaving

(* The forwarder ends when the server or the terminal is gone, and the     *)
(* server's reader ends when a forwarder with a terminal is gone.          *)
Ended ==
  /\ srv.pc = "gone" \/ tty.hung => fwd.pc = "gone"
  /\ fwd.pty /\ fwd.pc = "gone" => srv.pc = "gone"
ForwarderEnds == <>[]Ended
=============================================================================
