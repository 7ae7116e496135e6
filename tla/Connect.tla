------------------------------- MODULE Connect -------------------------------
(***************************************************************************)
(* A connection to another server is made by a connector: the thread of a  *)
(* ConnectTask or the termy-connect program (src/mux/base/connectbase.cpp, *)
(* connecttask.cpp, src/mux/app/connector.cpp).  It starts a command       *)
(* through which it reaches the remote server's reader, waits for that     *)
(* reader's hello, and then passes the command's descriptor to the local   *)
(* server, whose reader (servermachine.cpp) makes a RawInstance of it      *)
(* (raw.cpp, clientmachine.cpp), which answers the remote server over that *)
(* descriptor and the connector over the local connection.  Messages are   *)
(* named by their kinds.                                                   *)
(***************************************************************************)
EXTENDS Integers, Sequences, SequencesExt

CONSTANTS Typed,    \* what the user types to the command, at most
          MaxTyped  \* how much of it the connector takes (CONNECT_HANDSHAKE_MAX)

VARIABLES
  k,    \* the connector
  l,    \* the local server's reader
  i,    \* the RawInstance
  r,    \* the command, and then the remote server's reader
  loc,  \* between the connector and the local server
  rem   \* between the command and the holders of its descriptor

vars == <<k, l, i, r, loc, rem>>

(* Who holds which end. *)
KThere == k.pc # "gone"
LocalThere == l # "gone" \/ i.pc \in {"start", "hello", "reply", "attributes"}
RemoteThere == r.pc # "gone"
RemoteHeld == KThere \/ i.pc \notin {"none", "gone"} \/ (l = "fd" /\ loc.up # <<>>)

ToLocal(msg) == loc' = [loc EXCEPT !.up = Append(@, msg)]
ToConnector(msg) == loc' = [loc EXCEPT !.down = Append(@, msg)]
FromLocal == loc' = [loc EXCEPT !.down = Tail(@)]
FromConnector == loc' = [loc EXCEPT !.up = Tail(@)]
-----------------------------------------------------------------------------
(* The connector. *)
Ends(outcome) == [k EXCEPT !.pc = "gone", !.outcome = outcome]
Fails == k' = Ends("error")

(* What the command prints before the hello is reported to the user.  The  *)
(* local connection of a task cannot fail, that of termy-connect can.      *)
ReadRemoteHandshake ==
  /\ k.pc = "ReadingRemoteHandshake"
  /\ \/ /\ rem.down # <<>> /\ rem' = [rem EXCEPT !.down = Tail(@)]
        /\ IF Head(rem.down) = "prompt" THEN UNCHANGED <<k, l>>
           ELSE \/ k' = [k EXCEPT !.pc = "ReadingLocalHandshake"] /\ l' = "start"
                \/ ~k.task /\ Fails /\ UNCHANGED l
     \/ rem.down = <<>> /\ ~RemoteThere /\ Fails /\ UNCHANGED <<rem, l>>
  /\ UNCHANGED <<i, r, loc>>

(* Input is taken while the hello is awaited, and what a task gets at     *)
(* another time is thrown away; the input of termy-connect may end.        *)
HandleData ==
  /\ \/ /\ k.pc = "ReadingRemoteHandshake" /\ k.typed < Typed
        /\ k' = IF k.taken >= MaxTyped THEN Ends("error")
                ELSE [k EXCEPT !.typed = @ + 1, !.taken = @ + 1, !.pc = "WritingRemoteHandshake"]
     \/ /\ k.pc = "WritingRemoteHandshake" /\ k.task /\ k.typed < Typed
        /\ k' = [k EXCEPT !.typed = @ + 1]
     \/ k.pc = "ReadingRemoteHandshake" /\ ~k.task /\ Fails
  /\ UNCHANGED <<l, i, r, loc, rem>>
WriteRemoteHandshake ==
  /\ k.pc = "WritingRemoteHandshake"
  /\ IF RemoteThere
     THEN /\ rem' = [rem EXCEPT !.up = Append(@, "typed")]
          /\ k' = [k EXCEPT !.pc = "ReadingRemoteHandshake"]
     ELSE Fails /\ UNCHANGED rem
  /\ UNCHANGED <<l, i, r, loc>>

(* The messages of the local connection, in the order of the states. *)
Awaited == [ReadingLocalHandshake |-> {"hello"}, ReadingLocalByte1 |-> {"byte"},
            ReadingLocalByte2 |-> {"byte"}, ReadingLocalResponse |-> {"accept", "reject"},
            ReadingConnId |-> {"id"}]
Sent == [WritingLocalHandshake |-> "serverFd", WritingDescriptor |-> "fd",
         WritingHello |-> "hello", WritingAttributes |-> "attributes"]

(* Mutant: the response is taken for the end. *)
NextStateEarly(state) ==
  [ReadingLocalHandshake |-> "WritingLocalHandshake", WritingLocalHandshake |-> "ReadingLocalByte1",
   ReadingLocalByte1 |-> "WritingDescriptor", WritingDescriptor |-> "ReadingLocalByte2",
   ReadingLocalByte2 |-> "WritingHello", WritingHello |-> "ReadingLocalResponse",
   ReadingLocalResponse |-> "done", WritingAttributes |-> "done", ReadingConnId |-> "done"][state]

NextState(state) ==
  [ReadingLocalHandshake |-> "WritingLocalHandshake", WritingLocalHandshake |-> "ReadingLocalByte1",
   ReadingLocalByte1 |-> "WritingDescriptor", WritingDescriptor |-> "ReadingLocalByte2",
   ReadingLocalByte2 |-> "WritingHello", WritingHello |-> "ReadingLocalResponse",
   ReadingLocalResponse |-> "WritingAttributes", WritingAttributes |-> "ReadingConnId",
   ReadingConnId |-> "done"][state]
Continues ==
  k' = IF NextState(k.pc) = "done" THEN Ends("finished") ELSE [k EXCEPT !.pc = NextState(@)]

ReadLocal ==
  /\ k.pc \in DOMAIN Awaited
  /\ \/ loc.down # <<>> /\ FromLocal
        /\ IF Head(loc.down) \in Awaited[k.pc] \ {"reject"} THEN Continues ELSE Fails
     \/ loc.down = <<>> /\ ~LocalThere /\ Fails /\ UNCHANGED loc
  /\ UNCHANGED <<l, i, r, rem>>
WriteLocal ==
  /\ k.pc \in DOMAIN Sent
  /\ IF LocalThere THEN ToLocal(Sent[k.pc]) /\ Continues ELSE Fails /\ UNCHANGED loc
  /\ UNCHANGED <<l, i, r, rem>>

(* A task is canceled by its client and kills the command; termy-connect   *)
(* is interrupted, and ends without an error.                              *)
Cancel ==
  /\ KThere /\ k' = Ends("canceled")
  /\ r' = IF k.task THEN [r EXCEPT !.pc = "gone"] ELSE r
  /\ UNCHANGED <<l, i, loc, rem>>
-----------------------------------------------------------------------------
(* The local server's reader: ServerMachine up to receiveFd, where it      *)
(* leaves the connection to a new RawInstance.                             *)
Reader ==
  /\ \/ /\ l = "start" /\ l' = "response" /\ UNCHANGED i
        /\ IF KThere THEN ToConnector("hello") ELSE UNCHANGED loc
     \/ /\ l \in {"response", "fd"} /\ loc.up # <<>>
        /\ CASE l = "response" /\ Head(loc.up) = "serverFd" /\ KThere ->
                  l' = "fd" /\ UNCHANGED i /\ loc' = [up |-> Tail(loc.up), down |-> Append(loc.down, "byte")]
             [] l = "fd" /\ Head(loc.up) = "fd" ->
                  l' = "gone" /\ i' = [i EXCEPT !.pc = "start"] /\ FromConnector
             [] OTHER -> l' = "gone" /\ UNCHANGED i /\ FromConnector
     \/ /\ l \in {"response", "fd"} /\ loc.up = <<>> /\ ~KThere
        /\ l' = "gone" /\ UNCHANGED <<i, loc>>
  /\ UNCHANGED <<k, r, rem>>

(* The RawInstance.  A write to a connector that is gone ends it. *)
InstanceGoes == i' = [i EXCEPT !.pc = "gone"]

(* Mutant: the thread does not tell the connector that it is there. *)
StartThreadMute ==
  /\ i.pc = "start"
  /\ i' = [i EXCEPT !.pc = "hello"] /\ UNCHANGED <<k, l, r, loc, rem>>

StartThread ==
  /\ i.pc = "start"
  /\ IF KThere THEN i' = [i EXCEPT !.pc = "hello"] /\ ToConnector("byte")
     ELSE InstanceGoes /\ UNCHANGED loc
  /\ UNCHANGED <<k, l, r, rem>>

(* The hello of the remote server: is it connected already?  The answer    *)
(* goes to the connector first and then to the remote server.              *)
HandshakeRead ==
  /\ i.pc = "hello" /\ loc.up # <<>>
  /\ \E response \in {"accept", "reject"} :
       IF Head(loc.up) = "hello" /\ KThere
       THEN /\ loc' = [up |-> Tail(loc.up), down |-> Append(loc.down, response)]
            /\ i' = [pc |-> "reply", response |-> response, was |-> FALSE]
       ELSE InstanceGoes /\ FromConnector
  /\ UNCHANGED <<k, l, r, rem>>
WriteResponse ==
  /\ i.pc = "reply"
  /\ IF RemoteThere THEN rem' = [rem EXCEPT !.up = Append(@, i.response)] ELSE UNCHANGED rem
  /\ IF RemoteThere /\ i.response = "accept" THEN i' = [i EXCEPT !.pc = "attributes"]
     ELSE InstanceGoes
  /\ UNCHANGED <<k, l, r, loc>>

(* ClientMachine::finish, setMachine: the connector is told the id, and    *)
(* the descriptor is the instance's own.                                   *)
Finish ==
  /\ i.pc = "attributes" /\ loc.up # <<>>
  /\ IF KThere
     THEN /\ loc' = [up |-> Tail(loc.up), down |-> Append(loc.down, "id")]
          /\ i' = [i EXCEPT !.pc = "connected", !.was = TRUE]
     ELSE InstanceGoes /\ FromConnector
  /\ UNCHANGED <<k, l, r, rem>>

InstanceEof ==
  /\ \/ i.pc \in {"hello", "attributes"} /\ loc.up = <<>> /\ ~KThere
     \/ i.pc = "connected" /\ ~RemoteThere
  /\ InstanceGoes
  /\ UNCHANGED <<k, l, r, loc, rem>>

(* The server closes a reader or a terminal. *)
LocalCloses ==
  /\ \/ l \notin {"none", "gone"} /\ l' = "gone" /\ UNCHANGED i
     \/ i.pc \notin {"none", "gone"} /\ InstanceGoes /\ UNCHANGED l
  /\ UNCHANGED <<k, r, loc, rem>>

InstanceStep == StartThread \/ HandshakeRead \/ WriteResponse \/ Finish \/ InstanceEof
-----------------------------------------------------------------------------
(* The command asks the user something, then starts the server's reader,   *)
(* which takes what it then reads for a response.                          *)
CommandAsks ==
  /\ r.pc = "start" /\ RemoteHeld
  /\ r' = [r EXCEPT !.pc = "asks"] /\ rem' = [rem EXCEPT !.down = Append(@, "prompt")]
  /\ UNCHANGED <<k, l, i, loc>>
CommandTakes ==
  /\ r.pc = "asks" /\ rem.up # <<>>
  /\ r' = [r EXCEPT !.pc = "start"] /\ rem' = [rem EXCEPT !.up = Tail(@)]
  /\ UNCHANGED <<k, l, i, loc>>
RemoteHello ==
  /\ r.pc = "start" /\ RemoteHeld
  /\ r' = [r EXCEPT !.pc = "response"] /\ rem' = [rem EXCEPT !.down = Append(@, "hello")]
  /\ UNCHANGED <<k, l, i, loc>>
RemoteResponse ==
  /\ r.pc = "response" /\ rem.up # <<>>
  /\ rem' = [rem EXCEPT !.up = Tail(@)]
  /\ r' = IF Head(rem.up) = "accept" THEN [pc |-> "session", accepted |-> TRUE]
          ELSE [r EXCEPT !.pc = "gone"]
  /\ UNCHANGED <<k, l, i, loc>>
RemoteEof ==
  /\ RemoteThere /\ ~RemoteHeld /\ (rem.up = <<>> \/ r.pc \in {"start", "session"})
  /\ r' = [r EXCEPT !.pc = "gone"]
  /\ UNCHANGED <<k, l, i, loc, rem>>
RemoteDies ==
  /\ RemoteThere /\ r' = [r EXCEPT !.pc = "gone"]
  /\ UNCHANGED <<k, l, i, loc, rem>>

Init ==
  /\ \E task \in BOOLEAN :
       k = [pc |-> "ReadingRemoteHandshake", task |-> task,
            typed |-> 0, taken |-> 0, outcome |-> "none"]
  /\ l = "none" /\ i = [pc |-> "none", response |-> "none", was |-> FALSE]
  /\ r = [pc |-> "start", accepted |-> FALSE]
  /\ loc = [up |-> <<>>, down |-> <<>>] /\ rem = [up |-> <<>>, down |-> <<>>]

KStep == ReadRemoteHandshake \/ WriteRemoteHandshake \/ ReadLocal \/ WriteLocal
RemoteStep == CommandTakes \/ RemoteResponse \/ RemoteEof
Next ==
  \/ KStep \/ HandleData \/ Cancel \/ Reader \/ InstanceStep \/ LocalCloses
  \/ RemoteStep \/ CommandAsks \/ RemoteHello \/ RemoteDies

(* All threads go on; the command need not come to a hello. *)
Spec ==
  Init /\ [][Next]_vars
  /\ WF_vars(KStep) /\ WF_vars(Reader) /\ WF_vars(InstanceStep) /\ WF_vars(RemoteStep)
-----------------------------------------------------------------------------
Awaiting == {"ReadingLocalHandshake", "ReadingLocalByte1", "ReadingLocalByte2", "ReadingLocalResponse", "ReadingConnId"}
Sending == {"WritingLocalHandshake", "WritingDescriptor", "WritingHello", "WritingAttributes"}
Remote == {"ReadingRemoteHandshake", "WritingRemoteHandshake"}
Requests == {"serverFd", "fd", "hello", "attributes"}
Replies == {"hello", "byte", "accept", "reject", "id"}
TypeOK ==
  /\ k \in [pc : Remote \cup Awaiting \cup Sending \cup {"gone"}, task : BOOLEAN, typed : 0 .. Typed,
            taken : 0 .. MaxTyped, outcome : {"none", "error", "canceled", "finished"}]
  /\ k.outcome = "none" <=> k.pc # "gone"
  /\ l \in {"none", "start", "response", "fd", "gone"}
  /\ i \in [pc : {"none", "start", "hello", "reply", "attributes", "connected", "gone"},
            response : {"none", "accept", "reject"}, was : BOOLEAN]
  /\ i.pc # "none" => l = "gone"
  /\ r \in [pc : {"start", "asks", "response", "session", "gone"}, accepted : BOOLEAN]
  /\ loc \in [up : {<<>>} \cup {<<m>> : m \in Requests}, down : {<<>>} \cup {<<m>> : m \in Replies}]
  /\ rem \in [up : Seq({"typed", "accept", "reject"}), down : Seq({"prompt", "hello"})]

(* Whoever reads finds the message its state expects (connectbase.cpp:256, *)
(* servermachine.cpp:72); only what the user typed may come to the remote  *)
(* server's reader before the response.                                    *)
Phases ==
  /\ k.pc \in DOMAIN Awaited /\ loc.down # <<>> => Head(loc.down) \in Awaited[k.pc]
  /\ loc.up # <<>> =>
       /\ l = "response" => Head(loc.up) = "serverFd"
       /\ l = "fd" => Head(loc.up) = "fd"
       /\ i.pc = "hello" => Head(loc.up) = "hello"
       /\ i.pc = "attributes" => Head(loc.up) = "attributes"
  /\ r.pc = "response" /\ rem.up # <<>> /\ Head(rem.up) \notin {"accept", "reject"} => k.taken > 0

(* A connector that reports an id has a connection to report: both servers *)
(* have agreed to it, unless the remote one is gone since; a connection is *)
(* made of descriptors of one remote server that was accepted.             *)
FinishedIsConnected ==
  /\ k.outcome = "finished" => i.was
  /\ i.was /\ RemoteThere => r.accepted \/ Len(rem.up) > 0

(* The inductive invariant.  What is on its way to the local server is     *)
(* what its reader, or the instance, awaits.                               *)
Upward ==
  /\ l \in {"none", "start"} \/ i.pc \in {"start", "connected"} => loc.up = <<>>
  /\ l = "response" => loc.up \in {<<>>, <<"serverFd">>}
  /\ l = "fd" => loc.up \in {<<>>, <<"fd">>}
  /\ i.pc = "hello" => loc.up \in {<<>>, <<"hello">>}
  /\ i.pc \in {"reply", "attributes"} => loc.up \in {<<>>, <<"attributes">>}

(* The other side of each state of the connector: nothing is on its way    *)
(* where it writes, and one of two messages, its own or the answer, where  *)
(* it reads.                                                               *)
Silent == loc.up = <<>> /\ loc.down = <<>>
OneOf(replies) == loc.down = <<>> \/ (loc.up = <<>> /\ loc.down \in replies)
Turns ==
  /\ k.pc \in Remote => l = "none" /\ Silent
  /\ k.pc = "ReadingLocalHandshake" =>
       /\ i.pc = "none" /\ l \in {"start", "response", "gone"} /\ loc.up = <<>> /\ OneOf({<<"hello">>})
       /\ l = "start" => loc.down = <<>>
  /\ k.pc = "WritingLocalHandshake" => i.pc = "none" /\ l \in {"response", "gone"} /\ Silent
  /\ k.pc = "ReadingLocalByte1" =>
       /\ i.pc = "none" /\ l \in {"response", "fd", "gone"} /\ OneOf({<<"byte">>})
       /\ l = "response" => loc.down = <<>>
       /\ l = "fd" => loc.up = <<>>
  /\ k.pc = "WritingDescriptor" => i.pc = "none" /\ l \in {"fd", "gone"} /\ Silent
  /\ k.pc = "ReadingLocalByte2" =>
       /\ i.pc \in {"none", "start", "hello", "gone"} /\ l \in {"fd", "gone"} /\ OneOf({<<"byte">>})
       /\ i.pc \in {"none", "start"} => loc.down = <<>>
       /\ i.pc # "none" => loc.up = <<>>
  /\ k.pc = "WritingHello" => i.pc \in {"hello", "gone"} /\ Silent
  /\ k.pc = "ReadingLocalResponse" =>
       /\ i.pc \in {"hello", "reply", "attributes", "gone"} /\ OneOf({<<"accept">>, <<"reject">>})
       /\ i.pc = "hello" => loc.down = <<>>
       /\ i.pc \in {"reply", "attributes"} => loc.up = <<>>
  /\ k.pc = "WritingAttributes" => i.pc \in {"reply", "attributes", "gone"} /\ Silent
  /\ k.pc = "ReadingConnId" =>
       /\ i.pc \in {"reply", "attributes", "connected", "gone"} /\ OneOf({<<"id">>})
       /\ i.was \/ loc.down = <<>>
  /\ k.outcome = "finished" => i.was
  /\ i.was => i.pc \in {"connected", "gone"}

(* The remote server's reader: it is there when its hello is, and has the  *)
(* instance's answer when the instance has gone on.                        *)
Reached ==
  /\ l # "none" \/ "hello" \in ToSet(rem.down) => r.pc \notin {"start", "asks"}
  /\ "typed" \in ToSet(rem.up) \/ k.pc = "WritingRemoteHandshake" => k.taken > 0
  /\ i.pc = "reply" => i.response # "none"
  /\ r.pc = "session" => r.accepted
  /\ i.pc = "attributes" \/ i.was => r.pc = "gone" \/ r.accepted \/ rem.up # <<>>

IInv == TypeOK /\ Upward /\ Turns /\ Reached

(* A connector that has a hello ends; when it fails, or its task is        *)
(* canceled, nothing is left of the connection.                            *)
Settled ==
  /\ k.pc \notin {"ReadingRemoteHandshake", "WritingRemoteHandshake"} => ~KThere
  /\ k.outcome = "error" \/ (k.outcome = "canceled" /\ k.task) =>
       i.pc \in {"none", "gone"} /\ r.pc = "gone"
ConnectEnds == <>[]Settled
=============================================================================
