-------------------------------- MODULE MCTasks --------------------------------
(***************************************************************************)
(* Small systems in one run of TLC: which of them a behaviour is about  *)
(* is chosen at its start, and the others' variables stay empty, those of   *)
(* Reaper as they are at the start.  They share no state in the program    *)
(* either; variables of one name (the task, its client) belong to the      *)
(* system that is running.                                                 *)
(***************************************************************************)
EXTENDS Reaper, MCOwners, MCLinks, TLC

CONSTANTS x1, x2, x3

VARIABLES
  task, client,                                          \* shared names
  throttles, writer, net, relay, back, noise, crossed,   \* FlowControl
  disk, existed, up, down,                               \* Upload
  listener, end, chan, app, dropped, pauses, crashed     \* PortForward

flowOnly == <<throttles, writer, net, relay, back, noise, crossed>>
uploadOnly == <<disk, existed, up, down>>
ownerOnly == <<known, ignored, order, ownerclients, lq, owned, holder, leaving, stray, announces>>
portOnly == <<listener, end, chan, app, dropped, pauses, crashed>>
forwarderOnly == <<fwd, copier, ctrl, pair, srv, tty>>
connectOnly == <<connector, reader, instance, command, loc, rem>>
allVars == <<system, task, queue, client, vars, flowOnly, uploadOnly, ownerOnly,
             portOnly, forwarderOnly, connectOnly>>

MCDistance == x1 :> 0 @@ x2 :> 1 @@ x3 :> 0

Download == INSTANCE FlowControl WITH
  work <- queue, Total <- 3, Chunk <- 2, Window <- 1, Threshold <- 1, NetCap <- 1, Noisy <- {"A"}
Upload == INSTANCE Upload WITH Total <- 6, Chunk <- 2, Window <- 2
Shared == INSTANCE PortForward WITH    \* two connections share a task's window
  Ids <- {1, 2}, Asked <- 2, Answered <- 0, Chunk <- 1, Window <- 1, MaxPauses <- 0
Stream == INSTANCE PortForward WITH    \* both ways, throttled
  Ids <- {1}, Asked <- 3, Answered <- 1, Chunk <- 2, Window <- 1, MaxPauses <- 1

(* The variables of a system that does not run are all 0. *)
NoFlow == throttles = 0 /\ writer = 0 /\ net = 0 /\ relay = 0 /\ back = 0 /\ noise = 0 /\ crossed = 0
NoUpload == disk = 0 /\ existed = 0 /\ up = 0 /\ down = 0
NoOwner ==
  /\ known = 0 /\ ignored = 0 /\ order = 0 /\ ownerclients = 0 /\ lq = 0
  /\ owned = 0 /\ holder = 0 /\ leaving = 0 /\ stray = 0 /\ announces = 0
NoPort ==
  /\ listener = 0 /\ end = 0 /\ chan = 0 /\ app = 0 /\ dropped = 0 /\ pauses = 0 /\ crashed = 0
NoForwarder == fwd = 0 /\ copier = 0 /\ ctrl = 0 /\ pair = 0 /\ srv = 0 /\ tty = 0
NoConnect ==
  connector = 0 /\ reader = 0 /\ instance = 0 /\ command = 0 /\ loc = 0 /\ rem = 0

TasksInit ==
  /\ Init
  /\ \/ /\ system = "download" /\ Download!Init
        /\ NoUpload /\ NoOwner /\ NoPort /\ NoForwarder /\ NoConnect
     \/ /\ system = "upload" /\ Upload!Init /\ queue = 0
        /\ NoFlow /\ NoOwner /\ NoPort /\ NoForwarder /\ NoConnect
     \/ /\ system = "children" /\ task = 0 /\ queue = 0 /\ client = 0
        /\ NoFlow /\ NoUpload /\ NoOwner /\ NoPort /\ NoForwarder /\ NoConnect
     \/ /\ system = "owners" /\ Owning!Init /\ task = 0 /\ queue = 0 /\ client = 0
        /\ NoFlow /\ NoUpload /\ NoPort /\ NoForwarder /\ NoConnect
     \/ /\ \/ system = "shared" /\ Shared!Init
           \/ system = "stream" /\ Stream!Init
        /\ task = 0 /\ queue = 0 /\ client = 0
        /\ NoFlow /\ NoUpload /\ NoOwner /\ NoForwarder /\ NoConnect
     \/ /\ system = "forward" /\ Forward!Init /\ task = 0 /\ client = 0
        /\ NoFlow /\ NoUpload /\ NoOwner /\ NoPort /\ NoConnect
     \/ /\ system = "connector" /\ Connector!Init /\ task = 0 /\ queue = 0 /\ client = 0
        /\ NoFlow /\ NoUpload /\ NoOwner /\ NoPort /\ NoForwarder

DownloadStep ==
  /\ system = "download" /\ Download!Next
  /\ UNCHANGED <<system, vars, uploadOnly, ownerOnly, portOnly, forwarderOnly, connectOnly>>
UploadStep ==
  /\ system = "upload" /\ Upload!Next
  /\ UNCHANGED <<system, queue, vars, flowOnly, ownerOnly, portOnly, forwarderOnly, connectOnly>>
ChildrenStep ==
  /\ system = "children" /\ Next
  /\ UNCHANGED <<system, task, queue, client, flowOnly, uploadOnly, ownerOnly, portOnly,
                 forwarderOnly, connectOnly>>
OwnersStep ==
  /\ system = "owners" /\ Owning!Next
  /\ UNCHANGED <<system, task, queue, client, vars, flowOnly, uploadOnly,
                 portOnly, forwarderOnly, connectOnly>>
PortStep ==
  /\ \/ system = "shared" /\ Shared!Next
     \/ system = "stream" /\ Stream!Next
  /\ UNCHANGED <<system, task, queue, client, vars, flowOnly, uploadOnly, ownerOnly,
                 forwarderOnly, connectOnly>>
ForwardStep ==
  /\ system = "forward" /\ Forward!Next
  /\ UNCHANGED <<system, task, client, vars, flowOnly, uploadOnly, ownerOnly, portOnly, connectOnly>>
ConnectorStep ==
  /\ system = "connector" /\ Connector!Next
  /\ UNCHANGED <<system, task, queue, client, vars, flowOnly, uploadOnly, ownerOnly,
                 portOnly, forwarderOnly>>

TasksNext ==
  \/ DownloadStep \/ UploadStep \/ ChildrenStep \/ OwnersStep
  \/ PortStep \/ ForwardStep \/ ConnectorStep

(* The fairness of each system's specification. *)
downloadVars == Download!vars
uploadVars == Upload!vars
portVars == Shared!vars
forwardVars == Forward!vars
connectorVars == Connector!vars
Fairness ==
  /\ WF_downloadVars(system = "download" /\ Download!TaskStep)
  /\ WF_downloadVars(system = "download" /\ Download!HandleIdle)
  /\ WF_downloadVars(system = "download" /\ Download!TakeBack)
  /\ WF_downloadVars(system = "download" /\ Download!RelayStep)
  /\ WF_downloadVars(system = "download" /\ Download!HandleOutput)
  /\ \A h \in {"A", "B"} : WF_downloadVars(system = "download" /\ Download!WriterStep(h))
  /\ WF_uploadVars(system = "upload" /\ Upload!TaskStep)
  /\ WF_uploadVars(system = "upload" /\ Upload!HandleIdle)
  /\ WF_uploadVars(system = "upload" /\ Upload!ClientStep)
  /\ WF_vars(system = "children" /\ ReaperStep)
  /\ \A o \in Owners :
       /\ WF_vars(system = "children" /\ RegisterProcess(o))
       /\ WF_vars(system = "children" /\ HandleProcessExited(o))
  /\ \A e \in {"server", "client"} :
       /\ WF_portVars(system = "shared" /\ Shared!EndStep(e))
       /\ WF_portVars(system = "stream" /\ Stream!EndStep(e))
  /\ WF_forwardVars(system = "forward" /\ Forward!SrvStep)
  /\ WF_forwardVars(system = "forward" /\ Forward!FwdStep)
  /\ WF_forwardVars(system = "forward" /\ Forward!InStep)
  /\ WF_forwardVars(system = "forward" /\ Forward!OutStep)
  /\ WF_connectorVars(system = "connector" /\ Connector!KStep)
  /\ WF_connectorVars(system = "connector" /\ Connector!Reader)
  /\ WF_connectorVars(system = "connector" /\ Connector!InstanceStep)
  /\ WF_connectorVars(system = "connector" /\ Connector!RemoteStep)

TasksSpec == TasksInit /\ [][TasksNext]_allVars /\ Fairness
-----------------------------------------------------------------------------
(* FlowControl and Upload: every chunk reaches the other side once and in  *)
(* order; a hop that throttles a download owes it a resume; a file that    *)
(* exists is not touched unasked, no part of a file is left behind, and a  *)
(* client that says "finished" is right; neither side stops for good but   *)
(* for the user or the connection (taskbase.cpp:91, uploadtask.cpp:119).   *)
TransfersSafe ==
  /\ system = "download" =>
       Download!TypeOK /\ Download!NothingLost /\ Download!ResumeOwed /\ Download!NoStall
  /\ system = "upload" =>
       /\ Upload!TypeOK /\ Upload!OriginalSafe /\ Upload!NoPartLeft /\ Upload!FinishedIsWhole
       /\ Upload!WithinWindow /\ Upload!NoStall

(* PortForward: what a program sends through a forwarded port is what the  *)
(* other one gets, as far as it is given at all; bytes in flight are the   *)
(* window's account, no more than it holds; a connection that is not       *)
(* stopped is read, and only lost bytes can stop both ends for good        *)
(* (portfwdtask.cpp:80, portfwdtask.cpp:136).                              *)
PortSafe ==
  /\ system = "shared" =>
       Shared!TypeOK /\ Shared!StreamsIntact /\ Shared!Accounted /\ Shared!ReadsResume /\ Shared!NoStall
  /\ system = "stream" =>
       Stream!TypeOK /\ Stream!StreamsIntact /\ Stream!Accounted /\ Stream!ReadsResume /\ Stream!NoStall

(* A download and an upload end on both sides; forwarded bytes arrive; the *)
(* forwarder and the connector end with what they depend on, and leave     *)
(* nothing behind.                                                         *)
TasksEnd ==
  <>[](/\ system = "download" => task.pc = "gone" /\ Download!Ended(client.state)
       /\ system = "upload" => task.pc = "gone" /\ Upload!Ended(client.state)
       /\ system = "shared" => Shared!Settled
       /\ system = "stream" => Stream!Settled
       /\ system = "forward" => Forward!Ended
       /\ system = "connector" => Connector!Settled)
================================================================================
