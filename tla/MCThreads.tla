------------------------------- MODULE MCThreads -------------------------------
(***************************************************************************)
(* The queue every thread of the server takes its work from (WorkQueue:    *)
(* two senders, both forms of the loop) and threads that live by it: the   *)
(* file monitor with all that follows up to the client (FileMonitor), the  *)
(* attribute monitor (AttrMonitor), the scoper with its terminals          *)
(* (Scoper), a terminal's own thread (RateLimit), and one connection's     *)
(* sessions (ProxyRegistry).  A behaviour is about one of them; the        *)
(* others' variables stay 0.                                               *)
(***************************************************************************)
EXTENDS WorkQueue, MCScopes, MCSessions, TLC

CONSTANTS s1, s2

VARIABLES
  watch,                                                \* of several of them
  disk, cwd, work, mon, proxy, tracker, strayed, hops, ops,          \* FileMonitor
  installed, state, map, accum, proc, attrs,
  reloads, said, held, torn, signals, lines,            \* AttrMonitor
  rate, flags, fd, timeout, outcome, client,
  muted, stuck, unlocked, writes, commands, starts      \* RateLimit

filesOnly == <<disk, cwd, work, mon, proxy, tracker, strayed, hops, ops>>
attrsOnly == <<installed, state, map, accum, proc, attrs, reloads, said, held, torn, signals, lines>>
scopesOnly == <<term, scope, terms, units, bus, made, last, late>>
outputOnly == <<rate, flags, fd, timeout, outcome, client, muted, stuck, unlocked,
                writes, commands, starts>>
sessionOnly == <<conn, registered, mapped, lq, closing, released, nTerms, remote, sent,
                 sessions, lost, down>>

NoFiles ==
  /\ disk = 0 /\ cwd = 0 /\ work = 0 /\ mon = 0 /\ proxy = 0 /\ tracker = 0
  /\ strayed = 0 /\ hops = 0 /\ ops = 0
NoAttrs ==
  /\ installed = 0 /\ state = 0 /\ map = 0 /\ accum = 0 /\ proc = 0 /\ attrs = 0
  /\ reloads = 0 /\ said = 0 /\ held = 0 /\ torn = 0 /\ signals = 0 /\ lines = 0
NoScopes ==
  /\ term = 0 /\ scope = 0 /\ terms = 0 /\ units = 0 /\ bus = 0 /\ made = 0 /\ last = 0 /\ late = 0
NoOutput ==
  /\ rate = 0 /\ flags = 0 /\ fd = 0 /\ timeout = 0 /\ outcome = 0 /\ client = 0 /\ muted = 0
  /\ stuck = 0 /\ unlocked = 0 /\ writes = 0 /\ commands = 0 /\ starts = 0
NoSession ==
  /\ conn = 0 /\ registered = 0 /\ mapped = 0 /\ lq = 0 /\ closing = 0 /\ released = 0
  /\ nTerms = 0 /\ remote = 0 /\ sent = 0 /\ sessions = 0 /\ lost = 0 /\ down = 0

MCSenders == {s1, s2}

Files == INSTANCE FileMonitor WITH
  Paths <- {"home", "away"}, Names <- {"a", "b"}, NoPath <- "none", FileLimits <- {1, 2},
  Batch <- 2, MaxEvents <- 2, FileOps <- <<2, 1>>
\* The monitor with --initial, and a script, or neither.
Attrs == INSTANCE AttrMonitor WITH
  Keys <- {"k", "j"}, Fallback <- {"j"}, Sources <- {{}, {1, 3}}, MaxReloads <- 2, MaxLines <- 2
Output == INSTANCE RateLimit WITH queue <- inbox, MaxWrites <- 1, MaxCommands <- 2, MaxStarts <- 2
\* One connection that announces two servers, and a terminal of each, once in
\* each of two sessions, and one of the terminals twice.
HostOfTwo == "t" :> "s" @@ "T" :> "S"
OneTwice == "s" :> 1 @@ "S" :> 1 @@ "t" :> 2 @@ "T" :> 1

\* The listing starts in the one directory with files, and with the larger limit.
FilesStart ==
  /\ Files!Init
  /\ cwd = "home" /\ disk["away"].file["a"] = 0 /\ disk["away"].file["b"] = 0
  /\ disk["home"].file["a"] = 1 /\ mon.limit = 2

ThreadsInit ==
  /\ system \in {"queue", "files", "attrs", "scopes", "output", "session"}
  /\ Init /\ (system # "queue" => ~workFirst)
  /\ \/ /\ system = "queue"
        /\ watch = 0 /\ inbox = 0 /\ NoFiles /\ NoAttrs /\ NoScopes /\ NoOutput /\ NoSession
     \/ /\ system = "files" /\ FilesStart
        /\ inbox = 0 /\ NoAttrs /\ NoScopes /\ NoOutput /\ NoSession
     \/ /\ system = "attrs" /\ Attrs!Init
        /\ watch = 0 /\ inbox = 0 /\ NoFiles /\ NoScopes /\ NoOutput /\ NoSession
     \/ /\ system = "scopes" /\ Scopes!Init
        /\ watch = 0 /\ NoFiles /\ NoAttrs /\ NoOutput /\ NoSession
     \/ /\ system = "output" /\ Output!Init /\ NoFiles /\ NoAttrs /\ NoScopes /\ NoSession
     \/ /\ system = "session" /\ Session!Init
        /\ watch = 0 /\ inbox = 0 /\ NoFiles /\ NoAttrs /\ NoScopes /\ NoOutput

QueueStep ==
  /\ system = "queue" /\ Next
  /\ UNCHANGED <<watch, inbox, filesOnly, attrsOnly, scopesOnly, outputOnly, sessionOnly>>
FilesStep ==
  /\ system = "files" /\ Files!Next
  /\ UNCHANGED <<vars, inbox, attrsOnly, scopesOnly, outputOnly, sessionOnly>>
AttrsStep ==
  /\ system = "attrs" /\ Attrs!Next
  /\ UNCHANGED <<vars, watch, inbox, filesOnly, scopesOnly, outputOnly, sessionOnly>>
ScopesStep ==
  /\ system = "scopes" /\ Scopes!Next
  /\ UNCHANGED <<vars, watch, filesOnly, attrsOnly, outputOnly, sessionOnly>>
OutputStep ==
  /\ system = "output" /\ Output!Next
  /\ UNCHANGED <<vars, filesOnly, attrsOnly, scopesOnly, sessionOnly>>
SessionStep ==
  /\ system = "session" /\ Session!Next
  /\ UNCHANGED <<vars, watch, inbox, filesOnly, attrsOnly, scopesOnly, outputOnly>>

ThreadsNext ==
  /\ UNCHANGED system
  /\ QueueStep \/ FilesStep \/ AttrsStep \/ ScopesStep \/ OutputStep \/ SessionStep

outputVars == Output!rateVars
sessionVars == Session!vars
ThreadsSpec ==
  /\ ThreadsInit
  /\ [][ThreadsNext]_<<system, vars, watch, inbox, filesOnly, attrsOnly, scopesOnly, outputOnly,
                       sessionOnly>>
  /\ WF_vars(system = "queue" /\ ThreadStep)
  /\ \A s \in Senders : WF_vars(system = "queue" /\ SetEvent(s))
  /\ WF_outputVars(system = "output" /\ Output!ThreadStep)
  /\ WF_outputVars(system = "output" /\ Output!WriterStep)
  /\ WF_sessionVars(system = "session" /\ Session!ListenerStep)
  /\ WF_sessionVars(system = "session" /\ Session!HandleReleased(Peer))
  /\ \A i \in {"s", "S", "t", "T"} :
       WF_sessionVars(system = "session" /\ Session!Release(Peer, i))
-----------------------------------------------------------------------------
(* FileMonitor: when nothing is on its way the client shows the terminal's  *)
(* directory, no copy mixes two directories, and the monitor counts its     *)
(* files right (filemon.cpp:538, termwatch.cpp:82, filetracker.cpp:219).    *)
ListingTrue == system = "files" => Files!ListingSound

(* AttrMonitor: a reload is all or nothing, and an attribute is what the    *)
(* running monitor said last, else what the reload's sources said           *)
(* (monitor.cpp:99, 154).                                                   *)
AttrsTrue == system = "attrs" => Attrs!Current

(* RateLimit: updates held back are only late, and the flags come to say    *)
(* what the terminal does (term.cpp:375, 512, 547).                         *)
Shown == system = "output" /\ Output!Shown
OutputShown == system = "output" ~> Shown

(* A connection that is taken down comes to its end (conn.cpp:346).         *)
Leaving == system = "session" /\ conn[Peer].leaving
Gone == system = "session" /\ ~conn[Peer].have
DisconnectCompletes == Leaving ~> Gone
=============================================================================
