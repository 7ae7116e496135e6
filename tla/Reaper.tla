-------------------------------- MODULE Reaper --------------------------------
(***************************************************************************)
(* Child processes and who hears of their end.  A terminal                 *)
(* (src/mux/base/term.cpp) and a command task (runtask.cpp) fork a child   *)
(* and register its pid with the reaper's thread (zombies.cpp), which      *)
(* waits for any child and tells the owner.  A child may exit before it is *)
(* registered, and an owner may leave before its child exits.  A terminal  *)
(* starts again or stops when its child has exited and its descriptor is   *)
(* at its end, in whatever order; a command then finishes.                 *)
(* A pid is not reused here while somebody still remembers it.             *)
(***************************************************************************)
EXTENDS Integers, Sequences, FiniteSets, Functions

CONSTANTS Terms,      \* terminals
          Commands,   \* command tasks
          MaxPid,     \* bound on the processes started
          MaxOrphans  \* MAX_ORPHANS

Owners == Terms \cup Commands
Nobody == "nobody"
Pids == 1 .. MaxPid

ASSUME ReaperAssumption ==
  MaxPid \in Nat /\ MaxOrphans \in Nat /\ Nobody \notin Owners

VARIABLES
  owner,       \* each owner's thread: where it is, m_pid and its two flags; history:
               \* thrown, and late: it left after the reaper had looked it up to tell it
  work,        \* the exits in each owner's queue
  proc,        \* what the system knows of each process
  registered,  \* m_registered: pid to owner, or to nobody
  orphans,     \* m_orphans
  reaper,      \* the reaper's thread
  lastPid

vars == <<owner, work, proc, registered, orphans, reaper, lastPid>>

At(o, pc) == owner[o].pc = pc
-----------------------------------------------------------------------------
(* launch and begin: the fork. *)
Fork(o) ==
  /\ At(o, "launching") /\ lastPid < MaxPid
  /\ lastPid' = lastPid + 1
  /\ proc' = [proc EXCEPT ![lastPid'] = "running"]
  /\ owner' = [owner EXCEPT ![o].pc = "registering", ![o].pid = lastPid',
                            ![o].closed = FALSE, ![o].outcome = FALSE]
  /\ UNCHANGED <<work, registered, orphans, reaper>>

(* A terminal goes on without a process, a command ends. *)
ForkFails(o) ==
  /\ At(o, "launching")
  /\ owner' = [owner EXCEPT ![o].pc = IF o \in Terms THEN "loop" ELSE "leaving", ![o].pid = 0]
  /\ UNCHANGED <<work, proc, registered, orphans, reaper, lastPid>>

(* pthread_cond_signal *)
Woken == IF reaper.pc = "asleep" THEN [reaper EXCEPT !.pc = "awake"] ELSE reaper

(* emplace: an entry that is there stays. *)
Emplaced(pid, o) ==
  [p \in DOMAIN registered \cup {pid} |-> IF p \in DOMAIN registered THEN registered[p] ELSE o]

(* Mutant: the reaper is not woken. *)
RegisterProcessQuietly(o) ==
  LET pid == owner[o].pid
  IN /\ At(o, "registering")
     /\ IF pid \in orphans
        THEN orphans' = orphans \ {pid} /\ work' = [work EXCEPT ![o] = Append(@, pid)]
                /\ UNCHANGED registered
        ELSE registered' = Emplaced(pid, o) /\ UNCHANGED <<orphans, work>>
     /\ owner' = [owner EXCEPT ![o].pc = "loop"]
     /\ UNCHANGED <<proc, reaper, lastPid>>

RegisterProcess(o) ==
  LET pid == owner[o].pid
  IN /\ At(o, "registering")
     /\ IF pid \in orphans
        THEN orphans' = orphans \ {pid} /\ work' = [work EXCEPT ![o] = Append(@, pid)]
                /\ UNCHANGED <<registered, reaper>>
        ELSE registered' = Emplaced(pid, o) /\ reaper' = Woken
                /\ UNCHANGED <<orphans, work>>
     /\ owner' = [owner EXCEPT ![o].pc = "loop"]
     /\ UNCHANGED <<proc, lastPid>>
-----------------------------------------------------------------------------
(* What follows when the child has exited and the descriptor is closed: a  *)
(* command reports and ends, a terminal starts again (ExitActionRestart,   *)
(* ExitActionClear) or stays (ExitActionStop).                             *)
Halted(o, state) ==
  IF o \in Commands THEN {[state EXCEPT !.pc = "leaving"]}
  ELSE {state, [state EXCEPT !.pc = "launching"]}

(* handleFd: the descriptor is at its end. *)
HandleEof(o) ==
  /\ At(o, "loop") /\ ~owner[o].closed /\ (owner[o].pid # 0 \/ owner[o].outcome)
  /\ LET state == [owner[o] EXCEPT !.closed = TRUE]
     IN \E next \in IF state.outcome THEN Halted(o, state) ELSE {state} :
          owner' = [owner EXCEPT ![o] = next]
  /\ UNCHANGED <<work, proc, registered, orphans, reaper, lastPid>>

(* handleProcessExited; a command keeps its pid. *)
HandleProcessExited(o) ==
  /\ At(o, "loop") /\ work[o] # <<>>
  /\ work' = [work EXCEPT ![o] = Tail(@)]
  /\ LET state == [owner[o] EXCEPT !.outcome = TRUE, !.pid = IF o \in Terms THEN 0 ELSE @]
     IN \E next \in IF state.closed THEN Halted(o, state) ELSE {state} :
          owner' = [owner EXCEPT ![o] = next]
  /\ UNCHANGED <<proc, registered, orphans, reaper, lastPid>>

(* abandonProcess *)
Abandoned(pid) ==
  IF pid \in DOMAIN registered THEN [registered EXCEPT ![pid] = Nobody] ELSE registered

\* The reaper has let go of its lock and is about to call sendWork on the owner.
Telling(o) == reaper.pc = "telling" /\ reaper.owner = o

(* TermClose and the end of threadMain; TaskClose and handleCancel, which  *)
(* kills the child.                                                        *)
Close(o) ==
  /\ At(o, "loop")
  /\ registered' = IF owner[o].pid = 0 THEN registered ELSE Abandoned(owner[o].pid)
  /\ owner' = [owner EXCEPT ![o].pc = "leaving", ![o].late = Telling(o)]
  /\ UNCHANGED <<work, proc, orphans, reaper, lastPid>>

(* throttledOutput throws when the client is gone: the command leaves at   *)
(* once (runtask.cpp:324).                                                 *)
Throw(o) ==
  /\ o \in Commands /\ At(o, "loop") /\ ~owner[o].closed
  /\ owner' = [owner EXCEPT ![o].pc = "leaving", ![o].thrown = TRUE, ![o].late = Telling(o)]
  /\ UNCHANGED <<work, proc, registered, orphans, reaper, lastPid>>

(* The listener joins the thread and deletes it. *)
Remove(o) ==
  /\ At(o, "leaving")
  /\ owner' = [owner EXCEPT ![o].pc = "deleted"]
  /\ UNCHANGED <<work, proc, registered, orphans, reaper, lastPid>>
-----------------------------------------------------------------------------
Exit(pid) ==
  /\ proc[pid] = "running"
  /\ proc' = [proc EXCEPT ![pid] = "zombie"]
  /\ UNCHANGED <<owner, work, registered, orphans, reaper, lastPid>>

(* lockLoop *)
Look ==
  /\ reaper.pc = "looking"
  /\ reaper' = [reaper EXCEPT !.pc = IF registered = <<>> THEN "asleep" ELSE "waiting"]
  /\ UNCHANGED <<owner, work, proc, registered, orphans, lastPid>>

Wake ==
  /\ reaper.pc = "awake"
  /\ reaper' = [reaper EXCEPT !.pc = IF registered = <<>> THEN "looking" ELSE "waiting"]
  /\ UNCHANGED <<owner, work, proc, registered, orphans, lastPid>>

(* wait(2) *)
WaitForAny(pid) ==
  /\ reaper.pc = "waiting" /\ proc[pid] = "zombie"
  /\ proc' = [proc EXCEPT ![pid] = "reaped"]
  /\ reaper' = [pc |-> "found", pid |-> pid, owner |-> Nobody]
  /\ UNCHANGED <<owner, work, registered, orphans, lastPid>>

(* Mutant: whoever is not registered is forgotten. *)
FindForgetful ==
  /\ reaper.pc = "found"
  /\ LET pid == reaper.pid
         known == pid \in DOMAIN registered
     IN /\ registered' = Restrict(registered, DOMAIN registered \ {pid})
        /\ reaper' = IF known /\ registered[pid] # Nobody
                     THEN [reaper EXCEPT !.pc = "telling", !.owner = registered[pid]]
                     ELSE [pc |-> "looking", pid |-> 0, owner |-> Nobody]
  /\ UNCHANGED <<owner, work, proc, orphans, lastPid>>

Find ==
  /\ reaper.pc = "found"
  /\ LET pid == reaper.pid
         known == pid \in DOMAIN registered
     IN /\ registered' = Restrict(registered, DOMAIN registered \ {pid})
        /\ orphans' = IF ~known /\ Cardinality(orphans) < MaxOrphans THEN orphans \cup {pid} ELSE orphans
        /\ reaper' = IF known /\ registered[pid] # Nobody
                     THEN [reaper EXCEPT !.pc = "telling", !.owner = registered[pid]]
                     ELSE [pc |-> "looking", pid |-> 0, owner |-> Nobody]
  /\ UNCHANGED <<owner, work, proc, lastPid>>

(* sendWork, without the lock: the owner may have left meanwhile, and may  *)
(* be deleted, which is `late`.  What such a call does is not followed.    *)
Tell ==
  /\ reaper.pc = "telling"
  /\ work' = IF At(reaper.owner, "deleted") THEN work
             ELSE [work EXCEPT ![reaper.owner] = Append(@, reaper.pid)]
  /\ reaper' = [pc |-> "looking", pid |-> 0, owner |-> Nobody]
  /\ UNCHANGED <<owner, proc, registered, orphans, lastPid>>
-----------------------------------------------------------------------------
Init ==
  /\ owner = [o \in Owners |-> [pc |-> "launching", pid |-> 0, closed |-> FALSE,
                                outcome |-> FALSE, thrown |-> FALSE, late |-> FALSE]]
  /\ work = [o \in Owners |-> <<>>]
  /\ proc = [pid \in Pids |-> "none"]
  /\ registered = <<>> /\ orphans = {}
  /\ reaper = [pc |-> "looking", pid |-> 0, owner |-> Nobody]
  /\ lastPid = 0

ReaperStep == Look \/ Wake \/ (\E pid \in Pids : WaitForAny(pid)) \/ Find \/ Tell

Next ==
  \/ ReaperStep
  \/ \E pid \in Pids : Exit(pid)
  \/ \E o \in Owners :
       \/ Fork(o) \/ ForkFails(o) \/ RegisterProcess(o)
       \/ HandleEof(o) \/ HandleProcessExited(o)
       \/ Close(o) \/ Throw(o) \/ Remove(o)

(* The threads go on; whether processes exit and descriptors close is not  *)
(* assumed.                                                                *)
Spec ==
  /\ Init /\ [][Next]_vars
  /\ WF_vars(ReaperStep)
  /\ \A o \in Owners : WF_vars(RegisterProcess(o)) /\ WF_vars(HandleProcessExited(o))
-----------------------------------------------------------------------------
InHand(pid) == reaper.pc \in {"found", "telling"} /\ reaper.pid = pid

(* Pids and owners that are known exist. *)
TypeOK ==
  /\ DOMAIN registered \subseteq 1 .. lastPid /\ orphans \subseteq 1 .. lastPid
  /\ \A pid \in DOMAIN registered : registered[pid] \in Owners \cup {Nobody}
  /\ \A o \in Owners : owner[o].pid \in 0 .. lastPid /\ Len(work[o]) <= 1
  /\ \A pid \in DOMAIN registered : pid \notin orphans

(* The exit of a child its owner waits for is never lost: it is yet to     *)
(* come, in the reaper's hands, among the orphans until it is registered,  *)
(* or in the owner's queue.                                                *)
ExitNotLost ==
  \A o \in Owners :
    owner[o].pc \in {"registering", "loop"} /\ owner[o].pid # 0 /\ ~owner[o].outcome =>
      LET pid == owner[o].pid
      IN \/ proc[pid] \in {"running", "zombie"} /\ (At(o, "loop") => registered[pid] = o)
         \/ InHand(pid) \/ work[o] = <<pid>>
         \/ At(o, "registering") /\ pid \in orphans

(* A terminal starts a new child only when it has heard of the old one's   *)
(* end, so that what it hears is always of the child it has (setOutcome    *)
(* reports m_pid, term.cpp:633).                                           *)
RightChild ==
  \A o \in Owners : work[o] # <<>> /\ At(o, "loop") =>
    owner[o].pid = Head(work[o]) /\ ~owner[o].outcome

(* An exit waits among the orphans only for a thread that is between its   *)
(* fork and its registration, so their bound is never reached.             *)
OrphansWait == \A pid \in orphans : \E o \in Owners : At(o, "registering") /\ owner[o].pid = pid

(* What is registered is a child nobody has waited for, and whom it is     *)
(* registered for still waits for it.  Whom the reaper is about to tell    *)
(* waits for that very child, or has left since the reaper looked it up    *)
(* (zombies.cpp:136 to 139).  A command that lost its client leaves        *)
(* without abandoning its child (runtask.cpp:324).                         *)
Waits(o, pid) == At(o, "loop") /\ owner[o].pid = pid /\ ~owner[o].outcome
OwnersLive ==
  /\ \A pid \in DOMAIN registered :
       /\ proc[pid] \in {"running", "zombie"} \/ InHand(pid)
       /\ registered[pid] # Nobody => Waits(registered[pid], pid) \/ owner[registered[pid]].thrown
  /\ reaper.pc = "telling" =>
       Waits(reaper.owner, reaper.pid) \/ owner[reaper.owner].thrown \/ owner[reaper.owner].late

(* The five together (zombies.cpp:138). *)
ExitsTold == TypeOK /\ ExitNotLost /\ RightChild /\ OrphansWait /\ OwnersLive

(* When its child has exited, an owner that stays hears of it.  As the     *)
(* processes are bounded, "each is heard of" is "in the end none is        *)
(* unheard of".                                                            *)
Awaits(o, pid) == At(o, "loop") /\ owner[o].pid = pid /\ proc[pid] \in {"zombie", "reaped"}
Heard(o, pid) == owner[o].outcome \/ owner[o].pid # pid \/ ~At(o, "loop")
ExitNoticed == <>[](\A o \in Owners, pid \in Pids : Awaits(o, pid) => Heard(o, pid))
=============================================================================
