------------------------------ MODULE RateLimit ------------------------------
(***************************************************************************)
(* How a terminal's output reaches the eyes of a client (TermInstance).    *)
(* The thread reads the child's output and steps the emulator.  After a    *)
(* while of output without a pause the watches are no longer activated at  *)
(* every step but once in an interval (the RateLimited flag); a pause, or  *)
(* input that was typed, ends that.  A client can have the reading         *)
(* switched off (the SoftScrollLock flag).                                 *)
(*                                                                         *)
(* Comparisons of times go either way; what the emulator shows is told     *)
(* apart only by whether the client has seen it.                           *)
(***************************************************************************)
EXTENDS Naturals, Sequences, FiniteSets

CONSTANTS MaxWrites,   \* bound: writes of all children
          MaxCommands, \* bound: commands of clients
          MaxStarts    \* bound: children

VARIABLES
  rate,     \* m_rateStatus
  flags,    \* the emulator's m_flags, of RateLimited, SoftScrollLock, HardScrollLock
  fd,       \* the descriptor: whether it is open and read, what waits there, whether the child is there
  timeout,  \* m_timeout: "zero", "initial", "later", "never"
  queue,    \* the thread's work
  outcome,  \* m_haveOutcome
  watch,    \* active, and what has changed since the writer looked: flags and content
  client,   \* its flags, and whether it shows what the emulator does
  muted,    \* history: a reset took the rate limit away and nobody was told
  stuck,    \* history: and the flag stayed
  unlocked, \* history: a reset took the SoftScrollLock flag away and the reading stayed off
  writes, commands, starts

rateVars == <<rate, flags, fd, timeout, queue, outcome, watch, client, muted, stuck, unlocked,
              writes, commands, starts>>

Emulator == <<rate, flags, watch, client, muted, stuck, unlocked>>
-----------------------------------------------------------------------------
(* The emulator's changes: `sys` collects what one handler does to          *)
(* <<rate, flags, watch, client, muted>>; `told` is m_emulator's            *)
(* flagsChanged.                                                            *)
Now == [rate |-> rate, flags |-> flags, watch |-> watch, client |-> client, muted |-> muted,
        stuck |-> stuck, unlocked |-> unlocked, told |-> FALSE]

(* pushChanges: everything is left with the watch, which may go to the      *)
(* writer.                                                                  *)
PushChanges(sys, activate) ==
  [sys EXCEPT !.watch.flags = @ \/ sys.told, !.watch.content = @ \/ ~sys.client.seen,
              !.watch.active = @ \/ activate, !.muted = @ /\ ~activate, !.told = FALSE]

SetFlag(sys, flag, enabled) ==
  [sys EXCEPT !.flags = IF enabled THEN @ \cup {flag} ELSE @ \ {flag},
              !.stuck = @ /\ flag # "RateLimited",
              !.told = (flag \in sys.flags) # enabled]

(* termEvent and the step of the rate limit before it.  `changes`: the      *)
(* emulator shows something new.                                            *)
TermEvent(sys, due, changes) ==
  LET limited ==
        CASE sys.rate = 2 -> sys
          [] sys.rate = 1 /\ due -> SetFlag([sys EXCEPT !.rate = 2], "RateLimited", TRUE)
          [] OTHER -> [sys EXCEPT !.rate = 1]
      after == [limited EXCEPT !.client.seen = @ /\ ~changes]
  IN IF changes \/ limited.told THEN PushChanges(after, sys.rate = 2 => due) ELSE after

(* termReset, with or without ResetEmulator. *)
TermReset(sys, whole, changes) ==
  LET after == [sys EXCEPT !.rate = 0, !.flags = IF whole THEN {} ELSE @,
                           !.client.seen = @ /\ ~changes,
                           !.told = whole /\ sys.flags # {},
                           !.muted = @ \/ sys.rate = 2,
                           !.stuck = ~whole /\ (@ \/ sys.rate = 2),
                           !.unlocked = @ \/ (whole /\ "SoftScrollLock" \in sys.flags)]
  IN IF changes \/ after.told THEN PushChanges(after, TRUE) ELSE after

\* Mutant: nobody is told.
ResetQuietly(sys) == [SetFlag(sys, "RateLimited", FALSE) EXCEPT !.rate = 0]

(* resetRatelimit *)
ResetRatelimit(sys) ==
  IF sys.rate = 2
  THEN [PushChanges(SetFlag(sys, "RateLimited", FALSE), TRUE) EXCEPT !.rate = 0]
  ELSE [sys EXCEPT !.rate = 0]

Becomes(sys) ==
  /\ rate' = sys.rate /\ flags' = sys.flags /\ watch' = sys.watch
  /\ client' = sys.client /\ muted' = sys.muted /\ stuck' = sys.stuck /\ unlocked' = sys.unlocked
-----------------------------------------------------------------------------
(* The child, the clients, and the reaper. *)
Write ==
  /\ fd.alive /\ writes < MaxWrites
  /\ writes' = writes + 1 /\ fd' = [fd EXCEPT !.out = @ + 1]
  /\ UNCHANGED <<Emulator, timeout, queue, outcome, commands, starts>>

Exit ==
  /\ fd.alive
  /\ fd' = [fd EXCEPT !.alive = FALSE] /\ queue' = Append(queue, "ProcessExited")
  /\ UNCHANGED <<Emulator, timeout, outcome, writes, commands, starts>>

Command(op) ==
  /\ commands < MaxCommands
  /\ commands' = commands + 1 /\ queue' = Append(queue, op)
  /\ UNCHANGED <<Emulator, fd, timeout, outcome, writes, starts>>
-----------------------------------------------------------------------------
(* The thread. *)
\* The descriptor reports data when it is read, and the end always.
Readable == fd.open /\ ((fd.read /\ fd.out > 0) \/ ~fd.alive)

(* launch: a message in the terminal, then the child; or the fork fails,    *)
(* and its message.                                                         *)
Launch(sys) ==
  \E due, forked \in BOOLEAN :
    /\ Becomes(TermEvent(sys, due, TRUE))
    /\ starts' = starts + 1
    /\ timeout' = "zero"
    /\ fd' = IF forked THEN [fd EXCEPT !.open = TRUE, !.out = 0, !.alive = TRUE]
             ELSE [fd EXCEPT !.open = FALSE]
    /\ outcome' = (outcome /\ ~forked)

(* halt: the last messages, or the next child after a reset. *)
Halt(sys, restart) ==
  IF restart
  THEN starts < MaxStarts /\ Launch(TermReset(sys, TRUE, TRUE))
  ELSE /\ \E due \in BOOLEAN : Becomes(TermEvent(sys, due, TRUE))
       /\ UNCHANGED <<starts>>

(* handleFd: some of what there is, or the end. *)
Read(due, changes) ==
  /\ Readable /\ fd.out > 0
  /\ timeout' = "zero"
  /\ \E n \in 1..fd.out : fd' = [fd EXCEPT !.out = @ - n]
  /\ Becomes(TermEvent(Now, due, changes))
  /\ UNCHANGED <<queue, outcome, writes, commands, starts>>

ReadEnd(restart) ==
  /\ Readable /\ fd.out = 0
  /\ IF outcome
     THEN /\ Halt(Now, restart)
          /\ restart \/ (fd' = [fd EXCEPT !.open = FALSE] /\ timeout' = "zero" /\ outcome' = outcome)
     ELSE /\ ~restart /\ Becomes(Now)
          /\ fd' = [fd EXCEPT !.open = FALSE] /\ timeout' = "zero"
          /\ UNCHANGED <<outcome, starts>>
  /\ UNCHANGED <<queue, writes, commands>>

(* handleWork *)
HandleProcessExited(restart) ==
  /\ queue # <<>> /\ Head(queue) = "ProcessExited"
  /\ queue' = Tail(queue)
  /\ IF ~fd.open
     THEN /\ Halt(Now, restart)
          /\ restart \/ (timeout' = "zero" /\ outcome' = TRUE /\ fd' = fd)
     ELSE /\ ~restart /\ Becomes(Now)
          /\ timeout' = "zero" /\ outcome' = TRUE
          /\ UNCHANGED <<fd, starts>>
  /\ UNCHANGED <<writes, commands>>

Handle(op) ==
  /\ queue # <<>> /\ Head(queue) = op
  /\ queue' = Tail(queue) /\ timeout' = "zero"
  /\ UNCHANGED <<outcome, writes, commands, starts>>

HandleInputSent == Handle("InputSent") /\ Becomes(ResetRatelimit(Now)) /\ UNCHANGED fd

HandleReset(whole, changes) ==
  /\ Handle(IF whole THEN "ResetEmulator" ELSE "Reset")
  /\ Becomes(TermReset(Now, whole, changes)) /\ UNCHANGED fd

(* handleScrollLock: what is switched is the descriptor, the flag follows. *)
HandleSoftScrollLock ==
  /\ Handle("SoftScrollLock")
  /\ fd' = [fd EXCEPT !.read = ~@]
  /\ Becomes([PushChanges(SetFlag(Now, "SoftScrollLock", fd.read), TRUE) EXCEPT !.unlocked = FALSE])

HandleHardScrollLock(enabled) ==
  /\ Handle("HardScrollLock")
  /\ LET sys == SetFlag(Now, "HardScrollLock", enabled)
     IN Becomes(IF sys.told THEN PushChanges(sys, TRUE) ELSE sys)
  /\ UNCHANGED fd

(* handleIdle *)
Idle ==
  /\ ~Readable /\ queue = <<>> /\ timeout # "never"
  /\ timeout' = CASE timeout = "zero" -> "initial" [] timeout = "initial" -> "later"
                  [] OTHER -> "never"
  /\ Becomes(IF timeout = "initial" THEN ResetRatelimit(Now) ELSE Now)
  /\ UNCHANGED <<fd, queue, outcome, writes, commands, starts>>

(* The writer: the watch is taken off the list and what has changed is sent *)
(* as it is now.                                                            *)
WriterStep ==
  /\ watch.active
  /\ watch' = [active |-> FALSE, flags |-> FALSE, content |-> FALSE]
  /\ client' = [flags |-> IF watch.flags THEN flags ELSE client.flags,
                seen |-> client.seen \/ watch.content]
  /\ UNCHANGED <<rate, flags, fd, timeout, queue, outcome, muted, stuck, unlocked,
                 writes, commands, starts>>
-----------------------------------------------------------------------------
Commands == {"InputSent", "ResetEmulator", "Reset", "SoftScrollLock", "HardScrollLock"}

Init ==
  /\ rate = 1 /\ flags = {}
  /\ fd = [open |-> TRUE, read |-> TRUE, out |-> 0, alive |-> TRUE]
  /\ timeout = "zero" /\ queue = <<>> /\ outcome = FALSE
  /\ watch = [active |-> TRUE, flags |-> TRUE, content |-> TRUE]
  /\ client = [flags |-> {}, seen |-> FALSE]
  /\ muted = FALSE /\ stuck = FALSE /\ unlocked = FALSE
  /\ writes = 0 /\ commands = 0 /\ starts = 1

ThreadStep ==
  \/ \E due, changes \in BOOLEAN : Read(due, changes)
  \/ \E restart \in BOOLEAN : ReadEnd(restart) \/ HandleProcessExited(restart)
  \/ HandleInputSent
  \/ \E whole, changes \in BOOLEAN : HandleReset(whole, changes)
  \/ HandleSoftScrollLock
  \/ \E enabled \in BOOLEAN : HandleHardScrollLock(enabled)
  \/ Idle

Next ==
  \/ Write \/ Exit \/ (\E op \in Commands : Command(op))
  \/ ThreadStep \/ WriterStep

Spec ==
  /\ Init /\ [][Next]_rateVars
  /\ WF_rateVars(ThreadStep) /\ WF_rateVars(WriterStep)
-----------------------------------------------------------------------------
(* Updates held back are only late: whatever stops the output, the client   *)
(* comes to see the last of it and the flags as they are; RateLimited is    *)
(* gone, and SoftScrollLock says whether output is read (term.cpp:375, 512, *)
(* 547, 561).                                                               *)
Shown ==
  /\ muted \/ (client.seen /\ client.flags = flags)
  /\ rate # 2 /\ (stuck \/ "RateLimited" \notin flags)
  /\ unlocked \/ (("SoftScrollLock" \in flags) <=> ~fd.read)
OutputShown == []<>Shown
=============================================================================
