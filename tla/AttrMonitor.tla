------------------------------ MODULE AttrMonitor ------------------------------
(***************************************************************************)
(* The server's own attributes (TermMonitor).  A monitor process prints    *)
(* them, one line for a value or a removal, while the server runs.  On     *)
(* SIGUSR1 the thread stops it and runs, one after the other, the monitor  *)
(* with --initial and the scripts that are installed, collects what they   *)
(* print in a map, and when the last one has ended sets the attributes and *)
(* starts the monitor again.                                               *)
(*                                                                         *)
(* A line comes in two pieces, so that a read may end inside of it.        *)
(***************************************************************************)
EXTENDS Naturals, Sequences, SequencesExt, TLC

CONSTANTS Keys,        \* attributes
          Fallback,    \* those that have a default (osFallbackAttributes)
          Sources,     \* sets of scripts that may be installed: subsets of 1..4, where
                       \* 1 is the monitor with --initial, 4 the user's own script
          MaxReloads,  \* bound: signals
          MaxLines     \* bound: lines printed by all processes

VARIABLES
  installed,  \* which of the sources there are
  state,      \* m_state: the source that runs, 0 for the monitor
  map,        \* m_map
  accum,      \* m_accum
  proc,       \* the process behind m_fd: what it has printed and nobody read
  attrs,      \* the listener's attributes
  reloads,    \* MonitorRestart items in the queue
  said,       \* history: per key, what this reload's processes have printed
  held,       \* history: the attributes when the reload began
  torn,       \* history: a line was lost, or put together from pieces of two processes
  signals, lines

monVars == <<installed, state, map, accum, proc, attrs, reloads, said, held, torn, signals, lines>>

\* Values: a printed one is the number of its line.
None == 0
Default == MaxLines + 1
Junk == MaxLines + 2
NoKey == "no key"
NoProc == [on |-> FALSE, over |-> "no", out |-> <<>>]
Started == [on |-> TRUE, over |-> "no", out |-> <<>>]
Nothing == [k \in {} |-> None]

Line(k, v) == <<[key |-> k, val |-> v, end |-> FALSE], [key |-> k, val |-> v, end |-> TRUE]>>
-----------------------------------------------------------------------------
(* The processes. *)
Printing == proc.on /\ proc.over = "no"

Print1(k, gone) ==
  /\ Printing /\ lines < MaxLines
  /\ gone => state = 0
  /\ lines' = lines + 1
  /\ LET v == IF gone THEN None ELSE lines' IN
     /\ proc' = [proc EXCEPT !.out = @ \o Line(k, v)]
     /\ said' = [said EXCEPT ![k] = Append(@, [source |-> state, val |-> v])]
  /\ UNCHANGED <<installed, state, map, accum, attrs, reloads, held, torn, signals>>

(* A line that never ends. *)
PrintEndless ==
  /\ Printing /\ lines < MaxLines
  /\ lines' = lines + 1
  /\ proc' = [proc EXCEPT !.out = Append(@, [key |-> NoKey, val |-> None, end |-> FALSE]),
                          !.over = "endless"]
  /\ UNCHANGED <<installed, state, map, accum, attrs, reloads, said, held, torn, signals>>

End ==
  /\ Printing
  /\ proc' = [proc EXCEPT !.over = "ended"]
  /\ UNCHANGED <<installed, state, map, accum, attrs, reloads, said, held, torn, signals, lines>>

(* SIGUSR1 *)
Signal ==
  /\ signals < MaxReloads
  /\ signals' = signals + 1 /\ reloads' = reloads + 1
  /\ UNCHANGED <<installed, state, map, accum, proc, attrs, said, held, torn, lines>>
-----------------------------------------------------------------------------
(* stateChange: the next source there is, or the end of the reload.  Then  *)
(* what the sources said is set, with defaults for what nobody said, and   *)
(* the monitor starts, if it can.                                          *)
SetAttributes(m) == m @@ [k \in Fallback |-> Default] @@ attrs

StateChange(from, m) ==
  LET rest == {s \in installed : s > from} IN
  IF rest # {}
  THEN /\ state' = CHOOSE s \in rest : \A r \in rest : s <= r
       /\ map' = m /\ proc' = Started /\ attrs' = attrs
  ELSE /\ state' = 0
       /\ map' = Nothing /\ attrs' = SetAttributes(m)
       /\ proc' \in {Started, NoProc}

Restart(m) ==
  /\ reloads > 0 /\ reloads' = reloads - 1
  /\ StateChange(0, m)
  /\ said' = [k \in Keys |-> <<>>]
  /\ held' = attrs
  /\ UNCHANGED <<installed, accum, torn, signals, lines>>

\* Mutant: the map is kept.
HandleRestartKeeping == Restart(map)

(* handleRestart.  What was read of a line stays in m_accum. *)
HandleRestart == Restart(Nothing)

(* addSpec and removeSpec. *)
Whole(pieces) == pieces = Line(pieces[1].key, pieces[1].val)
Spec1(sys, pieces) ==
  LET k == pieces[1].key
      v == IF Whole(pieces) THEN pieces[1].val ELSE Junk
      heard == [sys EXCEPT !.torn = @ \/ ~Whole(pieces)]
  IN CASE k \notin Keys -> heard
       [] k \in Keys /\ state # 0 -> [heard EXCEPT !.map = @ @@ (k :> v)]
       [] k \in Keys /\ state = 0 -> [heard EXCEPT !.attrs[k] = v]

(* The loop over the lines of m_accum. *)
TakePiece(sys, p) ==
  LET pieces == Append(sys.accum, p)
  IN IF p.end THEN [Spec1(sys, pieces) EXCEPT !.accum = <<>>] ELSE [sys EXCEPT !.accum = pieces]
Parse(pieces) == FoldLeft(TakePiece, [accum |-> accum, map |-> map, attrs |-> attrs, torn |-> torn], pieces)

(* handleFd *)
Read(n) ==
  /\ proc.on /\ n \in 1..Len(proc.out)
  /\ LET sys == Parse(SubSeq(proc.out, 1, n))
     IN accum' = sys.accum /\ map' = sys.map /\ attrs' = sys.attrs /\ torn' = sys.torn
  /\ proc' = [proc EXCEPT !.out = SubSeq(@, n + 1, Len(@))]
  /\ UNCHANGED <<installed, state, reloads, said, held, signals, lines>>

Finish(sys) ==
  /\ torn' = sys.torn
  /\ IF state # 0 THEN StateChange(state, sys.map)
     ELSE proc' = NoProc /\ attrs' = sys.attrs /\ UNCHANGED <<state, map>>
  /\ UNCHANGED <<installed, reloads, said, held, signals, lines>>

(* The end of the output ends the line too. *)
ReadEof ==
  /\ proc.on /\ proc.out = <<>> /\ proc.over = "ended"
  /\ accum' = <<>>
  /\ Finish(IF accum = <<>> THEN Parse(<<>>) ELSE Spec1(Parse(<<>>), accum))

(* A read that fails loses the rest; a line that is too long is dropped. *)
ReadFails ==
  /\ proc.on
  /\ accum' = accum
  /\ Finish([Parse(<<>>) EXCEPT !.torn = TRUE])
TooLong ==
  /\ proc.on /\ proc.out = <<>> /\ proc.over = "endless"
  /\ accum' = <<>>
  /\ Finish(Parse(<<>>))
-----------------------------------------------------------------------------
(* The attributes of the start are set already (osAttributes), and the      *)
(* monitor is started.                                                      *)
Init ==
  /\ installed \in Sources
  /\ state = 0 /\ map = Nothing /\ accum = <<>>
  /\ proc \in {Started, NoProc}
  /\ attrs = [k \in Keys |-> Default]
  /\ reloads = 0
  /\ said = [k \in Keys |-> <<>>]
  /\ held = attrs
  /\ torn = FALSE
  /\ signals = 0 /\ lines = 0

Thread == HandleRestart \/ (\E n \in 1..2 * MaxLines : Read(n)) \/ ReadEof \/ ReadFails \/ TooLong

Next ==
  \/ \E k \in Keys, gone \in BOOLEAN : Print1(k, gone)
  \/ PrintEndless \/ End \/ Signal \/ Thread

Spec == Init /\ [][Next]_monVars
-----------------------------------------------------------------------------
By(k, isSource(_)) == SelectSeq(said[k], LAMBDA w : isSource(w.source))
Live(k) == By(k, LAMBDA s : s = 0)
Initial(k) == By(k, LAMBDA s : s # 0)
Scripted(k) == By(k, LAMBDA s : s > 1)
AllRead == proc.out = <<>> /\ accum = <<>>

(* A reload is all or nothing, and then an attribute is what the running    *)
(* monitor said last, else what the reload's sources said first: no word of *)
(* a process that was stopped comes back, and no line is lost, whatever the *)
(* reads return (monitor.cpp:99, 154).                                      *)
Current ==
  ~torn =>
    /\ state # 0 => attrs = held
    /\ state = 0 /\ AllRead => \A k \in Keys :
         attrs[k] = CASE Live(k) # <<>> -> Last(Live(k)).val
                      [] Live(k) = <<>> /\ Initial(k) # <<>> -> Head(Initial(k)).val
                      [] OTHER -> IF k \in Fallback THEN Default ELSE held[k]

(* "Values output by the program [attr-script] override the values printed  *)
(* by @MONITOR_NAME@ --initial" (doc/monitor.1.in).                         *)
ScriptsOverride ==
  ~torn /\ state = 0 /\ AllRead => \A k \in Keys :
    Live(k) = <<>> /\ Scripted(k) # <<>> => attrs[k] \in {w.val : w \in Range(Scripted(k))}
=============================================================================
