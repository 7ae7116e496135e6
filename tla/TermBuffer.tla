----------------------------- MODULE TermBuffer -----------------------------
(***************************************************************************)
(* The server's terminal buffer (src/mux/base/buffer.cpp): rows in a ring  *)
(* whose slots are addressed by the row's index modulo the capacity, a     *)
(* power of two.  A buffer is a record:                                    *)
(*   size     index of the row after the last one                         *)
(*   realsize size before empty rows at the bottom were chopped            *)
(*   cap      number of slots the ring may have (m_capacity)               *)
(*   noScroll the buffer keeps no scrollback (the alternate one)           *)
(*   height   rows of the screen                                           *)
(*   rows     the slots, in the order of the deque                         *)
(*   changed  indexes of the rows changed in the current event             *)
(*   told     what the event has to report: the length, the capacity       *)
(*   lost     the deque was left with fewer rows than the screen has       *)
(* A row is its text, reduced to a number (0 is the empty row), and the    *)
(* flag that says it continues the row above.                              *)
(***************************************************************************)
EXTENDS Integers, Sequences, FiniteSets, FiniteSetsExt, SequencesExt

BlankRow == [text |-> 0, cont |-> FALSE]
Blanks(n) == <<>> \o [i \in 1 .. n |-> BlankRow]
IsEmptyRow(row) == row.text = 0

LargerOf(i, j) == IF i < j THEN j ELSE i
SmallerOf(i, j) == IF i < j THEN i ELSE j

(* A capacity doubled again and again, and the first that holds n rows. *)
Doubled(cap, n) == LET d[k \in 0 .. n] == IF k = 0 THEN cap ELSE 2 * d[k - 1] IN d
CapacityFor(cap, n) == Min({c \in {Doubled(cap, n)[k] : k \in 0 .. n} : c >= n})

NewBuffer(height, cap, noScroll) ==
  [size |-> height, realsize |-> height, cap |-> CapacityFor(cap, height),
   noScroll |-> noScroll, height |-> height,
   rows |-> Blanks(height), changed |-> {}, told |-> {}, lost |-> FALSE]

(* A row's place in the deque, and the row there. *)
Slot(b, i) == (i % b.cap) + 1
Row(b, i) == b.rows[Slot(b, i)]

(* The rows that are still kept, and those of the screen. *)
First(b) == LargerOf(0, b.realsize - b.cap)
Kept(b) == First(b) .. b.size - 1
Screen(b) == b.size - b.height .. b.size - 1

(* The slots with the rows of f, a function of indexes, in their places. *)
Replaced(b, f) ==
  <<>> \o [s \in DOMAIN b.rows |->
             LET at == {i \in DOMAIN f : Slot(b, i) = s}
             IN IF at = {} THEN b.rows[s] ELSE f[Max(at)]]

ResetEventState(b) == [b EXCEPT !.changed = {}, !.told = {}]
TellLength(b) == [b EXCEPT !.told = @ \cup {"length"}]
TellCapacity(b) == [b EXCEPT !.told = @ \cup {"length", "capacity"}]
TouchRow(b, i) == [b EXCEPT !.changed = @ \cup {i}]

PutRow(b, i, row) ==
  [b EXCEPT !.rows[Slot(b, i)] = row, !.changed = @ \cup {i}]

(* row(): taking a row for a change ends its continuation below. *)
TakeRow(b, i) ==
  IF i < b.size - 1 /\ Row(b, i + 1).cont
  THEN [b EXCEPT !.rows[Slot(b, i + 1)].cont = FALSE, !.changed = @ \cup {i, i + 1}]
  ELSE TouchRow(b, i)

(* The row at "from" is moved to "to" and the rows between make room. *)
MoveRow(b, from, to, row) ==
  LET step == IF to < from THEN -1 ELSE 1
      span == SmallerOf(from, to) .. LargerOf(from, to)
      moved == [i \in span |-> IF i = to THEN row ELSE Row(b, i + step)]
  IN [b EXCEPT !.rows = Replaced(b, moved), !.changed = @ \cup span]

DeleteRowAndInsertAbove(b, delpos, addpos) == MoveRow(b, delpos, addpos, BlankRow)
DeleteRowAndInsertBelow(b, delpos, addpos) == MoveRow(b, delpos, addpos, BlankRow)

(* Dropping the lowest changed row when there are more than a screen. *)
TrimOne(b) ==
  IF Cardinality(b.changed) > b.height
  THEN [b EXCEPT !.changed = @ \ {Min(@)}] ELSE b

TrimAll(b) ==
  LET keep == {i \in b.changed : Cardinality({j \in b.changed : j >= i}) <= b.height}
  IN [b EXCEPT !.changed = keep]

InsertRow(b, pos) ==
  LET longer(c, real) ==
        TrimOne(TellLength([c EXCEPT !.size = @ + 1, !.realsize = @ + real]))
  IN IF b.noScroll
     THEN [b EXCEPT !.rows = Tail(InsertAt(@, pos + 1, BlankRow)),
                    !.changed = @ \cup (0 .. pos - 1)]
     ELSE IF b.size < b.realsize
     THEN longer(MoveRow(b, b.size, pos, Row(b, b.size)), 0)
     ELSE IF b.size < b.cap
     THEN longer([b EXCEPT !.rows = InsertAt(@, pos + 1, BlankRow),
                           !.changed = @ \cup (pos .. b.size)], 1)
     ELSE longer(MoveRow(b, b.size, pos, BlankRow), 1)

(* The last n rows before the size, cut out of the ring. *)
Unrolled(b, n) ==
  LET end == b.size % b.cap
      start == (end - n) % b.cap
  IN IF end >= start
     THEN SubSeq(b.rows, start + 1, end)
     ELSE SubSeq(b.rows, start + 1, Len(b.rows)) \o SubSeq(b.rows, 1, end)

(* Mutant: the slots are kept in their places. *)
StraightenedNot(b) == SubSeq(b.rows, 1, Len(b.rows) - (b.realsize - b.size))

(* The ring turned so that its oldest row comes first, without the rows    *)
(* that had been chopped.                                                  *)
Straightened(b) ==
  LET pos == b.realsize % b.cap
      turned == IF pos < Len(b.rows)
                THEN SubSeq(b.rows, pos + 1, Len(b.rows)) \o SubSeq(b.rows, 1, pos)
                ELSE b.rows
  IN SubSeq(turned, 1, Len(turned) - (b.realsize - b.size))

(* Rows are numbered from zero again.  When fewer are left than the screen *)
(* has, the code goes on to read outside of the deque: blank rows stand    *)
(* here for those, and "lost" says so.                                     *)
Renumbered(b, rows, cap) ==
  LET missing == LargerOf(0, b.height - Len(rows))
      all == Blanks(missing) \o rows
  IN [b EXCEPT !.rows = all, !.size = Len(all), !.realsize = Len(all), !.cap = cap,
               !.changed = Len(all) - b.height .. Len(all) - 1,
               !.lost = @ \/ missing > 0]

SetCapacity(b, cap) ==
  Renumbered(b,
    IF b.cap < cap THEN Straightened(b)
    ELSE IF b.size > cap THEN Unrolled(b, cap)
    ELSE SubSeq(b.rows, 1, b.size % b.cap),
    cap)

EnableScrollback(b, cap) ==
  LET new == CapacityFor(cap, b.height)
      open == [b EXCEPT !.noScroll = FALSE]
  IN IF ~b.noScroll /\ b.cap = new THEN b
     ELSE TellCapacity(IF b.cap = new THEN open ELSE SetCapacity(open, new))

(* With a capacity of just the screen's height both ends are the same      *)
(* slot and no row is left (buffer.cpp:384).                               *)
ClearScrollback(b) ==
  IF b.size = b.height THEN b
  ELSE TellCapacity(Renumbered(b, Unrolled(b, b.height), b.cap))

(* The alternate buffer is emptied: all its rows are new ones. *)
Clear(b) ==
  [b EXCEPT !.rows = Blanks(b.size), !.realsize = b.size,
            !.changed = @ \cup (0 .. b.size - 1)]

(* One row more at the bottom: a chopped one, a new one, or the oldest     *)
(* one's slot.                                                             *)
AddRow(b) ==
  [b EXCEPT !.rows = IF b.size < b.realsize THEN @
                     ELSE IF b.noScroll \/ b.size < b.cap THEN Append(@, BlankRow)
                     ELSE [@ EXCEPT ![Slot(b, b.size)] = BlankRow],
            !.realsize = LargerOf(@, b.size + 1),
            !.changed = @ \cup {b.size},
            !.size = @ + 1]

Added(b, n) == LET a[k \in 0 .. n] == IF k = 0 THEN b ELSE AddRow(a[k - 1]) IN a
AddRows(b, n) == Added(b, n)[n]

(* The rows below "size" are cleared and no longer counted. *)
DropRows(b, n) ==
  [b EXCEPT !.size = @ - n,
            !.rows = Replaced(b, [i \in b.size - n .. b.size - 1 |-> BlankRow])]

(* How many rows at the bottom are empty, at most "most" of them. *)
EmptyRows(b, most) ==
  Max({n \in 0 .. most : \A i \in b.size - n .. b.size - 1 : IsEmptyRow(Row(b, i))})

(* Mutant: rows revealed by a taller screen are not flagged. *)
RevealedNone(b, height, added) == {}

(* The rows that a taller screen shows besides those it has added.  The   *)
(* loop counts down to m_screenHeight - added, an unsigned difference: it *)
(* does not run when more rows are added than the screen had.              *)
Revealed(b, height, added) ==
  IF added > b.height THEN {}
  ELSE {b.size + added - i : i \in b.height - added + 1 .. height}

(* setScreenHeight's result besides the buffer is the rows it added. *)
LinesAdded(b, height) == LargerOf(0, height - b.size)

SetScreenHeight(b, height, maxChop) ==
  LET fit == IF b.cap < height THEN TellCapacity(SetCapacity(b, CapacityFor(b.cap, height)))
             ELSE b
      added == LinesAdded(fit, height)
      removed == IF b.noScroll THEN LargerOf(0, fit.size - height)
                 ELSE EmptyRows(fit, SmallerOf(maxChop, LargerOf(0, b.height - height)))
      grown == AddRows(fit, added)
      sized == DropRows(grown, removed)
      shown == IF b.noScroll THEN {} ELSE Revealed(fit, height, added)
      done == [sized EXCEPT !.height = height, !.changed = @ \cup shown]
  IN TrimAll(IF added + removed > 0 THEN TellLength(done) ELSE done)
=============================================================================
