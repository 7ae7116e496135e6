------------------------------- MODULE Screen -------------------------------
(***************************************************************************)
(* The terminal's screen and its two buffers as the emulator drives them:  *)
(* src/mux/base/screen.cpp, emulator.cpp, buffer.cpp and the handlers of   *)
(* src/mux/xterm/xterm.cpp that move the cursor, scroll, switch, erase,    *)
(* reset or resize.  Everything here runs in the terminal's thread under   *)
(* its state lock; what is hard is the sequence of operations.  Columns    *)
(* are left out: the cursor is always inside the horizontal margins, and   *)
(* whether it is past the right one is the input's choice.                 *)
(* The terminal is one record:                                             *)
(*   buf    the two buffers        cur    the one shown (m_buffer)         *)
(*   height, top, bottom           the screen and its vertical margins     *)
(*   offset index of its first row y      the cursor's row                 *)
(*   stay, origin                  m_stayWithinMargins and m_origin        *)
(*   originMode                    the flag of that name                   *)
(*   saved  the saved cursor       row, next  m_row and m_nextRow          *)
(***************************************************************************)
EXTENDS TermBuffer

CONSTANTS Texts,     \* what a row may hold, besides nothing
          Heights,   \* the heights a client asks for
          Caps,      \* the scrollback sizes a client asks for
          MaxOps,    \* bound on the operations of a behaviour
          MaxSize    \* bound on the main buffer's length

ASSUME ScreenAssumption ==
  /\ Texts \subseteq Nat \ {0} /\ Heights \subseteq Nat \ {0}
  /\ Caps \subseteq Nat \ {0} /\ \A cap \in Caps : \E k \in 0 .. 10 : cap = 2^k
  /\ MaxOps \in Nat

VARIABLES term,      \* the terminal
          left,      \* operations left
          arrived,   \* the step is the first of a new event
          crowded    \* rows have been shown that the ring no longer keeps

vars == <<term, left, arrived, crowded>>

None == <<-1, 0>>
Dangling == <<-2, 0>>

Cur(t) == t.buf[t.cur]
CursorRow(t) == t.offset + t.y

(* What m_row and m_nextRow point at: a buffer and one of its slots. *)
At(t, i) == <<t.cur, Slot(Cur(t), i)>>

RowUpdate(t) ==
  LET i == CursorRow(t)
      follows == i # Cur(t).size - 1 /\ Row(Cur(t), i + 1).cont
  IN [t EXCEPT !.row = At(t, i), !.next = IF follows THEN At(t, i + 1) ELSE None]

MoveToEnd(t) == [t EXCEPT !.offset = Cur(t).size - t.height]

WithCur(t, b) == [t EXCEPT !.buf[t.cur] = b]

Clamp(y, low, high) == IF y < low THEN low ELSE IF y > high THEN high ELSE y

InMargins(t) == t.y \in t.top .. t.bottom

ConstrainToMargins(t) ==
  IF InMargins(t) THEN t ELSE RowUpdate([t EXCEPT !.y = Clamp(t.y, t.top, t.bottom)])

(* cursorMoveY: to row y of the screen, between the margins or the edges. *)
MoveY(t, y, within) ==
  RowUpdate([t EXCEPT !.y = IF (within /\ InMargins(t)) \/ t.stay
                            THEN Clamp(y, t.top, t.bottom)
                            ELSE Clamp(y, 0, t.height - 1)])
MoveBy(t, dy) == MoveY(t, t.y + dy, TRUE)
MoveTo(t, y) == MoveY(t, y + t.origin, FALSE)

CursorMoveDown(t) ==
  LET down == MoveBy(t, 1) IN WithCur(down, TouchRow(Cur(down), CursorRow(down)))

SetMargins(t, top, bottom) ==
  LET set == [t EXCEPT !.top = top, !.bottom = bottom]
  IN IF t.stay THEN ConstrainToMargins([set EXCEPT !.origin = top]) ELSE set

SetStayWithinMargins(t, on) ==
  IF t.stay = on THEN t
  ELSE IF on THEN ConstrainToMargins([t EXCEPT !.stay = TRUE, !.origin = t.top])
  ELSE [t EXCEPT !.stay = FALSE, !.origin = 0]

(* Mutant: the row pointer is left as it is when the buffer is switched. *)
SetBufferOnly(t, k) ==
  IF t.cur = k THEN t ELSE MoveToEnd([t EXCEPT !.cur = k])

SetBuffer(t, k) ==
  IF t.cur = k THEN t ELSE RowUpdate(MoveToEnd([t EXCEPT !.cur = k]))

InsertRowHere(t) ==
  IF ~InMargins(t) THEN t
  ELSE RowUpdate(WithCur(t, DeleteRowAndInsertAbove(Cur(t), t.offset + t.bottom, CursorRow(t))))

DeleteRowHere(t) ==
  IF ~InMargins(t) THEN t
  ELSE RowUpdate(WithCur(t, DeleteRowAndInsertBelow(Cur(t), CursorRow(t), t.offset + t.bottom)))

ScrollUp(t) ==
  RowUpdate(
    IF t.top = 0
    THEN MoveToEnd(WithCur(t, InsertRow(Cur(t), t.offset + t.bottom + 1)))
    ELSE WithCur(t, DeleteRowAndInsertBelow(Cur(t), t.offset + t.top, t.offset + t.bottom)))

ScrollDown(t) ==
  RowUpdate(WithCur(t, DeleteRowAndInsertAbove(Cur(t), t.offset + t.bottom, t.offset + t.top)))

LineFeed(t) == IF t.y = t.bottom THEN ScrollUp(t) ELSE CursorMoveDown(t)
ReverseIndex(t) == IF t.y = t.top THEN ScrollDown(t) ELSE MoveBy(t, -1)

(* writeCell goes through the two pointers; what it writes through one    *)
(* that dangles is seen nowhere, or where the row would have been.         *)
WriteCell(t, text) ==
  LET touched == IF t.next = None THEN {CursorRow(t)} ELSE {CursorRow(t), CursorRow(t) + 1}
      ended == IF t.next \in {None, Dangling} THEN t
               ELSE [t EXCEPT !.buf[t.next[1]].rows[t.next[2]].cont = FALSE]
      written == IF t.row = Dangling THEN ended
                 ELSE [ended EXCEPT !.buf[t.row[1]].rows[t.row[2]].text = text]
  IN [written EXCEPT !.next = None, !.buf[t.cur].changed = @ \cup touched]

(* A row that has been erased is blank; resetLine also ends the row's     *)
(* continuation, resetSingleLine does not.                                 *)
EraseRow(t, y) == WithCur(t, PutRow(TakeRow(Cur(t), t.offset + y), t.offset + y, BlankRow))
EraseRows(t, ys) ==
  LET erased == {t.offset + y : y \in ys}
  IN WithCur(t, [Cur(t) EXCEPT !.rows = Replaced(Cur(t), [i \in erased |-> BlankRow]),
                               !.changed = @ \cup erased])

Parts(t) == {0, Row(Cur(t), CursorRow(t)).text}
SetText(t, text) ==
  LET b == Cur(t) IN WithCur(t, [b EXCEPT !.rows[Slot(b, CursorRow(t))].text = text])

ClearScreen(t) ==
  EraseRows(MoveTo(SetMargins(t, 0, t.height - 1), 0), 0 .. t.height - 1)

(* The alternate buffer's rows are thrown away; a pointer to one dangles. *)
ClearAlternate(t) ==
  LET Lost(p) == IF p[1] = 1 THEN Dangling ELSE p
  IN [t EXCEPT !.buf[1] = Clear(@), !.row = Lost(@), !.next = Lost(@)]

SaveCursor(t) == [t EXCEPT !.saved = [y |-> t.y, origin |-> t.originMode]]

RestoreCursor(t) ==
  MoveTo(SetStayWithinMargins([t EXCEPT !.originMode = t.saved.origin], t.saved.origin),
         t.saved.y)

(* ResetEmulator: the flags, the margins and the buffer shown, but not     *)
(* m_stayWithinMargins.                                                    *)
ResetEmulator(t) ==
  LET plain == SetMargins([t EXCEPT !.originMode = FALSE], 0, t.height - 1)
  IN [SetBuffer(ClearAlternate(plain), 0) EXCEPT !.saved = [y |-> 0, origin |-> FALSE]]

ClearScrollbackNow(t) ==
  RowUpdate(MoveToEnd([t EXCEPT !.buf[0] = ClearScrollback(@)]))

SetHeight(t, height, added) ==
  LET below == t.height - 1 - t.bottom
      taller == height - t.height - added
      fits == t.top + below + 1 < height
      sized == [t EXCEPT !.y = IF height > t.height THEN @ + taller ELSE @,
                         !.height = height,
                         !.top = IF fits THEN @ ELSE 0,
                         !.bottom = IF fits THEN height - 1 - below ELSE height - 1]
  IN RowUpdate([MoveToEnd(sized) EXCEPT !.y = Clamp(@, sized.top, sized.bottom)])

SetSize(t, height) ==
  LET maxChop == IF t.cur = 1 THEN 0 ELSE t.height - 1 - t.y
      fitted(k) == IF t.buf[k].cap < height THEN SetCapacity(t.buf[k], CapacityFor(t.buf[k].cap, height))
                   ELSE t.buf[k]
      added == LinesAdded(fitted(t.cur), height)
      sized == [t EXCEPT !.buf[0] = SetScreenHeight(@, height, maxChop),
                         !.buf[1] = SetScreenHeight(@, height, 0)]
  IN IF t.height = height THEN t ELSE SetHeight(sized, height, added)

BufferResize(t, cap) ==
  RowUpdate(MoveToEnd([t EXCEPT !.buf[0] = EnableScrollback(@, cap)]))

ResetEvents(t) ==
  [t EXCEPT !.buf[0] = ResetEventState(@), !.buf[1] = ResetEventState(@)]
-----------------------------------------------------------------------------
(* Rows of the screen that the ring no longer keeps. *)
IsCrowded(t) ==
  \E k \in 0 .. 1 : t.buf[k].lost \/ t.buf[k].size - t.buf[k].height < First(t.buf[k])

(* Nothing is said of what follows when rows have been lost. *)
Becomes(t) ==
  /\ left > 0
  /\ ~term.buf[0].lost
  /\ t.buf[0].size <= MaxSize
  /\ left' = left - 1
  /\ term' = t
  /\ crowded' = (crowded \/ IsCrowded(t))

Step(t) == Becomes(t) /\ arrived' = FALSE
Arrive(t) == Becomes(t) /\ arrived' = TRUE

(* The handlers of the emulator, in the course of one termEvent. *)
Printable(text) ==
  \/ Step(WriteCell(term, text))
  \/ term.row = Dangling /\ Step(WriteCell(RowUpdate(term), text))
PrintWrapped(text) ==
  LET down == IF term.y = term.bottom THEN ScrollUp(term) ELSE MoveBy(term, 1)
      taken == TakeRow(Cur(down), CursorRow(down))
      marked == [taken EXCEPT !.rows[Slot(taken, CursorRow(down))].cont = TRUE]
  IN Step(WriteCell(WithCur(down, marked), text))
Feed == Step(LineFeed(term))
ReverseFeed == Step(ReverseIndex(term))
CursorUp == Step(MoveBy(term, -1))
CursorDown == Step(MoveBy(term, 1))
CursorPosition == \E y \in 0 .. term.height - 1 : Step(MoveTo(term, y))
CursorVerticalAbsolute == \E y \in 0 .. term.height - 1 : Step(MoveY(term, y + term.origin, TRUE))
CmdSaveCursor == Step(SaveCursor(term))
CmdRestoreCursor == Step(RestoreCursor(term))
InsertLines == Step(InsertRowHere(term))
DeleteLines == Step(DeleteRowHere(term))
CmdScrollUp == Step(ScrollUp(term))
CmdScrollDown == Step(ScrollDown(term))
(* The part of the cursor's row on one side of it is erased: the row is    *)
(* then blank, or holds what it held.                                      *)
EraseInLine ==
  \/ Step(EraseRow(term, term.y))
  \/ \E text \in Parts(term) : Step(SetText(WithCur(term, TakeRow(Cur(term), CursorRow(term))), text))
EraseBelow ==
  \E text \in Parts(term) :
    LET below == EraseRows(term, term.y + 1 .. term.height - 1)
    IN Step(SetText(WithCur(below, TouchRow(Cur(below), CursorRow(term))), text))
ErasedAbove(t, n) == LET e[k \in 0 .. n] == IF k = 0 THEN t ELSE EraseRow(e[k - 1], k - 1) IN e
EraseAbove ==
  \E text \in Parts(term) :
    LET above == ErasedAbove(term, term.y)[term.y]
    IN Step(SetText(WithCur(above, TakeRow(Cur(above), CursorRow(term))), text))
EraseAll == Step(EraseRows(term, 0 .. term.height - 1))
EraseScrollback == Step(ClearScrollbackNow(term))
SetTopBottomMargins ==
  \E top, bottom \in 0 .. term.height - 1 :
    top < bottom /\ Step(MoveTo(SetMargins(term, top, bottom), 0))
SetOriginMode(on) ==
  Step(SetStayWithinMargins([term EXCEPT !.originMode = on], on))
AltScreen(on) == Step(SetBuffer(term, IF on THEN 1 ELSE 0))
AltScreenCleared == Step(SetBuffer(IF term.cur = 1 THEN ClearAlternate(term) ELSE term, 0))
AltScreenSaved == Step(SetBuffer(ClearAlternate(SaveCursor(term)), 1))
AltScreenRestored == Step(RestoreCursor(SetBuffer(term, 0)))
CmdResetEmulator == Step(ClearScreen(ResetEmulator(term)))

(* What arrives from outside: each call starts by resetting the event. *)
TermEvent == Arrive(ResetEvents(term))
TermReset(flags) ==
  LET fresh == ResetEvents(term)
      plain == IF "emulator" \in flags THEN ResetEmulator(fresh) ELSE fresh
      cleared == IF "scrollback" \in flags THEN ClearScrollbackNow(plain) ELSE plain
  IN Arrive(IF "screen" \in flags THEN ClearScreen(cleared) ELSE cleared)
TermResize(height) == Arrive(SetSize(ResetEvents(term), height))
TermBufferResize(cap) == Arrive(BufferResize(ResetEvents(term), cap))

Init ==
  /\ \E h \in Heights, cap \in Caps :
       term = [buf |-> [k \in 0 .. 1 |-> IF k = 0 THEN NewBuffer(h, LargerOf(cap, 2), FALSE)
                                         ELSE NewBuffer(h, 1, TRUE)],
               cur |-> 0, height |-> h, top |-> 0, bottom |-> h - 1,
               offset |-> 0, y |-> 0, stay |-> FALSE, origin |-> 0, originMode |-> FALSE,
               saved |-> [y |-> 0, origin |-> FALSE], row |-> <<0, 1>>, next |-> None]
  /\ left = MaxOps /\ arrived = TRUE
  /\ crowded = FALSE

Next ==
  \/ \E text \in Texts : Printable(text) \/ PrintWrapped(text)
  \/ Feed \/ ReverseFeed \/ CursorUp \/ CursorDown \/ CursorPosition \/ CursorVerticalAbsolute
  \/ CmdSaveCursor \/ CmdRestoreCursor
  \/ InsertLines \/ DeleteLines \/ CmdScrollUp \/ CmdScrollDown
  \/ EraseInLine \/ EraseBelow \/ EraseAbove \/ EraseAll \/ EraseScrollback
  \/ SetTopBottomMargins \/ \E on \in BOOLEAN : SetOriginMode(on) \/ AltScreen(on)
  \/ AltScreenCleared \/ AltScreenSaved \/ AltScreenRestored \/ CmdResetEmulator
  \/ TermEvent \/ \E flags \in SUBSET {"emulator", "scrollback", "screen"} : TermReset(flags)
  \/ \E height \in Heights : TermResize(height)
  \/ \E cap \in Caps : TermBufferResize(cap)

Spec == Init /\ [][Next]_vars
-----------------------------------------------------------------------------
(* The buffers, the screen and the pointers have the values the code gives *)
(* them: a buffer never holds more rows than its capacity.                 *)
TypeOK ==
  /\ left \in 0 .. MaxOps /\ arrived \in BOOLEAN /\ crowded \in BOOLEAN
  /\ \A k \in 0 .. 1 :
       LET b == term.buf[k]
       IN /\ b.height = term.height /\ b.size >= b.height /\ b.realsize >= b.size
          /\ Len(b.rows) = SmallerOf(b.realsize, b.cap)
          /\ b.changed \subseteq Nat /\ b.told \subseteq {"length", "capacity"}

(* The screen is the buffer's last rows, its margins lie in it, and so    *)
(* does the cursor, inside the margins in origin mode (screen.cpp:58).     *)
CursorInScreen ==
  /\ term.offset = Cur(term).size - term.height
  /\ 0 <= term.top /\ term.top <= term.bottom /\ term.bottom < term.height
  /\ term.y \in 0 .. term.height - 1
  /\ term.stay => InMargins(term)

(* Text is written through m_row and m_nextRow (screen.cpp:361), which are *)
(* addresses inside the ring: m_row is always the cursor's row.  The      *)
(* alternate screen entered twice with mode 1049 (xterm.cpp:1187) leaves   *)
(* them dangling until the cursor moves.                                   *)
RowIsCursors == term.row = At(term, CursorRow(term)) \/ (term.row = Dangling /\ term.cur = 1)

(* A row that continues the cursor's row is known to be one (m_nextRow),  *)
(* so that writing ends the continuation.                                  *)
ContinuationSeen ==
  LET i == CursorRow(term)
  IN (term.row # Dangling /\ i + 1 < Cur(term).size /\ Row(Cur(term), i + 1).cont)
       => term.next = At(term, i + 1)

(* The three together. *)
CursorSound == CursorInScreen /\ RowIsCursors /\ ContinuationSeen

(* The main buffer's ring is the list of lines it promises to be           *)
(* (LineList), unless it was once too small for its screen.                *)
List == INSTANCE LineList WITH
          lines <- [i \in 1 .. Cardinality(Kept(term.buf[0])) |->
                      Row(term.buf[0], First(term.buf[0]) + i - 1).text],
          cap <- term.buf[0].cap, height <- term.buf[0].height, crowded <- crowded
RingIsList == List!Spec

(* A taller screen that adds more rows than it had forgets those it       *)
(* reveals (buffer.cpp:345).  What it adds is what the buffer lacks; a     *)
(* ring that is too small is reduced first to the rows it keeps, and at    *)
(* least those of its screen.                                              *)
Forgets(b, h) ==
  LET had == IF b.cap < h THEN LargerOf(b.height, Cardinality(Kept(b))) ELSE b.size
  IN h - had > b.height

(* A row of the screen that is another than before, or was not on the     *)
(* screen, is among the rows to send (m_changedRows), and a new length or  *)
(* capacity is reported, or clients would never see it.                    *)
Noted(b, c) ==
  /\ \A i \in Screen(c) \ c.changed :
       i \in Screen(b) /\ i \notin b.changed /\ Row(c, i).text = Row(b, i).text
  /\ c.size # b.size => "length" \in c.told
  /\ c.cap # b.cap => "capacity" \in c.told
ChangesNoted ==
  [][\A k \in 0 .. 1 :
       LET b == IF arrived' THEN ResetEventState(term.buf[k]) ELSE term.buf[k]
       IN Noted(b, term.buf[k]') \/ Forgets(b, term.height')]_vars
=============================================================================
