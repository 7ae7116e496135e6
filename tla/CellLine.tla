------------------------------ MODULE CellLine ------------------------------
(***************************************************************************)
(* The row the cursor is in as the emulator writes and edits it:           *)
(* src/mux/base/screen.cpp and the handlers of src/mux/xterm/xterm.cpp     *)
(* that work within a row, on top of cell.cpp (CellRow); and how a client  *)
(* (src/src/base/buffer.cpp) turns the row it is sent into columns.        *)
(* The cursor remembers where its column is in the row.  All of this runs  *)
(* in the terminal's thread; what is hard is that the text, the runs and   *)
(* the place remembered agree after every sequence of operations.          *)
(*   row    the row        dbl    whether it is a double-width line        *)
(*   x      the cursor's column    at, pos, half    what updateCursor      *)
(*          found there (ptr, pos and the OnDouble flags)                  *)
(*   past   CursorPastEnd  saved  m_savedPos, -1 before it is set          *)
(*   base   the width of the last character that was not a combining one   *)
(*   right  the right margin; the left one is the screen's edge            *)
(*   wild   an operation has left the row or the cursor in disorder        *)
(* A line is followed up to the first of the operations that do so (see    *)
(* StrayWrite, StrayCombine, Overrun and Displaces) and again from the     *)
(* next blank row.                                                         *)
(***************************************************************************)
EXTENDS CellRow

CONSTANTS Width,     \* columns of the screen
          Rights,    \* the right margins that may be set
          Colours,   \* colours: 0 is the plain one, 1 is protected
          Counts     \* how many cells an editing command is given

VARIABLE line

Looks(width) == {[c |-> k, wide |-> width = 2] : k \in Colours}

RightBound(t, limit) == IF t.dbl THEN limit \div 2 ELSE limit
InMargins(t) == t.x <= t.right
CursorAtRight(t, threshold) == RightBound(t, t.right) - t.x \in 0 .. threshold - 1
CursorPastEnd(t, width) == t.past \/ (width = 2 /\ CursorAtRight(t, 1))

Placed(t, p) == [t EXCEPT !.at = p.at, !.pos = p.pos, !.half = p.half, !.past = FALSE]
CursorUpdate(t) == Placed(t, Locate(t.row.text, t.x))

CursorMoveX(t, x, within) ==
  LET bound == RightBound(t, IF within /\ InMargins(t) THEN t.right ELSE Width - 1)
  IN CursorUpdate([t EXCEPT !.x = Max({0, Min({x, bound})})])

(* The cursor goes to a row that is still blank. *)
NextRow(t, x) ==
  CursorUpdate([t EXCEPT !.row = EmptyRow, !.dbl = FALSE, !.x = x, !.wild = FALSE])
-----------------------------------------------------------------------------
(* writeCell.  At the right margin the cursor stays, with the place after  *)
(* the cluster.                                                            *)
Advanced(t, at, pos, width) ==
  LET stays == CursorAtRight(t, width)
      text == t.row.text
      ahead == IF at < Len(text) THEN text[at + 1].w ELSE 0
  IN IF stays
     THEN [t EXCEPT !.at = at, !.pos = pos, !.past = TRUE,
                    !.half = IF width = 2 THEN "left" ELSE "none"]
     ELSE [t EXCEPT !.at = at, !.past = FALSE, !.x = @ + width, !.saved = pos, !.pos = pos + 1,
                    !.half = IF ahead = 2 THEN "left" ELSE "none"]

WriteOver(t, r, width) == Advanced([t EXCEPT !.row = r.row], r.at + 1, r.pos, width)
WriteBehind(t, row, width) == Advanced([t EXCEPT !.row = row], Len(row.text), t.pos, width)
WriteCell(t, a, width) ==
  IF t.row.columns > t.x THEN WriteOver(t, Replace(t.row, t, a, width), width)
  ELSE WriteBehind(t, AppendCell(Pad(t.row, t.x - t.row.columns), a, width), width)

CutBeyond(row, x) == IF row.columns > x THEN Remove(row, x) ELSE row
OpenWithin(row, x) == IF row.columns > x THEN Insert(row, x) ELSE row
InsertCells(t, n) ==
  LET Times[k \in 0 .. n] ==
        IF k = 0 THEN t.row ELSE OpenWithin(CutBeyond(Times[k - 1], t.right), t.x)
  IN IF InMargins(t) THEN CursorUpdate([t EXCEPT !.row = Times[n]]) ELSE t

DeleteCell(t) ==
  IF InMargins(t) THEN CursorUpdate([t EXCEPT !.row = OpenWithin(CutBeyond(@, t.x), t.right)])
  ELSE t

(* A cell is written through a place that is already behind its column:    *)
(* without autowrap, each character at the margin is one more cluster in   *)
(* the text that neither m_clusters nor m_columns counts.                  *)
StrayWrite(t) == t.past /\ t.row.columns > t.x /\ Locate(t.row.text, t.x).at # t.at

(* What is written reaches beyond the screen: cursorAtRight knows only the *)
(* margin, not the screen's edge, and nothing stops a double-width         *)
(* character in the last column when lines do not wrap.                    *)
Overrun(t) == t.x >= Width \/ t.row.columns > Width

(* printableCell. *)
Turned(t, width, wrap) == IF CursorPastEnd(t, width) /\ wrap THEN NextRow(t, 0) ELSE t
Written(t, a, width) ==
  IF StrayWrite(t) THEN [t EXCEPT !.wild = TRUE] ELSE WriteCell(t, a, width)
Printed(t, width) == [t EXCEPT !.wild = @ \/ Overrun(t), !.base = width]
PrintableCell(t, a, width, wrap, insert) ==
  IF insert THEN Printed(Written(InsertCells(Turned(t, width, wrap), width), a, width), width)
  ELSE Printed(Written(Turned(t, width, wrap), a, width), width)

(* combineCell.  The place in the text is the cursor's, the cell whose     *)
(* look is set is the one left last by a writeCell that moved on: they     *)
(* differ at the right margin and after the cursor has been moved.         *)
StrayCombine(t) ==
  \/ t.saved < 0 \/ t.saved # t.at - 1 \/ t.saved + 1 > Len(t.row.text)
  \/ t.row.text[t.saved + 1].w # t.base
CombineCell(t, c) ==
  LET a == [c |-> c, wide |-> t.base = 2]
  IN IF StrayCombine(t) THEN [t EXCEPT !.wild = TRUE]
     ELSE [t EXCEPT !.row.ranges = UpdateRanges(@, t.saved, a),
                    !.row.text[t.at].a = a]

(* setLineFlags. *)
SetLineFlags(t, dbl) ==
  LET bound == t.right \div 2
      halved == [t EXCEPT !.dbl = TRUE, !.x = Min({@, bound}), !.row = Resize(@, bound)]
  IN IF t.dbl = dbl THEN t ELSE CursorUpdate(IF dbl THEN halved ELSE [t EXCEPT !.dbl = FALSE])
-----------------------------------------------------------------------------
(* The commands. *)
EraseCells(t, startx, endx) ==
  [t EXCEPT !.row = Erase(@, startx, endx), !.wild = @ \/ Displaces(t.row, startx, endx)]
SelectiveEraseCells(t, startx, endx) ==
  [t EXCEPT !.row = SelectiveErase(@, startx, endx)]

WithPastEnd(t, past) == [t EXCEPT !.past = past]

PrintCharacter ==
  \E width \in 1 .. 2, wrap, insert \in BOOLEAN : \E a \in Looks(width) :
    line' = PrintableCell(line, a, width, wrap, insert)

PrintCombining == \E c \in Colours : line' = CombineCell(line, c)

(* printableSpecial: a modifier makes the last character a wide one, which *)
(* is taken out and written again.                                         *)
Stepped(t) == IF t.past THEN DeleteCell(t) ELSE CursorMoveX(t, t.x - 1, TRUE)
Modified(t, c) == IF t.wild THEN t ELSE CombineCell(t, c)
PrintUpgrade ==
  \E c \in Colours, wrap \in BOOLEAN :
    /\ line.base = 1
    /\ line' = Modified(PrintableCell(Stepped(line), [c |-> c, wide |-> TRUE], 2, wrap, FALSE), c)

MoveCursor == \E x \in 0 .. Width - 1, within \in BOOLEAN : line' = CursorMoveX(line, x, within)
NewRow == line' = NextRow(line, Min({line.x, Width - 1}))

(* cmdRestoreCursor, of a cursor that was saved at the right margin. *)
RestoreCursor == \E x \in Rights : line' = WithPastEnd(CursorMoveX(line, x, FALSE), TRUE)

InsertCharacters == \E n \in Counts : line' = InsertCells(line, n)
DeleteCharacters ==
  \E n \in Counts :
    LET Times[k \in 0 .. n] == IF k = 0 THEN line ELSE DeleteCell(Times[k - 1])
    IN line' = Times[n]

(* cmdEraseCharacters, which leaves the cursor's place as it was: if that  *)
(* was in a double-width character it is no longer.                        *)
LeftBehind(t, before) ==
  [t EXCEPT !.wild = @ \/ (before.half # "none" /\ t.row # before.row)]
EraseCharacters ==
  \E n \in Counts :
    line' = LeftBehind(EraseCells(line, line.x, line.x + n), line)

(* cmdEraseInLine, and eraseInDisplay for the cursor's own row, which does *)
(* not go on from a cursor past the end.                                   *)
EraseLine(from, upto, all) ==
  LET x == line.x + (IF line.past THEN 1 ELSE 0)
      cleared == [line EXCEPT !.row = EmptyRow, !.dbl = FALSE]
  IN \/ from /\ line' = WithPastEnd(CursorUpdate([line EXCEPT !.row = Resize(@, x)]), line.past)
     \/ upto /\ line' = WithPastEnd(CursorUpdate(EraseCells(line, 0, x + 1)), line.past)
     \/ all /\ line' = WithPastEnd(CursorUpdate(cleared), line.past)
EraseInLine == EraseLine(TRUE, FALSE, FALSE) \/ EraseLine(FALSE, TRUE, FALSE)
                 \/ EraseLine(FALSE, FALSE, TRUE)
EraseInDisplay ==
  \/ line' = CursorUpdate([line EXCEPT !.row = Resize(@, line.x)])
  \/ line' = CursorUpdate(EraseCells(line, 0, line.x + 1))
SelectiveEraseInLine ==
  LET x == line.x + (IF line.past THEN 1 ELSE 0)
  IN \E span \in {<<x, line.row.columns>>, <<0, x + 1>>, <<0, line.row.columns>>} :
       line' = WithPastEnd(CursorUpdate(SelectiveEraseCells(line, span[1], span[2])), line.past)

SetDoubleWidth == \E dbl \in BOOLEAN : line' = SetLineFlags(line, dbl)
SetRightMargin == \E r \in Rights : line' = CursorMoveX([line EXCEPT !.right = r], 0, FALSE)

Init ==
  line = [row |-> EmptyRow, dbl |-> FALSE, x |-> 0, at |-> 0, pos |-> 0, half |-> "none",
          past |-> FALSE, saved |-> -1, base |-> 0, right |-> Width - 1, wild |-> FALSE]

Next ==
  \/ NewRow
  \/ /\ ~line.wild
     /\ \/ PrintCharacter \/ PrintCombining \/ PrintUpgrade \/ MoveCursor \/ RestoreCursor
        \/ InsertCharacters \/ DeleteCharacters \/ EraseCharacters \/ EraseInLine
        \/ EraseInDisplay \/ SelectiveEraseInLine \/ SetDoubleWidth \/ SetRightMargin

Spec == Init /\ [][Next]_line
-----------------------------------------------------------------------------
(* What a client makes of the runs it is sent: where a cluster begins, and *)
(* which cluster is at a column (of a row of single width).                *)
XByPos(rs, pos) ==
  pos + Cardinality({k \in 0 .. pos - 1 : \E i \in DOMAIN rs : Covers(rs[i], k) /\ rs[i].a.wide})

PosByX(rs, size, x) ==
  LET Start(i) == XByPos(rs, rs[i].s)
      End(i) == XByPos(rs, rs[i].e + 1)
      ahead == {i \in DOMAIN rs : x < End(i)}
      i == Min(ahead)
      last == Len(rs)
      pos == IF rs = <<>> THEN x
             ELSE IF ahead = {} THEN rs[last].e + 1 + (x - End(last))
             ELSE IF x < Start(i) THEN rs[i].s - (Start(i) - x)
             ELSE rs[i].s + (x - Start(i)) \div (IF rs[i].a.wide THEN 2 ELSE 1)
  IN Min({pos, size})
-----------------------------------------------------------------------------
(* The counts are the text's, and nothing is beyond the screen             *)
(* (cell.cpp:613, screen.cpp:269).                                         *)
CountsSound(row) ==
  /\ row.clusters = Len(row.text)
  /\ row.columns = Column(row.text, Len(row.text)) /\ row.columns <= Width

(* The runs are in order, apart, inside the text, never plain, and none    *)
(* could be joined with the next: coalesceRanges relies on it              *)
(* (cell.cpp:69; test/montecarlo.cpp's checkIntegrity).                    *)
RunsSound(row) ==
  LET rs == row.ranges IN
  /\ \A i \in DOMAIN rs : rs[i].s \in 0 .. rs[i].e /\ rs[i].e < row.clusters /\ rs[i].a # Plain
  /\ \A i \in 1 .. Len(rs) - 1 :
       rs[i].e < rs[i + 1].s /\ (rs[i].e + 1 = rs[i + 1].s => rs[i].a # rs[i + 1].a)

(* Every cluster has the look that it was last given, and the look says    *)
(* how wide it is.                                                         *)
LooksSound(row) ==
  \A i \in 1 .. Len(row.text) :
    LookAt(row.ranges, i - 1) = row.text[i].a /\ row.text[i].a.wide = (row.text[i].w = 2)

(* The place the cursor remembers is where its column is, or at the right  *)
(* margin the one behind it.                                               *)
PlaceSound(t) ==
  LET p == Locate(t.row.text, t.x) IN
  /\ t.x \in 0 .. Width - 1 /\ t.pos = p.pos
  /\ \/ t.at = p.at /\ t.half = p.half
     \/ t.past /\ t.at = p.at + 1

(* The row and the cursor agree after any sequence of operations. *)
RowSound ==
  line.wild \/ (CountsSound(line.row) /\ RunsSound(line.row) /\ LooksSound(line.row)
                  /\ PlaceSound(line))

(* A client finds the same cluster in every column as the server, and the  *)
(* same column for every cluster (src/base/buffer.cpp:158, 265).           *)
ColumnsAgree ==
  LET row == line.row IN
  line.wild \/ (/\ \A pos \in 0 .. row.clusters : XByPos(row.ranges, pos) = Column(row.text, pos)
                /\ \A x \in 0 .. row.columns :
                     PosByX(row.ranges, row.clusters, x) = Locate(row.text, x).pos)
=============================================================================
