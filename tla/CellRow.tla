------------------------------ MODULE CellRow -------------------------------
(***************************************************************************)
(* A row of cells, src/mux/base/cell.cpp: the text as clusters one or two  *)
(* columns wide, and their attributes as runs ("ranges") of clusters.      *)
(* A row is a record:                                                      *)
(*   text      m_str: each cluster's width w, and in a the look that was   *)
(*             last given to it, which the code keeps only in the ranges   *)
(*   ranges    m_ranges: first s and last e cluster, counted from 0, and   *)
(*             the look of the run; clusters in no run are plain           *)
(*   clusters  m_clusters     columns  m_columns                           *)
(* A look is a colour, which stands for every flag and colour that the     *)
(* program may set, and wide, for the flags of double-width characters     *)
(* (PerCharFlags).  Byte offsets into the text are counts of clusters.     *)
(***************************************************************************)
EXTENDS Integers, Sequences, FiniteSets, FiniteSetsExt

Plain == [c |-> 0, wide |-> FALSE]
Narrowed(a) == [a EXCEPT !.wide = FALSE]   \* a.flags &= ~PerCharFlags
Blanks(n) == [i \in 1 .. n |-> [w |-> 1, a |-> Plain]]
EmptyRow == [text |-> <<>>, ranges |-> <<>>, clusters |-> 0, columns |-> 0]

(* The column where cluster i of a text begins. *)
Column(text, i) == i + Cardinality({k \in 1 .. i : text[k].w = 2})

(* text with its clusters from i up to but not j replaced. *)
Replaced(text, i, j, new) == SubSeq(text, 1, i) \o new \o SubSeq(text, j + 1, Len(text))

(* The clusters the runs cover, and the look they give to cluster pos. *)
Covers(r, pos) == r.s <= pos /\ pos <= r.e
LookAt(rs, pos) ==
  IF \E i \in DOMAIN rs : Covers(rs[i], pos)
  THEN rs[CHOOSE i \in DOMAIN rs : Covers(rs[i], pos)].a ELSE Plain

(* The first run that ends at pos or later, or one past the last. *)
FirstFrom(rs, pos) == Min({i \in DOMAIN rs : rs[i].e >= pos} \cup {Len(rs) + 1})
-----------------------------------------------------------------------------
(* coalesceRanges.  The second check reads what lies behind the vector     *)
(* when the run at i was the last and has just been removed: that is the   *)
(* removed run itself, which never continues the one before it.            *)
Join(rs, i) ==
  IF i \in 1 .. Len(rs) - 1 /\ rs[i].e + 1 = rs[i + 1].s /\ rs[i].a = rs[i + 1].a
  THEN SubSeq(rs, 1, i - 1) \o <<[rs[i] EXCEPT !.e = rs[i + 1].e]>>
         \o SubSeq(rs, i + 2, Len(rs))
  ELSE rs
Coalesce(rs, i) == Join(Join(rs, i), i - 1)

(* updateRanges: cluster pos gets the look a.  What is left of the run it  *)
(* was in stays on both sides.                                             *)
UpdateRanges(rs, pos, a) ==
  LET i == FirstFrom(rs, pos)
      within == i <= Len(rs) /\ rs[i].s <= pos
      new == IF a = Plain THEN <<>> ELSE <<[s |-> pos, e |-> pos, a |-> a]>>
      left == IF within /\ rs[i].s < pos THEN <<[rs[i] EXCEPT !.e = pos - 1]>> ELSE <<>>
      right == IF within /\ pos < rs[i].e THEN <<[rs[i] EXCEPT !.s = pos + 1]>> ELSE <<>>
      before == SubSeq(rs, 1, i - 1) \o left
      set == before \o new \o right \o SubSeq(rs, IF within THEN i + 1 ELSE i, Len(rs))
      alone == left = <<>> /\ right = <<>>
  IN CASE (within /\ rs[i].a = a) \/ (~within /\ a = Plain) -> rs
       [] alone \/ (new # <<>> /\ (left = <<>> \/ right = <<>>)) -> Coalesce(set, Len(before) + 1)
       [] OTHER -> set

(* Mutant: the flags of the double-width character stay on its halves. *)
KeepCharFlags(rs, pos) == rs

(* splitChar and mergeChars: the first run that ends at pos or later gives *)
(* its look, without the flags of double-width characters, to cluster pos. *)
DropCharFlags(rs, pos) ==
  LET i == FirstFrom(rs, pos)
  IN IF i > Len(rs) THEN rs ELSE UpdateRanges(rs, pos, Narrowed(rs[i].a))

(* Runs move to the right, or grow, where a cluster comes in at pos. *)
Widened(rs, pos) ==
  [i \in DOMAIN rs |-> [rs[i] EXCEPT !.s = IF @ > pos THEN @ + 1 ELSE @,
                                     !.e = IF @ >= pos THEN @ + 1 ELSE @]]

(* splitChar: the double-width cluster at becomes two blanks. *)
SplitChar(row, at, pos) ==
  LET half == [w |-> 1, a |-> Narrowed(row.text[at + 1].a)]
  IN [row EXCEPT !.text = Replaced(@, at, at + 1, <<half, half>>),
                 !.ranges = Widened(DropCharFlags(@, pos), pos),
                 !.clusters = @ + 1]

(* Mutant: the runs that meet when the one between them goes are kept      *)
(* apart.                                                                  *)
WithoutClusterApart(rs, pos) ==
  LET shrunk == [i \in DOMAIN rs |-> [rs[i] EXCEPT !.s = IF @ > pos THEN @ - 1 ELSE @,
                                                   !.e = IF @ >= pos THEN @ - 1 ELSE @]]
  IN SelectSeq(shrunk, LAMBDA r : r.s <= r.e)

(* removeChar: the runs without the cluster at pos.  Two that meet there   *)
(* are joined.                                                             *)
WithoutCluster(rs, pos) ==
  LET shrunk == [i \in DOMAIN rs |-> [rs[i] EXCEPT !.s = IF @ > pos THEN @ - 1 ELSE @,
                                                   !.e = IF @ >= pos THEN @ - 1 ELSE @]]
      kept == SelectSeq(shrunk, LAMBDA r : r.s <= r.e)
      meets == {i \in 2 .. Len(kept) : kept[i].s = pos /\ \E r \in DOMAIN rs : rs[r].s = pos + 1}
  IN IF pos = 0 \/ meets = {} THEN kept ELSE Coalesce(kept, Max(meets))

RemoveChar(row, at, pos) ==
  [row EXCEPT !.text = Replaced(@, at, at + 1, <<>>),
              !.ranges = WithoutCluster(@, pos),
              !.clusters = @ - 1]

(* mergeChars: a cluster is about to be written over the single-width one  *)
(* at and what follows it, which goes, or is left with its right half.     *)
MergeChars(row, at, pos) ==
  IF at + 1 = Len(row.text) THEN [row EXCEPT !.columns = @ + 1]
  ELSE IF row.text[at + 2].w = 1 THEN RemoveChar(row, at + 1, pos + 1)
  ELSE [row EXCEPT
          !.text[at + 2] = [w |-> 1, a |-> Narrowed(@.a)],
          !.ranges = DropCharFlags(@, pos + 1)]
-----------------------------------------------------------------------------
(* updateCursor: where column x is. *)
PlaceIn(text, x, k) ==
  [at |-> k,
   pos |-> IF k = Len(text) THEN k + (x - Column(text, k)) ELSE k,
   half |-> IF k = Len(text) THEN "none"
            ELSE IF Column(text, k) < x THEN "right"
            ELSE IF text[k + 1].w = 2 THEN "left" ELSE "none"]
Locate(text, x) == PlaceIn(text, x, Max({i \in 0 .. Len(text) : Column(text, i) <= x}))

(* A position inside a double-width cluster, once it is split, is its      *)
(* second blank.                                                           *)
OpenedAt(row, p) ==
  IF p.half = "right"
  THEN [row |-> SplitChar(row, p.at, p.pos), at |-> p.at + 1, pos |-> p.pos + 1]
  ELSE [row |-> row, at |-> p.at, pos |-> p.pos]
Opened(row, x) == OpenedAt(row, Locate(row.text, x))

Pad(row, n) ==
  [row EXCEPT !.text = @ \o Blanks(n), !.clusters = @ + n, !.columns = @ + n]

(* append, which joins the cluster to the last run if that ends the row. *)
AppendCell(row, a, width) ==
  LET rs == row.ranges
      last == Len(rs)
      next == row.clusters
  IN [text |-> row.text \o <<[w |-> width, a |-> a]>>,
      ranges |-> IF last > 0 /\ rs[last].e = next - 1 /\ rs[last].a = a
                 THEN [rs EXCEPT ![last].e = next]
                 ELSE IF a = Plain THEN rs
                 ELSE rs \o <<[s |-> next, e |-> next, a |-> a]>>,
      clusters |-> next + 1, columns |-> row.columns + width]

(* insert: a blank at column x.  A run it falls into is cut in two. *)
InsertAt(o) ==
  LET Moved(r) ==
        IF r.s >= o.pos THEN <<[r EXCEPT !.s = @ + 1, !.e = @ + 1]>>
        ELSE IF r.e >= o.pos
        THEN <<[r EXCEPT !.e = o.pos - 1], [r EXCEPT !.s = o.pos + 1, !.e = @ + 1]>>
        ELSE <<r>>
      From[i \in 0 .. Len(o.row.ranges)] ==
        IF i = 0 THEN <<>> ELSE From[i - 1] \o Moved(o.row.ranges[i])
  IN [text |-> Replaced(o.row.text, o.at, o.at, Blanks(1)),
      ranges |-> From[Len(o.row.ranges)],
      clusters |-> o.row.clusters + 1, columns |-> o.row.columns + 1]
Insert(row, x) == InsertAt(Opened(row, x))

(* remove: the column x goes; the other half of a double-width cluster     *)
(* stays as a blank.                                                       *)
RemoveAt(row, p) ==
  LET split == IF p.half = "none" THEN row ELSE SplitChar(row, p.at, p.pos)
      step == IF p.half = "right" THEN 1 ELSE 0
  IN [RemoveChar(split, p.at + step, p.pos + step) EXCEPT !.columns = @ - 1]
Remove(row, x) == RemoveAt(row, Locate(row.text, x))

(* replace, at the place the cursor holds: what is there is split or       *)
(* merged until the new cluster fits.  The cursor moves to the second half *)
(* of a cluster it was in the middle of.                                   *)
Replace(row, c, a, width) ==
  LET step == IF c.half = "right" THEN 1 ELSE 0
      at == c.at + step
      pos == c.pos + step
      halved == IF c.half = "right" THEN SplitChar(row, c.at, c.pos) ELSE row
      old == IF c.half = "left" THEN 2 ELSE 1
      fitted == IF old > width THEN SplitChar(halved, at, pos)
                ELSE IF old < width THEN MergeChars(halved, at, pos) ELSE halved
  IN [row |-> [fitted EXCEPT !.text = Replaced(@, at, at + 1, <<[w |-> width, a |-> a]>>),
                             !.ranges = UpdateRanges(@, pos, a)],
      at |-> at, pos |-> pos]

(* resize: the columns from x on go. *)
CutAt(o, x) ==
  LET cut == [i \in DOMAIN o.row.ranges |->
                [o.row.ranges[i] EXCEPT !.e = IF @ >= o.pos THEN o.pos - 1 ELSE @]]
  IN [text |-> SubSeq(o.row.text, 1, o.at),
      ranges |-> SelectSeq(cut, LAMBDA r : r.s < o.pos),
      clusters |-> o.pos, columns |-> x]
Resize(row, x) == IF row.columns <= x THEN row ELSE CutAt(Opened(row, x), x)
-----------------------------------------------------------------------------
(* The runs without the clusters from i up to but not j. *)
RangesWithout(rs, i, j) ==
  LET Parts(r) ==
        (IF r.s < i THEN <<[r EXCEPT !.e = IF @ >= i THEN i - 1 ELSE @]>> ELSE <<>>)
          \o (IF r.e >= j THEN <<[r EXCEPT !.s = IF @ < j THEN j ELSE @]>> ELSE <<>>)
      From[k \in 0 .. Len(rs)] == IF k = 0 THEN <<>> ELSE From[k - 1] \o Parts(rs[k])
  IN From[Len(rs)]

(* erase: blanks from startx up to but not endx.  Double-width clusters    *)
(* that are wholly inside give more blanks than they were clusters; the    *)
(* runs behind them are not moved.                                         *)
BlankTo(start, end, n) ==
  [end.row EXCEPT !.text = Replaced(@, start.at, end.at, Blanks(n)),
                  !.clusters = @ + n - (end.pos - start.pos),
                  !.ranges = RangesWithout(@, start.pos, end.pos)]
BlankFrom(start, stop, n) == BlankTo(start, Opened(start.row, stop), n)
EraseUpto(row, startx, stop) ==
  IF startx >= stop THEN row ELSE BlankFrom(Opened(row, startx), stop, stop - startx)
Erase(row, startx, endx) == EraseUpto(row, startx, Min({endx, row.columns}))

(* Whether an erasure leaves runs that no longer fit the text. *)
Displaced(start, end, n) ==
  n # end.pos - start.pos /\ \E i \in DOMAIN end.row.ranges : end.row.ranges[i].e >= end.pos
DisplacedFrom(start, stop, n) == Displaced(start, Opened(start.row, stop), n)
Displaces(row, startx, endx) ==
  LET stop == Min({endx, row.columns})
  IN startx < stop /\ DisplacedFrom(Opened(row, startx), stop, stop - startx)

(* selectiveErase: column by column, but for the protected ones. *)
IsProtected(row, x) == LookAt(row.ranges, Locate(row.text, x).pos).c = 1
EraseUnprotected(row, x) == IF IsProtected(row, x) THEN row ELSE Erase(row, x, x + 1)
SelectiveErase(row, startx, endx) ==
  LET stop == Max({startx, Min({endx, row.columns})})
      Upto[x \in startx .. stop] ==
        IF x = startx THEN row ELSE EraseUnprotected(Upto[x - 1], x - 1)
  IN Upto[stop]
=============================================================================
