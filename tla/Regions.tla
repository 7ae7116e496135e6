------------------------------ MODULE Regions -------------------------------
(***************************************************************************)
(* The regions of a terminal's main buffer: src/mux/base/region.cpp, the   *)
(* region operations of buffer.cpp, and the shell's jobs as screen.cpp     *)
(* marks them (OSC 133 A, B, C and D).  A region is kept by its id, by its *)
(* start and, once it has ended, by its end; the screen holds references   *)
(* of its own to the job it is in and to the job's current part.  All of   *)
(* this runs under the terminal's state lock; what is hard is the sequence *)
(* of marks, scrolling, erasing, resizing and clients' annotations.        *)
(* A position is row * Columns + column.                                   *)
(*   regions  the objects: type, parent, start, end, flags                 *)
(*   kept     m_regions and m_regionsByStart                               *)
(*   ended    m_regionsByEnd of the two buffers                            *)
(*   size     m_size                    next   m_nextRegionId              *)
(*   job, child, jobState  the screen's, 0 for no region                   *)
(*   alt      the alternate buffer is shown                                *)
(*   astray   the job was ended while the alternate buffer was shown       *)
(***************************************************************************)
EXTENDS Integers, FiniteSets, FiniteSetsExt, Functions

CONSTANTS Height, Capacity,   \* rows of the screen and of the main buffer
          Columns,            \* columns a position may have
          MaxIds, MaxRow      \* bounds on the regions and rows of a behaviour

VARIABLES buf, job, child, jobState, alt, astray

vars == <<buf, job, child, jobState, alt, astray>>

RowOf(pos) == pos \div Columns
Open == -1
Held == {job, child} \ {0}

(* Positions the cursor may be at: in the screen of the buffer shown. *)
Cursors ==
  LET first == IF alt THEN 0 ELSE buf.size - Height
  IN first * Columns .. (first + Height) * Columns - 1

NewRegion(type, parent, start, end, flags) ==
  [type |-> type, parent |-> parent, start |-> start, end |-> end, flags |-> flags]

Flagged(r, flag) == [r EXCEPT !.flags = @ \cup {flag}]
Mark(b, ids, flag) ==
  [b EXCEPT !.regions = [i \in DOMAIN @ |-> IF i \in ids THEN Flagged(@[i], flag) ELSE @[i]]]

(* Mutant: a region that goes stays in the order by end. *)
DeleteFromStart(b, ids, held) ==
  [b EXCEPT !.kept = @ \ ids,
            !.regions = Restrict(@, DOMAIN @ \ (ids \ held))]

(* deleteRegion: out of all the buffer's orders.  The object stays while   *)
(* the screen holds it.                                                    *)
Delete(b, ids, held) ==
  [b EXCEPT !.kept = @ \ ids, !.ended[0] = @ \ ids,
            !.regions = Restrict(@, DOMAIN @ \ (ids \ held))]

(* Mutant: a region that starts later is not overwritten but left.         *)
OverwriteNothing(b, pos) == b

Overwrite(b, pos) ==
  Mark(b, {i \in b.ended[0] : b.regions[i].end > pos /\ "deleted" \notin b.regions[i].flags},
       "overwritten")

From(b, pos, types) ==
  {i \in b.kept : /\ b.regions[i].type \in types /\ b.regions[i].start >= pos
                  /\ "deleted" \notin b.regions[i].flags}

JobTypes == {"job", "prompt", "command", "output"}

(* removeRegions: what starts behind the place is deleted, what reaches    *)
(* beyond it overwritten.                                                  *)
RemoveRegions(b, pos) == Overwrite(Mark(b, From(b, pos, JobTypes), "deleted"), pos)

(* addRegion: a new object, in the orders by id and by start. *)
AddRegion(b, id, region) ==
  [b EXCEPT !.next = id, !.kept = @ \cup {id},
            !.regions = [i \in DOMAIN @ \cup {id} |-> IF i = id THEN region ELSE @[i]]]

(* beginRegion. *)
BeginRegion(b, type, parent, pos) ==
  LET id == b.next + 1
      cleared == Overwrite(Mark(b, From(b, pos, {type}), "deleted"), pos)
  IN AddRegion(cleared, id, NewRegion(type, parent, pos, Open, {}))

(* Region::end and endRegion, in the buffer that is shown. *)
EndRegion(b, id, pos, shown) ==
  [b EXCEPT !.regions[id].end = Max({pos, b.regions[id].start}), !.regions[id].flags = @ \cup {"end"},
            !.ended[shown] = @ \cup {id}]

(* putReference by the screen, and what follows if the buffer still has    *)
(* the region.                                                             *)
LetGo(b, id, pos, shown) ==
  IF id \in b.kept THEN EndRegion(b, id, pos, shown)
  ELSE [b EXCEPT !.regions = Restrict(@, DOMAIN @ \ {id})]

Shown == IF alt THEN 1 ELSE 0

(* endJobRegions. *)
EndJob(b, pos) ==
  IF jobState = "none" THEN b ELSE LetGo(LetGo(b, child, pos, Shown), job, pos, Shown)
-----------------------------------------------------------------------------
(* OSC 133 A: the prompt begins, and a job with it. *)
PromptBegins ==
  \E pos \in Cursors :
    LET begun == BeginRegion(EndJob(buf, pos), "job", 0, pos)
        prompted == BeginRegion(begun, "prompt", begun.next, pos)
    IN /\ ~alt /\ buf.next + 2 <= MaxIds
       /\ buf' = prompted /\ job' = begun.next /\ child' = prompted.next
       /\ jobState' = "prompt" /\ UNCHANGED <<alt, astray>>

(* OSC 133 B and C: the prompt, or the command, ends and the next part     *)
(* begins; nothing happens to a job that the buffer has dropped.           *)
PartEnds(b, pos) ==
  IF child \in b.kept THEN Mark(LetGo(b, child, pos, Shown), {job}, jobState)
  ELSE LetGo(b, child, pos, Shown)
NextPart(before, after) ==
  \E pos \in Cursors :
    LET begun == BeginRegion(PartEnds(buf, pos), after, job, pos)
    IN /\ ~alt /\ jobState = before /\ job \in buf.kept /\ buf.next < MaxIds
       /\ buf' = begun /\ child' = begun.next /\ jobState' = after
       /\ UNCHANGED <<job, alt, astray>>
CommandBegins == NextPart("prompt", "command")
OutputBegins == NextPart("command", "output")

(* OSC 133 D. *)
OutputEnds ==
  \E pos \in Cursors :
    LET parted == IF child \in buf.kept
                  THEN [EndRegion(buf, child, pos, Shown)
                          EXCEPT !.regions[job].flags = @ \cup {"output"}]
                  ELSE LetGo(buf, child, pos, Shown)
    IN /\ ~alt /\ jobState = "output"
       /\ buf' = LetGo(parted, job, pos, Shown)
       /\ job' = 0 /\ child' = 0 /\ jobState' = "none" /\ UNCHANGED <<alt, astray>>

(* A reset ends the job, in the buffer that is shown, and shows the main   *)
(* one.                                                                    *)
Reset ==
  \E pos \in Cursors :
    /\ buf' = EndJob(buf, pos)
    /\ astray' = (astray \/ (alt /\ Held \cap buf.kept # {}))
    /\ job' = 0 /\ child' = 0 /\ jobState' = "none" /\ alt' = FALSE

SwitchBuffer == alt' = ~alt /\ UNCHANGED <<buf, job, child, jobState, astray>>

(* Erasing in the display, in the main buffer. *)
EraseFrom ==
  /\ ~alt /\ \E pos \in Cursors : buf' = RemoveRegions(buf, pos)
  /\ UNCHANGED <<job, child, jobState, alt, astray>>

(* Mutant: a region that starts in the row that is dropped stays. *)
InsertRowLate(b, held) ==
  LET gone == {i \in b.kept : RowOf(b.regions[i].start) < b.size - Capacity}
  IN [IF b.size >= Capacity THEN Delete(b, gone, held) ELSE b EXCEPT !.size = @ + 1]

(* insertRow: the oldest row goes when the buffer is full, and the regions *)
(* that start in it.                                                       *)
InsertRow(b, held) ==
  LET gone == {i \in b.kept : RowOf(b.regions[i].start) <= b.size - Capacity}
  IN [IF b.size >= Capacity THEN Delete(b, gone, held) ELSE b EXCEPT !.size = @ + 1]

ScrollUp ==
  /\ ~alt /\ buf.size < MaxRow /\ buf' = InsertRow(buf, Held)
  /\ UNCHANGED <<job, child, jobState, alt, astray>>

(* setCaporder and clearScrollback: the first n rows go, and the rows are  *)
(* numbered anew.                                                          *)
DropRows(b, n, held) ==
  LET gone == {i \in b.kept : RowOf(b.regions[i].start) < n}
      left == Delete(b, gone, held)
      Moved(i) == [left.regions[i] EXCEPT
                     !.start = IF i \in left.kept THEN @ - n * Columns ELSE @,
                     !.end = IF i \in left.ended[0] THEN @ - n * Columns ELSE @]
  IN [left EXCEPT !.size = @ - n, !.regions = [i \in DOMAIN @ |-> Moved(i)]]
ClearScrollback ==
  \E n \in 1 .. buf.size - Height :
    /\ buf' = DropRows(buf, n, Held) /\ UNCHANGED <<job, child, jobState, alt, astray>>

(* addUserRegion: a client's annotation replaces those it finds in the     *)
(* rows it covers (whole rows here); one that begins above and ends below  *)
(* is not found.                                                           *)
Overlap(r, s) == r.start < s.end /\ s.start < r.end
AddUserRegion ==
  \E first \in 0 .. buf.size - 1 : \E last \in first .. buf.size - 1 :
    LET id == buf.next + 1
        new == NewRegion("user", 0, first * Columns, (last + 1) * Columns - 1, {"end"})
        rows == first .. last
        found == {i \in buf.kept : /\ buf.regions[i].type = "user" /\ Overlap(new, buf.regions[i])
                                   /\ {RowOf(buf.regions[i].start), RowOf(buf.regions[i].end)}
                                        \cap rows # {}}
        cleared == Delete(buf, found, {})
    IN /\ id <= MaxIds
       /\ buf' = [AddRegion(cleared, id, new) EXCEPT !.ended[0] = @ \cup {id}]
       /\ UNCHANGED <<job, child, jobState, alt, astray>>

RemoveUserRegion ==
  \E i \in buf.kept :
    /\ buf.regions[i].type = "user" /\ "deleted" \notin buf.regions[i].flags
    /\ buf' = [buf EXCEPT !.regions[i].flags = @ \cup {"deleted"}]
    /\ UNCHANGED <<job, child, jobState, alt, astray>>

Init ==
  /\ buf = [regions |-> <<>>, kept |-> {}, ended |-> [k \in 0 .. 1 |-> {}],
            size |-> Height, next |-> 0]
  /\ job = 0 /\ child = 0 /\ jobState = "none" /\ alt = FALSE /\ astray = FALSE

Next ==
  ~astray /\ (\/ PromptBegins \/ CommandBegins \/ OutputBegins \/ OutputEnds \/ Reset
              \/ SwitchBuffer \/ EraseFrom \/ ScrollUp \/ ClearScrollback
              \/ AddUserRegion \/ RemoveUserRegion)

Spec == Init /\ [][Next]_vars
-----------------------------------------------------------------------------
(* The orders of the buffer hold the same regions, none that is gone; what *)
(* the screen holds still exists; every region of the shell starts in a    *)
(* row that is kept, and ends behind its start (buffer.cpp:68, 139).       *)
OrdersSound ==
  /\ DOMAIN buf.regions = buf.kept \cup Held
  /\ buf.ended[0] = {i \in buf.kept : buf.regions[i].end # Open}
  /\ buf.ended[1] = {}
  /\ \A i \in buf.kept :
       /\ buf.regions[i].type # "user" => RowOf(buf.regions[i].start) >= buf.size - Capacity
       /\ i \in buf.ended[0] => buf.regions[i].start <= buf.regions[i].end

(* Two of the shell's regions of one kind that still stand never overlap,  *)
(* and only the last of them is open (buffer.cpp:483).                     *)
Standing == {i \in buf.kept : /\ buf.regions[i].type \in JobTypes
                              /\ buf.regions[i].flags \cap {"deleted", "overwritten"} = {}}
JobsApart ==
  \A i, k \in Standing :
    LET r == buf.regions[i]  s == buf.regions[k] IN
    (i < k /\ r.type = s.type) => (r.end # Open /\ r.end <= s.start)

RegionsSound == astray \/ (OrdersSound /\ JobsApart)

(* The same of a buffer whose references the screen holds are `held`, with  *)
(* what keeps it true: a region is open exactly as long as the screen       *)
(* holds it, regions are numbered, and the rows of the screen are kept.     *)
Flags == {"end", "deleted", "overwritten", "prompt", "command", "output"}
RegionType ==
  [type : JobTypes \cup {"user"}, parent : Nat, start : Nat, end : Nat \cup {Open},
   flags : SUBSET Flags]
RegionRight(b, held, i) ==
  LET r == b.regions[i] IN
  /\ r.type # "user" => RowOf(r.start) >= b.size - Capacity
  /\ r.end # Open => r.start <= r.end
  /\ r.end = Open <=> i \in held
BufferRight(b, held) ==
  /\ b = [regions |-> b.regions, kept |-> b.kept, ended |-> b.ended, size |-> b.size, next |-> b.next]
  /\ b.next \in Nat /\ b.size \in Nat /\ b.size >= Height
  /\ b.regions = [i \in b.kept \cup held |-> b.regions[i]]
  /\ b.kept \cup held \subseteq 1 .. b.next
  /\ \A i \in b.kept \cup held : b.regions[i] \in RegionType
  /\ b.ended = [k \in 0 .. 1 |-> IF k = 0 THEN {i \in b.kept : b.regions[i].end # Open} ELSE {}]
  /\ \A i \in b.kept : RegionRight(b, held, i)
  /\ \A i \in held : b.regions[i].type # "user"
  /\ \A i, k \in b.kept :
       /\ {b.regions[i].type, b.regions[k].type} \subseteq JobTypes
       /\ {"deleted", "overwritten"} \cap (b.regions[i].flags \cup b.regions[k].flags) = {}
       /\ i < k /\ b.regions[i].type = b.regions[k].type
       => b.regions[i].end # Open /\ b.regions[i].end <= b.regions[k].start

(* The screen holds a job and its current part, or nothing. *)
ScreenRight ==
  /\ jobState \in {"none", "prompt", "command", "output"} /\ alt \in BOOLEAN
  /\ jobState = "none" => job = 0 /\ child = 0
  /\ jobState # "none" =>
       /\ job \in Nat \ {0} /\ child \in Nat \ {0}
       /\ buf.regions[job].type = "job" /\ buf.regions[child].type = jobState

IInv == astray \in BOOLEAN /\ (astray \/ (BufferRight(buf, Held) /\ ScreenRight))
=============================================================================
