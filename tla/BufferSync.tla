------------------------------ MODULE BufferSync ------------------------------
(***************************************************************************)
(* A terminal's main buffer and a client's copy of it.  The terminal's     *)
(* thread (src/mux/base/term.cpp) changes the buffer under the state lock, *)
(* pushes the changes into the client's watch and activates it, now or,    *)
(* when its output is rate limited, later.  The client's writer            *)
(* (writer.cpp, eventstate.cpp) sends what the watch holds as it is by     *)
(* then: a new length or capacity and the rows of the screen that changed. *)
(* Rows that have left the screen are sent on request: the client          *)
(* (src/src/base/buffer.cpp, fetchtimer.cpp, scrollport.cpp) asks for      *)
(* those of its scrollback it has not downloaded, and its reader           *)
(* (commands.cpp) answers beside the writer.                               *)
(* Messages are applied when they are sent: between the two the client     *)
(* only asks for rows, and a question may be on its way as long as it      *)
(* likes.                                                                  *)
(***************************************************************************)
EXTENDS TermBuffer

CONSTANTS Texts, Heights, Caps,
          MaxOps,    \* bound on the changes of the buffer
          MaxFetches \* bound on the rows asked for

VARIABLES
  pc,       \* the terminal's thread
  buf,      \* its buffer and the current event's changes
  sized,    \* the event's sizeChanged
  deferred, \* changes were pushed without activating the watch
  watch,    \* the client's watch: m_changedRows, flags, whether it is active
  writer,   \* the client's writer
  fetch,    \* the client's question and its answer
  client,   \* the client's copy
  late,     \* rows the client has from an answer that newer state has overtaken
  odd,      \* downloaded rows that may change without the client hearing of it
  left, fetches

vars == <<pc, buf, sized, deferred, watch, writer, fetch, client, late, odd, left, fetches>>

NoFetch == [pc |-> "none", row |-> 0, text |-> 0, late |-> FALSE, odd |-> FALSE]
-----------------------------------------------------------------------------
(* The client's buffer. *)
Blank == [text |-> 0, down |-> FALSE]
ClientSlot(c, i) == (i % c.cap) + 1
ClientRow(c, i) == c.rows[ClientSlot(c, i)]

(* Rows cleared, by their indexes, in a ring that now has n slots in use. *)
WithBlanks(c, n, indexes) ==
  LET slots == {ClientSlot(c, i) : i \in indexes}
  IN <<>> \o [s \in 1 .. n |-> IF s \in slots THEN Blank ELSE c.rows[s]]

Lengthened(c, size) ==
  [c EXCEPT !.rows = WithBlanks(c, SmallerOf(size, c.cap), c.size .. size - 1),
            !.size = size,
            !.origin = @ + LargerOf(0, size - LargerOf(c.size, c.cap))]

Shortened(c, size) ==
  [c EXCEPT !.rows = IF c.size - size >= c.cap THEN WithBlanks(c, SmallerOf(size, c.cap), 0 .. c.cap - 1)
                     ELSE WithBlanks(c, SmallerOf(size, c.cap), LargerOf(size, c.cap) .. c.size - 1),
            !.size = size,
            !.origin = IF size < c.cap THEN 0 ELSE @ - (c.size - size)]

ChangeLength(c, size) == IF c.size < size THEN Lengthened(c, size) ELSE Shortened(c, size)

(* The slots that stay, the oldest row first. *)
Turned(c, cap) ==
  LET end == c.size % c.cap
      start == IF c.size > cap THEN (end - cap) % c.cap ELSE 0
  IN IF c.cap < cap
     THEN SubSeq(c.rows, end + 1, Len(c.rows)) \o SubSeq(c.rows, 1, end)
     ELSE IF end >= start THEN SubSeq(c.rows, start + 1, end)
     ELSE SubSeq(c.rows, start + 1, Len(c.rows)) \o SubSeq(c.rows, 1, end)

(* Mutant: rows stay downloaded. *)
ChangeCapacityKept(c, size, cap) ==
  LET rows == Turned(c, cap)
  IN ChangeLength([c EXCEPT !.rows = rows, !.cap = cap, !.size = Len(rows), !.origin = 0], size)

(* Every row of the scrollback is to be fetched again. *)
ChangeCapacity(c, size, cap) ==
  LET turned == Turned(c, cap)
      rows == <<>> \o [s \in DOMAIN turned |-> [turned[s] EXCEPT !.down = FALSE]]
  IN ChangeLength([c EXCEPT !.rows = rows, !.cap = cap, !.size = Len(rows), !.origin = 0], size)

SetRow(c, i, row) ==
  IF i >= c.size THEN c ELSE [c EXCEPT !.rows[ClientSlot(c, i)] = row]

Pushed(text) == [text |-> text, down |-> FALSE]
Downloaded(text) == [text |-> text, down |-> TRUE]

Scrollback(c) == c.origin .. c.size - c.height - 1
IsDownloaded(i) == i < client.size /\ ClientRow(client, i).down
-----------------------------------------------------------------------------
(* The terminal's thread.  An event is a sequence of changes made under   *)
(* the state lock; what it changed is kept until the next one.             *)
Event == IF pc = "event" THEN buf ELSE ResetEventState(buf)

(* Where the buffer itself goes wrong (Screen) nothing is said of a copy. *)
Sound(b) == ~b.lost /\ Screen(b) \subseteq Kept(b)

(* Rows whose change is not going to be sent: they left the screen first.  *)
Forgotten(rows) == {i \in rows : IsDownloaded(i)}
AskedOf(rows) == fetch.pc # "none" /\ (fetch.odd \/ fetch.row \in rows)
Forget(rows) ==
  /\ odd' = odd \cup Forgotten(rows)
  /\ fetch' = [fetch EXCEPT !.odd = AskedOf(rows)]

Change(b) ==
  /\ pc \in {"idle", "event"} /\ left > 0 /\ Sound(b)
  /\ pc' = "event" /\ buf' = b /\ left' = left - 1
  /\ Forget(Event.changed \ b.changed)
  /\ UNCHANGED <<deferred, watch, writer, client, late, fetches>>

Text(i, text) ==
  /\ i \in Screen(buf) /\ Change(PutRow(Event, i, [text |-> text, cont |-> FALSE]))
  /\ UNCHANGED sized
ScrollUp == Change(InsertRow(Event, buf.size)) /\ UNCHANGED sized
EraseScrollback == buf.size > buf.height /\ Change(ClearScrollback(Event)) /\ UNCHANGED sized

(* A new size or capacity is an event of its own. *)
Resize(height, maxChop) ==
  /\ pc = "idle" /\ height # buf.height
  /\ Change(SetScreenHeight(Event, height, maxChop)) /\ sized' = TRUE
BufferResize(cap) ==
  /\ pc = "idle" /\ cap # buf.cap
  /\ Change(EnableScrollback(Event, cap)) /\ UNCHANGED sized

EndEvent ==
  /\ pc = "event"
  /\ pc' = "pushing"
  /\ UNCHANGED <<buf, sized, deferred, watch, writer, fetch, client, late, odd, left, fetches>>

(* Mutant: the rows of earlier events are replaced, not joined. *)
CombinedLast(b, rows) == {i \in b.changed : i >= b.size - b.height}

(* combineRows *)
Combined(b, rows) == {i \in rows \cup b.changed : i >= b.size - b.height}

Told(b) == b.told \cup (IF sized THEN {"size"} ELSE {})

(* pushChanges, with the event state that b has: the watch is activated    *)
(* unless the output is rate limited.                                      *)
Push(b, activate) ==
  LET rows == Combined(b, watch.rows)
  IN /\ buf' = b
     /\ watch' = [told |-> watch.told \cup Told(b), rows |-> rows,
                  active |-> watch.active \/ activate]
     /\ Forget((watch.rows \cup b.changed) \ rows)
     /\ pc' = "idle" /\ sized' = FALSE /\ deferred' = ~activate
     /\ UNCHANGED <<writer, client, late, left, fetches>>

PushChanges == pc = "pushing" /\ \E limited \in BOOLEAN : Push(buf, ~limited)

(* The idle terminal takes its flag back, which is an event that has       *)
(* changed nothing else (setFlag), and pushes that.                        *)
ResetRatelimit == pc = "idle" /\ deferred /\ Push(ResetEventState(buf), TRUE)
-----------------------------------------------------------------------------
(* The writer's thread sends the answers that wait, and then what the      *)
(* active watch holds.                                                     *)
Swap ==
  /\ writer = "idle" /\ (watch.active \/ fetch.pc = "queued")
  /\ watch' = [watch EXCEPT !.active = FALSE]
  /\ writer' = IF watch.active THEN "transfer" ELSE "idle"
  /\ IF fetch.pc # "queued" THEN UNCHANGED <<fetch, client, late, odd>>
     ELSE LET i == fetch.row
              here == i < client.size
              over == CHOOSE j \in i .. i + client.size : j >= client.origin /\ (j - i) % client.cap = 0
          IN /\ fetch' = NoFetch
             /\ client' = SetRow(client, i, Downloaded(fetch.text))
             /\ late' = IF here /\ fetch.late THEN late \cup {over} ELSE late \ {i}
             /\ odd' = IF here /\ (fetch.late \/ fetch.odd \/ over # i) THEN odd \cup {over} ELSE odd \ {i}
  /\ UNCHANGED <<pc, buf, sized, deferred, left, fetches>>

Rows == {i \in Combined(buf, watch.rows) : i < buf.size}

(* transferTermState, writeTermResponses *)
Sized(c) == IF "size" \in watch.told THEN [c EXCEPT !.height = buf.height] ELSE c
Counted(c) ==
  IF "capacity" \in watch.told THEN ChangeCapacity(c, buf.size, buf.cap)
  ELSE IF "length" \in watch.told THEN ChangeLength(c, buf.size) ELSE c
Updated(c) ==
  IF watch.rows = {} THEN c
  ELSE FoldSet(LAMBDA i, d : SetRow(d, i, Pushed(Row(buf, i).text)), c, Rows)
Transfer ==
  /\ writer = "transfer" /\ pc # "event"
  /\ client' = Updated(Sized(Counted(client)))
  /\ late' = IF "capacity" \in watch.told THEN {} ELSE IF watch.rows = {} THEN late ELSE late \ Rows
  /\ odd' = IF "capacity" \in watch.told THEN {} ELSE IF watch.rows = {} THEN odd
            ELSE (odd \cup Forgotten(watch.rows \cup buf.changed)) \ Rows
  /\ watch' = [watch EXCEPT !.told = {}, !.rows = {}]
  /\ fetch' = [fetch EXCEPT !.late = fetch.pc \in {"read", "queued"},
                            !.odd = AskedOf(watch.rows \ Rows)]
  /\ writer' = "idle"
  /\ UNCHANGED <<pc, buf, sized, deferred, left, fetches>>
-----------------------------------------------------------------------------
(* The client asks for a row of its scrollback: the timer's next one or    *)
(* one that is in view.                                                    *)
FetchRow(i) ==
  /\ fetch.pc = "none" /\ fetches > 0 /\ i \in Scrollback(client) /\ ~ClientRow(client, i).down
  /\ fetch' = [NoFetch EXCEPT !.pc = "asked", !.row = i] /\ fetches' = fetches - 1
  /\ UNCHANGED <<pc, buf, sized, deferred, watch, writer, client, late, odd, left>>

(* commandGetRows, in the client's reader. *)
GetRows ==
  /\ fetch.pc = "asked" /\ pc # "event"
  /\ fetch' = IF fetch.row >= buf.size THEN NoFetch
              ELSE [fetch EXCEPT !.pc = "read", !.text = Row(buf, fetch.row).text,
                                 !.odd = @ \/ fetch.row \notin Kept(buf) \ Screen(buf)]
  /\ UNCHANGED <<pc, buf, sized, deferred, watch, writer, client, late, odd, left, fetches>>

SubmitResponse ==
  /\ fetch.pc = "read"
  /\ fetch' = [fetch EXCEPT !.pc = "queued"]
  /\ UNCHANGED <<pc, buf, sized, deferred, watch, writer, client, late, odd, left, fetches>>
-----------------------------------------------------------------------------
Init ==
  /\ \E h \in Heights, cap \in Caps : buf = NewBuffer(h, cap, FALSE)
  /\ pc = "idle" /\ sized = FALSE /\ deferred = FALSE
  /\ watch = [told |-> {"length", "capacity", "size"}, rows |-> Screen(buf), active |-> TRUE]
  /\ writer = "idle" /\ fetch = NoFetch
  /\ client = [rows |-> <<>>, size |-> 0, cap |-> 1, origin |-> 0, height |-> 1]
  /\ late = {} /\ odd = {}
  /\ left = MaxOps /\ fetches = MaxFetches

Next ==
  \/ \E i \in 0 .. buf.size - 1, text \in Texts : Text(i, text)
  \/ ScrollUp \/ EraseScrollback
  \/ \E height \in Heights, maxChop \in 0 .. buf.height - 1 : Resize(height, maxChop)
  \/ \E cap \in Caps : BufferResize(cap)
  \/ EndEvent \/ PushChanges \/ ResetRatelimit
  \/ Swap \/ Transfer
  \/ \E i \in 0 .. client.size - 1 : FetchRow(i)
  \/ GetRows \/ SubmitResponse

Spec == Init /\ [][Next]_vars
-----------------------------------------------------------------------------
(* Both rings hold as many rows as their capacity allows. *)
TypeOK ==
  /\ Len(client.rows) = SmallerOf(client.size, client.cap)
  /\ client.origin = LargerOf(0, client.size - client.cap)
  /\ watch.told \subseteq {"length", "capacity", "size"}

(* Nothing is left to send. *)
Quiet == pc = "idle" /\ ~deferred /\ ~watch.active /\ writer = "idle"

(* However events, pushes and transfers come together, and whatever the    *)
(* rate limit holds back, the client ends with the terminal's screen.  An  *)
(* answer that newer state has overtaken may spoil a row (commands.cpp).   *)
ScreenShown ==
  Quiet =>
    /\ client.size = buf.size /\ client.cap = buf.cap /\ client.height = buf.height
    /\ \A i \in Screen(buf) \ late : ClientRow(client, i).text = Row(buf, i).text

(* A row the client takes for downloaded, and never asks for again, is the *)
(* terminal's row.                                                         *)
DownloadedTrue ==
  Quiet =>
    \A i \in (Kept(buf) \cap client.origin .. client.size - 1) \ (late \cup odd) :
      IsDownloaded(i) => ClientRow(client, i).text = Row(buf, i).text
=============================================================================
