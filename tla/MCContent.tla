------------------------------ MODULE MCContent ------------------------------
(***************************************************************************)
(* The terminal's content in one run of TLC: a behaviour is about the      *)
(* screen and its buffers (Screen), a client's copy of a buffer            *)
(* (BufferSync), the row the cursor is in (CellLine) or the regions of the *)
(* main buffer (Regions).  The variables of the other ones do not change.  *)
(***************************************************************************)
EXTENDS Screen, MCMarks

CONSTANTS CopyHeights, CopyCaps, CopyOps, CopyFetches

VARIABLES pc, buf, sized, deferred, watch, writer, fetch, client,
          late, odd, changes, fetches, line

copyOnly == <<pc, buf, sized, deferred, watch, writer, fetch, client, late, odd, changes, fetches>>
markOnly == <<main, job, child, jobState, alt, astray>>

Copy == INSTANCE BufferSync WITH
  Heights <- CopyHeights, Caps <- CopyCaps, MaxOps <- CopyOps, MaxFetches <- CopyFetches,
  left <- changes

Cells == INSTANCE CellLine WITH Width <- 4, Rights <- {2, 3}, Colours <- {0, 1}, Counts <- {1, 2}

NoCopy ==
  /\ pc = 0 /\ buf = 0 /\ sized = 0 /\ deferred = 0 /\ watch = 0 /\ writer = 0
  /\ fetch = 0 /\ client = 0 /\ late = 0 /\ odd = 0 /\ changes = 0 /\ fetches = 0

NoMarks == main = 0 /\ job = 0 /\ child = 0 /\ jobState = 0 /\ alt = 0 /\ astray = 0

ContentInit ==
  /\ \/ system = "screen" /\ NoCopy /\ line = 0 /\ NoMarks
     \/ system = "copy" /\ Copy!Init /\ line = 0 /\ NoMarks
     \/ system = "cells" /\ NoCopy /\ Cells!Init /\ NoMarks
     \/ system = "marks" /\ NoCopy /\ line = 0 /\ Region!Init
  /\ Init
  /\ system # "screen" => term.height = 1 /\ term.buf[0].cap = Min(Caps)

NoScreen == crowded' = TRUE /\ UNCHANGED <<term, left, arrived>>
ScreenStep == system = "screen" /\ Next /\ UNCHANGED <<copyOnly, line, markOnly>>
CopyStep == system = "copy" /\ Copy!Next /\ NoScreen /\ UNCHANGED <<line, markOnly>>
CellStep == system = "cells" /\ Cells!Next /\ NoScreen /\ UNCHANGED <<copyOnly, markOnly>>
MarkStep == system = "marks" /\ Region!Next /\ NoScreen /\ UNCHANGED <<copyOnly, line>>
ContentNext == UNCHANGED system /\ (ScreenStep \/ CopyStep \/ CellStep \/ MarkStep)
ContentSpec == ContentInit /\ [][ContentNext]_<<system, vars, copyOnly, line, markOnly>>
-----------------------------------------------------------------------------
(* BufferSync: once nothing is left to send the client shows the           *)
(* terminal's screen, and a row the client never asks for again is the     *)
(* terminal's (eventstate.cpp:99, writer.cpp:184, commands.cpp:633).       *)
CopyTrue == system = "copy" => Copy!ScreenShown /\ Copy!DownloadedTrue

(* CellLine: a row's counts, its runs and the place the cursor remembers   *)
(* stay true to its text, and the client finds every character in the      *)
(* column the server has it in (cell.cpp:69, screen.cpp:415).              *)
LineTrue == system = "cells" => Cells!RowSound /\ Cells!ColumnsAgree
=============================================================================
