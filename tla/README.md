# Verification of TermySequence

TermySequence is a terminal multiplexer: a server (`mux/`) runs terminals and
tasks, a graphical client (`src/`) shows them, and servers connect to each
other, so that a client sees the terminals of every server it can reach. This
directory holds TLA+ modules for the server's core, with the parts of the client
that complete a protocol, the TLC configurations that check them, and
machine-checked proofs (TLAPS). The difficulty is of two kinds. Every client,
terminal, connection and task of the server is one or more threads, and they
share objects that any of them may be leaving. And the content of a terminal
(rows, cells, regions, the cursor) is kept in several forms at once, which long
sequences of legal operations must keep in agreement.
Paths below are relative to the repository (`mux/base/...`).

Contents: [the system](#the-system) · [modules](#modules) · [runs](#runs) ·
[findings](#findings) · [what the models exempt](#what-the-models-exempt) ·
[seen while modelling](#seen-while-modelling) · [fairness](#fairness) ·
[proofs](#proofs) · [not modelled](#not-modelled) · [plan](#plan)

## The system

### Inventory

| Component | Code | State | Hard behaviour | What makes it correct | Module |
|---|---|---|---|---|---|
| Thread work queue | `threadbase.*`, `os/eventfd.h` | `m_workQueue`, event descriptor | the event is written after the unlock | no lost wakeup, each item once and in order, no touch of a deleted thread | `WorkQueue` |
| Watches | `basewatch.*` and its four kinds | two references, `m_active`, `m_closing` | four threads share one watch | released once, no use after free, order on the wire, a closing object ends | `WatchLifecycle` |
| Reader and writer | `reader.*`, `writer.*` | watches, responses, active and closing sets | a writer fails while its reader works | no pointer to a deleted thread, no change forgotten | `WatchLifecycle`, `AttributeSync` |
| Attributes | `attributebase.*`, `basewatch.cpp` | a map per object, changes per watch | written under one lock, pushed under another | every client ends with the object's values | `AttributeSync` |
| Proxies | `conn.*`, `baseproxy.*`, `serverproxy.*`, `termproxy.*` | known, ignored, active, removing ids; the listener's tables | two connections, one id; a lost connection with proxies still held | routes and maps agree, nothing left of a lost connection | `ProxyRegistry` |
| Listener and shutdown | `listener.*`, `mux/app/main.cpp` | lists of readers, terminals, tasks; signal flags | threads create others while the server stops | nobody left behind, ids unique, the shutdown ends | `ServerShutdown` |
| Ownership | `listener.cpp`, `conn.cpp`, `commands.cpp` | clients in hop order, owner per terminal | changes applied after the client has gone | an owner is a present client that takes ownership | `Ownership` |
| Reaper | `zombies.cpp` | registered pids, orphan statuses | exit before registration | each status reaches its owner | `Reaper` |
| Terminal process | `term.cpp`, `status.cpp`, `os/process.cpp` | child, descriptor, outcome, idle timer | exit, end of file and restart in any order | an ended child is reported once; held-back output is shown | `Reaper`, `RateLimit` |
| systemd scoper | `mux/systemd/` | scopes by terminal and by unit | asynchronous bus, terminals that are gone | a child waits for its own scope and no longer | `Scoper` |
| Attribute monitor | `monitor.cpp`, `os/attr.cpp` | map of a reload, partial line | processes stopped in the middle of a line | attributes are what the running process said last | `AttrMonitor` |
| File monitor | `filemon.cpp`, `termwatch.cpp`, `termproxy.cpp`, client `filetracker.cpp` | watch, batches, maps of messages, copies | a directory changes while it is read, and is left | the client shows the current directory as it is | `FileMonitor` |
| Task flow control | `taskbase.*`, `output.*`, `conn.cpp` | set of throttling hops | a resume may overtake the pause it answers | a paused task is owed a resume | `FlowControl` |
| File tasks | `uploadtask`, `downloadtask`, client counterparts | bytes sent and acknowledged, question pending | window and throttle stop one descriptor; failure anywhere | files are whole or untouched; transfers end | `FlowControl`, `Upload` |
| Port forwarding | `portfwdtask`, `portintask`, `portouttask`, client counterparts | sockets by id, partial writes, one window | bytes dropped with a connection | streams intact, window accounted | `PortForward` |
| Run and connect tasks | `runtask`, `connectbase`, `connecttask`, `mux/app/connector.cpp` | child, pipes, handshake | three threads share one connection | each message finds the state that awaits it | `Reaper`, `Connect` |
| Forwarder and handshake | `forwarder.cpp`, `servermachine`, `clientmachine` | two copiers, status byte | ends of four threads in any order | output in order and whole on a clean exit | `Forwarder`, `Connect` |
| Buffers and screen | `buffer.cpp`, `screen.cpp` | ring of rows, cursor, two buffers | growth and wrap of the ring, references into it | the ring is the list of the newest rows | `TermBuffer`, `LineList`, `Screen` |
| Regions | `region.cpp`, `buffer.cpp`, `screen.cpp` | three indexes, the current job | marks, scrolling, erasing, annotations | the indexes agree, no dangling job | `Regions` |
| Terminal updates | `eventstate.cpp`, `writer.cpp`, client `buffer.cpp`, `fetchtimer.cpp` | changed rows per watch | sent as the buffer is then; fetched rows beside it | the client's copy is true | `BufferSync` |
| Cells and rows | `cell.cpp`, `screen.cpp`, `xterm.cpp` | text, runs of attributes, counts, the cursor's place | updated apart | they agree, and the client finds the columns | `CellRow`, `CellLine` |
| Emulator | `mux/xterm/` | parser state, modes, charsets | none concurrent | what a sequence does is in the content modules | in part |
| Protocol framing | `lib/` | partial message | none concurrent | - | - |
| Configuration, OS layer | `mux/app/args.cpp`, `os/` | - | - | - | - |
| Qt client, the rest | `src/` | windows, settings, scripting | one thread | - | - |
| Tests, vendored code | `test/`, `vendor/` | - | - | - | - |

### How the parts interact

Threads own their objects and ask each other through work queues; a queue item
is a code and a pointer. The *listener* adds and removes everything else. When a
client has shaken hands the listener gives it a *watch* on every terminal,
connection and proxy (`addConnWatch`): the watch enters the object's
`m_watches`, then the writer's set, then the reader's queue. Objects push
changes into their watches under their own lock and activate them with the
writer; the writer sends what it finds and drops its reference at the end.
Readers and connections also call straight into the listener under its lock
(registrations, routing, ownership, tasks), which is why what the listener
*thread* knows lags behind what other threads see.

A connection to another server (`ConnInstance`) speaks the client side of the
protocol: what the peer announces becomes a proxy, an object like any other to
local clients. A task's output goes to its client through `forwardToClient`,
over any number of servers.

A terminal's thread reads its child's output and steps the emulator, which
writes rows and regions into the buffers under the state lock and notes what has
changed; `pushChanges` leaves the notes with every watch. Beside it work its file
monitor (a thread of its own), the reaper and the scoper (one thread each
for the server), which hear of children by pid and of scopes by unit name and
look up whom that concerns.

## Modules

| Module | Models | State ↔ code | Actions ↔ code |
|---|---|---|---|
| `Mailbox` | abstract promise of a work queue | items not yet taken | post, take, close |
| `WorkQueue` | `ThreadBase` | `queue` = `m_workQueue`, `event` = the eventfd, `signalled` = `m_signaled`, `workFirst` = which of the two loops | `SendWork`/`SetEvent` = `sendWork` before and after the unlock, `CommitWork`, `Poll`, `HandleFd`, `ClearEvent`, `NextWorkItem`, `HandleWork`, idle and interrupt exits |
| `WatchLifecycle` | all watches on one object | `watch[r]` = the `BaseWatch`, `reader[r]`, `writer[r]` with its swapped copies, `job` = how far `addConnWatch` has got, `owner` = the object | one action per handler and per unlocked stretch of one; `ReaderGone` ... `ListenerRemoveReader` = the end and the destructor of a reader |
| `ProxyRegistry` | `ConnInstance`'s proxies and the listener's tables | `conn[c].known/ignored/active/removing`, `registered` = `m_serverConns`, `m_proxyConns`, `mapped` = `m_serverMap`, `m_proxyMap` | `Wire...` = the handlers of the peer's messages, `Disconnect`, `HandleReleased`, the listener's four handlers as `HandleAdd` and `HandleRemove` |
| `AttributeSync` | `AttributeBase`, the attribute part of watches and writers | `attrs`, `watch[r][o].pend` = `m_changedAttributes`, `writer[r].transfer` = `m_transfer`, `held` = the side set before `unblock` | the three ways of changing attributes, each split where it changes locks; the writer's stages |
| `ServerShutdown` | `TermListener` as a server | `readers`, `terms`, `taskMap`, `taskTargets`, `interrupted`, `signal` = `s_deathSignal`, `state[x]` = the thread | the loop's stages, the add and remove handlers, `Interrupt`, creation by clients and tasks, the end of a thread |
| `Ownership` | clients, owners of terminals | `known`, `ignored` per reader, `order` = the listener's clients by hops, `owner` | announce, remove, disconnect of a reader, change of owner, the listener's queue |
| `Reaper` | children and the reaper | `registered`, `orphans`, per owner its child and what it has heard | fork, register, abandon, `wait` and the lookup behind it, the owner's two ends, restart |
| `RateLimit` | a terminal's own thread | `rate` = `m_rateStatus`, `timeout` = `m_timeout`, `flags`, `watch` = what is pending and whether the writer was woken | `handleFd`, `handleWork`'s cases, `handleIdle`, `halt`, the writer |
| `Scoper` | `TermScoper`, the terminals, the children that wait, systemd | `terms` = `m_terms`, `units` = `m_units`, `scope[n]` = `ScopeInfo`, pipe and child | `launch` in its steps, `unregisterTerm`, `handleCreate`, `handleAbandon`, `handleJob`, the loss of the bus |
| `AttrMonitor` | `TermMonitor` | `state`, `map`, `accum` | `handleFd` with reads cut anywhere, `handleRestart`, `stateChange` |
| `FileMonitor` | `TermFilemon` to the client | `mon` = the thread's own, `watch`, `proxy`, `tracker` = the client's | the monitor's handlers, inotify and `readdir`, `pushFileUpdates`, the transfer, the proxy's and the client's handlers |
| `FlowControl` | a download over two hops | `throttles` = `m_throttles`, `writer[h]`, `net`, `back` | task, relay and writer steps, pause and resume |
| `Upload` | an upload | `disk`, `task`, `client`, messages both ways | the task's handlers, questions, cancelation, the client's notifier |
| `PortForward` | port forwarding | `end["server"]`, `end["client"]`, `chan` | accept, connect, read, write, acknowledge, close at each end |
| `Forwarder` | `termy-server` in a terminal, with the reader it talks to | the four threads' program points, `pair`, `ctrl`, `srv` | each thread's steps |
| `Connect` | a connector, the local reader, the new instance, the remote reader | each party's state of its machine | one action per message handled |
| `TermBuffer` | `TermBuffer` as operators on a record | see the module | - |
| `LineList` | abstract promise of a scrollback buffer: a list of lines | `lines` | append, change, cut, resize |
| `Screen` | the emulator's use of the two buffers | one record `term` | one per operation of `screen.cpp`/`xterm.cpp` that moves, scrolls, switches, erases, resets, resizes |
| `BufferSync` | a buffer, a watch, its writer and the client's copy | `buf`, `watch`, `writer`, `fetch`, `client` | changes, push, transfer in its steps, requests of rows and their answers |
| `CellRow` | `CellRow` as operators | see the module | - |
| `CellLine` | the row the cursor is in | `line` | write, combine, insert, erase, replace, move, attributes, line flags |
| `Regions` | regions of the main buffer and the shell's jobs | `main`, `job`, `child`, `jobState` | the four OSC 133 marks, scrolling, erasing, resizing, annotations |
| `MC...` | instances (`MCMarks`: `Regions` as one of the systems of `MCContent`, for its run and for the proofs) | model values, symmetry | - |
| `ThreadProofs` | proofs about `WorkQueue` and the sessions of `ProxyRegistry` | - | - |
| `WatchLifecycleProofs`, `AttributeSyncProofs`, `ScreenProofs` | proofs about the module of that name | - | - |
| `ListenerProofs` | proofs about `ServerShutdown` and `Ownership` | - | - |
| `ChildrenProofs` | proofs about `Reaper` and `Scoper` | - | - |
| `ConnectionProofs` | proofs about `ProxyRegistry` with several connections, `Forwarder` and `Connect` | - | - |
| `RingProofs` | proof that `Screen` implements `LineList`, extends `ScreenProofs`; proofs about `Regions` through `MCMarks` | - | - |

Two abstract specifications are implemented: `WorkQueue` implements `Mailbox`
(by TLC as `Implements`, liveness included, and by TLAPS as `MailboxSafety`), and
`Screen` implements `LineList` (by TLC as `RingIsList`, by TLAPS as `RingIsAList`):
the ring with its masks, chopped rows and changing capacity is a list of lines of
which only the newest are kept.
The other modules use a queue as a sequence with an atomic append and take,
which the first refinement justifies. `ProxyRegistry` takes from `WatchLifecycle`
that clients give a closed proxy back (`CloseCompletes`), as the fairness of
`Release`; `AttributeSync` takes from it that the announcement comes before any
update (`WireOrder`); `ServerShutdown` takes from it that a terminal told to
stop stops. `BufferSync` changes its buffer with the operators of `TermBuffer`
that `Screen` checks, and `CellLine` edits its row with those of `CellRow`.

**Atomicity.** A step is what a thread does between two points where another
thread's step could be seen: the code under one lock, or a queue item handled
without touching shared state in between. Where the code reads under one lock
and acts under another (`setAttribute` then push; `addConnWatch` then the
writer then the reader; `sendWork` then the event) the model has two steps.

**Data.** Messages, names, rows and values are model values, small numbers or
flags. An attribute change is a function from keys to values, because merging is
what goes wrong there. A row in `TermBuffer` is one number and its continuation
flag; in `CellRow` it is the sequence of its clusters' widths and looks. Output
in `RateLimit` is only "seen by the client or not". Comparisons of times go either
way.

## Runs

All runs end with complete exploration; where the system may stop (a closed
mailbox, a server that has exited, a bound that is reached) deadlock is not
checked and liveness properties say what must have happened.

Three runs hold several systems. They share no state in the program either; a
behaviour chooses one of them at its start (variable `system`) and leaves the
others' variables alone, so that a small system is explored next to another
without multiplying with it. Such a run's properties are conjunctions of the
systems' own, each under `system = "..."`.

| Run | Instance and bounds | Question |
|---|---|---|
| `threads` / queue | 2 senders × 3 items, both loops | is a wakeup ever lost, an item lost, doubled or reordered, a deleted thread touched |
| `threads` / files | 2 directories, 2 names, limits of 1 and 2 files, 2 entries to a batch, 2 places in the kernel's queue; 2 changes when the client is connected directly, 1 behind a neighbour | does the client end with the current directory as it is |
| `threads` / attrs | 2 attributes, the monitor with or without a script, 2 reloads, 2 lines in two pieces each | is an attribute what the running process said last |
| `threads` / scopes | 1 address, 2 children (of one terminal or of two), 1 scope stopped by hand | does a child run in its scope, is the terminal told its own, is everything the scoper points to there |
| `threads` / output | 1 write, 2 commands, 2 children | is output held back by the rate limit ever left unseen, do the flags say what the terminal does |
| `threads` / session | 1 connection, 2 servers with a terminal each, announced once a session, one terminal twice; 2 sessions | does a connection that is cut anywhere leave nothing behind and start afresh |
| `watch_one` | 1 client, 3 changes | order on the wire; object and client leave in every order, writes fail: does the object end, is the client told |
| `watch_two` | 2 clients, no changes | references and pointers when one watch is handed out while another is released |
| `proxy_race` | 2 connections (one in a terminal) that announce the same server and terminal twice | do routes, maps and connections agree when ids collide |
| `proxy_diamond` | 2 connections, 1 server, 1 terminal | finding, below |
| `attr_sync` | 1 client, 2 objects, 2 setters, 2 keys, 2 writes in all three ways | does a client converge, is anything forgotten, is it told in the end |
| `attr_reported` | 2 clients, 1 bulk write | finding, below |
| `attr_override` | 2 attributes, the monitor and a script, 2 reloads, 3 lines | finding, below |
| `shutdown` | socket or standalone, 2 clients, 1 terminal, 3 tasks that share ids and a target; at most 5 of these 6 are started (`MaxStarts`) | is anybody left behind, do twins run, does the shutdown end |
| `shutdown_signal` | 1 client | finding, below |
| `content` / screen | heights 1 and 3, capacities 2 and 4, 5 operations, 7 rows | is the cursor's row the one it points to, is the ring a list of the newest rows, is every change noted |
| `content` / copy | heights 1 and 2, capacities 2 and 4, 4 changes, 1 request | is the client's copy of screen and scrollback true |
| `content` / cells | rows of 4 columns, right margins 2 and 3, 2 colours, counts 1 and 2; any number of operations | do text, runs, counts and the cursor's place agree, does the client find the columns |
| `content` / marks | height, capacity and width 2, 4 regions, 4 rows | do the three orders of regions agree, is the job there, are the shell's regions apart |
| `tasks` / download | 3 bytes in chunks of 2, window 1, two hops, pauses, noise at one | is a throttled download owed a resume, does it end |
| `tasks` / upload | 6 bytes, chunks of 2, window 2 | is the file whole or the old one untouched, does it end |
| `tasks` / children | a terminal, a command, 3 pids, 2 orphans | does every exit reach the owner that waits for it |
| `tasks` / owners | 2 readers, 3 clients at hops 0, 1, 0, 1 terminal, 3 announcements | is a terminal's owner there |
| `tasks` / shared, stream | 2 connections one way over one window; 1 connection both ways, throttled | do forwarded bytes arrive once and in order, is the window accounted for |
| `tasks` / forward | 1 item each way, a channel of 1 | is output whole on a clean exit, is the user told of every other |
| `tasks` / connector | 2 typed items | does each message find its reader in the right state, do both servers agree |

**Why the bounds are enough.** Two senders suffice for the queue because only
one of them can owe the wakeup (`OneWaker`, proved for any number); three items
let a batch be posted behind one that is being handled and another behind that.
In `WatchLifecycle` watches of different clients meet only in the object's
`m_watches` and in the listener's loop over readers, so two clients show every
way they interfere; changes matter before, during and after the announcement,
hence three. In `ProxyRegistry` an id is contested by two; the second
announcement covers "again while the old proxy is being removed" (with a third
there may be two proxies of one id, which the model's sets do not tell apart:
`AnnouncesAssumption`); a second session covers what the first left. In `AttributeSync` a value needs to be set
and removed around a push (two or three writes), and two setters cross.
In `ServerShutdown` two clients, three tasks
and a terminal allow the chain that matters for the shutdown, a client that makes
a task that makes another client that makes a task or terminal, while the first
ones' removals are queued between these additions; two tasks share an id, two
others a target. Five starts (`MaxStarts`) leave room for that chain and one
thread beside it. The proofs have none of these bounds.

In `Screen` a capacity of 2 under a height of 3, and of 4 over it, gives a ring
that is smaller than the screen, wraps, grows and shrinks; five operations reach
a scrolled, wrapped, resized and cut buffer. In `BufferSync` the client lags by
any number of steps, so one request and four changes suffice for a row that is
asked for, trimmed, renumbered and answered. `CellLine` is unbounded in length of
behaviour: its rows are finitely many at width 4, where two double-width clusters
fit; width 5 was explored too. `Regions` was also explored with more columns,
rows and ids ("height, capacity, columns, ids, rows" of 2 2 1 5 3, 2 3 1 4 4 and
1 2 2 4 3). `FileMonitor` was explored alone with other splits of its changes (2
and 0, 0 and 2, 3 and 0), single entries to a batch, and 3 places in the kernel's
queue; `Scoper` with two addresses (2 children and a stopped scope); `AttrMonitor` with
three lines and four sources; `RateLimit` with 3 writes and 2 commands. In each the interesting
cases are at most two things crossing a third: a change between watch and
batch, a job that ends after a restart, output between a lock and a reset.
Transfers have one chunk more than the window, so that the window is full, the
throttle set and an acknowledgement on its way at once.

Each checked property has a mutant of the code, a definition in the module
named beside the one it changes (`\* Mutant:`), that TLC finds to violate it
under the same configuration.

## Findings

Each is a violation run with the text of the repository it contradicts
(`PROJECT.json`, "findings").

* `proxy_diamond`: `listener.cpp:710` asserts that a terminal's server is known.
  `wireTermAnnounce` looks the terminal's own id up among the ignored servers
  (`conn.cpp:524`), not its server's; a terminal can be proxied through a
  connection whose server proxy was refused, and the listener loses its server
  when the other connection goes. One connection is enough when its peer, in a
  loop of connections, announces this server and its terminals, or a server for
  the second time (`lost`, below); TLC finds `HopKnown` violated with `Self <- s1`
  and with `MaxAnnounces <- Twice` too.
* `attr_reported`: `doc/server.1.in:201` says script attributes are reported to
  clients. The loop over watches hands each the same map, and the first moves
  the entries out of it (`basewatch.cpp:93`): other clients are told nothing.
* `shutdown_signal`: `doc/server.1.in:73` says the server exits on SIGTERM. The
  handler sets a flag that the loop looks at after `poll` returns; a signal
  between the look and the call waits for the next event.
* `attr_override`: `doc/monitor.1.in:90` says an attr-script's values override
  those of the monitor's `--initial`. When the attributes are loaded again the
  first word on a key wins (`monitor.cpp:30`, `emplace`); at the start the last
  one does (`os/attr.cpp:414`).

## What the models exempt

Some interleavings break a property without a text of the repository promising
the opposite. The models keep them; a history variable (or a predicate) marks
them, and the property holds of everything else. They deserve a maintainer's
attention.

Threads and objects:

* `raced` (`WatchLifecycle`): the watch enters the object's `m_watches` before
  the reader has it; a terminal that closes in between asks for a release the
  reader cannot find, or that is queued before "added". Such a watch may be
  used after it is freed or never come back. Proxies are exempt from the
  exemption (`ProxyNeverRaces`): the listener closes them itself.
* `early`: `pushUserRegion` activates a watch that is not started
  (`termwatch.cpp:71`), so an update can precede the announcement.
* `crossed` (`AttributeSync`): two threads write an attribute in one order and
  push in the other (`attributebase.cpp:101`): clients keep the older value.
* `blended`: closing a watch leaves its changes in `m_transfer` when the writer
  is still held back (`writer.cpp:168`, `eventstate.cpp:145`), and the next
  watch transferred gets them.
* `lost` (`ProxyRegistry`): an id announced again while its old proxy is being
  removed is passed over (`conn.cpp:479`), and not taken up afterwards. When it
  is a server, its terminals are registered all the same, because the server is
  still among the known ones (`conn.cpp:511`), and the listener looks it up in
  vain. The session system therefore announces a server once per session
  (`SessionAssumption`), terminals up to twice; in `proxy_race` the listener may
  be `down`.
* `late` (`ServerShutdown`): a terminal or client added after the interrupt
  (`listener.cpp:577`, 533; tasks are refused at 767) is never told to stop, and
  the shutdown waits for it to end by itself.
* `stray` (`Ownership`): an id one reader ignored because another had announced
  it is not taken over when that one goes, and removing an unknown id unregisters
  another reader's client (`commands.cpp:444`).
* `thrown` (`Reaper`): a command whose client is gone leaves its thread by an
  exception and does not give its pid up (`runtask.cpp:323-335`).
* `late` (`Reaper`): an owner that left after the reaper had looked it up and
  before the call of `zombies.cpp:139`; what the call does to it, or to what was
  deleted, is not followed. `OwnersLive` says that the reaper tells nobody else that is gone.
* `late` (`Scoper`): the job of an earlier child of a terminal that has started
  again ends successfully before it is abandoned: the check compares terminals, not children
  (`scoper.cpp:90`). `bus.silent`: a refused call is never answered to the
  scoper (`scoper.cpp:145` asks for no reply) and its child waits for its own timer.
* `torn` (`AttrMonitor`): a process stopped in the middle of a line leaves the
  piece in `m_accum`, where the next process's first line joins it
  (`monitor.cpp:154`); a read that fails does the same.
* `strayed` (`FileMonitor`): after an overflow or a change of the repository the
  monitor posts its old path behind a newer one that is queued already and goes
  back there (`filemon.cpp:464`, 79). An unwatched directory (inotify refused) is
  listed once and exempt from then on. So is one whose monitor has given up on
  inotify (`deaf`, `filemon.cpp:452`), until the next directory.
* `muted`, `stuck`, `unlocked` (`RateLimit`): a reset sets `m_rateStatus` to 0
  (`term.cpp:409`); if the emulator's state does not change nobody is told of what was held
  back, and without `ResetEmulator` the flag `RateLimited` stays. With it the flag
  `SoftScrollLock` goes while the descriptor stays switched off.

Transfers:

* `crossed` (`FlowControl`): a pause overtaken by its resume
  (`taskbase.cpp:90-97`, `conn.cpp:712`) leaves the download stopped until its
  idle timeout; pipes have none.
* dropped bytes (`PortForward`): bytes queued for a connection that closes are
  never acknowledged, the window shrinks by them (`portfwdtask.cpp:136`); a stall is
  excused only by such bytes.
* `noRoom`, `CutShort` (`Forwarder`): the server's last status is one nonblocking
  write (`reader.cpp:195`); a key typed after the server has closed its end makes
  the copier fail and the status an error (`forwarder.cpp:352`).

Content:

* `lost`, `crowded` (`TermBuffer`, `LineList`): a capacity equal to the screen's
  height with `clearScrollback`, or a screen taller than what was kept.
* `Forgets` (`ChangesNoted`): `buffer.cpp:345` subtracts heights unsigned, so that
  the rows revealed by a screen that adds more rows than it had are not noted. The
  proof showed what "adds" must mean for a ring that is too small for the new screen.
* `late`, `odd` (`BufferSync`): an answer to a request that newer watch state has
  overtaken; a row below the client's origin.
* `wild` (`CellLine`): the operations that leave a row in disorder by themselves
  (`StrayWrite`, `StrayCombine`, `Overrun`, `Displaces`); the line is followed again
  from the next blank row.
* `astray` (`Regions`): the job is ended in the alternate buffer (`screen.cpp:495`).

## Seen while modelling

Not expressible as a disagreement with a text, or outside a model's abstraction;
each was met while its module was written.

Threads: `handleAddTask` keeps the target of a task it refuses for its id
(`listener.cpp:776-794`); `wireServerRemove` and `wireTermRemove` use an iterator
they have erased (`conn.cpp:591`, 646); a server proxy's count starts with the
terminals about to be announced (`serverproxy.cpp:21`), so that the assertion of
`conn.cpp:343` fails for a connection lost in between; a connection torn down by
its terminal still handles what is in its pipe (`term.cpp:867`); the reaper finds
an owner under its lock and sends it work outside it (`zombies.cpp:136-139`), when it
may be gone; a pid reused before it was looked up keeps its old owner (`emplace`);
a signal between the look at the flag and `poll` is unnoticed in every loop
(`threadbase.cpp:274`). "Exits when all clients have disconnected"
(`doc/server.1.in:78`) is true of the standalone mode only (`listener.cpp:476`).
The monitor's manual says one script is executed; all that exist are. A NUL in
its output drops everything behind it (`monitor.cpp:102`).
`eventstate.cpp:355` copies a file's time behind the array it means, so the
time of a removed file sent through a proxy is arbitrary. User and group names
travel with the first file of a uid only and are lost when a newer message
replaces that one (`filemon.cpp:392`). A forked child holds copies of other
terminals' scope pipes until it becomes its command.

Transfers: an upload that overwrites unlinks the original when it fails;
Rename says "starting" when the open failed (`uploadtask.cpp:92`); the client
reads on after an upload's end is acknowledged; half-closed connections are not
supported, a resume undoes a throttle its own acknowledgement found
(`portfwdtask.cpp:326`); the client's `watchReads` uses a reader that does not
exist while a connection is being made (`src/base/portfwdtask.cpp:137`).
`readLocalResponse` goes on after an error (`connectbase.cpp:183`); `readConnId`
reads the rest of an id over its beginning (239); a connector that fails in
`begin` reports success with an uninitialized id; input typed during the
handshake is taken for a bad response. `writeDescriptors` reports failure after the
descriptors were sent (`forwarder.cpp:165`).

Content: setting mode 1049 twice clears the alternate buffer under the cursor's
row pointers (`xterm.cpp:1187`); OSC 133;B without a job lets `scrollToJob` use a
null pointer (`screen.cpp:218`); the job's remembered row is not renumbered;
images are registered in the main buffer even when the other is shown
(`xterm_os.cpp:970`); `resetEmulator` clears origin mode but not
`m_stayWithinMargins`; changed regions are noted by region id where `bufreg()` is
meant (`buffer.cpp:429`); `transferTermState` trims rows of buffer 0 only
(`eventstate.cpp:207`). Erasing over double-width clusters can leave later runs
unshifted (`cell.cpp:611`); a combining character takes the look of the position saved before
it, not of the cell it joins; without autowrap each character at the
right margin is inserted, so the text outgrows its counts; `cmdEraseCharacters`
does not look the cursor up again (`xterm.cpp:991`); a double-width line loses its
last cell on `setLineFlags`. `addUserRegion` misses a region that begins above and
ends below the new one and does not report what it replaces (`buffer.cpp:596`).

## Fairness

Weak fairness, of a whole thread's next step, for the server's own threads: the
kernel schedules a thread that can run, and a lock is held for a bounded
stretch of code. In `WorkQueue` also for a sender between its unlock and the
write of the event. In `ServerShutdown` also for the end of a thread that has
been told to stop, which `WatchLifecycle` (`CloseCompletes`) and the handlers of
`TermClose`, `ReaderClose` and `TaskClose` justify. In transfers also for the
client's event loop and the idle timer, which `poll`'s timeout runs; in
`RateLimit` the idle timer is the terminal thread's own step. For the children of `Reaper` the
reaper, the registration after a fork and the owner's handler are fair, the exit of
a child is not. In `Forwarder` and `Connect` each thread or party is fair by itself.
No fairness for what clients, peers, programs, signals and write errors do. A
signal that has not been noticed is not assumed to be noticed: `Poll` has no such
disjunct. `MCTasks` and `MCThreads` restate each system's fairness under `system =
"..."`; the content systems and the file monitor have safety properties only,
which say what holds when nothing is on its way.

## Proofs

TLAPS proves the following for every value of the constants, under the named
assumptions on constants in the modules.

`ThreadProofs`, on `WorkQueue` (any set of senders, any number of items; `MaxPosts \in Nat`):
`TypeCorrect`, `NoWakeupIsLost`, `NoLateTouch`, `SingleWaker`, and
`MailboxSafety`, the safety half of the refinement. The inductive invariant
`IInv` says of every program point whether the event must be set (`RaisedInv`),
who may owe a write of it (`OwedInv`, `OneWaker`), that a sleeping thread with an
event to come has been signalled or has a sender that owes it (`WakeInv`), and
that the drain starts with `m_signaled` cleared (`ClearedInv`). `NoLostWakeup`
alone is not inductive: it says nothing of the thread between `poll` and the
drain.

`ThreadProofs`, on one connection's sessions (`MCSessions`; any servers and terminals,
any number of sessions): `SessionsInvariance` and `SessionsAreSound`. `Kept`, which the
run `threads` checks too, has these parts. `Books`: the connection's sets agree with
the registry and each other; `Announced`: and with what the peer has said, and how often. `Ways`: *a proxy the connection holds is on exactly one way*; an active one is
in the listener's map or queued, one being removed has its removal queued, or the
clients have it, or it is on its way back. `Turns`: what is queued before what; every item
is possible when its turn comes, a terminal's between its server's two, and a
terminal comes back before its server. `Counts`: a server's terminals, also while the
server waits to be added. The
last server proxy to come back is then the last of all, and ends the session with
nothing on any way. Two assumptions are not the code's but exclude what the finding
`proxy_diamond` is about, as said there: the peer announces a server once in a session,
and not the terminals of this server. The proof found the first: the model had said
"each id once", and with more the listener can lose a server.

`ListenerProofs`, on `ServerShutdown` (any clients, terminals, tasks, ids and targets; the
three kinds of thread disjoint, at least one client): `TypeCorrect`,
`RunningListed`, `NoTwinsRun` and `NobodyIsLeft`. The heart is
`AdditionsSupported`: *an addition in the queue has, for a thread on the lists,
either that thread still running or its removal further back in the queue*.
A thread posts additions only while it runs and its removal when it ends, so
the removal follows; taking the first item never removes a thread an addition
relies on, because that one's removal is further back. When all lists are empty,
then, no addition is in the queue. `QueuedOnce`, `QueuedState`, `NewQueued` and
`ListedState` tie queue, lists and thread states together, `TargetsHeld` makes
`NoTwins` inductive, `ClosedInv` says the lists are empty at the end and no client
is accepted after the interrupt. The proof has one lemma for each way a step
touches the queue (post an addition, post a removal, take an addition, take a
removal, none) and one step per action that cites them.

`ListenerProofs`, on `Ownership` (any readers, clients, hops and terminals;
`MaxAnnounces \in Nat`): `OwnerIsPresent`. The listener hands a terminal to another
owner by a change behind all that waits, so that owner may be gone when the change
is made. `Provided(i)` is the set of those that may be named up to the i-th place of
the queue: who is there, and who is the former owner in a change further back,
which will name somebody else in its turn. `OwnersProvided` and `HeirsProvided` say
that the present owners, and the heirs of the changes in the queue, are provided;
`NewProvided` says so of a terminal about to be added; `OneRegistrar` that a client is
announced by one reader. Behind the last item only those who are there are
provided, which is the property. There is an heir as long as
anybody takes ownership because `ownerclients` is the number of those in `order`, which
lists each client once.

`WatchLifecycleProofs` (any readers, any number of changes): `DeadThreadsUnused`,
`FreedWatchesUnused`, `ReleasesCounted`, `EndedOwnersAlone`, `WireOrdered` and
`ProxiesNeverRace`. None of these is inductive: each says what a thread may do at
one point, and the reason lies in how far three others have got. `IInv` therefore
says, for each place of a reader, of its writer and of the listener's job,
what is in the reader's queue, who holds a reference, and on which of the
writer's lists the watch is; with `OwnerInv` (what the object has asked for) and
`JobInv` (whom `addConnWatch` has still to serve). Queues are described by which
messages they hold, each at most once, and in which order. The exemptions
(`raced`, `early`) are part of the invariant: it says nothing of a watch released
before its reader has it, and `ProxiesNeverRace` shows that a proxy's never is.

`ConnectionProofs`, on `ProxyRegistry` (any connections, servers and terminals, any
number of sessions, at most two announcements of an id in each):
`RegistrySound` and `MapsSound`. `RegistryMatches` is inductive with types; the
listener's maps need more, since they lag: `Leads(lq, mapped, registered)` says
*there are maps between the listener's and the registry, one for each item of the
queue, and an item adds an id that the map before it lacks, or removes one it
has*. Appending an item extends the chain at its end, handling one drops its first
link; with an empty queue the two are equal, which is `MapsAgree`.

`ConnectionProofs`, on `Forwarder` (any numbers of items of output and of keys, any
room in the socket pair): `ForwarderSafe`. That the terminal shows a prefix of the
output is not inductive: `Streams` says *what the terminal shows, what the copier
holds and what the pair still has are, in this order, what the server wrote*. A
clean end is whole because the forwarder waits for the writer's exit, and a copier
that tells of its exit has left nothing behind (`Copiers`: `Drained`, the pair closed,
the work that waits no longer than the copiers that ended). What the status says was true when it
was sent (`Statused`), and a status comes after the bye, if one was due (`Byed`);
before that `Handshakes` says for each state of the handshake which of its messages
is under way. `Leaving` carries this from the decision to leave to the end.

`ConnectionProofs`, on `Connect` (any number of typed lines, any limit on them):
`ConnectInvariance`. `Turns` says, for each state of the connector, where the local
server's reader and the instance can be and which message can be on the
connection: none where it writes, its own or the answer where it reads, and this
also when either of the two has gone away; `Upward` says the same from the side that reads, because it goes on
reading when the connector is gone. `Reached` follows the answer over the command's
descriptor: a remote server whose hello was seen takes nothing but the response.
`LinksAreSafe` puts both into the form of the property that the run `tasks` checks; that
one includes both inductive invariants, so TLC has checked them too.

`AttributeSyncProofs` (any objects, clients, threads, keys and values):
`ListingSound`, from an invariant that ties a watch with changes to the lists of
its client's writer at each of the writer's stages; and `CopiesConverge`, from
`CInv`: a value an object has is in its setter's hands, or pending in the watch,
or in the writer's transfer, or at the client, and the first of these that
has one has the newest (`Reach`). Its hypothesis `Undivided` (no bulk change, or a
single client) is what the program lacks: with bulk changes and two clients
`attr_reported` shows the copies differ.

`ChildrenProofs`, on `Reaper` (any terminals and commands, any number of pids): `NoExitLost`,
`ChildIsRight`, `OwnersAreThere` and `ExitsAreTold`. `OwnersAreThere` is about both
sides of the reaper's lock: under it, whom a child is registered for waits for it;
outside it, whom the reaper is about to tell waits for that child or is `late` or
`thrown`. `IInv` ties a pid to its owner
at each stage of both: a process that can still exit is registered or about to be
(`ProcInv`), a registered pid has an owner at that place of its code or one that
gave it up (`RegisteredInv`), an exit in the table of orphans belongs to a thread
that is about to ask for it (`OrphanInv`), and the work waiting at an owner is
about its present child (`WorkInv`, `KeptInv`). The hypothesis `Enough` says the
table of orphans has room for one exit of each thread: the code forgets an
exit that finds the table full (`zombies.cpp:130`), and the proof shows that a bound as
large as the number of threads is enough.

`ChildrenProofs`, on `Scoper` (any addresses of terminals, any number of children and
of scopes that somebody stops): `ScopesAreTrue`. The scoper's table, its queue
and the signals on the bus lag behind the terminals, so `IInv` says who refers to a
`ScopeInfo` (`Referred`) and for which scopes systemd was called (`Called`).
`ChildRight`: a terminal's child was made for it, is unknown to the scoper until it
is registered, and is the one that the table of terminals has. `WorkRight`: a scope
is given up behind its creation, once, and when it is no terminal's. `PipeRight`: an open
pipe has somebody who is to close it (the terminal, an item of the queue, a job, a
signal, or the call that went unanswered), a scope systemd was called for is in
the table or has its pipe closed, and what is referred to is not deleted.

`ScreenProofs` (any heights, any capacities that are powers of two, any number and
order of operations): `BuffersSound` and `CursorIsSound`. The first part is the
arithmetic of slots: different rows of a stretch no longer than the capacity have
different slots (`ModDistinct`), and a straightened, unrolled or resized ring has as
many slots as it counts rows (`StraightenedFacts`, `UnrolledFacts`,
`SetScreenHeightFacts`); `CapacityFits` shows that the doubling loop of the constructor ends with
room for the screen. `Sound` is what all operations of a buffer keep; `Poised`,
`Pointed` and `InMargins` say the same of the screen. What makes `CursorSound`
inductive is that a row is known not to be a continuation where nothing points to
it (`NoNewCont`: no operation makes a row a continuation but the one that notes
it), and that both buffers have the screen's height although only one is shown. One
lemma for each operation says what it leads to (`Leads`, `Stays`), and the
handlers, which are compositions, follow by transitivity.

The second part of `ScreenProofs` is `ChangesAreNoted`, an action property. `Tracked(b, c)` says that a row on the screen of `c` that is not noted
was on the screen of `b`, was not noted there either and has its text, and that
nothing to be told is forgotten; it is reflexive and transitive, so an event of any
number of operations is as good as one. `Noted`, which the property states, is not
transitive: it lacks that what was to be told stays so. What an operation writes
is noted at once (`Writes`, `WritesTracked`); a row inserted in the ring moves those
below it, all noted (`Shifted`, `LongerTracked`); what `trim` drops from the notes
lies above the screen (`TrimTracked`), because an event has noted no row at or
past the end of its buffer (`Bounded`), which is the invariant the theorem adds to
`IInv`; a ring that is numbered anew has its whole screen noted
(`RenumberedTracked`). The lemmas on `Screen`'s operations pair each `Leads` of
`ScreenProofs` with these (`Marks`). The attempt to prove the earlier statement
of `ChangesNoted` found it wrong for a ring smaller than the screen, and its
exemption for `crowded` rings not needed: the property now excuses less.

`RingProofs` (the same constants): `RingIsAList`, the refinement. `Lines(b)` is what a
buffer stands for, read through the mask, the offset and the chopped tail, and
`Ring(b)` is what a main buffer that was never crowded keeps: it is `Sound`, keeps
its screen (`Full`) and the rows that `chop` took off are empty (`Bare`). For each operation a
lemma says what becomes of the lines: some of the screen are emptied (`Wiped`) and
one rewritten (`Edited`), an empty one is inserted and the oldest dropped when
the ring is full (`Scrolled`), one of the screen goes and another comes (`Shuffled`),
those above the screen go (`Cut`), the capacity or the height changes (`Recap`, `Refit`). `NextLists` has one case for each handler, which chains these, and
`ListedNext` maps each to an action of `LineList`. The attempt found that `LineList` said too
little of a move of lines: in an insertion or deletion of lines the one that comes
in may be an empty line or one already written. With one text in the run the
difference cannot be seen; `Move` now says it.

`RingProofs`, on `Regions` (any columns, any height, any capacity that holds the
screen, any number of regions): `RegionsInvariance` and `RegionsAreTrue`.
`OrdersSound` alone is not inductive, because what the screen does to a job depends
on what it holds. `BufferRight(b, H)` says that a buffer is right *while the screen
holds the regions `H`*: one of the shell's regions is open exactly as long as it is in `H`, so
the order by ends has all others; a region that left the buffer is an object
only while it is in `H`; two standing regions of one kind lie one behind the other, and the
open one is the last. `ScreenRight` says which two regions these are, and that the
current part has the kind that the screen's state names. Each thing done to a buffer has a lemma
that says with which `H` the result is right (`DeleteRight`, `LetGoRight`,
`OverwriteRight`, `BeginRight`, `DropRowsRight`, `AnnotateRight`), and each handler
composes them. `astray` is the exemption of the run: nothing is claimed once a job has been ended
by positions of the other buffer. The property includes the inductive invariant,
so the run `content` has checked it too.

The assumptions on constants are the code's: capacities are powers of two (a
capacity is given as an exponent, `emulator.cpp:106`), heights are at least one, the main
buffer of a new terminal has two rows or more (`emulator.cpp:32`), a screen has
columns, and (`MCMarks`) its height is no more than the capacity.

Model-checked only: liveness properties (fairness and ENABLED are out of the
prover's reach), the liveness half of `Implements`, what folds over rows, cells and
pieces of input compute (induction over data), and the systems without a
proof module: `CopyTrue`, `LineTrue`, `TransfersSafe`,
`PortSafe`, `ListingTrue`, `AttrsTrue`. No module declares a RECURSIVE operator; the loops of
`TermBuffer` and `Screen` that are proved about are recursive functions.

## Not modelled

See "components" in `PROJECT.json` for each part and its reason. In short:

* protocol framing (`lib/`) and the emulator's parser (`mux/xterm/machine.cpp`):
  sequential code on bytes; the models start at whole messages and sequences;
* charsets, mouse modes, palettes, titles, images: data without a structure that
  operations could bring into disorder;
* command line, configuration, formatting, the OS layer: wrappers; what a system
  call does to a model's state is part of the model that calls it;
* the client's windows, settings, jobs list and scripting;
* inside modelled components: keepalive timers and the descriptor handover
  (reader), what a proxy mirrors but files (proxies), user and group
  names and git's states (file monitor), autoclose delays and status attributes
  (terminal), mount tasks.

The modules map about 6 % of the lines under `src/`: most of the repository is the
graphical client, generated tables and vendored code.

## Plan

Done: the core (`WorkQueue`, `WatchLifecycle`, `ProxyRegistry`, `AttributeSync`,
`ServerShutdown`), tasks and links, children and ownership, the terminal's content and
its way to the client, and the service threads.

Proved: the safety of the core modules, the sessions of a connection, and that of `Ownership`, `Reaper`, `Scoper`,
`Forwarder` and `Connect`; of
`Screen` the cursor, the rows to send and the refinement of `LineList`; of `Regions` its
soundness.

Next, proofs, in order of worth:

1. `BufferSync`: `CopyTrue`, on top of what `ScreenProofs` says of `TermBuffer`.
2. `PortForward` and `Upload`: `PortSafe` and `TransfersSafe` for any number of
   chunks and connections.
3. `CellLine`: `LineTrue`; it needs the sums of cell widths, which are folds, as
   recursive functions with lemmas proved by induction over indices.

Then, if wanted, protocol framing (delivery independent of how bytes are cut) and
the client's order of servers and terminals.
