------------------------------ MODULE FileMonitor ------------------------------
(***************************************************************************)
(* The listing of a terminal's current directory on its way to a client.   *)
(* A thread of the terminal (TermFilemon) asks inotify for the changes of  *)
(* the directory, reads it in batches and then follows the changes.  What  *)
(* it knows goes to the watches of the terminal as a map from names to     *)
(* messages in which a newer message replaces an older one.  Here the one  *)
(* watch belongs to a neighbouring server, which keeps a copy (TermProxy)  *)
(* and forwards the changes of each group of messages to its own watch;    *)
(* behind that is the client, which collects the files of a new directory  *)
(* out of sight and marks what it sees again of one it already shows.      *)
(*                                                                         *)
(* Two files differ by a version only.  Names of users and groups, link    *)
(* targets and the state libgit2 reports of a file are left out.           *)
(***************************************************************************)
EXTENDS Naturals, Sequences, FiniteSets, TLC

CONSTANTS Paths,      \* directories the terminal's processes visit
          Names,      \* names of files
          NoPath,     \* the empty path, before the first directory
          FileLimits, \* values of the limit on the number of files
          Batch,      \* FILEMON_BATCH_SIZE
          MaxEvents,  \* length of the kernel's event queue
          FileOps     \* bound, per number of hops: changes made by processes and users

VARIABLES
  disk,     \* per path: whether it exists, and the version of each file (0: none)
  cwd,      \* the directory the terminal reported last (attr_PROC_CWD)
  work,     \* the monitor's work queue
  mon,      \* the monitor thread (TermFilemon)
  watch,    \* the terminal's watch (1) and the proxy's (2): BaseWatch::files, what
            \* was written to the connection and not read yet
  proxy,    \* the neighbour's copy (TermProxy::files, changedFiles)
  tracker,  \* the client's (FileTracker)
  strayed,  \* history: the monitor went back to a directory the terminal had left
  hops,     \* connections between the terminal and the client: 2 with a neighbour between
  ops       \* changes left

fileVars == <<disk, cwd, work, mon, watch, proxy, tracker, strayed, hops, ops>>

Dir == "dir"   \* the key of the directory's own message in a map (g_mtstr)
Empty == [k \in {} |-> 0]

Listing(p) == {n \in Names : disk[p].file[n] # 0}
Entry(p, v) == [path |-> p, ver |-> v]
Removed(p) == Entry(p, 0)
Header(p, e) == [path |-> p, error |-> e]
FilesIn(map) == DOMAIN map \ {Dir}
Only(map, S) == [k \in DOMAIN map \cap S |-> map[k]]
-----------------------------------------------------------------------------
(* The kernel's queue of a watched directory: an event like the last one   *)
(* is not queued again; the last place is kept for the overflow mark.      *)
QueueEvent(q, e) ==
  CASE q # <<>> /\ q[Len(q)] = e -> q
    [] Len(q) + 1 < MaxEvents -> Append(q, e)
    [] OTHER -> IF q[Len(q)].kind = "again" THEN q ELSE Append(q, [kind |-> "again"])

Notify(m, p, e) ==
  IF m.path = p /\ m.watched THEN [m EXCEPT !.events = QueueEvent(@, e)] ELSE m

(* A directory being read returns every file that stays in it, and may or  *)
(* may not return one that comes meanwhile.                                *)
Appears(m, p, n) == IF m.path = p /\ m.fd = "dir" THEN [m EXCEPT !.may = @ \cup {n}] ELSE m
Vanishes(m, p, n) ==
  IF m.path = p /\ m.fd = "dir" THEN [m EXCEPT !.may = @ \ {n}, !.must = @ \ {n}] ELSE m

Write(p, n, v) ==
  /\ ops > 0 /\ disk[p].here /\ disk[p].file[n] # v
  /\ disk' = [disk EXCEPT ![p].file[n] = v]
  /\ mon' = Notify(IF disk[p].file[n] = 0 THEN Appears(mon, p, n) ELSE mon, p,
                   [kind |-> "touched", name |-> n])
  /\ ops' = ops - 1
  /\ UNCHANGED <<cwd, work, watch, proxy, tracker, strayed, hops>>

Remove(p, n) ==
  /\ ops > 0 /\ n \in Listing(p)
  /\ disk' = [disk EXCEPT ![p].file[n] = 0]
  /\ mon' = Notify(Vanishes(mon, p, n), p, [kind |-> "gone", name |-> n])
  /\ ops' = ops - 1
  /\ UNCHANGED <<cwd, work, watch, proxy, tracker, strayed, hops>>

RemoveDirectory(p) ==
  /\ ops > 0 /\ disk[p].here /\ Listing(p) = {}
  /\ disk' = [disk EXCEPT ![p].here = FALSE]
  /\ mon' = Notify(mon, p, [kind |-> "self"])
  /\ ops' = ops - 1
  /\ UNCHANGED <<cwd, work, watch, proxy, tracker, strayed, hops>>

(* A change in the repository's own files, which the monitor follows too. *)
ChangeRepository ==
  /\ ops > 0 /\ mon.watched
  /\ mon' = Notify(mon, mon.path, [kind |-> "again"])
  /\ ops' = ops - 1
  /\ UNCHANGED <<disk, cwd, work, watch, proxy, tracker, strayed, hops>>

(* TermInstance::handleStatusAttributes: the directory changed. *)
ChangeDirectory(p) ==
  /\ ops > 0 /\ p # cwd /\ disk[p].here
  /\ cwd' = p
  /\ work' = Append(work, [type |-> "Directory", path |-> p])
  /\ ops' = ops - 1
  /\ UNCHANGED <<disk, mon, watch, proxy, tracker, strayed, hops>>

(* TermFilemon::setLimit, from a client's profile. *)
SetLimit(l) ==
  /\ ops > 0
  /\ work' = Append(work, [type |-> "Relimit", limit |-> l])
  /\ ops' = ops - 1
  /\ UNCHANGED <<disk, cwd, mon, watch, proxy, tracker, strayed, hops>>
-----------------------------------------------------------------------------
(* The monitor.  A handler changes the monitor's own map under its state   *)
(* lock and passes the change on to the watches afterwards: `out` is what  *)
(* has been written down and not passed on.                                *)
Closed(m) == [m EXCEPT !.fd = "none", !.watched = FALSE, !.events = <<>>,
                       !.must = {}, !.may = {}]
Told(m, e) == [m EXCEPT !.files = Dir :> Header(m.path, e), !.out = Dir :> Header(m.path, e)]

(* Opening a directory: inotify may refuse, the listing is then made once. *)
Opened(m, watched) ==
  IF ~disk[m.path].here THEN Told(m, "error")
  ELSE Told([m EXCEPT !.fd = "dir", !.watched = watched,
                      !.must = Listing(m.path), !.may = Listing(m.path)], "none")

StartOver(m, p, watched) ==
  LET c == [Closed(m) EXCEPT !.nfiles = 0, !.again = FALSE, !.deaf = FALSE, !.path = p] IN
  IF p = NoPath THEN c ELSE Opened(c, watched)

Ready == mon.out = Empty

HandleWork(watched) ==
  /\ Ready /\ work # <<>>
  /\ LET item == Head(work) IN
     mon' = IF item.type = "Directory" THEN StartOver(mon, item.path, watched)
            ELSE StartOver([mon EXCEPT !.limit = item.limit], mon.path, watched)
  /\ work' = Tail(work)
  /\ UNCHANGED <<disk, cwd, watch, proxy, tracker, strayed, hops, ops>>

(* TermFilemon::handleDirFd: one batch.  Fewer than a batch: that was the  *)
(* end.  A file removed and made again while the directory is read may be  *)
(* returned, and counted, twice.                                           *)
ReadBatch(S) ==
  /\ Ready /\ mon.fd = "dir" /\ S \subseteq mon.may
  /\ Cardinality(S) = Batch \/ (Cardinality(S) < Batch /\ mon.must \subseteq S)
  /\ LET map == [n \in S |-> Entry(mon.path, disk[mon.path].file[n])]
         m == [mon EXCEPT !.nfiles = @ + Cardinality(S), !.must = @ \ S, !.may = @ \ S,
                          !.again = @ \/ S \cap DOMAIN mon.files # {}]
     IN mon' = IF m.nfiles > m.limit THEN Told(Closed(m), "limit")
               ELSE [m EXCEPT !.files = map @@ @, !.out = map,
                              !.fd = IF Cardinality(S) < Batch THEN "notify" ELSE @]
  /\ UNCHANGED <<disk, cwd, work, watch, proxy, tracker, strayed, hops, ops>>

Touched(m, n) ==
  LET e == Entry(m.path, disk[m.path].file[n])
      new == n \notin DOMAIN m.files
      c == [m EXCEPT !.nfiles = IF new THEN @ + 1 ELSE @]
  IN CASE disk[m.path].file[n] = 0 -> m
       [] ~new /\ m.files[n] = e -> m
       [] c.nfiles > m.limit -> Closed(Told(c, "limit"))
       [] OTHER -> [c EXCEPT !.files = (n :> e) @@ @, !.out = n :> e]

Gone(m, n) ==
  IF n \notin DOMAIN m.files THEN m
  ELSE [m EXCEPT !.files = Only(@, DOMAIN @ \ {n}), !.nfiles = @ - 1, !.out = n :> Removed(m.path)]

(* TermFilemon::handleNotifyFd.  After an overflow, or a change of the     *)
(* repository, the monitor asks itself to start over; what else the read   *)
(* returned is dropped.                                                    *)
HandleEvent(rest) ==
  /\ Ready /\ mon.fd = "notify" /\ mon.events # <<>> /\ rest \in 1..Len(mon.events)
  /\ LET e == Head(mon.events)
         m == [mon EXCEPT !.events = SubSeq(@, rest + 1, Len(@))]
     IN /\ e.kind # "again" => rest = 1
        /\ mon' = CASE e.kind = "touched" -> Touched(m, e.name)
                    [] e.kind = "gone" -> Gone(m, e.name)
                    [] e.kind = "self" -> Closed(Told(m, "error"))
                    [] OTHER -> m
        /\ work' = IF e.kind = "again" THEN Append(work, [type |-> "Directory", path |-> mon.path])
                   ELSE work
        /\ strayed' = IF e.kind = "again"
                      THEN strayed \/ \E i \in 1..Len(work) :
                                        work[i].type = "Directory" /\ work[i].path # mon.path
                      ELSE strayed
  /\ UNCHANGED <<disk, cwd, watch, proxy, tracker, hops, ops>>

(* A read of the changes that fails: the monitor gives up on inotify and    *)
(* tells nobody.                                                            *)
NotifyFails ==
  /\ Ready /\ ops > 0 /\ mon.fd = "notify" /\ mon.events # <<>>
  /\ mon' = [Closed(mon) EXCEPT !.deaf = TRUE]
  /\ ops' = ops - 1
  /\ UNCHANGED <<disk, cwd, work, watch, proxy, tracker, strayed, hops>>
-----------------------------------------------------------------------------
(* The watches. *)

\* Mutant: the directory's message joins what waits instead of replacing it.
MergeKeeping(files, map) == map @@ files

\* A directory's message replaces everything, a file's what is known of the file.
Merge(files, map) == IF Dir \in DOMAIN map THEN map ELSE map @@ files

(* TermInstance::reportDirectoryUpdate, reportFileUpdate(s): a watch that  *)
(* has not started takes no part, it will copy the monitor's map.          *)
PassOn ==
  /\ ~Ready
  /\ watch' = IF watch[1].on THEN [watch EXCEPT ![1].files = Merge(@, mon.out)] ELSE watch
  /\ mon' = [mon EXCEPT !.out = Empty]
  /\ UNCHANGED <<disk, cwd, work, proxy, tracker, strayed, hops, ops>>

StartWatch(i) ==
  /\ i <= hops /\ ~watch[i].on
  /\ watch' = [watch EXCEPT ![i].on = TRUE,
                            ![i].files = IF i = 1 THEN mon.files ELSE proxy.files]
  /\ UNCHANGED <<disk, cwd, work, mon, proxy, tracker, strayed, hops, ops>>

(* The writer takes the map and writes one group of messages. *)
Transfer(i) ==
  /\ watch[i].files # Empty
  /\ watch' = [watch EXCEPT ![i].files = Empty, ![i].wire = Append(@, watch[i].files)]
  /\ UNCHANGED <<disk, cwd, work, mon, proxy, tracker, strayed, hops, ops>>

(* The directory's message comes first in a group. *)
Next1(map) == IF Dir \in DOMAIN map THEN {Dir} ELSE DOMAIN map
Without(map, k) == Only(map, DOMAIN map \ {k})

(* TermProxy::wireTermDirectoryUpdate, wireTermFileUpdate and              *)
(* wireTermFileRemoved.                                                    *)
Keep(files, k, e) ==
  CASE k = Dir -> Dir :> e
    [] k # Dir /\ e.ver = 0 -> Without(files, k)
    [] OTHER -> (k :> e) @@ files
ProxyMessage(k) ==
  /\ hops = 2 /\ watch[1].wire # <<>> /\ k \in Next1(watch[1].wire[1])
  /\ LET e == watch[1].wire[1][k] IN
     proxy' = [files |-> Keep(proxy.files, k, e),
               changed |-> IF k = Dir THEN Dir :> e ELSE (k :> e) @@ proxy.changed]
  /\ watch' = [watch EXCEPT ![1].wire[1] = Without(@, k)]
  /\ UNCHANGED <<disk, cwd, work, mon, tracker, strayed, hops, ops>>

(* TermProxy::wireTermEndOutput. *)
ProxyEnd ==
  /\ hops = 2 /\ watch[1].wire # <<>> /\ watch[1].wire[1] = Empty
  /\ proxy' = [proxy EXCEPT !.changed = Empty]
  /\ watch' = [watch EXCEPT ![1].wire = Tail(@),
                 ![2].files = IF watch[2].on THEN Merge(@, proxy.changed) ELSE @]
  /\ UNCHANGED <<disk, cwd, work, mon, tracker, strayed, hops, ops>>
-----------------------------------------------------------------------------
(* The client. *)
Page(p, e) == [path |-> p, error |-> e, files |-> Empty]
Current(t) == IF t.staging THEN t.next ELSE t.cur

SetDirectory(t, h) ==
  LET same == Current(t).path = h.path /\ Current(t).error = "none" /\ h.error = "none" IN
  CASE same -> [t EXCEPT !.seen = {}, !.accumulating = TRUE, !.added = FALSE, !.timer = TRUE]
    [] ~same /\ h.error # "none" ->
         [t EXCEPT !.accumulating = FALSE, !.staging = FALSE, !.timer = FALSE,
                   !.cur = Page(h.path, h.error)]
    [] OTHER -> [t EXCEPT !.accumulating = FALSE, !.staging = TRUE, !.added = FALSE,
                          !.timer = TRUE, !.next = Page(h.path, h.error)]

InPage(t, files) == IF t.staging THEN [t EXCEPT !.next.files = files] ELSE [t EXCEPT !.cur.files = files]

UpdateFile(t, n, e) ==
  LET old == Current(t).files
      c == [t EXCEPT !.seen = IF t.accumulating THEN @ \cup {n} ELSE @,
                     !.added = @ \/ t.accumulating \/ (t.staging /\ n \notin DOMAIN old)]
  IN InPage(c, (n :> e) @@ old)

RemoveFile(t, n) == InPage(t, Without(Current(t).files, n))

Receive(k) ==
  /\ watch[hops].wire # <<>> /\ k \in Next1(watch[hops].wire[1])
  /\ LET e == watch[hops].wire[1][k]
         left == Without(watch[hops].wire[1], k)
     IN /\ tracker' = CASE k = Dir -> SetDirectory(tracker, e)
                        [] k # Dir /\ e.ver = 0 -> RemoveFile(tracker, k)
                        [] OTHER -> UpdateFile(tracker, k, e)
        /\ watch' = [watch EXCEPT ![hops].wire = IF left = Empty THEN Tail(@)
                                                 ELSE [@ EXCEPT ![1] = left]]
  /\ UNCHANGED <<disk, cwd, work, mon, proxy, strayed, hops, ops>>

(* FileTracker::timerEvent: a quiet interval ends the collection. *)
Swept(t) ==
  LET page == Current(t) IN
  [t EXCEPT !.cur = IF t.accumulating THEN [page EXCEPT !.files = Only(@, t.seen)] ELSE page,
            !.next = Page(NoPath, "none"),
            !.staging = FALSE, !.accumulating = FALSE, !.timer = FALSE]
Timer ==
  /\ tracker.timer
  /\ tracker' = IF tracker.added THEN [tracker EXCEPT !.added = FALSE] ELSE Swept(tracker)
  /\ UNCHANGED <<disk, cwd, work, mon, watch, proxy, strayed, hops, ops>>
-----------------------------------------------------------------------------
(* Files lie in one directory at first.  A neighbour watches the terminal  *)
(* from the start; a client that is connected directly comes at any time.  *)
Init ==
  /\ \E p \in Paths : \E f \in [Names -> 0..1] :
       disk = [q \in Paths |-> [here |-> TRUE, file |-> [n \in Names |-> IF q = p THEN f[n] ELSE 0]]]
  /\ \E p \in Paths : cwd = p /\ work = <<[type |-> "Directory", path |-> p]>>
  /\ \E l \in FileLimits :
       mon = [path |-> NoPath, fd |-> "none", must |-> {}, may |-> {}, watched |-> FALSE,
              events |-> <<>>, nfiles |-> 0, limit |-> l, files |-> Empty, out |-> Empty,
              again |-> FALSE, deaf |-> FALSE]
  /\ hops \in 1..2
  /\ watch = [i \in 1..2 |-> [on |-> i < hops, files |-> Empty, wire |-> <<>>]]
  /\ proxy = [files |-> Empty, changed |-> Empty]
  /\ tracker = [cur |-> Page(NoPath, "error"), next |-> Page(NoPath, "none"), staging |-> FALSE,
                accumulating |-> FALSE, seen |-> {}, added |-> FALSE, timer |-> FALSE]
  /\ strayed = FALSE
  /\ ops = FileOps[hops]

Disturb ==
  \/ \E p \in Paths :
       \/ \E n \in Names : (\E v \in 1..2 : Write(p, n, v)) \/ Remove(p, n)
       \/ RemoveDirectory(p) \/ ChangeDirectory(p)
  \/ ChangeRepository
  \/ \E l \in FileLimits : SetLimit(l)

Monitor ==
  \/ \E watched \in BOOLEAN : HandleWork(watched)
  \/ \E S \in SUBSET mon.may : ReadBatch(S)
  \/ \E rest \in 1..MaxEvents : HandleEvent(rest)
  \/ NotifyFails \/ PassOn

Carry ==
  \/ \E i \in 1..2 : StartWatch(i) \/ Transfer(i)
  \/ \E k \in Names \cup {Dir} : ProxyMessage(k) \/ Receive(k)
  \/ ProxyEnd
  \/ Timer

Next == Disturb \/ Monitor \/ Carry
Spec == Init /\ [][Next]_fileVars
-----------------------------------------------------------------------------
Quiet ==
  /\ work = <<>> /\ Ready /\ mon.fd # "dir" /\ mon.events = <<>>
  /\ \A i \in 1..hops : watch[i].on /\ watch[i].files = Empty /\ watch[i].wire = <<>>
  /\ ~tracker.timer

\* inotify follows the directory, or there is nothing to follow any more; a monitor
\* that has given up on it (deaf) follows nothing.
Followed == ~mon.deaf /\ (mon.watched \/ mon.fd = "none")

(* Once nothing is on its way the client shows the terminal's directory as  *)
(* it is, or says why not: the order "watch, read, follow" of the monitor,  *)
(* the merging of messages in the watches and the client's sweep lose and   *)
(* invent nothing (filemon.cpp:538, termwatch.cpp:82, filetracker.cpp:219). *)
ListingShown ==
  Quiet /\ ~strayed =>
    /\ tracker.cur.path = cwd
    /\ tracker.cur.error = "error" => ~disk[cwd].here
    /\ Followed /\ ~disk[cwd].here => tracker.cur.error # "none"
    /\ Followed /\ tracker.cur.error = "none" =>
         [n \in DOMAIN tracker.cur.files |-> tracker.cur.files[n].ver] = Only(disk[cwd].file, Listing(cwd))

(* No copy mixes the files of two directories (filetracker.cpp:219). *)
OneDirectory ==
  /\ \A page \in {tracker.cur, tracker.next} :
       \A n \in DOMAIN page.files : page.files[n].path = page.path
  /\ \A map \in {mon.files, proxy.files} :
       \A n \in FilesIn(map) : Dir \in DOMAIN map /\ map[n].path = map[Dir].path

(* The monitor never holds more files than its limit, and counts them right *)
(* (filemon.cpp:359, 496).                                                  *)
Counted ==
  /\ Cardinality(FilesIn(mon.files)) <= mon.limit
  /\ mon.fd # "none" /\ ~mon.again => mon.nfiles = Cardinality(FilesIn(mon.files))

ListingSound == ListingShown /\ OneDirectory /\ Counted
=============================================================================
