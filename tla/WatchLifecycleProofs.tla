-------------------------- MODULE WatchLifecycleProofs --------------------------
(***************************************************************************)
(* Proofs about WatchLifecycle for any set of clients and any number of    *)
(* changes.                                                                *)
(***************************************************************************)
EXTENDS WatchLifecycle, FiniteSetTheorems, TLAPS

(* Queues *)
Has(s, x) == \E i \in DOMAIN s : s[i] = x
Unique(s, x) == \A i, j \in DOMAIN s : s[i] = x /\ s[j] = x => i = j
Before(s, x, y) == \A i, j \in DOMAIN s : s[i] = x /\ s[j] = y => i < j

Add == <<"add">>
RemoveObject == <<"remove">>
Confirm(r) == <<"confirm", r>>
RemoveReader(r) == <<"removeReader", r>>
Items == {Add, RemoveObject} \cup ({"confirm", "removeReader"} \X Readers)
Msgs == {"added", "release", "confirm", "close"}
Words == {"announce", "update", "remove"}
Pending == {<<>>, <<"announce">>}

Owners == [proxy : BOOLEAN, added : BOOLEAN, listed : BOOLEAN, closing : BOOLEAN,
           watches : SUBSET Readers, ask : SUBSET Readers, asked : BOOLEAN, ended : BOOLEAN]
Jobs == [step : {"idle", "next", "toWriter", "toReader"}, todo : SUBSET Readers,
         cur : SUBSET Readers, kind : {"none", "add", "confirm"}]
Watches == [mem : {"none", "live", "freed"}, refs : 0..2, active : BOOLEAN, started : BOOLEAN,
            closing : BOOLEAN, reader : BOOLEAN, writer : BOOLEAN, dirty : BOOLEAN]
TermReaders == [pc : {"shake", "run", "join", "gone", "freed"}, q : Seq(Msgs),
                has : BOOLEAN, confirmed : BOOLEAN]
TermWriters == [pc : {"off", "wait", "send", "active", "closing", "ended"}, has : BOOLEAN,
                resp : Pending, held : BOOLEAN, act : BOOLEAN, clo : BOOLEAN, cResp : Pending,
                cAct : BOOLEAN, cClo : BOOLEAN, unblocked : BOOLEAN, todo : BOOLEAN, stop : BOOLEAN]

Types ==
  /\ owner \in Owners /\ job \in Jobs
  /\ pq \in Seq(Readers) /\ lq \in Seq(Items)
  /\ watch \in [Readers -> Watches]
  /\ reader \in [Readers -> TermReaders]
  /\ writer \in [Readers -> TermWriters]
  /\ wire \in [Readers -> Seq(Words)]
  /\ changes \in 0..MaxChanges
  /\ raced \in SUBSET Readers /\ early \in SUBSET Readers

\* Who is asked when: the object is added once, closed once, and a proxy by the
\* listener alone.
OwnerInv ==
  /\ Has(lq, Add) => owner.added
  /\ Unique(lq, Add)
  /\ ~owner.added \/ Has(lq, Add) =>
       /\ ~owner.listed
       /\ job.todo = {} /\ job.step \in {"idle", "next"}
       /\ \A r \in Readers : watch[r].mem = "none"
  /\ owner.proxy => /\ Has(lq, RemoveObject) => owner.asked /\ ~owner.closing
                    /\ Unique(lq, RemoveObject)
                    /\ ~owner.asked => ~owner.closing
                    /\ owner.ask # {} => job.step = "idle"
                    /\ raced = {}
  /\ owner.ended => owner.closing /\ owner.watches = {}
  /\ owner.ask \subseteq owner.watches
  /\ ~owner.closing => owner.ask = {}

\* The listener's job is about one reader, or about all that are confirmed.
JobInv ==
  /\ job.step = "idle" => job.todo = {} /\ job.cur = {}
  /\ job.step \in {"toWriter", "toReader"} => \E r \in Readers : job.cur = {r}
  /\ job.kind = "confirm" => (\E r \in Readers : job.cur = {r}) /\ job.todo \subseteq job.cur

\* The listener has r's watch in its hands: neither holder has it, or the
\* reader has not.
ToWriter(r) == job.step = "toWriter" /\ job.cur = {r}
ToReader(r) == job.step = "toReader" /\ job.cur = {r}
Handing(r) == ToWriter(r) \/ ToReader(r)

\* The object's thread has asked r's watch back.
Asked(r) == owner.closing /\ r \notin owner.ask

\* Each watch is handed out once, to a reader that is there.
HandedOnce(r) ==
  /\ r \in job.todo => watch[r].mem = "none" /\ InReaders(r)
  /\ r \in job.cur => InReaders(r)
  /\ r \in job.cur /\ job.kind = "confirm" => ~reader[r].confirmed
  /\ r \in job.todo /\ job.kind # "confirm" => reader[r].confirmed
  /\ Handing(r) => /\ watch[r].mem # "none" /\ ~watch[r].started
                   /\ ~reader[r].has /\ ~Has(reader[r].q, "added")
                   /\ ToWriter(r) => ~writer[r].has

\* A reader is confirmed once and removed once, in this order, and its writer
\* is started once.
ReaderInv(r) ==
  /\ Unique(lq, Confirm(r)) /\ Unique(lq, RemoveReader(r))
  /\ Before(lq, Confirm(r), RemoveReader(r))
  /\ Has(lq, Confirm(r)) => reader[r].pc \notin {"shake", "freed"}
  /\ Has(lq, RemoveReader(r)) => reader[r].pc = "gone"
  /\ reader[r].pc = "shake" \/ Has(lq, Confirm(r)) =>
       /\ watch[r].mem = "none" /\ ~reader[r].confirmed
       /\ r \notin job.todo
       /\ ~(job.kind = "confirm" /\ r \in job.cur)
  /\ reader[r].pc \in {"gone", "freed"} => writer[r].pc \in {"off", "ended"}
  /\ ~reader[r].confirmed => ~Has(reader[r].q, "confirm") /\ writer[r].pc = "off"
  /\ Unique(reader[r].q, "confirm")
  /\ Has(reader[r].q, "confirm") => writer[r].pc = "off"

\* A watch that was never created has left no trace.
FreshInv(r) ==
  watch[r].mem = "none" =>
    /\ watch[r] = NoWatch
    /\ ~reader[r].has /\ ~writer[r].has
    /\ ~Has(reader[r].q, "added") /\ ~Has(reader[r].q, "release")
    /\ writer[r].resp = <<>> /\ writer[r].cResp = <<>>
    /\ ~writer[r].held /\ ~writer[r].act /\ ~writer[r].clo
    /\ ~writer[r].cAct /\ ~writer[r].cClo
    /\ wire[r] = <<>>
    /\ ~Has(pq, r)
    /\ r \notin raced /\ r \notin early

\* The owner's list is of the live watches; one that is not closing is held by
\* both its holders, and it is asked back once.
LiveInv(r) ==
  /\ r \in owner.watches <=> Live(r)
  /\ watch[r].active => Live(r) /\ ~watch[r].closing /\ watch[r].started
  /\ Live(r) /\ ~watch[r].closing =>
       /\ ~Asked(r)
       /\ InReaders(r)
       /\ watch[r].reader /\ watch[r].writer
       /\ Handing(r) \/ (reader[r].has /\ writer[r].has)
       /\ ~Has(pq, r)
  /\ r \in raced => Asked(r) /\ watch[r].closing
  /\ Has(reader[r].q, "release") \/ writer[r].clo \/ writer[r].cClo => Asked(r) /\ watch[r].closing
  /\ Unique(reader[r].q, "release")
  /\ ~(writer[r].clo /\ writer[r].cClo)
  /\ Live(r) /\ watch[r].reader => InReaders(r) /\ (reader[r].has \/ Handing(r))
  /\ Live(r) /\ watch[r].writer => InReaders(r) /\ (writer[r].has \/ ToWriter(r))

\* References are given back at most once each.
RefsInv(r) ==
  /\ Has(reader[r].q, "release") \/ writer[r].clo \/ writer[r].cClo => watch[r].refs >= 1
  /\ Has(reader[r].q, "release") /\ (writer[r].clo \/ writer[r].cClo) => watch[r].refs = 2
  /\ ~Asked(r) => watch[r].refs = 2

\* A watch that was in its reader's hands before it was asked back has a
\* reference for each who holds it, and its owner is told when both have let go.
HeldInv(r) ==
  r \notin raced =>
    /\ Unique(pq, r)
    /\ Has(pq, r) => /\ Live(r) /\ watch[r].closing
                     /\ InReaders(r) => ~reader[r].has /\ ~writer[r].has
    /\ Handing(r) => Live(r) /\ ~watch[r].closing
    /\ ToReader(r) => writer[r].has
    /\ InReaders(r) /\ (reader[r].has \/ writer[r].has) => Live(r)
    /\ InReaders(r) /\ ~Handing(r) /\ Live(r) =>
         watch[r].refs = (IF reader[r].has THEN 1 ELSE 0) + (IF writer[r].has THEN 1 ELSE 0)
    /\ InReaders(r) /\ (Has(reader[r].q, "added") \/ Has(reader[r].q, "release")) => reader[r].has
    /\ Before(reader[r].q, "added", "release")
    /\ /\ InReaders(r)
       /\ writer[r].act \/ writer[r].held \/ writer[r].clo \/ writer[r].cAct \/ writer[r].cClo
       => writer[r].has \/ ToWriter(r)

\* What the writer has copied is used up in the order of its loop.
WriterInv(r) ==
  /\ writer[r].pc \in {"off", "wait"} =>
       writer[r].cResp = <<>> /\ ~writer[r].cAct /\ ~writer[r].cClo
  /\ writer[r].pc \in {"active", "closing"} => writer[r].cResp = <<>>
  /\ writer[r].pc = "closing" => ~writer[r].cAct

\* The announcement is made once, and before whatever else is sent.
AnnounceInv(r) ==
  /\ Unique(reader[r].q, "added")
  /\ Has(reader[r].q, "added") => ~watch[r].started
  /\ watch[r].started <=> writer[r].resp # <<>> \/ writer[r].cResp # <<>> \/ Has(wire[r], "announce")
  /\ writer[r].resp # <<>> => writer[r].cResp = <<>> /\ ~Has(wire[r], "announce")
  /\ writer[r].cResp # <<>> => ~Has(wire[r], "announce")
  /\ Unique(wire[r], "announce")
  /\ writer[r].cClo => writer[r].resp = <<>>
  /\ r \notin early =>
       /\ writer[r].act \/ writer[r].held \/ writer[r].cAct => watch[r].started
       /\ writer[r].cAct => writer[r].resp = <<>>
       /\ Has(wire[r], "update") => Has(wire[r], "announce")
       /\ Before(wire[r], "announce", "update")

\* The end is told once, and after whatever else is sent.
EndInv(r) ==
  /\ Unique(wire[r], "remove")
  /\ Before(wire[r], "announce", "remove") /\ Before(wire[r], "update", "remove")
  /\ Has(wire[r], "remove") =>
       /\ Has(wire[r], "announce")
       /\ watch[r].closing /\ Asked(r)
       /\ ~writer[r].act /\ ~writer[r].held /\ ~writer[r].cAct
       /\ ~writer[r].clo /\ ~writer[r].cClo

ReaderParts(r) ==
  /\ HandedOnce(r) /\ ReaderInv(r) /\ FreshInv(r) /\ LiveInv(r) /\ RefsInv(r)
  /\ HeldInv(r) /\ WriterInv(r) /\ AnnounceInv(r) /\ EndInv(r)

IInv == Types /\ OwnerInv /\ JobInv /\ \A r \in Readers : ReaderParts(r)

-----------------------------------------------------------------------------
(* Lemmas about queues *)

\* What is in a queue after an item has been added at its end.
LEMMA AppendFacts ==
  ASSUME NEW S, NEW s \in Seq(S), NEW e \in S
  PROVE  /\ Append(s, e) \in Seq(S)
         /\ \A x : Has(Append(s, e), x) <=> Has(s, x) \/ x = e
         /\ \A x : Unique(s, x) /\ (x # e \/ ~Has(s, x)) => Unique(Append(s, e), x)
         /\ \A x, y : Before(s, x, y) /\ x # y /\ (x # e \/ ~Has(s, y)) => Before(Append(s, e), x, y)
<1>1. /\ Append(s, e) \in Seq(S)
      /\ DOMAIN s = 1..Len(s) /\ Len(s) \in Nat
      /\ DOMAIN Append(s, e) = 1..Len(s) + 1
      /\ \A i \in DOMAIN s : Append(s, e)[i] = s[i]
      /\ Append(s, e)[Len(s) + 1] = e
  OBVIOUS
<1>2. \A i \in DOMAIN Append(s, e) : i \in DOMAIN s \/ i = Len(s) + 1
  BY <1>1
<1> QED BY <1>1, <1>2 DEF Has, Unique, Before

\* What is in a queue after its first item has been taken.
LEMMA TailFacts ==
  ASSUME NEW S, NEW s \in Seq(S), s # <<>>
  PROVE  /\ Tail(s) \in Seq(S) /\ Head(s) \in S
         /\ \A x : Has(s, x) <=> Has(Tail(s), x) \/ x = Head(s)
         /\ \A x : Unique(s, x) => Unique(Tail(s), x) /\ (x = Head(s) => ~Has(Tail(s), x))
         /\ \A x, y : Before(s, x, y) => Before(Tail(s), x, y) /\ (y = Head(s) => ~Has(s, x))
<1>1. /\ Tail(s) \in Seq(S)
      /\ Len(s) \in Nat \ {0} /\ DOMAIN s = 1..Len(s) /\ 1 \in DOMAIN s
      /\ Head(s) = s[1] /\ s[1] \in S
      /\ DOMAIN Tail(s) = 1..Len(s) - 1
      /\ \A i \in DOMAIN Tail(s) : i + 1 \in DOMAIN s /\ Tail(s)[i] = s[i + 1]
  OBVIOUS
<1>2. \A i \in DOMAIN s : i = 1 \/ (i - 1 \in DOMAIN Tail(s) /\ Tail(s)[i - 1] = s[i])
  BY <1>1
<1>3. \A x : Has(s, x) <=> Has(Tail(s), x) \/ x = Head(s)
  BY <1>1, <1>2 DEF Has
<1>4. \A x : Unique(s, x) => Unique(Tail(s), x) /\ (x = Head(s) => ~Has(Tail(s), x))
  <2>1. ASSUME NEW x, Unique(s, x) PROVE Unique(Tail(s), x)
    BY <1>1, <2>1 DEF Unique
  <2>2. ASSUME NEW x, Unique(s, x), x = Head(s) PROVE ~Has(Tail(s), x)
    BY <1>1, <2>2 DEF Unique, Has
  <2> QED BY <2>1, <2>2
<1>5. \A x, y : Before(s, x, y) => Before(Tail(s), x, y) /\ (y = Head(s) => ~Has(s, x))
  <2>1. ASSUME NEW x, NEW y, Before(s, x, y) PROVE Before(Tail(s), x, y)
    BY <1>1, <2>1 DEF Before
  <2>2. ASSUME NEW x, NEW y, Before(s, x, y), y = Head(s) PROVE ~Has(s, x)
    BY <1>1, <2>2 DEF Before, Has
  <2> QED BY <2>1, <2>2
<1> QED BY <1>1, <1>3, <1>4, <1>5

\* An empty queue holds nothing.
LEMMA EmptyFacts == \A x, y : ~Has(<<>>, x) /\ Unique(<<>>, x) /\ Before(<<>>, x, y)
  BY DEF Has, Unique, Before

\* The listener's items are told apart.
LEMMA ItemFacts ==
  ASSUME NEW r \in Readers
  PROVE  /\ Confirm(r) \in Items /\ RemoveReader(r) \in Items /\ Add \in Items /\ RemoveObject \in Items
         /\ Add # RemoveObject /\ Add # Confirm(r) /\ Add # RemoveReader(r)
         /\ RemoveObject # Confirm(r) /\ RemoveObject # RemoveReader(r)
         /\ \A x \in Readers : /\ Confirm(r) # RemoveReader(x)
                               /\ Confirm(r) = Confirm(x) => r = x
                               /\ RemoveReader(r) = RemoveReader(x) => r = x
  BY DEF Confirm, RemoveReader, Add, RemoveObject, Items

-----------------------------------------------------------------------------
(* What a step leaves alone *)

\* Nothing that is said of x has changed, but that it may have been asked back
\* when there is no watch to give back.
Frame(x) ==
  /\ watch'[x] = watch[x] /\ reader'[x] = reader[x] /\ writer'[x] = writer[x]
  /\ wire'[x] = wire[x]
  /\ ToWriter(x)' <=> ToWriter(x)
  /\ ToReader(x)' <=> ToReader(x)
  /\ x \in job.todo' => x \in job.todo /\ job.kind' = job.kind
  /\ x \in job.cur' => x \in job.cur /\ job.kind' = job.kind
  /\ x \in owner.watches' <=> x \in owner.watches
  /\ Asked(x) => Asked(x)'
  /\ Asked(x)' => Asked(x) \/ x \notin owner.watches
  /\ Has(pq', x) <=> Has(pq, x)
  /\ Unique(pq, x) => Unique(pq', x)
  /\ x \in raced' <=> x \in raced
  /\ x \in early' <=> x \in early

\* The listener's queue keeps its order as far as x is concerned.
QueueFrame(x) ==
  /\ Unique(lq, Confirm(x)) => Unique(lq', Confirm(x))
  /\ Unique(lq, RemoveReader(x)) => Unique(lq', RemoveReader(x))
  /\ Before(lq, Confirm(x), RemoveReader(x)) => Before(lq', Confirm(x), RemoveReader(x))
  /\ Has(lq', Confirm(x)) => Has(lq, Confirm(x))
  /\ Has(lq', RemoveReader(x)) => Has(lq, RemoveReader(x))

LEMMA Untouched ==
  ASSUME NEW x \in Readers, ReaderParts(x), Frame(x), QueueFrame(x)
  PROVE  ReaderParts(x)'
<1> USE DEF ReaderParts
<1>1. HandedOnce(x)'
  BY DEF Frame, HandedOnce, Handing, InReaders
<1>2. ReaderInv(x)'
  BY DEF Frame, QueueFrame, ReaderInv, HandedOnce
<1>3. FreshInv(x)'
  BY DEF Frame, FreshInv
<1>4. LiveInv(x)'
  BY DEF Frame, LiveInv, Handing, InReaders, Live
<1>5. RefsInv(x)'
  BY DEF Frame, RefsInv
<1>6. HeldInv(x)'
  BY DEF Frame, HeldInv, Handing, InReaders, Live
<1>7. WriterInv(x)'
  BY DEF Frame, WriterInv
<1>8. AnnounceInv(x)'
  BY DEF Frame, AnnounceInv
<1>9. EndInv(x)'
  BY DEF Frame, EndInv
<1> QED BY <1>1, <1>2, <1>3, <1>4, <1>5, <1>6, <1>7, <1>8, <1>9

-----------------------------------------------------------------------------
(* Readers *)

\* What the invariant says of one reader.
LEMMA PartsFacts ==
  ASSUME IInv, NEW r \in Readers
  PROVE  /\ ReaderParts(r) /\ Types /\ OwnerInv /\ JobInv
         /\ watch[r] \in Watches /\ reader[r] \in TermReaders /\ writer[r] \in TermWriters
         /\ reader[r].q \in Seq(Msgs) /\ wire[r] \in Seq(Words) /\ lq \in Seq(Items) /\ pq \in Seq(Readers)
  BY DEF IInv, Types, TermReaders

\* An item about the object, or about another reader, leaves x's alone.
LEMMA ItemAdded ==
  ASSUME NEW x \in Readers, lq \in Seq(Items), NEW e \in Items, lq' = Append(lq, e),
         e # Confirm(x), e # RemoveReader(x)
  PROVE  QueueFrame(x)
<1>1. Confirm(x) # RemoveReader(x)
  BY ItemFacts
<1> QED BY <1>1, AppendFacts DEF QueueFrame

\* So does taking the first item.
LEMMA ItemTaken ==
  ASSUME NEW x \in Readers, lq \in Seq(Items), lq # <<>>, lq' = Tail(lq)
  PROVE  QueueFrame(x)
  BY TailFacts DEF QueueFrame

\* A step of r's own: the parts said of the others stay.
LEMMA OthersKeep ==
  ASSUME IInv, NEW r \in Readers, UNCHANGED <<owner, job, raced>>,
         \A x \in Readers \ {r} :
           /\ watch'[x] = watch[x] /\ reader'[x] = reader[x] /\ writer'[x] = writer[x]
           /\ wire'[x] = wire[x]
           /\ x \in early' <=> x \in early
           /\ QueueFrame(x)
           /\ Has(pq', x) <=> Has(pq, x)
           /\ Unique(pq, x) => Unique(pq', x)
  PROVE  \A x \in Readers \ {r} : ReaderParts(x)'
<1> SUFFICES ASSUME NEW x \in Readers \ {r} PROVE ReaderParts(x)'
  OBVIOUS
<1>1. Frame(x)
  BY DEF Frame, ToWriter, ToReader, Asked
<1>2. ReaderParts(x)
  BY DEF IInv
<1> QED BY <1>1, <1>2, Untouched

LEMMA QueueKept == ASSUME lq' = lq, NEW x PROVE QueueFrame(x)
  BY DEF QueueFrame

\* What activation leaves of a writer.
LEMMA ActivatedFacts ==
  ASSUME NEW w \in TermWriters
  PROVE  /\ Activated(w) \in TermWriters
         /\ Activated(w).act \/ Activated(w).held
         /\ \A f \in {"pc", "has", "resp", "clo", "cResp", "cAct", "cClo", "unblocked", "stop"} :
              Activated(w)[f] = w[f]
  BY DEF Activated, TermWriters

\* The reader announces the object.
LEMMA HandleWatchAddedKeeps ==
  ASSUME IInv, NEW r \in Readers, HandleWatchAdded(r)
  PROVE  IInv'
<1> DEFINE q == reader[r].q
<1>1. /\ ReaderParts(r) /\ Types /\ OwnerInv /\ JobInv
      /\ watch[r] \in Watches /\ reader[r] \in TermReaders /\ writer[r] \in TermWriters
  BY PartsFacts
<1>2. /\ reader[r].pc = "run" /\ q \in Seq(Msgs) /\ q # <<>> /\ Head(q) = "added"
      /\ Tail(q) \in Seq(Msgs)
      /\ \A x : Has(q, x) <=> Has(Tail(q), x) \/ x = "added"
      /\ \A x : Unique(q, x) => Unique(Tail(q), x)
      /\ ~Has(Tail(q), "added")
      /\ Before(q, "added", "release") => Before(Tail(q), "added", "release")
  BY <1>1, TailFacts DEF TermReaders, HandleWatchAdded, ReaderItem, Running, ReaderParts, AnnounceInv
<1>3. /\ UNCHANGED <<owner, pq, lq, job, wire, changes, raced, early>>
      /\ reader' = [reader EXCEPT ![r].q = Tail(q)]
      /\ reader'[r].q = Tail(q)
      /\ reader'[r].pc = reader[r].pc /\ reader'[r].has = reader[r].has
      /\ reader'[r].confirmed = reader[r].confirmed
  BY <1>1 DEF HandleWatchAdded, TermReaders, Types
<1>4. ~Asked(r)' <=> ~Asked(r)
  BY <1>3 DEF Asked
<1>5. CASE watch[r].closing
  <2>1. watch' = watch /\ writer' = writer
    BY <1>5 DEF HandleWatchAdded
  <2>2. Types' /\ OwnerInv' /\ JobInv'
    BY <1>1, <1>2, <1>3, <2>1 DEF Types, TermReaders, OwnerInv, JobInv
  <2>3. \A x \in Readers \ {r} : ReaderParts(x)'
    BY <1>3, <2>1, OthersKeep, QueueKept
  <2>4. ReaderParts(r)'
    BY <1>1, <1>2, <1>3, <1>4, <2>1 DEF ReaderParts, HandedOnce, ReaderInv, FreshInv, LiveInv, RefsInv, HeldInv,
         WriterInv, AnnounceInv, EndInv, InReaders, Handing, ToWriter, ToReader, Live
  <2> QED BY <2>2, <2>3, <2>4 DEF IInv
<1>6. CASE ~watch[r].closing
  <2>1. /\ ~watch[r].started
        /\ writer[r].resp = <<>> /\ writer[r].cResp = <<>> /\ ~Has(wire[r], "announce")
    BY <1>1, <1>2 DEF ReaderParts, AnnounceInv
  <2>2. Live(r) /\ ~Handing(r) /\ reader[r].has /\ writer[r].has /\ r \notin raced
    BY <1>1, <1>2, <1>6 DEF ReaderParts, HandedOnce, LiveInv, HeldInv, InReaders, Live
  <2>3. /\ watch' = [watch EXCEPT ![r].active = TRUE, ![r].started = TRUE, ![r].dirty = TRUE]
        /\ writer' = [writer EXCEPT ![r] = Activated([writer[r] EXCEPT !.resp = Append(@, "announce")])]
    BY <1>6 DEF HandleWatchAdded
  <2> DEFINE w == [writer[r] EXCEPT !.resp = <<"announce">>]
  <2>4. w \in TermWriters /\ writer' = [writer EXCEPT ![r] = Activated(w)]
    <3>1. w \in TermWriters /\ Append(writer[r].resp, "announce") = <<"announce">>
      BY <1>1, <2>1 DEF TermWriters, Pending
    <3>2. [writer[r] EXCEPT !.resp = Append(@, "announce")] = w
      BY <3>1
    <3> QED BY <2>3, <3>1, <3>2
  <2>5. /\ watch'[r] = [watch[r] EXCEPT !.active = TRUE, !.started = TRUE, !.dirty = TRUE]
        /\ watch'[r] \in Watches
        /\ watch' \in [Readers -> Watches]
    BY <1>1, <2>3 DEF Types, Watches
  <2>6. /\ writer'[r] \in TermWriters /\ writer' \in [Readers -> TermWriters]
        /\ writer'[r].act \/ writer'[r].held
        /\ writer'[r].pc = writer[r].pc /\ writer'[r].has = writer[r].has
        /\ writer'[r].resp = <<"announce">>
        /\ writer'[r].clo = writer[r].clo /\ writer'[r].cResp = writer[r].cResp
        /\ writer'[r].cAct = writer[r].cAct /\ writer'[r].cClo = writer[r].cClo
    <3>1. writer'[r] = Activated(w) /\ writer' \in [Readers -> TermWriters]
      BY <1>1, <2>4, ActivatedFacts DEF Types
    <3>2. /\ w.pc = writer[r].pc /\ w.has = writer[r].has /\ w.resp = <<"announce">>
          /\ w.clo = writer[r].clo /\ w.cResp = writer[r].cResp
          /\ w.cAct = writer[r].cAct /\ w.cClo = writer[r].cClo
      BY <1>1 DEF TermWriters
    <3> HIDE DEF w
    <3>3. /\ Activated(w) \in TermWriters /\ (Activated(w).act \/ Activated(w).held)
          /\ \A f \in {"pc", "has", "resp", "clo", "cResp", "cAct", "cClo"} : Activated(w)[f] = w[f]
      BY <2>4, ActivatedFacts
    <3> QED BY <3>1, <3>2, <3>3
  <2>7. Types' /\ OwnerInv' /\ JobInv'
    BY <1>1, <1>2, <1>3, <2>2, <2>5, <2>6 DEF Types, TermReaders, OwnerInv, JobInv, Watches, Live
  <2>8. \A x \in Readers \ {r} : ReaderParts(x)'
    BY <1>1, <1>3, <2>3, OthersKeep, QueueKept DEF Types
  <2>9. ~Has(wire[r], "remove") /\ ~Has(q, "release") /\ ~writer[r].clo /\ ~writer[r].cClo /\ ~Asked(r)
    BY <1>1, <1>6, <2>2 DEF ReaderParts, LiveInv, EndInv
  <2>10. HandedOnce(r)' /\ ReaderInv(r)' /\ FreshInv(r)' /\ RefsInv(r)' /\ WriterInv(r)'
    <3>1. HandedOnce(r)'
      BY <1>1, <1>2, <1>3, <1>4, <2>1, <2>2, <2>5, <2>6, <2>9
      DEF Watches, ReaderParts, HandedOnce, InReaders, Handing, ToWriter, ToReader, Live
    <3>2. ReaderInv(r)'
      BY <1>1, <1>2, <1>3, <1>4, <2>1, <2>2, <2>5, <2>6, <2>9 DEF Watches, ReaderParts, ReaderInv
    <3>3. FreshInv(r)'
      BY <1>1, <1>2, <1>3, <1>4, <2>1, <2>2, <2>5, <2>6, <2>9 DEF Watches, ReaderParts, FreshInv
    <3>4. RefsInv(r)'
      BY <1>1, <1>2, <1>3, <1>4, <2>1, <2>2, <2>5, <2>6, <2>9 DEF Watches, ReaderParts, RefsInv
    <3>5. WriterInv(r)'
      BY <1>1, <1>2, <1>3, <1>4, <2>1, <2>2, <2>5, <2>6, <2>9 DEF Watches, ReaderParts, WriterInv
    <3> QED BY <3>1, <3>2, <3>3, <3>4, <3>5
  <2>11. LiveInv(r)' /\ HeldInv(r)'
    BY <1>1, <1>2, <1>3, <1>4, <1>6, <2>2, <2>5, <2>6, <2>9
    DEF Watches, ReaderParts, LiveInv, HeldInv, InReaders, Handing, ToWriter, ToReader, Live
  <2>12. AnnounceInv(r)' /\ EndInv(r)'
    BY <1>1, <1>2, <1>3, <2>1, <2>2, <2>5, <2>6, <2>9 DEF Watches, ReaderParts, AnnounceInv, EndInv
  <2> QED BY <2>7, <2>8, <2>10, <2>11, <2>12 DEF IInv, ReaderParts
<1> QED BY <1>5, <1>6

\* The reader gives its reference back, or has none to give.
LEMMA HandleWatchReleaseKeeps ==
  ASSUME IInv, NEW r \in Readers, HandleWatchRelease(r)
  PROVE  IInv'
<1> DEFINE q == reader[r].q
<1>1. /\ ReaderParts(r) /\ Types /\ OwnerInv /\ JobInv
      /\ watch[r] \in Watches /\ reader[r] \in TermReaders /\ writer[r] \in TermWriters
  BY PartsFacts
<1>2. /\ reader[r].pc = "run" /\ q \in Seq(Msgs) /\ q # <<>> /\ Head(q) = "release"
      /\ Tail(q) \in Seq(Msgs)
      /\ \A x : Has(q, x) <=> Has(Tail(q), x) \/ x = "release"
      /\ \A x : Unique(q, x) => Unique(Tail(q), x)
      /\ ~Has(Tail(q), "release")
      /\ Before(q, "added", "release") => Before(Tail(q), "added", "release") /\ ~Has(q, "added")
  BY <1>1, TailFacts DEF TermReaders, HandleWatchRelease, ReaderItem, Running, ReaderParts, LiveInv
<1>3. /\ UNCHANGED <<owner, lq, job, writer, wire, changes, raced, early>>
      /\ reader' = [reader EXCEPT ![r].q = Tail(q), ![r].has = FALSE]
      /\ reader'[r] \in TermReaders
      /\ reader'[r].q = Tail(q) /\ ~reader'[r].has
      /\ reader'[r].pc = reader[r].pc /\ reader'[r].confirmed = reader[r].confirmed
  BY <1>1, <1>2 DEF HandleWatchRelease, TermReaders, Types
<1>4. Asked(r) /\ Asked(r)' /\ watch[r].closing /\ watch[r].mem # "none" /\ watch[r].refs >= 1
  BY <1>1, <1>2, <1>3 DEF ReaderParts, LiveInv, RefsInv, FreshInv, Asked
<1>5. CASE ~reader[r].has
  <2>1. watch' = watch /\ pq' = pq
    BY <1>5 DEF HandleWatchRelease
  <2>2. Types' /\ OwnerInv' /\ JobInv'
    BY <1>1, <1>2, <1>3, <2>1 DEF Types, TermReaders, OwnerInv, JobInv
  <2>3. \A x \in Readers \ {r} : ReaderParts(x)'
    BY <1>1, <1>3, <2>1, OthersKeep, QueueKept DEF Types
  <2>4. ReaderParts(r)'
    <3>1. HandedOnce(r)'
      BY <1>1, <1>2, <1>3, <1>4, <1>5, <2>1
      DEF ReaderParts, HandedOnce, InReaders, Handing, ToWriter, ToReader, Live
    <3>2. ReaderInv(r)'
      BY <1>1, <1>2, <1>3, <1>4, <1>5, <2>1 DEF ReaderParts, ReaderInv
    <3>3. FreshInv(r)'
      BY <1>1, <1>2, <1>3, <1>4, <1>5, <2>1 DEF ReaderParts, FreshInv
    <3>4. LiveInv(r)'
      BY <1>1, <1>2, <1>3, <1>4, <1>5, <2>1
      DEF ReaderParts, LiveInv, InReaders, Handing, ToWriter, ToReader, Live
    <3>5. RefsInv(r)'
      BY <1>1, <1>2, <1>3, <1>4, <1>5, <2>1 DEF ReaderParts, RefsInv
    <3>6. HeldInv(r)'
      BY <1>1, <1>2, <1>3, <1>4, <1>5, <2>1 DEF ReaderParts, HeldInv, Live, InReaders
    <3>7. WriterInv(r)'
      BY <1>1, <1>2, <1>3, <1>4, <1>5, <2>1 DEF ReaderParts, WriterInv
    <3>8. AnnounceInv(r)'
      BY <1>1, <1>2, <1>3, <1>4, <1>5, <2>1 DEF ReaderParts, AnnounceInv
    <3>9. EndInv(r)'
      BY <1>1, <1>2, <1>3, <1>4, <1>5, <2>1 DEF ReaderParts, EndInv
    <3> QED BY <3>1, <3>2, <3>3, <3>4, <3>5, <3>6, <3>7, <3>8, <3>9 DEF ReaderParts
  <2> QED BY <2>2, <2>3, <2>4 DEF IInv
<1>6. CASE reader[r].has
  <2>1. /\ watch' = [watch EXCEPT ![r].active = FALSE, ![r].reader = FALSE, ![r].refs = @ - 1]
        /\ pq' = IF watch[r].refs = 1 THEN Append(pq, r) ELSE pq
    BY <1>6 DEF HandleWatchRelease, Dropped
  <2>2. /\ watch'[r] = [watch[r] EXCEPT !.active = FALSE, !.reader = FALSE, !.refs = @ - 1]
        /\ watch'[r] \in Watches
        /\ watch' \in [Readers -> Watches]
    <3> DEFINE w == [watch[r] EXCEPT !.active = FALSE, !.reader = FALSE, !.refs = @ - 1]
    <3>1. watch[r].refs - 1 \in 0..2
      BY <1>1, <1>4 DEF Watches
    <3>2. w \in Watches
      BY <1>1, <3>1 DEF Watches
    <3>3. watch' = [watch EXCEPT ![r] = w]
      BY <1>1, <2>1 DEF Types
    <3> QED BY <1>1, <3>2, <3>3 DEF Types
  <2>3. /\ pq' \in Seq(Readers)
        /\ Has(pq', r) <=> Has(pq, r) \/ watch[r].refs = 1
        /\ Unique(pq, r) /\ ~Has(pq, r) => Unique(pq', r)
        /\ \A x \in Readers \ {r} : (Has(pq', x) <=> Has(pq, x)) /\ (Unique(pq, x) => Unique(pq', x))
    BY <1>1, <2>1, AppendFacts DEF Types
  <2>4. Types' /\ OwnerInv' /\ JobInv'
    <3>1. Types'
      BY <1>1, <1>2, <1>3, <2>2, <2>3 DEF Types, TermReaders
    <3>2. \A x \in Readers : watch'[x].mem = watch[x].mem
      BY <1>1, <2>1 DEF Types, Watches
    <3>3. OwnerInv'
      BY <1>1, <1>3, <3>2 DEF OwnerInv
    <3> QED BY <1>1, <1>3, <3>1, <3>3 DEF JobInv
  <2>5. \A x \in Readers \ {r} : ReaderParts(x)'
    BY <1>1, <1>3, <2>1, <2>3, OthersKeep, QueueKept DEF Types
  <2>6. HandedOnce(r)' /\ ReaderInv(r)' /\ FreshInv(r)' /\ RefsInv(r)' /\ WriterInv(r)'
    <3>1. HandedOnce(r)'
      BY <1>1, <1>2, <1>3, <1>4, <1>6, <2>2
      DEF Watches, ReaderParts, HandedOnce, InReaders, Handing, ToWriter, ToReader, Live
    <3>2. ReaderInv(r)'
      BY <1>1, <1>2, <1>3, <1>4, <1>6, <2>2 DEF Watches, ReaderParts, ReaderInv
    <3>3. FreshInv(r)'
      BY <1>1, <1>2, <1>3, <1>4, <1>6, <2>2 DEF Watches, ReaderParts, FreshInv
    <3>4. RefsInv(r)'
      BY <1>1, <1>2, <1>3, <1>4, <1>6, <2>2 DEF Watches, ReaderParts, RefsInv
    <3>5. WriterInv(r)'
      BY <1>1, <1>2, <1>3, <1>4, <1>6, <2>2 DEF Watches, ReaderParts, WriterInv
    <3> QED BY <3>1, <3>2, <3>3, <3>4, <3>5
  <2>7. LiveInv(r)'
    BY <1>1, <1>2, <1>3, <1>4, <1>6, <2>2, <2>3
    DEF Watches, ReaderParts, LiveInv, HandedOnce, InReaders, Handing, ToWriter, ToReader, Live
  <2>8. HeldInv(r)'
    <3>1. r \notin raced => /\ Live(r) /\ ~Has(pq, r) /\ ~Handing(r)
                            /\ watch[r].refs = 1 + (IF writer[r].has THEN 1 ELSE 0)
      BY <1>1, <1>2, <1>6 DEF ReaderParts, HeldInv, HandedOnce, InReaders
    <3> QED BY <1>1, <1>2, <1>3, <1>4, <1>6, <2>2, <2>3, <3>1
            DEF Watches, ReaderParts, HeldInv, InReaders, Handing, ToWriter, ToReader, Live
  <2>9. AnnounceInv(r)' /\ EndInv(r)'
    BY <1>1, <1>2, <1>3, <1>4, <2>2 DEF Watches, ReaderParts, AnnounceInv, EndInv
  <2> QED BY <2>4, <2>5, <2>6, <2>7, <2>8, <2>9 DEF IInv, ReaderParts
<1> QED BY <1>5, <1>6

\* The reader's writer is started.
LEMMA HandlePostConfirmKeeps ==
  ASSUME IInv, NEW r \in Readers, HandlePostConfirm(r)
  PROVE  IInv'
<1> DEFINE q == reader[r].q
<1>1. /\ ReaderParts(r) /\ Types /\ OwnerInv /\ JobInv
      /\ watch[r] \in Watches /\ reader[r] \in TermReaders /\ writer[r] \in TermWriters
  BY PartsFacts
<1>2. /\ reader[r].pc = "run" /\ q \in Seq(Msgs) /\ q # <<>> /\ Head(q) = "confirm"
      /\ Tail(q) \in Seq(Msgs)
      /\ \A x : Has(q, x) <=> Has(Tail(q), x) \/ x = "confirm"
      /\ \A x : Unique(q, x) => Unique(Tail(q), x)
      /\ ~Has(Tail(q), "confirm")
      /\ Before(q, "added", "release") => Before(Tail(q), "added", "release")
  BY <1>1, TailFacts DEF TermReaders, HandlePostConfirm, ReaderItem, Running, ReaderParts, ReaderInv
<1>3. /\ UNCHANGED <<owner, pq, lq, job, watch, wire, changes, raced, early>>
      /\ reader' = [reader EXCEPT ![r].q = Tail(q)]
      /\ reader'[r] \in TermReaders
      /\ reader'[r].q = Tail(q) /\ reader'[r].has = reader[r].has
      /\ reader'[r].pc = reader[r].pc /\ reader'[r].confirmed = reader[r].confirmed
      /\ writer' = [writer EXCEPT ![r].pc = "wait"]
      /\ writer'[r] = [writer[r] EXCEPT !.pc = "wait"]
      /\ writer'[r] \in TermWriters
  BY <1>1, <1>2 DEF HandlePostConfirm, TermReaders, TermWriters, Types
<1>4. reader[r].confirmed /\ writer[r].pc = "off" /\ (Asked(r)' <=> Asked(r))
  BY <1>1, <1>2, <1>3 DEF ReaderParts, ReaderInv, Asked
<1>5. Types' /\ OwnerInv' /\ JobInv'
  BY <1>1, <1>2, <1>3 DEF Types, OwnerInv, JobInv
<1>6. \A x \in Readers \ {r} : ReaderParts(x)'
  BY <1>1, <1>3, OthersKeep, QueueKept DEF Types
<1>7. ReaderParts(r)'
  <2>1. HandedOnce(r)'
    BY <1>1, <1>2, <1>3, <1>4
    DEF TermWriters, ReaderParts, HandedOnce, InReaders, Handing, ToWriter, ToReader, Live
  <2>2. ReaderInv(r)'
    BY <1>1, <1>2, <1>3, <1>4 DEF TermWriters, ReaderParts, ReaderInv
  <2>3. FreshInv(r)'
    BY <1>1, <1>2, <1>3, <1>4 DEF TermWriters, ReaderParts, FreshInv
  <2>4. LiveInv(r)'
    BY <1>1, <1>2, <1>3, <1>4
    DEF TermWriters, ReaderParts, LiveInv, InReaders, Handing, ToWriter, ToReader, Live
  <2>5. RefsInv(r)'
    BY <1>1, <1>2, <1>3, <1>4 DEF TermWriters, ReaderParts, RefsInv
  <2>6. HeldInv(r)'
    BY <1>1, <1>2, <1>3, <1>4
    DEF TermWriters, ReaderParts, HeldInv, InReaders, Handing, ToWriter, ToReader, Live
  <2>7. WriterInv(r)'
    BY <1>1, <1>2, <1>3, <1>4 DEF TermWriters, ReaderParts, WriterInv
  <2>8. AnnounceInv(r)'
    BY <1>1, <1>2, <1>3, <1>4 DEF TermWriters, ReaderParts, AnnounceInv
  <2>9. EndInv(r)'
    BY <1>1, <1>2, <1>3, <1>4 DEF TermWriters, ReaderParts, EndInv
  <2> QED BY <2>1, <2>2, <2>3, <2>4, <2>5, <2>6, <2>7, <2>8, <2>9 DEF ReaderParts
<1> QED BY <1>5, <1>6, <1>7 DEF IInv

\* The client announces itself.
LEMMA UnblockKeeps ==
  ASSUME IInv, NEW r \in Readers, Unblock(r)
  PROVE  IInv'
<1>1. /\ ReaderParts(r) /\ Types /\ OwnerInv /\ JobInv
      /\ watch[r] \in Watches /\ reader[r] \in TermReaders /\ writer[r] \in TermWriters
  BY PartsFacts
<1>2. /\ UNCHANGED <<owner, pq, lq, job, watch, reader, wire, changes, raced, early>>
      /\ writer' = [writer EXCEPT ![r].unblocked = TRUE, ![r].act = writer[r].held,
                                  ![r].held = FALSE, ![r].todo = TRUE]
      /\ ~writer[r].unblocked
  BY DEF Unblock
<1>3. /\ writer'[r] = [writer[r] EXCEPT !.unblocked = TRUE, !.act = writer[r].held,
                                        !.held = FALSE, !.todo = TRUE]
      /\ writer'[r] \in TermWriters /\ writer' \in [Readers -> TermWriters]
  BY <1>1, <1>2 DEF TermWriters, Types
<1>4. Asked(r)' <=> Asked(r)
  BY <1>2 DEF Asked
<1>5. Types' /\ OwnerInv' /\ JobInv'
  BY <1>1, <1>2, <1>3 DEF Types, OwnerInv, JobInv
<1>6. \A x \in Readers \ {r} : ReaderParts(x)'
  BY <1>1, <1>2, OthersKeep, QueueKept DEF Types
<1>7. ReaderParts(r)'
  <2>1. HandedOnce(r)'
    BY <1>1, <1>2, <1>3, <1>4
    DEF TermWriters, ReaderParts, HandedOnce, InReaders, Handing, ToWriter, ToReader, Live
  <2>2. ReaderInv(r)'
    BY <1>1, <1>2, <1>3, <1>4 DEF TermWriters, ReaderParts, ReaderInv
  <2>3. FreshInv(r)'
    BY <1>1, <1>2, <1>3, <1>4 DEF TermWriters, ReaderParts, FreshInv
  <2>4. LiveInv(r)'
    BY <1>1, <1>2, <1>3, <1>4
    DEF TermWriters, ReaderParts, LiveInv, InReaders, Handing, ToWriter, ToReader, Live
  <2>5. RefsInv(r)'
    BY <1>1, <1>2, <1>3, <1>4 DEF TermWriters, ReaderParts, RefsInv
  <2>6. HeldInv(r)'
    BY <1>1, <1>2, <1>3, <1>4
    DEF TermWriters, ReaderParts, HeldInv, InReaders, Handing, ToWriter, ToReader, Live
  <2>7. WriterInv(r)'
    BY <1>1, <1>2, <1>3, <1>4 DEF TermWriters, ReaderParts, WriterInv
  <2>8. AnnounceInv(r)'
    BY <1>1, <1>2, <1>3, <1>4 DEF TermWriters, ReaderParts, AnnounceInv
  <2>9. EndInv(r)'
    BY <1>1, <1>2, <1>3, <1>4 DEF TermWriters, ReaderParts, EndInv
  <2> QED BY <2>1, <2>2, <2>3, <2>4, <2>5, <2>6, <2>7, <2>8, <2>9 DEF ReaderParts
<1> QED BY <1>5, <1>6, <1>7 DEF IInv

\* The reader stops running; it handles the writer's "close" in the same way.
LEMMA ReaderQuitKeeps ==
  ASSUME IInv, NEW r \in Readers, ReaderQuit(r)
  PROVE  IInv'
<1>1. /\ ReaderParts(r) /\ Types /\ OwnerInv /\ JobInv
      /\ watch[r] \in Watches /\ reader[r] \in TermReaders /\ writer[r] \in TermWriters
  BY PartsFacts
<1>2. /\ UNCHANGED <<owner, pq, lq, job, watch, wire, changes, raced, early>>
      /\ reader[r].pc \in {"shake", "run"}
      /\ reader' = [reader EXCEPT ![r].pc = "join"]
      /\ writer' = [writer EXCEPT ![r].stop = TRUE]
  BY DEF ReaderQuit
<1>3. /\ reader'[r] = [reader[r] EXCEPT !.pc = "join"]
      /\ reader'[r] \in TermReaders
      /\ writer'[r] = [writer[r] EXCEPT !.stop = TRUE]
      /\ writer'[r] \in TermWriters
      /\ Asked(r)' <=> Asked(r)
  BY <1>1, <1>2 DEF TermReaders, TermWriters, Types, Asked
<1>4. Types' /\ OwnerInv' /\ JobInv'
  BY <1>1, <1>2, <1>3 DEF Types, OwnerInv, JobInv
<1>5. \A x \in Readers \ {r} : ReaderParts(x)'
  BY <1>1, <1>2, OthersKeep, QueueKept DEF Types
<1>6. ReaderParts(r)'
  BY <1>1, <1>2, <1>3
  DEF TermReaders, TermWriters, ReaderParts, HandedOnce, ReaderInv, FreshInv, LiveInv, RefsInv, HeldInv,
       WriterInv, AnnounceInv, EndInv, InReaders, Handing, ToWriter, ToReader, Live
<1> QED BY <1>4, <1>5, <1>6 DEF IInv

\* The handshake is over, and the listener is told of the reader.
LEMMA PostConfirmReaderKeeps ==
  ASSUME IInv, NEW r \in Readers, PostConfirmReader(r)
  PROVE  IInv'
<1>1. /\ ReaderParts(r) /\ Types /\ OwnerInv /\ JobInv
      /\ reader[r] \in TermReaders /\ lq \in Seq(Items)
  BY PartsFacts
<1>2. /\ UNCHANGED <<owner, pq, job, watch, writer, wire, changes, raced, early>>
      /\ reader[r].pc = "shake"
      /\ reader' = [reader EXCEPT ![r].pc = "run"]
      /\ lq' = Append(lq, Confirm(r))
  BY DEF PostConfirmReader, Confirm
<1>3. /\ reader'[r] = [reader[r] EXCEPT !.pc = "run"]
      /\ reader'[r] \in TermReaders
      /\ Asked(r)' <=> Asked(r)
  BY <1>1, <1>2 DEF TermReaders, Types, Asked
<1>4. /\ lq' \in Seq(Items)
      /\ Has(lq', Add) <=> Has(lq, Add)
      /\ Has(lq', RemoveObject) <=> Has(lq, RemoveObject)
      /\ Unique(lq, Add) => Unique(lq', Add)
      /\ Unique(lq, RemoveObject) => Unique(lq', RemoveObject)
      /\ ~Has(lq, Confirm(r)) /\ Unique(lq, Confirm(r)) => Unique(lq', Confirm(r))
      /\ Unique(lq, RemoveReader(r)) => Unique(lq', RemoveReader(r))
      /\ Has(lq', RemoveReader(r)) => Has(lq, RemoveReader(r))
      /\ ~Has(lq, RemoveReader(r)) /\ Before(lq, Confirm(r), RemoveReader(r)) =>
           Before(lq', Confirm(r), RemoveReader(r))
  BY <1>1, <1>2, ItemFacts, AppendFacts
<1>5. Types' /\ OwnerInv' /\ JobInv'
  BY <1>1, <1>2, <1>3, <1>4 DEF Types, OwnerInv, JobInv
<1>6. \A x \in Readers \ {r} : QueueFrame(x)
  BY <1>1, <1>2, ItemFacts, ItemAdded
<1>7. \A x \in Readers \ {r} : ReaderParts(x)'
  BY <1>1, <1>2, <1>6, OthersKeep DEF Types
<1>8. ReaderParts(r)'
  BY <1>1, <1>2, <1>3, <1>4
  DEF TermReaders, ReaderParts, HandedOnce, ReaderInv, FreshInv, LiveInv, RefsInv, HeldInv,
       WriterInv, AnnounceInv, EndInv, InReaders, Handing, ToWriter, ToReader, Live
<1> QED BY <1>5, <1>7, <1>8 DEF IInv

\* The writer is joined, and the listener told to remove the reader.
LEMMA ReaderGoneKeeps ==
  ASSUME IInv, NEW r \in Readers, ReaderGone(r)
  PROVE  IInv'
<1>1. /\ ReaderParts(r) /\ Types /\ OwnerInv /\ JobInv
      /\ reader[r] \in TermReaders /\ lq \in Seq(Items)
  BY PartsFacts
<1>2. /\ UNCHANGED <<owner, pq, job, watch, writer, wire, changes, raced, early>>
      /\ reader[r].pc = "join" /\ writer[r].pc \in {"off", "ended"}
      /\ reader' = [reader EXCEPT ![r].pc = "gone"]
      /\ lq' = Append(lq, RemoveReader(r))
  BY DEF ReaderGone, RemoveReader
<1>3. /\ reader'[r] = [reader[r] EXCEPT !.pc = "gone"]
      /\ reader'[r] \in TermReaders
      /\ Asked(r)' <=> Asked(r)
  BY <1>1, <1>2 DEF TermReaders, Types, Asked
<1>4. /\ lq' \in Seq(Items)
      /\ Has(lq', Add) <=> Has(lq, Add)
      /\ Has(lq', RemoveObject) <=> Has(lq, RemoveObject)
      /\ Unique(lq, Add) => Unique(lq', Add)
      /\ Unique(lq, RemoveObject) => Unique(lq', RemoveObject)
      /\ Has(lq', Confirm(r)) <=> Has(lq, Confirm(r))
      /\ Unique(lq, Confirm(r)) => Unique(lq', Confirm(r))
      /\ ~Has(lq, RemoveReader(r)) /\ Unique(lq, RemoveReader(r)) => Unique(lq', RemoveReader(r))
      /\ Before(lq, Confirm(r), RemoveReader(r)) => Before(lq', Confirm(r), RemoveReader(r))
  BY <1>1, <1>2, ItemFacts, AppendFacts
<1>5. Types' /\ OwnerInv' /\ JobInv'
  BY <1>1, <1>2, <1>3, <1>4 DEF Types, OwnerInv, JobInv
<1>6. \A x \in Readers \ {r} : QueueFrame(x)
  BY <1>1, <1>2, ItemFacts, ItemAdded
<1>7. \A x \in Readers \ {r} : ReaderParts(x)'
  BY <1>1, <1>2, <1>6, OthersKeep DEF Types
<1>8. ReaderParts(r)'
  <2>1. HandedOnce(r)'
    BY <1>1, <1>2, <1>3, <1>4
    DEF TermReaders, ReaderParts, HandedOnce, InReaders, Handing, ToWriter, ToReader, Live
  <2>2. ReaderInv(r)'
    BY <1>1, <1>2, <1>3, <1>4 DEF TermReaders, ReaderParts, ReaderInv
  <2>3. FreshInv(r)'
    BY <1>1, <1>2, <1>3, <1>4 DEF TermReaders, ReaderParts, FreshInv
  <2>4. LiveInv(r)'
    BY <1>1, <1>2, <1>3, <1>4
    DEF TermReaders, ReaderParts, LiveInv, InReaders, Handing, ToWriter, ToReader, Live
  <2>5. RefsInv(r)'
    BY <1>1, <1>2, <1>3, <1>4 DEF TermReaders, ReaderParts, RefsInv
  <2>6. HeldInv(r)'
    BY <1>1, <1>2, <1>3, <1>4
    DEF TermReaders, ReaderParts, HeldInv, InReaders, Handing, ToWriter, ToReader, Live
  <2>7. WriterInv(r)'
    BY <1>1, <1>2, <1>3, <1>4 DEF TermReaders, ReaderParts, WriterInv
  <2>8. AnnounceInv(r)'
    BY <1>1, <1>2, <1>3, <1>4 DEF TermReaders, ReaderParts, AnnounceInv
  <2>9. EndInv(r)'
    BY <1>1, <1>2, <1>3, <1>4 DEF TermReaders, ReaderParts, EndInv
  <2> QED BY <2>1, <2>2, <2>3, <2>4, <2>5, <2>6, <2>7, <2>8, <2>9 DEF ReaderParts
<1> QED BY <1>5, <1>7, <1>8 DEF IInv

-----------------------------------------------------------------------------
(* Writers *)

\* The writer copies what it has been asked to do.
LEMMA WriterSwapKeeps ==
  ASSUME IInv, NEW r \in Readers, WriterSwap(r)
  PROVE  IInv'
<1>1. /\ ReaderParts(r) /\ Types /\ OwnerInv /\ JobInv
      /\ watch[r] \in Watches /\ reader[r] \in TermReaders /\ writer[r] \in TermWriters
  BY PartsFacts
<1>2. /\ UNCHANGED <<owner, pq, lq, job, watch, reader, wire, changes, raced, early>>
      /\ writer[r].pc = "wait"
      /\ writer' = [writer EXCEPT ![r].pc = "send", ![r].todo = FALSE,
                      ![r].cResp = writer[r].resp, ![r].resp = <<>>,
                      ![r].cAct = writer[r].act, ![r].act = FALSE,
                      ![r].cClo = writer[r].clo, ![r].clo = FALSE]
  BY DEF WriterSwap
<1>3. writer[r].cResp = <<>> /\ ~writer[r].cAct /\ ~writer[r].cClo
  BY <1>1, <1>2 DEF ReaderParts, WriterInv
<1> DEFINE w == [writer[r] EXCEPT !.pc = "send", !.todo = FALSE,
                   !.cResp = writer[r].resp, !.resp = <<>>, !.cAct = writer[r].act, !.act = FALSE,
                   !.cClo = writer[r].clo, !.clo = FALSE]
<1>4. w \in TermWriters /\ writer' = [writer EXCEPT ![r] = w]
  BY <1>1, <1>2 DEF TermWriters, Types, Pending
<1>5. /\ writer'[r] \in TermWriters /\ writer' \in [Readers -> TermWriters]
      /\ writer'[r].pc = "send" /\ writer'[r].has = writer[r].has /\ writer'[r].held = writer[r].held
      /\ writer'[r].resp = <<>> /\ ~writer'[r].act /\ ~writer'[r].clo
      /\ writer'[r].cResp = writer[r].resp /\ writer'[r].cAct = writer[r].act
      /\ writer'[r].cClo = writer[r].clo
      /\ Asked(r)' <=> Asked(r)
  <2>1. writer'[r] = w /\ writer' \in [Readers -> TermWriters]
    BY <1>1, <1>4 DEF Types
  <2> HIDE DEF w
  <2>2. /\ w.pc = "send" /\ w.has = writer[r].has /\ w.held = writer[r].held
        /\ w.resp = <<>> /\ w.act = FALSE /\ w.clo = FALSE
        /\ w.cResp = writer[r].resp /\ w.cAct = writer[r].act /\ w.cClo = writer[r].clo
    BY <1>1 DEF w, TermWriters
  <2> QED BY <1>2, <1>4, <2>1, <2>2 DEF Asked
<1>6. Types' /\ OwnerInv' /\ JobInv'
  BY <1>1, <1>2, <1>5 DEF Types, OwnerInv, JobInv
<1>7. \A x \in Readers \ {r} : ReaderParts(x)'
  BY <1>1, <1>2, <1>4, OthersKeep, QueueKept DEF Types
<1>8. ReaderParts(r)'
  <2> HIDE DEF w
  <2>1. HandedOnce(r)'
    BY <1>1, <1>2, <1>3, <1>5 DEF ReaderParts, HandedOnce, InReaders, Handing, ToWriter, ToReader, Live
  <2>2. ReaderInv(r)'
    BY <1>1, <1>2, <1>3, <1>5 DEF ReaderParts, ReaderInv
  <2>3. FreshInv(r)'
    <3>1. /\ FreshInv(r) /\ watch' = watch /\ reader' = reader /\ wire' = wire /\ pq' = pq
          /\ raced' = raced /\ early' = early
      BY <1>1, <1>2 DEF ReaderParts
    <3> QED BY <1>5, <3>1 DEF FreshInv
  <2>4. LiveInv(r)'
    <3>1. /\ LiveInv(r) /\ watch' = watch /\ reader' = reader /\ owner' = owner /\ pq' = pq
          /\ lq' = lq /\ job' = job /\ raced' = raced
      BY <1>1, <1>2 DEF ReaderParts
    <3> QED BY <1>3, <1>5, <3>1 DEF LiveInv, InReaders, Handing, ToWriter, ToReader, Live
  <2>5. RefsInv(r)'
    BY <1>1, <1>2, <1>3, <1>5 DEF ReaderParts, RefsInv
  <2>6. HeldInv(r)'
    BY <1>1, <1>2, <1>3, <1>5 DEF ReaderParts, HeldInv, InReaders, Handing, ToWriter, ToReader, Live
  <2>7. WriterInv(r)'
    BY <1>1, <1>2, <1>3, <1>5 DEF ReaderParts, WriterInv
  <2>8. AnnounceInv(r)'
    <3>1. AnnounceInv(r)
      BY <1>1 DEF ReaderParts
    <3>2. /\ watch' = watch /\ wire' = wire /\ reader' = reader /\ early' = early
      BY <1>2
    <3>3. /\ Unique(reader'[r].q, "added")
          /\ Has(reader'[r].q, "added") => ~watch'[r].started
          /\ Unique(wire'[r], "announce")
      BY <3>1, <3>2 DEF AnnounceInv
    <3>4. watch'[r].started <=> writer'[r].resp # <<>> \/ writer'[r].cResp # <<>> \/ Has(wire'[r], "announce")
      BY <1>3, <1>5, <3>1, <3>2 DEF AnnounceInv
    <3>5. /\ writer'[r].resp = <<>>
          /\ writer'[r].cResp # <<>> => ~Has(wire'[r], "announce")
      BY <1>3, <1>5, <3>1, <3>2 DEF AnnounceInv
    <3>6. r \notin early' =>
            /\ writer'[r].act \/ writer'[r].held \/ writer'[r].cAct => watch'[r].started
            /\ Has(wire'[r], "update") => Has(wire'[r], "announce")
            /\ Before(wire'[r], "announce", "update")
      BY <1>3, <1>5, <3>1, <3>2 DEF AnnounceInv
    <3> QED BY <3>3, <3>4, <3>5, <3>6 DEF AnnounceInv
  <2>9. EndInv(r)'
    BY <1>1, <1>2, <1>3, <1>5
    DEF ReaderParts, HandedOnce, ReaderInv, FreshInv, LiveInv, RefsInv, HeldInv,
         WriterInv, AnnounceInv, EndInv, InReaders, Handing, ToWriter, ToReader, Live
  <2> QED BY <2>1, <2>2, <2>3, <2>4, <2>5, <2>6, <2>7, <2>8, <2>9 DEF ReaderParts
<1> QED BY <1>6, <1>7, <1>8 DEF IInv

\* The writer sends the responses: at most the announcement.
LEMMA WriterSendKeeps ==
  ASSUME IInv, NEW r \in Readers, WriterSend(r)
  PROVE  IInv'
<1>1. /\ ReaderParts(r) /\ Types /\ OwnerInv /\ JobInv
      /\ watch[r] \in Watches /\ reader[r] \in TermReaders /\ writer[r] \in TermWriters
      /\ wire[r] \in Seq(Words)
  BY PartsFacts
<1>2. /\ UNCHANGED <<owner, pq, lq, job, watch, reader, changes, raced, early>>
      /\ writer[r].pc = "send"
      /\ wire' = [wire EXCEPT ![r] = @ \o writer[r].cResp]
      /\ writer' = [writer EXCEPT ![r].cResp = <<>>, ![r].pc = "active"]
  BY DEF WriterSend
<1>3. /\ writer'[r] = [writer[r] EXCEPT !.cResp = <<>>, !.pc = "active"]
      /\ writer'[r] \in TermWriters /\ writer' \in [Readers -> TermWriters]
      /\ Asked(r)' <=> Asked(r)
  BY <1>1, <1>2 DEF TermWriters, Types, Pending, Asked
<1>4. \A x \in Readers \ {r} : ReaderParts(x)'
  BY <1>1, <1>2, OthersKeep, QueueKept DEF Types
<1>5. CASE writer[r].cResp = <<>>
  <2>1. wire' = wire
    BY <1>1, <1>2, <1>5 DEF Types
  <2>2. Types' /\ OwnerInv' /\ JobInv'
    BY <1>1, <1>2, <1>3, <2>1 DEF Types, OwnerInv, JobInv
  <2>3. ReaderParts(r)'
    <3>1. HandedOnce(r)'
      BY <1>1, <1>2, <1>3, <1>5, <2>1 DEF TermWriters, ReaderParts, HandedOnce
    <3>2. ReaderInv(r)'
      BY <1>1, <1>2, <1>3, <1>5, <2>1 DEF TermWriters, ReaderParts, ReaderInv
    <3>3. FreshInv(r)'
      BY <1>1, <1>2, <1>3, <1>5, <2>1 DEF TermWriters, ReaderParts, FreshInv
    <3>4. LiveInv(r)'
      BY <1>1, <1>2, <1>3, <1>5, <2>1 DEF TermWriters, ReaderParts, LiveInv
    <3>5. RefsInv(r)'
      BY <1>1, <1>2, <1>3, <1>5, <2>1 DEF TermWriters, ReaderParts, RefsInv
    <3>6. HeldInv(r)'
      BY <1>1, <1>2, <1>3, <1>5, <2>1 DEF TermWriters, ReaderParts, HeldInv
    <3>7. WriterInv(r)'
      BY <1>1, <1>2, <1>3, <1>5, <2>1 DEF TermWriters, ReaderParts, WriterInv
    <3>8. AnnounceInv(r)'
      BY <1>1, <1>2, <1>3, <1>5, <2>1 DEF TermWriters, ReaderParts, AnnounceInv
    <3>9. EndInv(r)'
      BY <1>1, <1>2, <1>3, <1>5, <2>1 DEF TermWriters, ReaderParts, EndInv
    <3> QED BY <3>1, <3>2, <3>3, <3>4, <3>5, <3>6, <3>7, <3>8, <3>9 DEF ReaderParts
  <2> QED BY <1>4, <2>2, <2>3 DEF IInv
<1>6. CASE writer[r].cResp = <<"announce">>
  <2>1. /\ wire'[r] = Append(wire[r], "announce")
        /\ wire' \in [Readers -> Seq(Words)]
    <3>1. wire[r] \o <<"announce">> = Append(wire[r], "announce") /\ "announce" \in Words
      BY <1>1 DEF Words
    <3>2. Append(wire[r], "announce") \in Seq(Words)
      BY <1>1, <3>1
    <3> QED BY <1>1, <1>2, <1>6, <3>1, <3>2 DEF Types
  <2>2. /\ \A x : Has(wire'[r], x) <=> Has(wire[r], x) \/ x = "announce"
        /\ \A x : Unique(wire[r], x) /\ (x # "announce" \/ ~Has(wire[r], x)) => Unique(wire'[r], x)
        /\ \A x, y : Before(wire[r], x, y) /\ x # y /\ (x # "announce" \/ ~Has(wire[r], y)) =>
             Before(wire'[r], x, y)
    BY <1>1, <2>1, AppendFacts DEF Words
  <2>3. Types' /\ OwnerInv' /\ JobInv'
    BY <1>1, <1>2, <1>3, <2>1 DEF Types, OwnerInv, JobInv
  <2>4. /\ ~Has(wire[r], "announce") /\ ~Has(wire[r], "remove")
        /\ r \notin early => ~Has(wire[r], "update")
        /\ watch[r].started /\ watch[r].mem # "none" /\ writer[r].resp = <<>>
    BY <1>1, <1>6 DEF ReaderParts, AnnounceInv, EndInv, FreshInv
  <2>5. HandedOnce(r)' /\ ReaderInv(r)' /\ FreshInv(r)' /\ LiveInv(r)' /\ RefsInv(r)' /\ HeldInv(r)' /\ WriterInv(r)'
    <3>1. HandedOnce(r)'
      BY <1>1, <1>2, <1>3, <1>6, <2>4 DEF TermWriters, ReaderParts, HandedOnce
    <3>2. ReaderInv(r)'
      BY <1>1, <1>2, <1>3, <1>6, <2>4 DEF TermWriters, ReaderParts, ReaderInv
    <3>3. FreshInv(r)'
      BY <1>1, <1>2, <1>3, <1>6, <2>4 DEF TermWriters, ReaderParts, FreshInv
    <3>4. LiveInv(r)'
      BY <1>1, <1>2, <1>3, <1>6, <2>4 DEF TermWriters, ReaderParts, LiveInv
    <3>5. RefsInv(r)'
      BY <1>1, <1>2, <1>3, <1>6, <2>4 DEF TermWriters, ReaderParts, RefsInv
    <3>6. HeldInv(r)'
      BY <1>1, <1>2, <1>3, <1>6, <2>4 DEF TermWriters, ReaderParts, HeldInv
    <3>7. WriterInv(r)'
      BY <1>1, <1>2, <1>3, <1>6, <2>4 DEF TermWriters, ReaderParts, WriterInv
    <3> QED BY <3>1, <3>2, <3>3, <3>4, <3>5, <3>6, <3>7
  <2>6. AnnounceInv(r)'
    BY <1>1, <1>2, <1>3, <1>6, <2>2, <2>4 DEF TermWriters, ReaderParts, AnnounceInv
  <2>7. EndInv(r)'
    BY <1>1, <1>2, <1>3, <1>6, <2>2, <2>4 DEF TermWriters, ReaderParts, EndInv
  <2> QED BY <1>4, <2>3, <2>5, <2>6, <2>7 DEF IInv, ReaderParts
<1> QED BY <1>1, <1>5, <1>6 DEF TermWriters, Pending

\* The writer sends a change, if there is one.
LEMMA WriterActiveKeeps ==
  ASSUME IInv, NEW r \in Readers, WriterActive(r)
  PROVE  IInv'
<1>1. /\ ReaderParts(r) /\ Types /\ OwnerInv /\ JobInv
      /\ watch[r] \in Watches /\ reader[r] \in TermReaders /\ writer[r] \in TermWriters
      /\ wire[r] \in Seq(Words)
  BY PartsFacts
<1>2. /\ UNCHANGED <<owner, pq, lq, job, reader, changes, raced, early>>
      /\ writer[r].pc = "active"
      /\ writer' = [writer EXCEPT ![r].cAct = FALSE, ![r].pc = "closing"]
  BY DEF WriterActive
<1>3. /\ writer'[r] = [writer[r] EXCEPT !.cAct = FALSE, !.pc = "closing"]
      /\ writer'[r] \in TermWriters /\ writer' \in [Readers -> TermWriters]
      /\ Asked(r)' <=> Asked(r)
      /\ writer[r].cResp = <<>>
  BY <1>1, <1>2 DEF TermWriters, Types, Asked, ReaderParts, WriterInv
<1>4. CASE ~(writer[r].cAct /\ watch[r].dirty)
  <2>1. wire' = wire /\ watch' = watch
    BY <1>4 DEF WriterActive
  <2>2. Types' /\ OwnerInv' /\ JobInv'
    BY <1>1, <1>2, <1>3, <2>1 DEF Types, OwnerInv, JobInv
  <2>3. \A x \in Readers \ {r} : ReaderParts(x)'
    BY <1>1, <1>2, <2>1, OthersKeep, QueueKept DEF Types
  <2>4. ReaderParts(r)'
    <3>1. HandedOnce(r)'
      BY <1>1, <1>2, <1>3, <2>1 DEF TermWriters, ReaderParts, HandedOnce
    <3>2. ReaderInv(r)'
      BY <1>1, <1>2, <1>3, <2>1 DEF TermWriters, ReaderParts, ReaderInv
    <3>3. FreshInv(r)'
      BY <1>1, <1>2, <1>3, <2>1 DEF TermWriters, ReaderParts, FreshInv
    <3>4. LiveInv(r)'
      BY <1>1, <1>2, <1>3, <2>1 DEF TermWriters, ReaderParts, LiveInv
    <3>5. RefsInv(r)'
      BY <1>1, <1>2, <1>3, <2>1 DEF TermWriters, ReaderParts, RefsInv
    <3>6. HeldInv(r)'
      BY <1>1, <1>2, <1>3, <2>1 DEF TermWriters, ReaderParts, HeldInv
    <3>7. WriterInv(r)'
      BY <1>1, <1>2, <1>3, <2>1 DEF TermWriters, ReaderParts, WriterInv
    <3>8. AnnounceInv(r)'
      BY <1>1, <1>2, <1>3, <2>1 DEF TermWriters, ReaderParts, AnnounceInv
    <3>9. EndInv(r)'
      BY <1>1, <1>2, <1>3, <2>1 DEF TermWriters, ReaderParts, EndInv
    <3> QED BY <3>1, <3>2, <3>3, <3>4, <3>5, <3>6, <3>7, <3>8, <3>9 DEF ReaderParts
  <2> QED BY <2>2, <2>3, <2>4 DEF IInv
<1>5. CASE writer[r].cAct /\ watch[r].dirty
  <2>1. /\ wire' = [wire EXCEPT ![r] = Append(@, "update")]
        /\ watch' = [watch EXCEPT ![r].dirty = FALSE]
    BY <1>5 DEF WriterActive
  <2>2. /\ watch'[r] = [watch[r] EXCEPT !.dirty = FALSE]
        /\ watch'[r] \in Watches
    BY <1>1, <2>1 DEF Watches, Types
  <2>3. /\ wire' \in [Readers -> Seq(Words)]
        /\ \A x : Has(wire'[r], x) <=> Has(wire[r], x) \/ x = "update"
        /\ \A x : Unique(wire[r], x) /\ (x # "update" \/ ~Has(wire[r], x)) => Unique(wire'[r], x)
        /\ \A x, y : Before(wire[r], x, y) /\ x # y /\ (x # "update" \/ ~Has(wire[r], y)) =>
             Before(wire'[r], x, y)
    <3>1. wire'[r] = Append(wire[r], "update") /\ "update" \in Words
      BY <1>1, <2>1 DEF Words, Types
    <3> QED BY <1>1, <2>1, <3>1, AppendFacts DEF Types
  <2>4. Types' /\ OwnerInv' /\ JobInv'
    BY <1>1, <1>2, <1>3, <2>1, <2>2, <2>3 DEF Types, OwnerInv, JobInv, Watches
  <2>5. \A x \in Readers \ {r} : ReaderParts(x)'
    BY <1>1, <1>2, <2>1, OthersKeep, QueueKept DEF Types
  <2>6. /\ watch[r].mem # "none" /\ ~Has(wire[r], "remove")
        /\ r \notin early => watch[r].started /\ writer[r].resp = <<>> /\ Has(wire[r], "announce")
    BY <1>1, <1>3, <1>5 DEF ReaderParts, AnnounceInv, EndInv, FreshInv
  <2>7. HandedOnce(r)' /\ ReaderInv(r)' /\ FreshInv(r)' /\ LiveInv(r)' /\ RefsInv(r)' /\ HeldInv(r)' /\ WriterInv(r)'
    <3>1. HandedOnce(r)'
      BY <1>1, <1>2, <1>3, <2>2, <2>6 DEF TermWriters, Watches, ReaderParts, HandedOnce
    <3>2. ReaderInv(r)'
      BY <1>1, <1>2, <1>3, <2>2, <2>6 DEF TermWriters, Watches, ReaderParts, ReaderInv
    <3>3. FreshInv(r)'
      BY <1>1, <1>2, <1>3, <2>2, <2>6 DEF TermWriters, Watches, ReaderParts, FreshInv
    <3>4. LiveInv(r)'
      BY <1>1, <1>2, <1>3, <2>2, <2>6 DEF TermWriters, Watches, ReaderParts, LiveInv
    <3>5. RefsInv(r)'
      BY <1>1, <1>2, <1>3, <2>2, <2>6 DEF TermWriters, Watches, ReaderParts, RefsInv
    <3>6. HeldInv(r)'
      BY <1>1, <1>2, <1>3, <2>2, <2>6 DEF TermWriters, Watches, ReaderParts, HeldInv
    <3>7. WriterInv(r)'
      BY <1>1, <1>2, <1>3, <2>2, <2>6 DEF TermWriters, Watches, ReaderParts, WriterInv
    <3> QED BY <3>1, <3>2, <3>3, <3>4, <3>5, <3>6, <3>7
  <2>8. AnnounceInv(r)'
    BY <1>1, <1>2, <1>3, <2>2, <2>3, <2>6 DEF TermWriters, Watches, ReaderParts, AnnounceInv
  <2>9. EndInv(r)'
    BY <1>1, <1>2, <1>3, <2>2, <2>3, <2>6 DEF TermWriters, Watches, ReaderParts, EndInv
  <2> QED BY <2>4, <2>5, <2>7, <2>8, <2>9 DEF IInv, ReaderParts
<1> QED BY <1>4, <1>5

\* The writer is stopped.
LEMMA WriterStopKeeps ==
  ASSUME IInv, NEW r \in Readers, WriterStop(r)
  PROVE  IInv'
<1>1. /\ ReaderParts(r) /\ Types /\ OwnerInv /\ JobInv /\ writer[r] \in TermWriters
  BY PartsFacts
<1>2. /\ UNCHANGED <<owner, pq, lq, job, watch, reader, wire, changes, raced, early>>
      /\ writer[r].pc = "wait"
      /\ writer' = [writer EXCEPT ![r].pc = "ended"]
  BY DEF WriterStop
<1>3. /\ writer'[r] = [writer[r] EXCEPT !.pc = "ended"]
      /\ writer'[r] \in TermWriters /\ writer' \in [Readers -> TermWriters]
      /\ Asked(r)' <=> Asked(r)
  BY <1>1, <1>2 DEF TermWriters, Types, Asked
<1>4. Types' /\ OwnerInv' /\ JobInv'
  BY <1>1, <1>2, <1>3 DEF Types, OwnerInv, JobInv
<1>5. \A x \in Readers \ {r} : ReaderParts(x)'
  BY <1>1, <1>2, OthersKeep, QueueKept DEF Types
<1>6. ReaderParts(r)'
  <2>1. HandedOnce(r)'
    BY <1>1, <1>2, <1>3
    DEF TermWriters, ReaderParts, HandedOnce, InReaders, Handing, ToWriter, ToReader, Live
  <2>2. ReaderInv(r)'
    BY <1>1, <1>2, <1>3 DEF TermWriters, ReaderParts, ReaderInv
  <2>3. FreshInv(r)'
    BY <1>1, <1>2, <1>3 DEF TermWriters, ReaderParts, FreshInv
  <2>4. LiveInv(r)'
    BY <1>1, <1>2, <1>3
    DEF TermWriters, ReaderParts, LiveInv, InReaders, Handing, ToWriter, ToReader, Live
  <2>5. RefsInv(r)'
    BY <1>1, <1>2, <1>3 DEF TermWriters, ReaderParts, RefsInv
  <2>6. HeldInv(r)'
    BY <1>1, <1>2, <1>3
    DEF TermWriters, ReaderParts, HeldInv, InReaders, Handing, ToWriter, ToReader, Live
  <2>7. WriterInv(r)'
    BY <1>1, <1>2, <1>3 DEF TermWriters, ReaderParts, WriterInv
  <2>8. AnnounceInv(r)'
    BY <1>1, <1>2, <1>3 DEF TermWriters, ReaderParts, AnnounceInv
  <2>9. EndInv(r)'
    BY <1>1, <1>2, <1>3 DEF TermWriters, ReaderParts, EndInv
  <2> QED BY <2>1, <2>2, <2>3, <2>4, <2>5, <2>6, <2>7, <2>8, <2>9 DEF ReaderParts
<1> QED BY <1>4, <1>5, <1>6 DEF IInv

\* The writer fails and asks its reader to close.
LEMMA WriterFailKeeps ==
  ASSUME IInv, NEW r \in Readers, WriterFail(r)
  PROVE  IInv'
<1> DEFINE q == reader[r].q
<1>1. /\ ReaderParts(r) /\ Types /\ OwnerInv /\ JobInv
      /\ reader[r] \in TermReaders /\ writer[r] \in TermWriters /\ q \in Seq(Msgs)
  BY PartsFacts
<1>2. /\ UNCHANGED <<owner, pq, lq, job, watch, wire, changes, raced, early>>
      /\ writer[r].pc \in {"send", "active"}
      /\ writer' = [writer EXCEPT ![r].pc = "ended", ![r].stop = TRUE]
      /\ reader' = [reader EXCEPT ![r].q = Append(@, "close")]
  BY DEF WriterFail
<1>3. /\ writer'[r] = [writer[r] EXCEPT !.pc = "ended", !.stop = TRUE]
      /\ writer'[r] \in TermWriters
      /\ Asked(r)' <=> Asked(r)
  BY <1>1, <1>2 DEF TermWriters, Types, Asked
<1>4. /\ reader'[r] = [reader[r] EXCEPT !.q = Append(@, "close")]
      /\ reader'[r] \in TermReaders
      /\ \A x : Has(reader'[r].q, x) <=> Has(q, x) \/ x = "close"
      /\ \A x : Unique(q, x) /\ (x # "close" \/ ~Has(q, x)) => Unique(reader'[r].q, x)
      /\ \A x, y : Before(q, x, y) /\ x # y /\ (x # "close" \/ ~Has(q, y)) => Before(reader'[r].q, x, y)
  <2>1. "close" \in Msgs
    BY DEF Msgs
  <2>2. reader'[r] = [reader[r] EXCEPT !.q = Append(@, "close")]
    BY <1>1, <1>2 DEF Types
  <2>3. reader'[r].q = Append(q, "close")
    BY <1>1, <2>2 DEF TermReaders
  <2>4. Append(q, "close") \in Seq(Msgs) /\ reader'[r] \in TermReaders
    <3>1. Append(q, "close") \in Seq(Msgs)
      BY <1>1, <2>1
    <3>2. reader'[r] = [reader[r] EXCEPT !.q = Append(q, "close")]
      BY <2>2
    <3> HIDE DEF q
    <3> QED BY <1>1, <3>1, <3>2 DEF TermReaders
  <2>5. /\ \A x : Has(Append(q, "close"), x) <=> Has(q, x) \/ x = "close"
        /\ \A x : Unique(q, x) /\ (x # "close" \/ ~Has(q, x)) => Unique(Append(q, "close"), x)
        /\ \A x, y : Before(q, x, y) /\ x # y /\ (x # "close" \/ ~Has(q, y)) =>
                     Before(Append(q, "close"), x, y)
    BY <1>1, <2>1, AppendFacts
  <2> QED BY <2>2, <2>3, <2>4, <2>5
<1>5. Types' /\ OwnerInv' /\ JobInv'
  BY <1>1, <1>2, <1>3, <1>4 DEF Types, OwnerInv, JobInv
<1>6. \A x \in Readers \ {r} : ReaderParts(x)'
  BY <1>1, <1>2, OthersKeep, QueueKept DEF Types
<1>7. ReaderParts(r)'
  <2>0. /\ reader'[r].pc = reader[r].pc /\ reader'[r].has = reader[r].has /\ reader'[r].confirmed = reader[r].confirmed
        /\ writer'[r].pc = "ended"
        /\ \A f \in {"has", "resp", "held", "act", "clo", "cResp", "cAct", "cClo"} : writer'[r][f] = writer[r][f]
    BY <1>1, <1>3, <1>4 DEF TermReaders, TermWriters
  <2>1. HandedOnce(r)'
    BY <1>1, <1>2, <1>3, <1>4, <2>0
    DEF ReaderParts, HandedOnce, ReaderInv, FreshInv, LiveInv, RefsInv, HeldInv,
         WriterInv, AnnounceInv, EndInv, InReaders, Handing, ToWriter, ToReader, Live
  <2>2. ReaderInv(r)'
    BY <1>1, <1>2, <1>3, <1>4, <2>0
    DEF ReaderParts, HandedOnce, ReaderInv, FreshInv, LiveInv, RefsInv, HeldInv,
         WriterInv, AnnounceInv, EndInv, InReaders, Handing, ToWriter, ToReader, Live
  <2>3. FreshInv(r)'
    BY <1>1, <1>2, <1>3, <1>4, <2>0
    DEF ReaderParts, HandedOnce, ReaderInv, FreshInv, LiveInv, RefsInv, HeldInv,
         WriterInv, AnnounceInv, EndInv, InReaders, Handing, ToWriter, ToReader, Live
  <2>4. LiveInv(r)'
    BY <1>1, <1>2, <1>3, <1>4, <2>0
    DEF ReaderParts, HandedOnce, ReaderInv, FreshInv, LiveInv, RefsInv, HeldInv,
         WriterInv, AnnounceInv, EndInv, InReaders, Handing, ToWriter, ToReader, Live
  <2>5. RefsInv(r)'
    BY <1>1, <1>2, <1>3, <1>4, <2>0
    DEF ReaderParts, HandedOnce, ReaderInv, FreshInv, LiveInv, RefsInv, HeldInv,
         WriterInv, AnnounceInv, EndInv, InReaders, Handing, ToWriter, ToReader, Live
  <2>6. HeldInv(r)'
    BY <1>1, <1>2, <1>3, <1>4, <2>0
    DEF ReaderParts, HandedOnce, ReaderInv, FreshInv, LiveInv, RefsInv, HeldInv,
         WriterInv, AnnounceInv, EndInv, InReaders, Handing, ToWriter, ToReader, Live
  <2>7. WriterInv(r)'
    BY <1>1, <1>2, <1>3, <1>4, <2>0
    DEF ReaderParts, HandedOnce, ReaderInv, FreshInv, LiveInv, RefsInv, HeldInv,
         WriterInv, AnnounceInv, EndInv, InReaders, Handing, ToWriter, ToReader, Live
  <2>8. AnnounceInv(r)'
    BY <1>1, <1>2, <1>3, <1>4, <2>0
    DEF ReaderParts, HandedOnce, ReaderInv, FreshInv, LiveInv, RefsInv, HeldInv,
         WriterInv, AnnounceInv, EndInv, InReaders, Handing, ToWriter, ToReader, Live
  <2>9. EndInv(r)'
    BY <1>1, <1>2, <1>3, <1>4, <2>0
    DEF ReaderParts, HandedOnce, ReaderInv, FreshInv, LiveInv, RefsInv, HeldInv,
         WriterInv, AnnounceInv, EndInv, InReaders, Handing, ToWriter, ToReader, Live
  <2> QED BY <2>1, <2>2, <2>3, <2>4, <2>5, <2>6, <2>7, <2>8, <2>9 DEF ReaderParts
<1> QED BY <1>5, <1>6, <1>7 DEF IInv

\* The writer gives its reference back, if it has been asked.
LEMMA WriterClosingKeeps ==
  ASSUME IInv, NEW r \in Readers, WriterClosing(r)
  PROVE  IInv'
<1>1. /\ ReaderParts(r) /\ Types /\ OwnerInv /\ JobInv
      /\ watch[r] \in Watches /\ reader[r] \in TermReaders /\ writer[r] \in TermWriters
      /\ wire[r] \in Seq(Words)
  BY PartsFacts
<1>2. /\ UNCHANGED <<owner, lq, job, reader, changes, raced, early>>
      /\ writer[r].pc = "closing" /\ writer[r].cResp = <<>> /\ ~writer[r].cAct
      /\ Asked(r)' <=> Asked(r)
  BY <1>1 DEF WriterClosing, ReaderParts, WriterInv, Asked
<1>3. CASE ~writer[r].cClo
  <2>1. UNCHANGED <<watch, pq, wire>> /\ writer' = [writer EXCEPT ![r].pc = "wait"]
    BY <1>3 DEF WriterClosing
  <2>2. writer'[r] = [writer[r] EXCEPT !.pc = "wait"] /\ writer'[r] \in TermWriters
    BY <1>1, <2>1 DEF TermWriters, Types
  <2>3. Types' /\ OwnerInv' /\ JobInv'
    BY <1>1, <1>2, <2>1, <2>2 DEF Types, OwnerInv, JobInv
  <2>4. \A x \in Readers \ {r} : ReaderParts(x)'
    BY <1>1, <1>2, <2>1, OthersKeep, QueueKept DEF Types
  <2>5. ReaderParts(r)'
    BY <1>1, <1>2, <1>3, <2>1, <2>2
    DEF TermWriters, ReaderParts, HandedOnce, ReaderInv, FreshInv, LiveInv, RefsInv, HeldInv,
         WriterInv, AnnounceInv, EndInv, InReaders, Handing, ToWriter, ToReader, Live
  <2> QED BY <2>3, <2>4, <2>5 DEF IInv
<1>4. CASE writer[r].cClo
  <2>1. /\ writer' = [writer EXCEPT ![r].pc = "wait", ![r].cClo = FALSE, ![r].act = FALSE,
                                    ![r].held = FALSE, ![r].has = FALSE]
        /\ watch' = [watch EXCEPT ![r].active = FALSE, ![r].writer = FALSE,
                                  ![r].dirty = FALSE, ![r].refs = @ - 1]
        /\ pq' = IF watch[r].refs = 1 THEN Append(pq, r) ELSE pq
        /\ wire' = IF watch[r].started THEN [wire EXCEPT ![r] = Append(@, "remove")] ELSE wire
    BY <1>4 DEF WriterClosing, Dropped
  <2>2. /\ Asked(r) /\ watch[r].closing /\ watch[r].mem # "none" /\ watch[r].refs >= 1
        /\ writer[r].resp = <<>> /\ ~writer[r].clo /\ ~Has(wire[r], "remove")
    BY <1>1, <1>2, <1>4 DEF ReaderParts, LiveInv, RefsInv, FreshInv, AnnounceInv, EndInv
  <2>3. /\ watch'[r] = [watch[r] EXCEPT !.active = FALSE, !.writer = FALSE, !.dirty = FALSE, !.refs = @ - 1]
        /\ watch'[r] \in Watches
        /\ watch' \in [Readers -> Watches]
    <3> DEFINE w == [watch[r] EXCEPT !.active = FALSE, !.writer = FALSE, !.dirty = FALSE, !.refs = @ - 1]
    <3>1. watch[r].refs - 1 \in 0..2
      BY <1>1, <2>2 DEF Watches
    <3>2. w \in Watches
      BY <1>1, <3>1 DEF Watches
    <3>3. watch' = [watch EXCEPT ![r] = w]
      BY <1>1, <2>1 DEF Types
    <3> QED BY <1>1, <3>2, <3>3 DEF Types
  <2>4. /\ writer'[r] = [writer[r] EXCEPT !.pc = "wait", !.cClo = FALSE, !.act = FALSE,
                                          !.held = FALSE, !.has = FALSE]
        /\ writer'[r] \in TermWriters
        /\ writer' \in [Readers -> TermWriters]
    BY <1>1, <2>1 DEF Types, TermWriters
  <2>5. /\ pq' \in Seq(Readers)
        /\ Has(pq', r) <=> Has(pq, r) \/ watch[r].refs = 1
        /\ Unique(pq, r) /\ ~Has(pq, r) => Unique(pq', r)
        /\ \A x \in Readers \ {r} : (Has(pq', x) <=> Has(pq, x)) /\ (Unique(pq, x) => Unique(pq', x))
    BY <1>1, <2>1, AppendFacts DEF Types
  <2>6. /\ wire' \in [Readers -> Seq(Words)]
        /\ \A x \in Readers \ {r} : wire'[x] = wire[x]
        /\ \A x : Has(wire'[r], x) <=> Has(wire[r], x) \/ (x = "remove" /\ watch[r].started)
        /\ \A x : Unique(wire[r], x) /\ (x # "remove" \/ ~Has(wire[r], x)) => Unique(wire'[r], x)
        /\ \A x, y : Before(wire[r], x, y) /\ x # y /\ (x # "remove" \/ ~Has(wire[r], y)) =>
             Before(wire'[r], x, y)
    <3>1. CASE ~watch[r].started
      BY <1>1, <2>1, <3>1 DEF Types
    <3>2. CASE watch[r].started
      <4>1. wire'[r] = Append(wire[r], "remove") /\ "remove" \in Words
        BY <1>1, <2>1, <3>2 DEF Words, Types
      <4> QED BY <1>1, <2>1, <3>2, <4>1, AppendFacts DEF Types
    <3> QED BY <3>1, <3>2
  <2>7. Types' /\ OwnerInv' /\ JobInv'
    BY <1>1, <1>2, <2>2, <2>3, <2>4, <2>5, <2>6 DEF Types, OwnerInv, JobInv, Watches
  <2>8. \A x \in Readers \ {r} : ReaderParts(x)'
    BY <1>1, <1>2, <2>1, <2>5, <2>6, OthersKeep, QueueKept DEF Types
  <2>9. HandedOnce(r)' /\ ReaderInv(r)' /\ FreshInv(r)' /\ RefsInv(r)' /\ WriterInv(r)'
    BY <1>1, <1>2, <1>4, <2>2, <2>3, <2>4
    DEF Watches, TermWriters, ReaderParts, HandedOnce, ReaderInv, FreshInv, LiveInv, RefsInv, HeldInv,
         WriterInv, AnnounceInv, EndInv, InReaders, Handing, ToWriter, ToReader, Live
  <2>10. LiveInv(r)'
    BY <1>1, <1>2, <1>4, <2>2, <2>3, <2>4, <2>5
    DEF Watches, TermWriters, ReaderParts, LiveInv, HandedOnce, InReaders, Handing, ToWriter, ToReader, Live
  <2>11. HeldInv(r)'
    <3>1. InReaders(r)
      BY <1>1, <1>2 DEF ReaderParts, ReaderInv, InReaders
    <3>2. r \notin raced => /\ Live(r) /\ ~Has(pq, r) /\ ~Handing(r) /\ writer[r].has
                            /\ watch[r].refs = (IF reader[r].has THEN 1 ELSE 0) + 1
      BY <1>1, <1>2, <1>4, <2>2, <3>1 DEF ReaderParts, HeldInv, HandedOnce, Handing
    <3> QED BY <1>1, <1>2, <1>4, <2>2, <2>3, <2>4, <2>5, <3>1, <3>2
            DEF Watches, TermWriters, ReaderParts, HeldInv, InReaders, Handing, ToWriter, ToReader, Live
  <2>12. AnnounceInv(r)'
    BY <1>1, <1>2, <1>4, <2>2, <2>3, <2>4, <2>6 DEF Watches, TermWriters, ReaderParts, AnnounceInv
  <2>13. EndInv(r)'
    BY <1>1, <1>2, <1>4, <2>2, <2>3, <2>4, <2>6 DEF Watches, TermWriters, ReaderParts, EndInv, AnnounceInv
  <2> QED BY <2>7, <2>8, <2>9, <2>10, <2>11, <2>12, <2>13 DEF IInv, ReaderParts
<1> QED BY <1>3, <1>4

-----------------------------------------------------------------------------
(* The owner thread *)

LEMMA AllKeep ==
  ASSUME IInv, \A x \in Readers : Frame(x) /\ QueueFrame(x)
  PROVE  \A x \in Readers : ReaderParts(x)'
  BY Untouched DEF IInv

\* An item about the object is added to the listener's queue.
LEMMA ObjectItemAdded ==
  ASSUME lq \in Seq(Items), NEW e \in {Add, RemoveObject}, lq' = Append(lq, e)
  PROVE  /\ lq' \in Seq(Items)
         /\ Has(lq', e)
         /\ Unique(lq, e) /\ ~Has(lq, e) => Unique(lq', e)
         /\ \A f \in {Add, RemoveObject} \ {e} : (Has(lq', f) <=> Has(lq, f)) /\ (Unique(lq, f) => Unique(lq', f))
         /\ \A x \in Readers : QueueFrame(x)
<1>1. e \in Items
  BY DEF Items
<1>2. \A x \in Readers : e # Confirm(x) /\ e # RemoveReader(x)
  BY ItemFacts
<1>3. \A x \in Readers : QueueFrame(x)
  BY <1>1, <1>2, ItemAdded
<1> QED BY <1>1, <1>3, AppendFacts

\* The object is put on the listener's list.
LEMMA PostAddKeeps ==
  ASSUME IInv, PostAdd
  PROVE  IInv'
<1>1. /\ Types /\ OwnerInv /\ JobInv
      /\ ~owner.added
      /\ owner' = [owner EXCEPT !.added = TRUE]
      /\ lq' = Append(lq, Add)
      /\ UNCHANGED <<pq, job, watch, reader, writer, wire, changes, raced, early>>
  BY DEF IInv, PostAdd, Add
<1>2. /\ owner' \in Owners /\ owner'.added
      /\ owner'.watches = owner.watches /\ owner'.ask = owner.ask /\ owner'.closing = owner.closing
      /\ owner'.listed = owner.listed /\ owner'.proxy = owner.proxy /\ owner'.asked = owner.asked
      /\ owner'.ended = owner.ended
  BY <1>1 DEF Types, Owners
<1>3. /\ lq' \in Seq(Items) /\ Has(lq', Add)
      /\ Unique(lq, Add) /\ ~Has(lq, Add) => Unique(lq', Add)
      /\ Has(lq', RemoveObject) <=> Has(lq, RemoveObject)
      /\ Unique(lq, RemoveObject) => Unique(lq', RemoveObject)
      /\ \A x \in Readers : QueueFrame(x)
  BY <1>1, ObjectItemAdded DEF Types, Add, RemoveObject
<1>4. Types' /\ OwnerInv' /\ JobInv'
  BY <1>1, <1>2, <1>3 DEF Types, OwnerInv, JobInv
<1>5. \A x \in Readers : Frame(x)
  BY <1>1, <1>2 DEF Frame, ToWriter, ToReader, Asked
<1> QED BY <1>3, <1>4, <1>5, AllKeep DEF IInv

\* The object's own thread closes it.
LEMMA HandleCloseKeeps ==
  ASSUME IInv, HandleClose
  PROVE  IInv'
<1>1. /\ Types /\ OwnerInv /\ JobInv
      /\ ~owner.proxy /\ ~owner.closing
      /\ owner' = [owner EXCEPT !.closing = TRUE, !.ask = owner.watches,
                                !.ended = (owner.watches = {})]
      /\ lq' = IF owner.watches = {} THEN Append(lq, RemoveObject) ELSE lq
      /\ UNCHANGED <<pq, job, watch, reader, writer, wire, changes, raced, early>>
  BY DEF IInv, HandleClose, RemoveObject
<1>2. /\ owner' \in Owners /\ owner'.added = owner.added
      /\ owner'.watches = owner.watches /\ owner'.ask = owner.watches /\ owner'.closing
      /\ owner'.listed = owner.listed /\ owner'.proxy = owner.proxy
      /\ owner'.ended <=> owner.watches = {}
  BY <1>1 DEF Types, Owners
<1>3. /\ lq' \in Seq(Items)
      /\ Has(lq', Add) <=> Has(lq, Add)
      /\ Unique(lq, Add) => Unique(lq', Add)
      /\ \A x \in Readers : QueueFrame(x)
  <2>1. CASE owner.watches = {}
    BY <1>1, <2>1, ObjectItemAdded DEF Types, Add, RemoveObject
  <2>2. CASE owner.watches # {}
    BY <1>1, <2>2, QueueKept DEF Types
  <2> QED BY <2>1, <2>2
<1>4. Types' /\ OwnerInv' /\ JobInv'
  BY <1>1, <1>2, <1>3 DEF Types, OwnerInv, JobInv
<1>5. \A x \in Readers : Frame(x)
  BY <1>1, <1>2 DEF Frame, ToWriter, ToReader, Asked
<1> QED BY <1>3, <1>4, <1>5, AllKeep DEF IInv

\* The listener is told to close the proxy.
LEMMA PostRemoveKeeps ==
  ASSUME IInv, PostRemove
  PROVE  IInv'
<1>1. /\ Types /\ OwnerInv /\ JobInv
      /\ owner.proxy /\ owner.added /\ ~owner.asked
      /\ owner' = [owner EXCEPT !.asked = TRUE]
      /\ lq' = Append(lq, RemoveObject)
      /\ UNCHANGED <<pq, job, watch, reader, writer, wire, changes, raced, early>>
  BY DEF IInv, PostRemove, RemoveObject
<1>2. /\ owner' \in Owners /\ owner'.added
      /\ owner'.watches = owner.watches /\ owner'.ask = owner.ask /\ owner'.closing = owner.closing
      /\ owner'.listed = owner.listed /\ owner'.proxy = owner.proxy /\ owner'.asked
      /\ owner'.ended = owner.ended
  BY <1>1 DEF Types, Owners
<1>3. /\ lq' \in Seq(Items) /\ Has(lq', RemoveObject)
      /\ Unique(lq, RemoveObject) /\ ~Has(lq, RemoveObject) => Unique(lq', RemoveObject)
      /\ Has(lq', Add) <=> Has(lq, Add)
      /\ Unique(lq, Add) => Unique(lq', Add)
      /\ \A x \in Readers : QueueFrame(x)
  BY <1>1, ObjectItemAdded DEF Types, Add, RemoveObject
<1>4. Types' /\ OwnerInv' /\ JobInv'
  BY <1>1, <1>2, <1>3 DEF Types, OwnerInv, JobInv
<1>5. \A x \in Readers : Frame(x)
  BY <1>1, <1>2 DEF Frame, ToWriter, ToReader, Asked
<1> QED BY <1>3, <1>4, <1>5, AllKeep DEF IInv

\* One watch is asked back.
LEMMA AskReleaseKeeps ==
  ASSUME IInv, NEW r \in Readers, AskRelease(r)
  PROVE  IInv'
<1> DEFINE q == reader[r].q
<1>1. /\ ReaderParts(r) /\ Types /\ OwnerInv /\ JobInv
      /\ watch[r] \in Watches /\ reader[r] \in TermReaders /\ writer[r] \in TermWriters /\ q \in Seq(Msgs)
  BY PartsFacts
<1>2. /\ UNCHANGED <<pq, lq, job, wire, changes, early>>
      /\ r \in owner.ask
      /\ owner' = [owner EXCEPT !.ask = @ \ {r}]
      /\ watch' = [watch EXCEPT ![r].active = FALSE, ![r].closing = TRUE]
      /\ reader' = IF watch[r].reader THEN [reader EXCEPT ![r].q = Append(@, "release")] ELSE reader
      /\ writer' = IF watch[r].writer THEN [writer EXCEPT ![r].clo = TRUE, ![r].todo = TRUE] ELSE writer
      /\ raced' = IF job.cur = {r} /\ job.step # "next" THEN raced \cup {r} ELSE raced
  BY DEF AskRelease, RequestRelease
<1>3. /\ owner' \in Owners /\ owner'.added = owner.added
      /\ owner'.watches = owner.watches /\ owner'.ask = owner.ask \ {r} /\ owner'.closing = owner.closing
      /\ owner'.listed = owner.listed /\ owner'.proxy = owner.proxy /\ owner'.asked = owner.asked
      /\ owner'.ended = owner.ended /\ owner.closing
      /\ Asked(r)' /\ ~Asked(r)
  BY <1>1, <1>2 DEF Types, Owners, Asked, OwnerInv
<1>4. /\ Live(r) /\ watch[r].refs = 2 /\ r \notin raced
      /\ ~Has(q, "release") /\ ~writer[r].clo /\ ~writer[r].cClo /\ ~Has(wire[r], "remove")
  BY <1>1, <1>2, <1>3 DEF ReaderParts, OwnerInv, LiveInv, RefsInv, EndInv
<1>5. /\ watch'[r] = [watch[r] EXCEPT !.active = FALSE, !.closing = TRUE]
      /\ watch'[r] \in Watches /\ watch' \in [Readers -> Watches]
  BY <1>1, <1>2 DEF Types, Watches
<1>6. /\ reader'[r] \in TermReaders /\ reader' \in [Readers -> TermReaders]
      /\ reader'[r].pc = reader[r].pc /\ reader'[r].has = reader[r].has
      /\ reader'[r].confirmed = reader[r].confirmed
      /\ \A x : Has(reader'[r].q, x) <=> Has(q, x) \/ (x = "release" /\ watch[r].reader)
      /\ \A x : Unique(q, x) /\ (x # "release" \/ ~Has(q, x)) => Unique(reader'[r].q, x)
      /\ \A x, y : Before(q, x, y) /\ x # y /\ (x # "release" \/ ~Has(q, y)) => Before(reader'[r].q, x, y)
  <2>1. CASE ~watch[r].reader
    BY <1>1, <1>2, <2>1 DEF Types
  <2>2. CASE watch[r].reader
    <3>1. "release" \in Msgs
      BY DEF Msgs
    <3>2. reader' = [reader EXCEPT ![r].q = Append(q, "release")]
      BY <1>2, <2>2
    <3>3. /\ reader'[r] = [reader[r] EXCEPT !.q = Append(q, "release")]
          /\ reader'[r].q = Append(q, "release")
      BY <1>1, <3>2 DEF Types, TermReaders
    <3>4. Append(q, "release") \in Seq(Msgs)
      BY <1>1, <3>1
    <3>5. /\ reader'[r] \in TermReaders /\ reader' \in [Readers -> TermReaders]
          /\ reader'[r].pc = reader[r].pc /\ reader'[r].has = reader[r].has
          /\ reader'[r].confirmed = reader[r].confirmed
      BY <1>1, <3>2, <3>3, <3>4 DEF TermReaders, Types
    <3> QED BY <1>1, <2>2, <3>1, <3>3, <3>5, AppendFacts
  <2> QED BY <2>1, <2>2
<1>7. /\ writer'[r] \in TermWriters /\ writer' \in [Readers -> TermWriters]
      /\ writer'[r].clo <=> watch[r].writer
      /\ \A f \in {"pc", "has", "resp", "held", "act", "cResp", "cAct", "cClo"} : writer'[r][f] = writer[r][f]
  BY <1>1, <1>2, <1>4 DEF Types, TermWriters
<1>8. Types' /\ OwnerInv' /\ JobInv'
  <2>1. Types'
    BY <1>1, <1>2, <1>3, <1>5, <1>6, <1>7 DEF Types
  <2>2. \A x \in Readers : watch'[x].mem = watch[x].mem
    BY <1>1, <1>2 DEF Types, Watches
  <2>3. owner.proxy => raced' = {}
    BY <1>1, <1>2 DEF OwnerInv, JobInv
  <2>4. OwnerInv'
    BY <1>1, <1>2, <1>3, <2>2, <2>3 DEF OwnerInv
  <2> QED BY <1>1, <1>2, <2>1, <2>4 DEF JobInv
<1>9. \A x \in Readers \ {r} : ReaderParts(x)'
  <2> SUFFICES ASSUME NEW x \in Readers \ {r} PROVE ReaderParts(x)'
    OBVIOUS
  <2>1. Frame(x)
    BY <1>1, <1>2, <1>3 DEF Types, Frame, ToWriter, ToReader, Asked
  <2> QED BY <1>2, <2>1, QueueKept, Untouched DEF IInv
<1>10. HandedOnce(r)' /\ ReaderInv(r)' /\ FreshInv(r)' /\ RefsInv(r)' /\ WriterInv(r)'
  <2>1. HandedOnce(r)'
    BY <1>1, <1>2, <1>3, <1>4, <1>5, <1>6, <1>7
    DEF Watches, ReaderParts, HandedOnce, InReaders, Handing, ToWriter, ToReader, Live
  <2>2. ReaderInv(r)'
    BY <1>1, <1>2, <1>3, <1>4, <1>5, <1>6, <1>7 DEF Watches, ReaderParts, ReaderInv
  <2>3. FreshInv(r)'
    BY <1>1, <1>2, <1>3, <1>4, <1>5, <1>6, <1>7 DEF Watches, ReaderParts, FreshInv, Live, InReaders
  <2>4. RefsInv(r)'
    BY <1>1, <1>2, <1>3, <1>4, <1>5, <1>6, <1>7 DEF Watches, ReaderParts, RefsInv
  <2>5. WriterInv(r)'
    BY <1>1, <1>2, <1>3, <1>4, <1>5, <1>6, <1>7 DEF Watches, ReaderParts, WriterInv
  <2> QED BY <2>1, <2>2, <2>3, <2>4, <2>5
<1>11. LiveInv(r)'
  BY <1>1, <1>2, <1>3, <1>4, <1>5, <1>6, <1>7
  DEF Watches, ReaderParts, LiveInv, HandedOnce, InReaders, Handing, ToWriter, ToReader, Live
<1>12. HeldInv(r)'
  <2>1. r \notin raced' => ~Handing(r)
    BY <1>2 DEF Handing, ToWriter, ToReader
  <2>2. /\ Handing(r)' <=> Handing(r)
        /\ ToReader(r)' <=> ToReader(r)
        /\ ToWriter(r)' <=> ToWriter(r)
    BY <1>2 DEF Handing, ToWriter, ToReader
  <2>3. /\ Live(r)' /\ watch'[r].refs = watch[r].refs /\ watch'[r].closing
        /\ InReaders(r)' <=> InReaders(r)
    BY <1>1, <1>4, <1>5, <1>6 DEF Live, InReaders, Watches
  <2>4. /\ watch[r].reader => InReaders(r) /\ (reader[r].has \/ Handing(r))
        /\ watch[r].writer => InReaders(r) /\ (writer[r].has \/ ToWriter(r))
    BY <1>1, <1>4 DEF ReaderParts, LiveInv
  <2> QED BY <1>1, <1>2, <1>4, <1>6, <1>7, <2>1, <2>2, <2>3, <2>4 DEF ReaderParts, HeldInv, Handing
<1>13. AnnounceInv(r)' /\ EndInv(r)'
  <2>1. ~watch[r].writer \/ writer[r].resp = writer'[r].resp
    BY <1>7
  <2>2. AnnounceInv(r)'
    <3>1. AnnounceInv(r) /\ watch'[r].started = watch[r].started
      BY <1>1, <1>5 DEF ReaderParts, Watches
    <3> QED BY <1>2, <1>4, <1>6, <1>7, <3>1 DEF AnnounceInv
  <2>3. EndInv(r)'
    BY <1>1, <1>2, <1>3, <1>4, <1>5, <1>6, <1>7, <2>1 DEF Watches, ReaderParts, EndInv
  <2> QED BY <2>2, <2>3
<1> QED BY <1>8, <1>9, <1>10, <1>11, <1>12, <1>13 DEF IInv, ReaderParts

\* A watch is back, and its memory is freed.
LEMMA HandleWatchReleasedKeeps ==
  ASSUME IInv, NEW r \in Readers, r = Head(pq), HandleWatchReleased
  PROVE  IInv'
<1>1. /\ pq \in Seq(Readers) /\ pq # <<>>
      /\ Tail(pq) \in Seq(Readers)
      /\ Has(pq, r)
      /\ \A x : Has(pq, x) <=> Has(Tail(pq), x) \/ x = r
      /\ \A x : Unique(pq, x) => Unique(Tail(pq), x)
      /\ Unique(pq, r) => ~Has(Tail(pq), r)
  BY TailFacts DEF HandleWatchReleased, IInv, Types
<1>2. /\ ReaderParts(r) /\ Types /\ OwnerInv /\ JobInv
      /\ watch[r] \in Watches /\ reader[r] \in TermReaders /\ writer[r] \in TermWriters
  BY <1>1, PartsFacts
<1>3. /\ UNCHANGED <<job, reader, writer, wire, changes, raced, early>>
      /\ ~owner.ended /\ owner.ask = {}
      /\ owner' = [owner EXCEPT !.watches = owner.watches \ {r},
                                !.ended = (owner.closing /\ owner.watches \ {r} = {})]
      /\ watch' = [watch EXCEPT ![r].mem = "freed"]
      /\ lq' = IF owner.closing /\ owner.watches \ {r} = {} /\ ~owner.proxy
               THEN Append(lq, RemoveObject) ELSE lq
      /\ pq' = Tail(pq)
  BY DEF HandleWatchReleased, AllBack, RemoveObject
<1>4. /\ owner' \in Owners /\ owner'.added = owner.added
      /\ owner'.watches = owner.watches \ {r} /\ owner'.ask = {} /\ owner'.closing = owner.closing
      /\ owner'.listed = owner.listed /\ owner'.proxy = owner.proxy /\ owner'.asked = owner.asked
      /\ owner'.ended => owner.closing /\ owner.watches \ {r} = {}
  BY <1>2, <1>3 DEF Types, Owners
<1>5. /\ lq' \in Seq(Items)
      /\ Has(lq', Add) <=> Has(lq, Add)
      /\ Unique(lq, Add) => Unique(lq', Add)
      /\ owner.proxy => lq' = lq
      /\ \A x \in Readers : QueueFrame(x)
  <2>1. CASE owner.closing /\ owner.watches \ {r} = {} /\ ~owner.proxy
    BY <1>2, <1>3, <2>1, ObjectItemAdded DEF Types, Add, RemoveObject
  <2>2. CASE ~(owner.closing /\ owner.watches \ {r} = {} /\ ~owner.proxy)
    BY <1>2, <1>3, <2>2, QueueKept DEF Types
  <2> QED BY <2>1, <2>2
<1>6. /\ watch'[r] = [watch[r] EXCEPT !.mem = "freed"]
      /\ watch'[r] \in Watches /\ watch' \in [Readers -> Watches]
      /\ watch[r].mem # "none"
      /\ Asked(r)' <=> Asked(r)
  BY <1>1, <1>2, <1>3, <1>4 DEF Types, Watches, ReaderParts, FreshInv, Asked
<1>7. Types' /\ OwnerInv' /\ JobInv'
  <2>1. owner.added /\ ~Has(lq, Add)
    BY <1>1, <1>2, <1>6 DEF OwnerInv
  <2>2. OwnerInv'
    BY <1>2, <1>3, <1>4, <1>5, <2>1 DEF OwnerInv
  <2> QED BY <1>1, <1>2, <1>3, <1>4, <1>5, <1>6, <2>2 DEF Types, JobInv
<1>8. \A x \in Readers \ {r} : ReaderParts(x)'
  <2> SUFFICES ASSUME NEW x \in Readers \ {r} PROVE ReaderParts(x)'
    OBVIOUS
  <2>1. Frame(x)
    BY <1>1, <1>2, <1>3, <1>4 DEF Types, Frame, ToWriter, ToReader, Asked
  <2> QED BY <1>5, <2>1, Untouched DEF IInv
<1>9. HandedOnce(r)' /\ ReaderInv(r)' /\ FreshInv(r)' /\ RefsInv(r)' /\ WriterInv(r)'
  <2>1. HandedOnce(r)'
    BY <1>1, <1>2, <1>3, <1>5, <1>6
    DEF Watches, QueueFrame, ReaderParts, HandedOnce, InReaders, Handing, ToWriter, ToReader, Live
  <2>2. ReaderInv(r)'
    BY <1>1, <1>2, <1>3, <1>5, <1>6 DEF Watches, QueueFrame, ReaderParts, ReaderInv
  <2>3. FreshInv(r)'
    BY <1>1, <1>2, <1>3, <1>5, <1>6 DEF Watches, QueueFrame, ReaderParts, FreshInv
  <2>4. RefsInv(r)'
    BY <1>1, <1>2, <1>3, <1>5, <1>6 DEF Watches, QueueFrame, ReaderParts, RefsInv
  <2>5. WriterInv(r)'
    BY <1>1, <1>2, <1>3, <1>5, <1>6 DEF Watches, QueueFrame, ReaderParts, WriterInv
  <2> QED BY <2>1, <2>2, <2>3, <2>4, <2>5
<1>10. LiveInv(r)'
  BY <1>1, <1>2, <1>3, <1>4, <1>6
  DEF Watches, ReaderParts, LiveInv, InReaders, Handing, ToWriter, ToReader, Live
<1>11. HeldInv(r)'
  BY <1>1, <1>2, <1>3, <1>6
  DEF Watches, ReaderParts, HeldInv, InReaders, Handing, ToWriter, ToReader, Live
<1>12. AnnounceInv(r)' /\ EndInv(r)'
  BY <1>2, <1>3, <1>6 DEF Watches, ReaderParts, AnnounceInv, EndInv
<1> QED BY <1>1, <1>7, <1>8, <1>9, <1>10, <1>11, <1>12 DEF IInv, ReaderParts

\* A change is pushed to a watch that takes it.
LEMMA PushChangeKeeps ==
  ASSUME IInv, NEW r \in Readers, PushChange(r) \/ PushUserRegion(r)
  PROVE  IInv'
<1>1. /\ ReaderParts(r) /\ Types /\ OwnerInv /\ JobInv
      /\ watch[r] \in Watches /\ reader[r] \in TermReaders /\ writer[r] \in TermWriters
  BY PartsFacts
<1>2. /\ UNCHANGED <<owner, pq, lq, job, reader, wire, raced>>
      /\ Live(r) /\ ~watch[r].closing
      /\ changes' = changes + 1 /\ changes < MaxChanges
      /\ watch' = [watch EXCEPT ![r].dirty = TRUE]
      /\ writer' = [writer EXCEPT ![r] = Activated(writer[r])]
      /\ early' \in SUBSET Readers
      /\ \A x \in Readers \ {r} : x \in early' <=> x \in early
      /\ r \in early => r \in early'
      /\ r \in early' \/ watch[r].started
  BY <1>1 DEF PushChange, PushUserRegion, ReaderParts, LiveInv, Types
<1>3. /\ watch'[r] = [watch[r] EXCEPT !.dirty = TRUE]
      /\ watch'[r] \in Watches
      /\ Asked(r)' <=> Asked(r)
  BY <1>1, <1>2 DEF Types, Watches, Asked
<1>4. /\ writer'[r] \in TermWriters /\ writer' \in [Readers -> TermWriters]
      /\ \A f \in {"pc", "has", "resp", "clo", "cResp", "cAct", "cClo"} : writer'[r][f] = writer[r][f]
  BY <1>1, <1>2, ActivatedFacts DEF Types
<1>5. Types' /\ OwnerInv' /\ JobInv'
  <2>1. changes' \in 0..MaxChanges
    BY <1>1, <1>2, MaxChangesAssumption DEF Types
  <2>2. \A x \in Readers : watch'[x].mem = watch[x].mem
    BY <1>1, <1>2 DEF Types, Watches
  <2> QED BY <1>1, <1>2, <1>3, <1>4, <2>1, <2>2 DEF Types, OwnerInv, JobInv
<1>6. \A x \in Readers \ {r} : ReaderParts(x)'
  BY <1>1, <1>2, OthersKeep, QueueKept DEF Types
<1>7. ~Asked(r) /\ ~Has(wire[r], "remove") /\ InReaders(r)
  BY <1>1, <1>2 DEF ReaderParts, LiveInv, EndInv
<1>8. HandedOnce(r)' /\ ReaderInv(r)' /\ FreshInv(r)' /\ RefsInv(r)' /\ WriterInv(r)'
  BY <1>1, <1>2, <1>3, <1>4, <1>7
  DEF Watches, ReaderParts, HandedOnce, ReaderInv, FreshInv, LiveInv, RefsInv, HeldInv,
       WriterInv, AnnounceInv, EndInv, InReaders, Handing, ToWriter, ToReader, Live
<1>9. LiveInv(r)'
  BY <1>1, <1>2, <1>3, <1>4, <1>7
  DEF Watches, ReaderParts, LiveInv, InReaders, Handing, ToWriter, ToReader, Live
<1>10. HeldInv(r)'
  BY <1>1, <1>2, <1>3, <1>4, <1>7
  DEF Watches, ReaderParts, LiveInv, HeldInv, InReaders, Handing, ToWriter, ToReader, Live
<1>11. AnnounceInv(r)'
  <2>1. r \notin early' => watch[r].started /\ r \notin early
    BY <1>2
  <2>2. writer[r].cClo => Asked(r)
    BY <1>1 DEF ReaderParts, LiveInv
  <2> QED BY <1>1, <1>2, <1>3, <1>4, <1>7, <2>1, <2>2 DEF Watches, ReaderParts, AnnounceInv
<1>12. EndInv(r)'
  BY <1>1, <1>2, <1>7 DEF ReaderParts, EndInv
<1> QED BY <1>5, <1>6, <1>8, <1>9, <1>10, <1>11, <1>12 DEF IInv, ReaderParts

-----------------------------------------------------------------------------
(* The listener *)

\* The object is on the list: every confirmed reader is to have a watch.
LEMMA ListenerAddKeeps ==
  ASSUME IInv, ListenerAdd
  PROVE  IInv'
<1>1. /\ Types /\ OwnerInv /\ JobInv
      /\ lq \in Seq(Items) /\ lq # <<>> /\ Head(lq) = Add
      /\ job.step = "idle" /\ (owner.proxy => owner.ask = {})
      /\ owner' = [owner EXCEPT !.listed = TRUE]
      /\ job' = [Idle EXCEPT !.step = "next", !.kind = "add",
                   !.todo = {r \in Readers : InReaders(r) /\ reader[r].confirmed}]
      /\ lq' = Tail(lq)
      /\ UNCHANGED <<pq, watch, reader, writer, wire, changes, raced, early>>
  BY DEF IInv, Types, ListenerAdd, Free, Add
<1>2. /\ lq' \in Seq(Items) /\ Has(lq, Add) /\ ~Has(lq', Add)
      /\ Has(lq', RemoveObject) => Has(lq, RemoveObject)
      /\ Unique(lq', Add)
      /\ Unique(lq, RemoveObject) => Unique(lq', RemoveObject)
      /\ \A x \in Readers : QueueFrame(x)
  BY <1>1, TailFacts, ItemTaken DEF OwnerInv
<1>3. /\ owner' \in Owners /\ owner'.added = owner.added
      /\ owner'.watches = owner.watches /\ owner'.ask = owner.ask /\ owner'.closing = owner.closing
      /\ owner'.proxy = owner.proxy /\ owner'.asked = owner.asked /\ owner'.ended = owner.ended
  BY <1>1 DEF Types, Owners
<1>4. /\ job' \in Jobs /\ job'.step = "next" /\ job'.kind = "add" /\ job'.cur = {}
      /\ \A r \in Readers : r \in job'.todo <=> InReaders(r) /\ reader[r].confirmed
  BY <1>1 DEF Jobs, Idle
<1>5. owner.added /\ \A r \in Readers : watch[r].mem = "none"
  BY <1>1, <1>2 DEF OwnerInv
<1>6. Types' /\ OwnerInv' /\ JobInv'
  BY <1>1, <1>2, <1>3, <1>4, <1>5 DEF Types, OwnerInv, JobInv
<1>7. ASSUME NEW r \in Readers PROVE ReaderParts(r)'
  <2>1. /\ ReaderParts(r) /\ watch[r].mem = "none" /\ QueueFrame(r)
        /\ ~Handing(r) /\ ~Handing(r)' /\ ~ToWriter(r) /\ ~ToWriter(r)' /\ ~ToReader(r)'
        /\ Asked(r)' <=> Asked(r)
    BY <1>1, <1>2, <1>3, <1>4, <1>5 DEF IInv, Handing, ToWriter, ToReader, Asked
  <2>2. HandedOnce(r)' /\ ReaderInv(r)'
    BY <1>1, <1>4, <2>1 DEF ReaderParts, HandedOnce, ReaderInv, InReaders, QueueFrame
  <2>3. FreshInv(r)' /\ RefsInv(r)' /\ WriterInv(r)' /\ AnnounceInv(r)' /\ EndInv(r)'
    BY <1>1, <2>1 DEF ReaderParts, FreshInv, RefsInv, WriterInv, AnnounceInv, EndInv
  <2>4. LiveInv(r)' /\ HeldInv(r)'
    BY <1>1, <1>3, <2>1 DEF ReaderParts, LiveInv, HeldInv, InReaders, Live
  <2> QED BY <2>2, <2>3, <2>4 DEF ReaderParts
<1> QED BY <1>6, <1>7 DEF IInv

\* A reader is confirmed: it is to have a watch if the object is on the list.
LEMMA ListenerConfirmKeeps ==
  ASSUME IInv, NEW r \in Readers, ListenerConfirm(r)
  PROVE  IInv'
<1>1. /\ Types /\ OwnerInv /\ JobInv
      /\ lq \in Seq(Items) /\ lq # <<>> /\ Head(lq) = Confirm(r)
      /\ job.step = "idle" /\ (owner.proxy => owner.ask = {})
      /\ job' = [step |-> "next", kind |-> "confirm", cur |-> {r},
                 todo |-> IF owner.listed THEN {r} ELSE {}]
      /\ lq' = Tail(lq)
      /\ UNCHANGED <<owner, pq, watch, reader, writer, wire, changes, raced, early>>
  BY DEF IInv, Types, ListenerConfirm, Free, Confirm
<1>2. ReaderParts(r) /\ job.todo = {} /\ job.cur = {}
  BY <1>1 DEF IInv, JobInv
<1>3. /\ lq' \in Seq(Items)
      /\ Has(lq, Confirm(r)) /\ ~Has(lq', Confirm(r))
      /\ Has(lq', Add) => Has(lq, Add)
      /\ Has(lq', RemoveObject) => Has(lq, RemoveObject)
      /\ Unique(lq, Add) => Unique(lq', Add)
      /\ Unique(lq, RemoveObject) => Unique(lq', RemoveObject)
      /\ \A x \in Readers : QueueFrame(x)
  BY <1>1, <1>2, TailFacts, ItemTaken DEF ReaderParts, ReaderInv
<1>4. /\ job' \in Jobs /\ job'.step = "next" /\ job'.kind = "confirm" /\ job'.cur = {r}
      /\ job'.todo = {} \/ job'.todo = {r}
      /\ ~owner.listed => job'.todo = {}
  BY <1>1 DEF Jobs
<1>5. Types' /\ OwnerInv' /\ JobInv'
  BY <1>1, <1>3, <1>4 DEF Types, OwnerInv, JobInv
<1>6. \A x \in Readers \ {r} : ReaderParts(x)'
  <2> SUFFICES ASSUME NEW x \in Readers \ {r} PROVE ReaderParts(x)'
    OBVIOUS
  <2>1. Frame(x)
    BY <1>1, <1>4 DEF Frame, ToWriter, ToReader, Asked
  <2> QED BY <1>3, <2>1, Untouched DEF IInv
<1>7. /\ watch[r].mem = "none" /\ InReaders(r) /\ ~reader[r].confirmed /\ reader[r].pc # "shake"
      /\ ~Handing(r) /\ ~Handing(r)' /\ ~ToWriter(r) /\ ~ToWriter(r)' /\ ~ToReader(r)'
      /\ Asked(r)' <=> Asked(r)
  BY <1>1, <1>2, <1>3, <1>4 DEF ReaderParts, ReaderInv, InReaders, Handing, ToWriter, ToReader, Asked
<1>8. HandedOnce(r)' /\ ReaderInv(r)'
  BY <1>1, <1>2, <1>3, <1>4, <1>7 DEF ReaderParts, HandedOnce, ReaderInv, InReaders, QueueFrame
<1>9. FreshInv(r)' /\ RefsInv(r)' /\ WriterInv(r)' /\ AnnounceInv(r)' /\ EndInv(r)'
  BY <1>1, <1>2, <1>7 DEF ReaderParts, FreshInv, RefsInv, WriterInv, AnnounceInv, EndInv
<1>10. LiveInv(r)' /\ HeldInv(r)'
  BY <1>1, <1>2, <1>7 DEF ReaderParts, LiveInv, HeldInv, InReaders, Live
<1> QED BY <1>5, <1>6, <1>8, <1>9, <1>10 DEF IInv, ReaderParts

\* The object is off the list; a proxy is closed.
LEMMA ListenerRemoveKeeps ==
  ASSUME IInv, ListenerRemove
  PROVE  IInv'
<1>1. /\ Types /\ OwnerInv /\ JobInv
      /\ lq \in Seq(Items) /\ lq # <<>> /\ Head(lq) = RemoveObject
      /\ job.step = "idle" /\ (owner.proxy => owner.ask = {})
      /\ owner' = IF owner.proxy
                  THEN [owner EXCEPT !.listed = FALSE, !.closing = TRUE, !.ask = owner.watches,
                                     !.ended = (owner.watches = {})]
                  ELSE [owner EXCEPT !.listed = FALSE]
      /\ lq' = Tail(lq)
      /\ UNCHANGED <<pq, job, watch, reader, writer, wire, changes, raced, early>>
  BY DEF IInv, Types, ListenerRemove, Free, RemoveObject
<1>2. /\ lq' \in Seq(Items) /\ Has(lq, RemoveObject)
      /\ Has(lq', Add) => Has(lq, Add)
      /\ Unique(lq, Add) => Unique(lq', Add)
      /\ Unique(lq, RemoveObject) => ~Has(lq', RemoveObject) /\ Unique(lq', RemoveObject)
      /\ \A x \in Readers : QueueFrame(x)
  BY <1>1, TailFacts, ItemTaken
<1>3. /\ owner' \in Owners /\ owner'.added = owner.added /\ ~owner'.listed
      /\ owner'.watches = owner.watches /\ owner'.proxy = owner.proxy /\ owner'.asked = owner.asked
      /\ owner.proxy => owner'.closing /\ owner'.ask = owner.watches /\ (owner'.ended <=> owner.watches = {})
      /\ ~owner.proxy => /\ owner'.closing = owner.closing /\ owner'.ask = owner.ask
                         /\ owner'.ended = owner.ended
  BY <1>1 DEF Types, Owners
<1>4. Types' /\ OwnerInv' /\ JobInv'
  BY <1>1, <1>2, <1>3 DEF Types, OwnerInv, JobInv
<1>5. \A x \in Readers : Frame(x)
  BY <1>1, <1>2, <1>3 DEF OwnerInv, Frame, ToWriter, ToReader, Asked
<1> QED BY <1>2, <1>4, <1>5, AllKeep DEF IInv

\* The object is asked for a watch.
LEMMA AddConnWatchKeeps ==
  ASSUME IInv, NEW r \in Readers, AddConnWatch(r)
  PROVE  IInv'
<1>1. /\ ReaderParts(r) /\ Types /\ OwnerInv /\ JobInv
      /\ watch[r] \in Watches /\ reader[r] \in TermReaders /\ writer[r] \in TermWriters
  BY PartsFacts
<1>2. /\ UNCHANGED <<pq, lq, reader, writer, wire, changes, raced, early>>
      /\ job.step = "next" /\ r \in job.todo
  BY DEF AddConnWatch
<1>3. CASE owner.closing
  <2>1. job' = [job EXCEPT !.todo = @ \ {r}] /\ owner' = owner /\ watch' = watch
    BY <1>3 DEF AddConnWatch, Refused
  <2>2. /\ job' \in Jobs /\ job'.step = job.step /\ job'.cur = job.cur /\ job'.kind = job.kind
        /\ job'.todo = job.todo \ {r}
    BY <1>1, <2>1 DEF Types, Jobs
  <2>3. Types' /\ OwnerInv' /\ JobInv'
    BY <1>1, <1>2, <2>1, <2>2 DEF Types, OwnerInv, JobInv
  <2>4. \A x \in Readers : Frame(x) /\ QueueFrame(x)
    BY <1>2, <2>1, <2>2, QueueKept DEF Frame, ToWriter, ToReader, Asked
  <2> QED BY <2>3, <2>4, AllKeep DEF IInv
<1>4. CASE ~owner.closing
  <2>1. /\ job' = [job EXCEPT !.todo = @ \ {r}, !.cur = {r}, !.step = "toWriter"]
        /\ owner' = [owner EXCEPT !.watches = @ \cup {r}]
        /\ watch' = [watch EXCEPT ![r].mem = "live"]
    BY <1>4 DEF AddConnWatch, Refused
  <2>2. /\ job' \in Jobs /\ job'.step = "toWriter" /\ job'.cur = {r} /\ job'.kind = job.kind
        /\ job'.todo = job.todo \ {r}
    BY <1>1, <2>1 DEF Types, Jobs
  <2>3. /\ owner' \in Owners /\ owner'.added = owner.added /\ owner'.listed = owner.listed
        /\ owner'.watches = owner.watches \cup {r} /\ owner'.ask = owner.ask
        /\ owner'.closing = owner.closing
        /\ owner'.proxy = owner.proxy /\ owner'.asked = owner.asked /\ owner'.ended = owner.ended
    BY <1>1, <2>1 DEF Types, Owners
  <2>4. /\ watch' \in [Readers -> Watches] /\ watch'[r] = [NoWatch EXCEPT !.mem = "live"]
        /\ watch[r].mem = "none" /\ InReaders(r) /\ FreshInv(r)
    BY <1>1, <1>2, <2>1 DEF Types, Watches, ReaderParts, HandedOnce, FreshInv
  <2>5. /\ job.kind = "confirm" => r \in job.cur /\ job.todo \subseteq {r}
        /\ owner.ask = {}
    BY <1>1, <1>2, <1>4 DEF JobInv, OwnerInv
  <2>6. Types' /\ OwnerInv' /\ JobInv'
    <3>1. OwnerInv'
      BY <1>1, <1>2, <1>4, <2>2, <2>3, <2>5 DEF OwnerInv
    <3>2. JobInv'
      BY <1>1, <1>2, <2>2, <2>5 DEF JobInv
    <3> QED BY <1>1, <1>2, <2>2, <2>3, <2>4, <3>1, <3>2 DEF Types
  <2>7. \A x \in Readers \ {r} : ReaderParts(x)'
    <3> SUFFICES ASSUME NEW x \in Readers \ {r} PROVE ReaderParts(x)'
      OBVIOUS
    <3>1. Frame(x)
      BY <1>1, <1>2, <1>4, <2>1, <2>2, <2>3 DEF Types, Frame, ToWriter, ToReader, Asked
    <3> QED BY <1>2, <3>1, QueueKept, Untouched DEF IInv
  <2>8. ToWriter(r)' /\ Handing(r)' /\ ~ToReader(r)' /\ ~Asked(r)' /\ Live(r)' /\ ~Handing(r)
    BY <1>2, <1>4, <2>2, <2>3, <2>4 DEF ToWriter, ToReader, Handing, Asked, Live, NoWatch
  <2>9. HandedOnce(r)' /\ ReaderInv(r)'
    BY <1>1, <1>2, <2>2, <2>4, <2>5, <2>8
    DEF NoWatch, ReaderParts, HandedOnce, ReaderInv, FreshInv, InReaders
  <2>10. FreshInv(r)' /\ RefsInv(r)' /\ WriterInv(r)'
    BY <1>1, <1>2, <2>4, <2>8
    DEF NoWatch, ReaderParts, FreshInv, RefsInv, WriterInv, Live
  <2>11. LiveInv(r)'
    BY <1>1, <1>2, <2>3, <2>4, <2>8 DEF NoWatch, ReaderParts, LiveInv, FreshInv, InReaders
  <2>12. HeldInv(r)'
    BY <1>1, <1>2, <2>4, <2>8, EmptyFacts
    DEF NoWatch, ReaderParts, HeldInv, FreshInv, InReaders
  <2>13. AnnounceInv(r)' /\ EndInv(r)'
    BY <1>1, <1>2, <2>4, EmptyFacts DEF NoWatch, ReaderParts, AnnounceInv, EndInv, FreshInv
  <2> QED BY <2>6, <2>7, <2>9, <2>10, <2>11, <2>12, <2>13 DEF IInv, ReaderParts
<1> QED BY <1>3, <1>4

\* The watch is handed to the writer.
LEMMA AddToWriterKeeps ==
  ASSUME IInv, NEW r \in Readers, AddToWriter(r)
  PROVE  IInv'
<1>1. /\ ReaderParts(r) /\ Types /\ OwnerInv /\ JobInv
      /\ watch[r] \in Watches /\ reader[r] \in TermReaders /\ writer[r] \in TermWriters
  BY PartsFacts
<1>2. /\ UNCHANGED <<owner, pq, lq, watch, reader, wire, changes, raced, early>>
      /\ ToWriter(r) /\ job.step = "toWriter" /\ job.cur = {r}
      /\ writer' = [writer EXCEPT ![r].has = TRUE]
      /\ job' = [job EXCEPT !.step = "toReader"]
  BY DEF AddToWriter, ToWriter
<1>3. /\ job' \in Jobs /\ job'.step = "toReader" /\ job'.cur = {r} /\ job'.kind = job.kind
      /\ job'.todo = job.todo
  BY <1>1, <1>2 DEF Types, Jobs
<1>4. /\ writer'[r] = [writer[r] EXCEPT !.has = TRUE]
      /\ writer'[r] \in TermWriters /\ writer' \in [Readers -> TermWriters]
      /\ writer'[r].has
      /\ \A f \in {"pc", "resp", "held", "act", "clo", "cResp", "cAct", "cClo"} : writer'[r][f] = writer[r][f]
  BY <1>1, <1>2 DEF TermWriters, Types
<1>5. Types' /\ OwnerInv' /\ JobInv'
  <2>1. OwnerInv'
    BY <1>1, <1>2, <1>3 DEF OwnerInv
  <2> QED BY <1>1, <1>2, <1>3, <1>4, <2>1 DEF Types, JobInv
<1>6. \A x \in Readers \ {r} : ReaderParts(x)'
  <2> SUFFICES ASSUME NEW x \in Readers \ {r} PROVE ReaderParts(x)'
    OBVIOUS
  <2>1. Frame(x)
    BY <1>1, <1>2, <1>3 DEF Types, Frame, ToWriter, ToReader, Asked
  <2> QED BY <1>2, <2>1, QueueKept, Untouched DEF IInv
<1>7. /\ ToReader(r)' /\ Handing(r)' /\ ~ToWriter(r)' /\ Handing(r) /\ ~ToReader(r)
      /\ Asked(r)' <=> Asked(r)
      /\ watch[r].mem # "none"
  BY <1>1, <1>2, <1>3 DEF ToWriter, ToReader, Handing, Asked, ReaderParts, HandedOnce
<1>8. HandedOnce(r)' /\ ReaderInv(r)' /\ FreshInv(r)' /\ RefsInv(r)' /\ WriterInv(r)'
  BY <1>1, <1>2, <1>3, <1>4, <1>7
  DEF ReaderParts, HandedOnce, ReaderInv, FreshInv, RefsInv, WriterInv, InReaders
<1>9. LiveInv(r)'
  BY <1>1, <1>2, <1>4, <1>7 DEF ReaderParts, LiveInv, InReaders, Live
<1>10. HeldInv(r)'
  BY <1>1, <1>2, <1>4, <1>7 DEF ReaderParts, HeldInv, InReaders, Live
<1>11. AnnounceInv(r)' /\ EndInv(r)'
  BY <1>1, <1>2, <1>4, <1>7 DEF ReaderParts, AnnounceInv, EndInv
<1> QED BY <1>5, <1>6, <1>8, <1>9, <1>10, <1>11 DEF IInv, ReaderParts

\* The watch is handed to the reader.
LEMMA AddToReaderKeeps ==
  ASSUME IInv, NEW r \in Readers, AddToReader(r)
  PROVE  IInv'
<1> DEFINE q == reader[r].q
<1>1. /\ ReaderParts(r) /\ Types /\ OwnerInv /\ JobInv
      /\ watch[r] \in Watches /\ reader[r] \in TermReaders /\ writer[r] \in TermWriters
      /\ q \in Seq(Msgs)
  BY PartsFacts
<1>2. /\ UNCHANGED <<owner, pq, lq, watch, writer, wire, changes, raced, early>>
      /\ ToReader(r) /\ job.step = "toReader" /\ job.cur = {r}
      /\ reader' = [reader EXCEPT ![r].has = TRUE, ![r].q = Append(q, "added")]
      /\ job' = [job EXCEPT !.step = "next", !.cur = IF job.kind = "confirm" THEN @ ELSE {}]
  BY <1>1 DEF AddToReader, ToReader, Types, TermReaders
<1>3. /\ job' \in Jobs /\ job'.step = "next" /\ job'.kind = job.kind /\ job'.todo = job.todo
      /\ job'.cur = IF job.kind = "confirm" THEN {r} ELSE {}
  BY <1>1, <1>2 DEF Types, Jobs
<1>4. /\ reader'[r] \in TermReaders /\ reader' \in [Readers -> TermReaders]
      /\ reader'[r].has /\ reader'[r].pc = reader[r].pc /\ reader'[r].confirmed = reader[r].confirmed
      /\ \A x : Has(reader'[r].q, x) <=> Has(q, x) \/ x = "added"
      /\ \A x : Unique(q, x) /\ (x # "added" \/ ~Has(q, x)) => Unique(reader'[r].q, x)
      /\ \A x, y : Before(q, x, y) /\ x # y /\ (x # "added" \/ ~Has(q, y)) => Before(reader'[r].q, x, y)
  <2>1. "added" \in Msgs /\ Append(q, "added") \in Seq(Msgs)
    BY <1>1 DEF Msgs
  <2>2. reader'[r] = [reader[r] EXCEPT !.has = TRUE, !.q = Append(q, "added")]
    BY <1>1, <1>2 DEF Types, TermReaders
  <2>3. /\ reader'[r] \in TermReaders /\ reader'[r].q = Append(q, "added")
        /\ reader'[r].has /\ reader'[r].pc = reader[r].pc /\ reader'[r].confirmed = reader[r].confirmed
    BY <1>1, <2>1, <2>2 DEF TermReaders
  <2>4. reader' \in [Readers -> TermReaders]
    BY <1>1, <1>2, <2>3 DEF Types
  <2> QED BY <1>1, <2>1, <2>3, <2>4, AppendFacts
<1>5. Types' /\ OwnerInv' /\ JobInv'
  <2>1. OwnerInv'
    BY <1>1, <1>2, <1>3 DEF OwnerInv
  <2>2. JobInv'
    BY <1>1, <1>2, <1>3 DEF JobInv
  <2> QED BY <1>1, <1>2, <1>3, <1>4, <2>1, <2>2 DEF Types
<1>6. \A x \in Readers \ {r} : ReaderParts(x)'
  <2> SUFFICES ASSUME NEW x \in Readers \ {r} PROVE ReaderParts(x)'
    OBVIOUS
  <2>1. reader'[x] = reader[x]
    BY <1>1, <1>2 DEF Types
  <2>2. /\ ~ToWriter(x) /\ ~ToWriter(x)' /\ ~ToReader(x) /\ ~ToReader(x)'
        /\ x \notin job'.cur
        /\ Asked(x)' <=> Asked(x)
    BY <1>2, <1>3 DEF ToWriter, ToReader, Asked
  <2>3. Frame(x)
    BY <1>2, <1>3, <2>1, <2>2 DEF Frame
  <2> QED BY <1>2, <2>3, QueueKept, Untouched DEF IInv
<1>7. /\ ~ToReader(r)' /\ ~Handing(r)' /\ ~ToWriter(r)' /\ Handing(r) /\ ~ToWriter(r)
      /\ Asked(r)' <=> Asked(r)
      /\ watch[r].mem # "none" /\ InReaders(r) /\ ~reader[r].has
      /\ ~Has(q, "added") /\ ~watch[r].started
  BY <1>1, <1>2, <1>3 DEF ToWriter, ToReader, Handing, Asked, ReaderParts, HandedOnce
<1>8. /\ ~watch[r].closing => ~Has(q, "release")
      /\ r \notin raced => Live(r) /\ ~watch[r].closing /\ writer[r].has /\ watch[r].refs = 2
  BY <1>1, <1>2, <1>7 DEF ReaderParts, LiveInv, HeldInv, RefsInv
<1>9. HandedOnce(r)' /\ ReaderInv(r)' /\ FreshInv(r)' /\ RefsInv(r)' /\ WriterInv(r)'
  BY <1>1, <1>2, <1>3, <1>4, <1>7
  DEF ReaderParts, HandedOnce, ReaderInv, FreshInv, RefsInv, WriterInv, InReaders
<1>10. LiveInv(r)'
  <2>1. Live(r) /\ ~watch[r].closing => writer[r].has
    BY <1>1, <1>8 DEF ReaderParts, LiveInv
  <2> QED BY <1>1, <1>2, <1>4, <1>7, <2>1 DEF ReaderParts, LiveInv, InReaders, Live
<1>11. HeldInv(r)'
  BY <1>1, <1>2, <1>4, <1>7, <1>8 DEF ReaderParts, HeldInv, InReaders, Live
<1>12. AnnounceInv(r)' /\ EndInv(r)'
  BY <1>1, <1>2, <1>4, <1>7 DEF ReaderParts, AnnounceInv, EndInv
<1> QED BY <1>5, <1>6, <1>9, <1>10, <1>11, <1>12 DEF IInv, ReaderParts

\* The listener is done with its item; a reader it was about is confirmed.
LEMMA JobDoneKeeps ==
  ASSUME IInv, JobDone
  PROVE  IInv'
<1>1. /\ Types /\ OwnerInv /\ JobInv
      /\ UNCHANGED <<owner, pq, lq, watch, writer, wire, changes, raced, early>>
      /\ job.step = "next" /\ job.todo = {} /\ job' = Idle
      /\ \A x \in Readers : reader[x] \in TermReaders /\ reader[x].q \in Seq(Msgs)
  BY DEF IInv, JobDone, Types, TermReaders
<1>2. job' \in Jobs /\ job'.step = "idle" /\ job'.todo = {} /\ job'.cur = {} /\ job'.kind = "none"
  BY <1>1 DEF Jobs, Idle
<1>3. OwnerInv' /\ JobInv'
  BY <1>1, <1>2 DEF OwnerInv, JobInv
<1>4. ASSUME NEW x \in Readers, reader'[x] = reader[x] PROVE ReaderParts(x)'
  <2>1. Frame(x) /\ QueueFrame(x)
    BY <1>1, <1>2, <1>4, QueueKept DEF Frame, ToWriter, ToReader, Asked
  <2> QED BY <2>1, Untouched DEF IInv
<1>5. CASE job.kind # "confirm"
  <2>1. reader' = reader
    BY <1>5 DEF JobDone
  <2> QED BY <1>1, <1>2, <1>3, <1>4, <2>1 DEF IInv, Types
<1>6. CASE job.kind = "confirm"
  <2>1. PICK r \in Readers : job.cur = {r}
    BY <1>1, <1>6 DEF JobInv
  <2> DEFINE q == reader[r].q
  <2>2. reader' = [x \in Readers |-> IF job.cur = {x}
                                     THEN [reader[x] EXCEPT !.confirmed = TRUE, !.q = Append(@, "confirm")]
                                     ELSE reader[x]]
    BY <1>6 DEF JobDone
  <2>3. "confirm" \in Msgs /\ q \in Seq(Msgs) /\ Append(q, "confirm") \in Seq(Msgs)
    BY <1>1 DEF Msgs
  <2>4. /\ \A x \in Readers \ {r} : reader'[x] = reader[x]
        /\ reader'[r] = [reader[r] EXCEPT !.confirmed = TRUE, !.q = Append(@, "confirm")]
    BY <2>1, <2>2
  <2>5. /\ reader'[r] \in TermReaders /\ reader'[r].q = Append(q, "confirm")
        /\ reader'[r].has = reader[r].has /\ reader'[r].pc = reader[r].pc /\ reader'[r].confirmed
    BY <1>1, <2>3, <2>4 DEF TermReaders
  <2>6. /\ \A x : Has(reader'[r].q, x) <=> Has(q, x) \/ x = "confirm"
        /\ \A x : Unique(q, x) /\ (x # "confirm" \/ ~Has(q, x)) => Unique(reader'[r].q, x)
        /\ \A x, y : Before(q, x, y) /\ x # y /\ (x # "confirm" \/ ~Has(q, y)) => Before(reader'[r].q, x, y)
    BY <2>3, <2>5, AppendFacts
  <2>7. reader' \in [Readers -> TermReaders]
    BY <1>1, <2>2, <2>4, <2>5
  <2>8. Types'
    BY <1>1, <1>2, <2>7 DEF Types
  <2>9. /\ ReaderParts(r) /\ InReaders(r) /\ ~reader[r].confirmed
        /\ reader[r].pc # "shake" /\ ~Has(lq, Confirm(r))
        /\ ~Has(q, "confirm") /\ writer[r].pc = "off"
        /\ ~Handing(r) /\ ~Handing(r)' /\ ~ToWriter(r) /\ ~ToWriter(r)' /\ ~ToReader(r)'
        /\ Asked(r)' <=> Asked(r)
    BY <1>1, <1>2, <1>6, <2>1 DEF IInv, ReaderParts, ReaderInv, HandedOnce, Handing, ToWriter, ToReader, Asked
  <2>10. HandedOnce(r)' /\ ReaderInv(r)' /\ FreshInv(r)' /\ RefsInv(r)' /\ WriterInv(r)'
    BY <1>1, <1>2, <2>5, <2>6, <2>9
    DEF ReaderParts, HandedOnce, ReaderInv, FreshInv, RefsInv, WriterInv, InReaders
  <2>11. LiveInv(r)'
    BY <1>1, <2>5, <2>6, <2>9 DEF ReaderParts, LiveInv, InReaders, Live
  <2>12. HeldInv(r)'
    BY <1>1, <2>5, <2>6, <2>9 DEF ReaderParts, HeldInv, InReaders, Live
  <2>13. AnnounceInv(r)' /\ EndInv(r)'
    BY <1>1, <2>5, <2>6, <2>9 DEF ReaderParts, AnnounceInv, EndInv
  <2> QED BY <1>3, <1>4, <2>4, <2>8, <2>10, <2>11, <2>12, <2>13 DEF IInv, ReaderParts
<1> QED BY <1>5, <1>6

\* A reader is deleted, and gives back what it still holds.
LEMMA ListenerRemoveReaderKeeps ==
  ASSUME IInv, NEW r \in Readers, ListenerRemoveReader(r)
  PROVE  IInv'
<1>1. /\ ReaderParts(r) /\ Types /\ OwnerInv /\ JobInv
      /\ watch[r] \in Watches /\ reader[r] \in TermReaders /\ writer[r] \in TermWriters
      /\ lq \in Seq(Items)
  BY PartsFacts
<1>2. /\ lq # <<>> /\ Head(lq) = RemoveReader(r) /\ lq' = Tail(lq)
      /\ job.step = "idle" /\ (owner.proxy => owner.ask = {})
      /\ reader' = [reader EXCEPT ![r].pc = "freed"]
      /\ UNCHANGED <<owner, job, writer, wire, changes, raced, early>>
  BY DEF ListenerRemoveReader, Free, RemoveReader
<1>3. /\ lq' \in Seq(Items)
      /\ Has(lq, RemoveReader(r)) /\ ~Has(lq', RemoveReader(r)) /\ ~Has(lq', Confirm(r))
      /\ Has(lq', Add) => Has(lq, Add)
      /\ Has(lq', RemoveObject) => Has(lq, RemoveObject)
      /\ Unique(lq, Add) => Unique(lq', Add)
      /\ Unique(lq, RemoveObject) => Unique(lq', RemoveObject)
      /\ \A x \in Readers : QueueFrame(x)
  BY <1>1, <1>2, TailFacts, ItemTaken DEF ReaderParts, ReaderInv
<1>4. /\ reader'[r] = [reader[r] EXCEPT !.pc = "freed"]
      /\ reader'[r] \in TermReaders /\ reader' \in [Readers -> TermReaders]
      /\ ~InReaders(r)' /\ InReaders(r) /\ reader[r].pc = "gone" /\ writer[r].pc \in {"off", "ended"}
      /\ job.todo = {} /\ job.cur = {} /\ ~Handing(r) /\ ~Handing(r)' /\ ~ToReader(r)' /\ ~ToWriter(r)
      /\ Asked(r)' <=> Asked(r)
  BY <1>1, <1>2, <1>3
  DEF Types, TermReaders, InReaders, ReaderParts, ReaderInv, JobInv, Handing, ToWriter, ToReader, Asked
<1>5. ReaderInv(r)'
  BY <1>1, <1>2, <1>3, <1>4 DEF TermReaders, ReaderParts, ReaderInv, QueueFrame
<1>6. CASE ~(reader[r].has \/ writer[r].has)
  <2>1. watch' = watch /\ pq' = pq
    BY <1>6 DEF ListenerRemoveReader
  <2>2. Types' /\ OwnerInv' /\ JobInv'
    BY <1>1, <1>2, <1>3, <1>4, <2>1 DEF Types, OwnerInv, JobInv
  <2>3. \A x \in Readers \ {r} : ReaderParts(x)'
    BY <1>1, <1>2, <1>3, <2>1, OthersKeep DEF Types
  <2>4. HandedOnce(r)' /\ FreshInv(r)' /\ LiveInv(r)' /\ RefsInv(r)' /\ HeldInv(r)'
    BY <1>1, <1>2, <1>4, <1>6, <2>1
    DEF TermReaders, ReaderParts, HandedOnce, FreshInv, LiveInv, RefsInv, HeldInv, Live
  <2>5. WriterInv(r)' /\ AnnounceInv(r)' /\ EndInv(r)'
    BY <1>1, <1>2, <1>4, <2>1 DEF TermReaders, ReaderParts, WriterInv, AnnounceInv, EndInv
  <2> QED BY <1>5, <2>2, <2>3, <2>4, <2>5 DEF IInv, ReaderParts
<1>7. CASE reader[r].has \/ writer[r].has
  <2>1. /\ watch' = [watch EXCEPT ![r].active = FALSE, ![r].closing = TRUE,
                                  ![r].reader = FALSE, ![r].writer = FALSE]
        /\ pq' = Append(pq, r)
    BY <1>7 DEF ListenerRemoveReader
  <2>2. /\ watch'[r] = [watch[r] EXCEPT !.active = FALSE, !.closing = TRUE, !.reader = FALSE, !.writer = FALSE]
        /\ watch'[r] \in Watches /\ watch' \in [Readers -> Watches]
        /\ watch[r].mem # "none"
    BY <1>1, <1>7, <2>1 DEF Types, Watches, ReaderParts, FreshInv
  <2>3. /\ pq' \in Seq(Readers)
        /\ Has(pq', r)
        /\ Unique(pq, r) /\ ~Has(pq, r) => Unique(pq', r)
        /\ \A x \in Readers \ {r} : (Has(pq', x) <=> Has(pq, x)) /\ (Unique(pq, x) => Unique(pq', x))
    BY <1>1, <2>1, AppendFacts DEF Types
  <2>4. Types' /\ OwnerInv' /\ JobInv'
    <3>1. \A x \in Readers : watch'[x].mem = watch[x].mem
      BY <1>1, <2>1 DEF Types, Watches
    <3> QED BY <1>1, <1>2, <1>3, <1>4, <2>2, <2>3, <3>1 DEF Types, OwnerInv, JobInv
  <2>5. \A x \in Readers \ {r} : ReaderParts(x)'
    BY <1>1, <1>2, <1>3, <2>1, <2>3, OthersKeep DEF Types
  <2>6. HandedOnce(r)' /\ FreshInv(r)' /\ RefsInv(r)'
    BY <1>1, <1>2, <1>4, <2>2
    DEF TermReaders, Watches, ReaderParts, HandedOnce, FreshInv, RefsInv
  <2>7. LiveInv(r)'
    BY <1>1, <1>2, <1>4, <2>2 DEF TermReaders, Watches, ReaderParts, LiveInv, Live
  <2>8. HeldInv(r)'
    <3>1. r \notin raced => Live(r) /\ ~Has(pq, r)
      BY <1>1, <1>4, <1>7 DEF ReaderParts, HeldInv
    <3> QED BY <1>1, <1>2, <1>4, <2>2, <2>3, <3>1 DEF TermReaders, Watches, ReaderParts, HeldInv, Live
  <2>9. WriterInv(r)' /\ AnnounceInv(r)' /\ EndInv(r)'
    BY <1>1, <1>2, <1>4, <2>2 DEF TermReaders, Watches, ReaderParts, WriterInv, AnnounceInv, EndInv
  <2> QED BY <1>5, <2>4, <2>5, <2>6, <2>7, <2>8, <2>9 DEF IInv, ReaderParts
<1> QED BY <1>6, <1>7

-----------------------------------------------------------------------------
(* The inductive invariant *)

LEMMA Initially == Init => IInv
<1> SUFFICES ASSUME Init PROVE IInv
  OBVIOUS
<1>1. Types
  <2>1. owner \in Owners
    BY DEF Init, Owners
  <2>2. job \in Jobs
    BY DEF Init, Jobs, Idle
  <2>3. watch \in [Readers -> Watches]
    BY DEF Init, Watches, NoWatch
  <2>4. reader \in [Readers -> TermReaders]
    BY DEF Init, TermReaders
  <2>5. writer \in [Readers -> TermWriters]
    BY DEF Init, TermWriters, Pending
  <2>6. changes \in 0..MaxChanges
    BY MaxChangesAssumption DEF Init
  <2> QED BY <2>1, <2>2, <2>3, <2>4, <2>5, <2>6 DEF Init, Types
<1>2. OwnerInv /\ JobInv
  <2>1. /\ ~owner.added /\ ~owner.listed /\ ~owner.closing /\ owner.ask = {} /\ owner.watches = {}
        /\ ~owner.ended /\ raced = {} /\ lq = <<>>
        /\ \A r \in Readers : watch[r].mem = "none"
    BY DEF Init, NoWatch
  <2>2. job.step = "idle" /\ job.todo = {} /\ job.cur = {} /\ job.kind = "none"
    BY DEF Init, Idle
  <2> QED BY <2>1, <2>2, EmptyFacts DEF OwnerInv, JobInv
<1>3. ASSUME NEW r \in Readers PROVE ReaderParts(r)
  <2>1. /\ owner.watches = {} /\ ~owner.closing
        /\ job.step = "idle" /\ job.cur = {} /\ job.todo = {} /\ job.kind = "none"
        /\ lq = <<>> /\ pq = <<>> /\ wire[r] = <<>> /\ r \notin raced /\ r \notin early
        /\ watch[r] = NoWatch
        /\ reader[r].pc = "shake" /\ reader[r].q = <<>> /\ ~reader[r].has /\ ~reader[r].confirmed
        /\ writer[r].pc = "off" /\ ~writer[r].has /\ writer[r].resp = <<>> /\ ~writer[r].held
        /\ ~writer[r].act /\ ~writer[r].clo /\ writer[r].cResp = <<>> /\ ~writer[r].cAct /\ ~writer[r].cClo
    BY DEF Init, Idle
  <2>2. ~Handing(r) /\ ~ToReader(r) /\ ~ToWriter(r) /\ ~Asked(r) /\ ~Live(r) /\ InReaders(r)
    BY <2>1 DEF Handing, ToReader, ToWriter, Asked, Live, InReaders, NoWatch
  <2>3. HandedOnce(r) /\ ReaderInv(r) /\ FreshInv(r) /\ LiveInv(r) /\ RefsInv(r)
    <3>1. HandedOnce(r) /\ ReaderInv(r)
      <4>1. watch[r].mem = "none"
        BY <2>1 DEF NoWatch
      <4>2. HandedOnce(r)
        BY <2>1, <2>2 DEF HandedOnce
      <4>3. ReaderInv(r)
        BY <2>1, <4>1, EmptyFacts DEF ReaderInv
      <4> QED BY <4>2, <4>3
    <3>2. FreshInv(r)
      BY <2>1, EmptyFacts DEF FreshInv
    <3>3. LiveInv(r) /\ RefsInv(r)
      BY <2>1, <2>2, EmptyFacts DEF NoWatch, LiveInv, RefsInv
    <3> QED BY <3>1, <3>2, <3>3
  <2>4. HeldInv(r) /\ WriterInv(r) /\ AnnounceInv(r) /\ EndInv(r)
    <3>1. /\ watch[r].mem = "none" /\ ~watch[r].active /\ ~watch[r].started /\ ~watch[r].closing
          /\ watch[r].refs = 2 /\ ~watch[r].dirty
      <4>1. watch[r] = NoWatch
        BY <2>1
      <4> QED BY <4>1 DEF NoWatch
    <3>2. HeldInv(r)
      BY <2>1, <2>2, <3>1, EmptyFacts DEF HeldInv
    <3>3. WriterInv(r)
      BY <2>1, <2>2, <3>1, EmptyFacts DEF WriterInv
    <3>4. AnnounceInv(r)
      BY <2>1, <2>2, <3>1, EmptyFacts DEF AnnounceInv
    <3>5. EndInv(r)
      BY <2>1, <2>2, <3>1, EmptyFacts DEF EndInv
    <3> QED BY <3>2, <3>3, <3>4, <3>5
  <2> QED BY <2>3, <2>4 DEF ReaderParts
<1> QED BY <1>1, <1>2, <1>3 DEF IInv

LEMMA ReaderStepKeeps ==
  ASSUME IInv, NEW r \in Readers,
         ReaderStep(r) \/ PostConfirmReader(r) \/ Unblock(r) \/ ReaderQuit(r)
  PROVE  IInv'
<1>1. CASE HandleWatchAdded(r)
  BY <1>1, HandleWatchAddedKeeps
<1>2. CASE HandleWatchRelease(r)
  BY <1>2, HandleWatchReleaseKeeps
<1>3. CASE HandlePostConfirm(r)
  BY <1>3, HandlePostConfirmKeeps
<1>4. CASE HandleReaderClose(r) \/ ReaderQuit(r)
  BY <1>4, ReaderQuitKeeps DEF HandleReaderClose
<1>5. CASE ReaderGone(r)
  BY <1>5, ReaderGoneKeeps
<1>6. CASE PostConfirmReader(r)
  BY <1>6, PostConfirmReaderKeeps
<1>7. CASE Unblock(r)
  BY <1>7, UnblockKeeps
<1> QED BY <1>1, <1>2, <1>3, <1>4, <1>5, <1>6, <1>7 DEF ReaderStep

LEMMA WriterStepKeeps ==
  ASSUME IInv, NEW r \in Readers, WriterStep(r) \/ WriterFail(r)
  PROVE  IInv'
<1>1. CASE WriterSwap(r)
  BY <1>1, WriterSwapKeeps
<1>2. CASE WriterSend(r)
  BY <1>2, WriterSendKeeps
<1>3. CASE WriterActive(r)
  BY <1>3, WriterActiveKeeps
<1>4. CASE WriterClosing(r)
  BY <1>4, WriterClosingKeeps
<1>5. CASE WriterStop(r)
  BY <1>5, WriterStopKeeps
<1>6. CASE WriterFail(r)
  BY <1>6, WriterFailKeeps
<1> QED BY <1>1, <1>2, <1>3, <1>4, <1>5, <1>6 DEF WriterStep

LEMMA OwnerStepKeeps ==
  ASSUME IInv, PostAdd \/ HandleClose \/ PostRemove \/ OwnerStep
  PROVE  IInv'
<1>1. CASE PostAdd
  BY <1>1, PostAddKeeps
<1>2. CASE HandleClose
  BY <1>2, HandleCloseKeeps
<1>3. CASE PostRemove
  BY <1>3, PostRemoveKeeps
<1>4. CASE HandleWatchReleased
  <2>1. Head(pq) \in Readers
    BY <1>4, TailFacts DEF HandleWatchReleased, IInv, Types
  <2> QED BY <1>4, <2>1, HandleWatchReleasedKeeps
<1>5. CASE \E r \in Readers : AskRelease(r)
  BY <1>5, AskReleaseKeeps
<1> QED BY <1>1, <1>2, <1>3, <1>4, <1>5 DEF OwnerStep

LEMMA ListenerStepKeeps ==
  ASSUME IInv, ListenerStep
  PROVE  IInv'
<1>1. CASE ListenerAdd
  BY <1>1, ListenerAddKeeps
<1>2. CASE ListenerRemove
  BY <1>2, ListenerRemoveKeeps
<1>3. CASE JobDone
  BY <1>3, JobDoneKeeps
<1>4. ASSUME NEW r \in Readers,
             ListenerConfirm(r) \/ AddConnWatch(r) \/ AddToWriter(r) \/ AddToReader(r)
               \/ ListenerRemoveReader(r)
      PROVE  IInv'
  BY <1>4, ListenerConfirmKeeps, AddConnWatchKeeps, AddToWriterKeeps, AddToReaderKeeps,
     ListenerRemoveReaderKeeps
<1> QED BY <1>1, <1>2, <1>3, <1>4 DEF ListenerStep

LEMMA NextKeeps == IInv /\ [Next]_vars => IInv'
<1> SUFFICES ASSUME IInv, [Next]_vars PROVE IInv'
  OBVIOUS
<1>1. CASE PostAdd \/ HandleClose \/ PostRemove \/ OwnerStep
  BY <1>1, OwnerStepKeeps
<1>2. CASE ListenerStep
  BY <1>2, ListenerStepKeeps
<1>3. ASSUME NEW r \in Readers,
             ReaderStep(r) \/ PostConfirmReader(r) \/ Unblock(r) \/ ReaderQuit(r)
      PROVE  IInv'
  BY <1>3, ReaderStepKeeps
<1>4. ASSUME NEW r \in Readers, WriterStep(r) \/ WriterFail(r) PROVE IInv'
  BY <1>4, WriterStepKeeps
<1>5. ASSUME NEW r \in Readers, PushChange(r) \/ PushUserRegion(r) PROVE IInv'
  BY <1>5, PushChangeKeeps
<1>6. CASE UNCHANGED vars
  <2>1. \A x \in Readers : Frame(x) /\ QueueFrame(x)
    BY <1>6, QueueKept DEF vars, Frame, ToWriter, ToReader, Asked
  <2>2. Types' /\ OwnerInv' /\ JobInv'
    BY <1>6 DEF vars, IInv, Types, OwnerInv, JobInv
  <2> QED BY <2>1, <2>2, AllKeep DEF IInv
<1> QED BY <1>1, <1>2, <1>3, <1>4, <1>5, <1>6 DEF Next

\* What is said of the owner, the listener's job and each reader holds throughout.
THEOREM Invariance == Spec => []IInv
  BY Initially, NextKeeps, PTL DEF Spec

-----------------------------------------------------------------------------
(* What the runs check *)

\* The state has the types of the code's members.
THEOREM TypesHold == Spec => []TypeOK
<1>1. IInv => TypeOK
  <2> SUFFICES ASSUME IInv PROVE TypeOK
    OBVIOUS
  <2>1. Types /\ owner.ask \subseteq owner.watches
    BY DEF IInv, OwnerInv
  <2>2. /\ owner.watches \in SUBSET Readers
        /\ job.step \in {"idle", "next", "toWriter", "toReader"}
    BY <2>1 DEF Types, Owners, Jobs
  <2>3. lq \in Seq({<<"add">>, <<"remove">>} \cup ({"confirm", "removeReader"} \X Readers))
    BY <2>1 DEF Types, Items, Add, RemoveObject
  <2>4. ASSUME NEW r \in Readers
        PROVE  /\ watch[r].mem \in {"none", "live", "freed"} /\ watch[r].refs \in 0..2
               /\ reader[r].pc \in {"shake", "run", "join", "gone", "freed"}
               /\ reader[r].q \in Seq({"added", "release", "confirm", "close"})
               /\ writer[r].pc \in {"off", "wait", "send", "active", "closing", "ended"}
               /\ wire[r] \in Seq({"announce", "update", "remove"})
    <3>1. watch[r] \in Watches /\ reader[r] \in TermReaders /\ writer[r] \in TermWriters
          /\ wire[r] \in Seq(Words)
      BY <2>1 DEF Types
    <3> QED BY <3>1 DEF Watches, TermReaders, TermWriters, Msgs, Words
  <2> QED BY <2>1, <2>2, <2>3, <2>4 DEF TypeOK, Types
<1> QED BY <1>1, Invariance, PTL

\* A watch that can still be activated or released has its reader and writer
\* alive, however the client's end and the object's end interleave.
THEOREM DeadThreadsUnused == Spec => []NoDeadThreadUsed
<1>1. IInv => NoDeadThreadUsed
  BY DEF IInv, ReaderParts, LiveInv, InReaders, NoDeadThreadUsed
<1> QED BY <1>1, Invariance, PTL

\* A thread that can still follow its pointer to the watch finds it alive.
THEOREM FreedWatchesUnused == Spec => []NoUseAfterFree
<1>1. IInv => NoUseAfterFree
  <2> SUFFICES ASSUME IInv, NEW r \in Readers \ raced,
                      ReaderPoints(r) \/ WriterPoints(r) \/ DestructorPoints(r)
               PROVE  Live(r)
    BY DEF NoUseAfterFree
  <2>1. ReaderParts(r) /\ writer[r] \in TermWriters
    BY PartsFacts
  <2>2. CASE DestructorPoints(r)
    BY <2>1, <2>2 DEF DestructorPoints, ReaderParts, HeldInv
  <2>3. CASE ReaderPoints(r)
    <3>1. InReaders(r) /\ (Has(reader[r].q, "added") \/ Has(reader[r].q, "release"))
      BY <2>3 DEF ReaderPoints, Running, InReaders, Has
    <3> QED BY <2>1, <3>1 DEF ReaderParts, HeldInv
  <2>4. CASE WriterPoints(r)
    <3>1. InReaders(r)
      BY <2>1, <2>4 DEF WriterPoints, InReaders, ReaderParts, ReaderInv
    <3>2. writer[r].has \/ ToWriter(r)
      BY <2>1, <2>4, <3>1 DEF WriterPoints, ReaderParts, HeldInv
    <3> QED BY <2>1, <3>1, <3>2 DEF ReaderParts, HeldInv, Handing
  <2> QED BY <2>2, <2>3, <2>4
<1> QED BY <1>1, Invariance, PTL

\* An object whose thread has ended has no watch left.
THEOREM EndedOwnersAlone == Spec => []NoWatchOutlivesOwner
<1>1. IInv => NoWatchOutlivesOwner
  BY DEF IInv, OwnerInv, ReaderParts, LiveInv, NoWatchOutlivesOwner
<1> QED BY <1>1, Invariance, PTL

\* The listener, which hands a proxy's watches out, never asks one back before
\* its reader has it.
THEOREM ProxiesNeverRace == Spec => []ProxyNeverRaces
<1>1. IInv => ProxyNeverRaces
  BY DEF IInv, OwnerInv, ProxyNeverRaces
<1> QED BY <1>1, Invariance, PTL

\* How often an item is in a queue.
LEMMA CountFacts ==
  ASSUME NEW S, NEW s \in Seq(S), NEW x
  PROVE  /\ Count(s, x) \in Nat
         /\ Has(s, x) <=> Count(s, x) > 0
         /\ Unique(s, x) => Count(s, x) <= 1
         /\ ~Has(s, x) => Count(s, x) = 0
<1> DEFINE A == {i \in DOMAIN s : s[i] = x}
<1>1. IsFiniteSet(A) /\ Cardinality(A) \in Nat
  <2>1. DOMAIN s = 1..Len(s) /\ Len(s) \in Nat
    OBVIOUS
  <2>2. IsFiniteSet(1..Len(s))
    BY <2>1, FS_Interval
  <2> QED BY <2>1, <2>2, FS_Subset, FS_CardinalityType
<1>2. ~Has(s, x) => A = {} /\ Cardinality(A) = 0
  BY FS_EmptySet DEF Has
<1>3. Has(s, x) => Cardinality(A) > 0
  <2>1. Has(s, x) => A # {}
    BY DEF Has
  <2> HIDE DEF A
  <2>2. A # {} => Cardinality(A) # 0
    BY <1>1, FS_EmptySet
  <2> QED BY <1>1, <2>1, <2>2
<1>4. Has(s, x) /\ Unique(s, x) => Cardinality(A) = 1
  <2> SUFFICES ASSUME Has(s, x), Unique(s, x) PROVE Cardinality(A) = 1
    OBVIOUS
  <2>1. PICK i \in DOMAIN s : s[i] = x
    BY DEF Has
  <2>2. A = {i}
    BY <2>1 DEF Unique
  <2> QED BY <2>2, FS_Singleton
<1>5. Count(s, x) = Cardinality(A)
  BY DEF Count
<1> QED BY <1>1, <1>2, <1>3, <1>4, <1>5

\* The owner is told of a released watch once, while the watch still exists.
THEOREM ReleasesCounted == Spec => []ReleasedOnce
<1>1. IInv => ReleasedOnce
  <2> SUFFICES ASSUME IInv, NEW r \in Readers \ raced
               PROVE  Count(pq, r) <= IF Live(r) THEN 1 ELSE 0
    BY DEF ReleasedOnce
  <2>1. ReaderParts(r) /\ pq \in Seq(Readers)
    BY PartsFacts
  <2>2. Unique(pq, r) /\ (Has(pq, r) => Live(r))
    BY <2>1 DEF ReaderParts, HeldInv
  <2> QED BY <2>1, <2>2, CountFacts
<1> QED BY <1>1, Invariance, PTL

\* The client is told of the object, then of its changes, then of its end, each
\* end once.
THEOREM WireOrdered == Spec => []WireOrder
<1>1. IInv => WireOrder
  <2> SUFFICES ASSUME IInv, NEW r \in Readers
               PROVE  /\ Count(wire[r], "announce") <= 1 /\ Count(wire[r], "remove") <= 1
                      /\ \A i \in DOMAIN wire[r] :
                           wire[r][i] = "remove" => i = Len(wire[r]) /\ Sent(r, "announce")
                      /\ \A i, j \in DOMAIN wire[r] :
                           wire[r][i] = "update" /\ wire[r][j] = "announce" /\ r \notin early => j < i
    BY DEF WireOrder
  <2> DEFINE w == wire[r]
  <2>1. AnnounceInv(r) /\ EndInv(r) /\ w \in Seq(Words)
    BY PartsFacts DEF ReaderParts
  <2>2. Count(w, "announce") <= 1 /\ Count(w, "remove") <= 1
    BY <2>1, CountFacts DEF AnnounceInv, EndInv
  <2>3. ASSUME NEW i \in DOMAIN w, w[i] = "remove"
        PROVE  i = Len(w) /\ Sent(r, "announce")
    <3>1. Has(w, "announce")
      BY <2>1, <2>3 DEF Has, EndInv
    <3>2. Count(w, "announce") > 0
      BY <2>1, <3>1, CountFacts
    <3>3. \A j \in DOMAIN w : j <= i
      <4> SUFFICES ASSUME NEW j \in DOMAIN w PROVE j <= i
        OBVIOUS
      <4>1. w[j] \in {"announce", "update", "remove"} /\ i \in Nat /\ j \in Nat
        BY <2>1 DEF Words
      <4> QED BY <2>1, <2>3, <4>1 DEF EndInv, Before, Unique
    <3>4. i = Len(w)
      <4>1. Len(w) \in DOMAIN w /\ i \in Nat /\ i <= Len(w)
        BY <2>1, <2>3
      <4> QED BY <2>1, <3>3, <4>1
    <3> QED BY <3>2, <3>4 DEF Sent
  <2>4. \A i, j \in DOMAIN w : w[i] = "update" /\ w[j] = "announce" /\ r \notin early => j < i
    BY <2>1 DEF AnnounceInv, Before
  <2> QED BY <2>2, <2>3, <2>4
<1> QED BY <1>1, Invariance, PTL
================================================================================
