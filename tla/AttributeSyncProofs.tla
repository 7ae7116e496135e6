-------------------------- MODULE AttributeSyncProofs --------------------------
(***************************************************************************)
(* Proofs about AttributeSync for any objects, clients, threads, keys and  *)
(* values and any bound.                                                   *)
(***************************************************************************)
EXTENDS AttributeSync, FiniteSetTheorems, TLAPS

\* What an attribute is given, what may be left of it after a move, and changes
\* of those.
Given == Values \cup {None}
Moved == Given \cup {Empty}
Partial(V) == UNION {[D -> V] : D \in SUBSET Keys}

Pendings == [pc : {"idle", "one", "many"}, o : Objects \cup {None}, change : Partial(Given)]
Watches == [active : BOOLEAN, started : BOOLEAN, closing : BOOLEAN, pend : Partial(Moved)]
Writers == [pc : {"wait", "work", "write"}, blocked : BOOLEAN, held : SUBSET Objects,
            act : SUBSET Objects, clo : SUBSET Objects, cAct : SUBSET Objects,
            cClo : SUBSET Objects, cur : Objects \cup {None}, transfer : Partial(Moved)]

\* The values of the variables.
Types ==
  /\ attrs \in [Objects -> [Keys -> Given]]
  /\ setter \in [Setters -> Pendings]
  /\ watch \in [Readers -> [Objects -> Watches]]
  /\ writer \in [Readers -> Writers]
  /\ view \in [Readers -> [Objects -> [Keys -> Given]]]

\* A thread holds a change of some object, or none.
SetterInv(p) == /\ setter[p].pc = "idle" => setter[p].change = NoChange
                /\ setter[p].pc # "idle" => setter[p].o \in Objects

\* The writer has been asked to see to the watch.
Listed(r, o) ==
  \/ o \in writer[r].act \cup writer[r].cAct \cup writer[r].clo \cup writer[r].cClo
  \/ writer[r].blocked /\ o \in writer[r].held

\* A waiting writer has done what it copied, one that is held back has no list
\* to serve, and the transfer buffer is empty but for the write.
WriterInv(r) ==
  /\ writer[r].pc = "wait" => writer[r].cAct = {} /\ writer[r].cClo = {}
  /\ writer[r].pc = "write" => writer[r].cur \in Objects
  /\ writer[r].blocked => writer[r].act = {}
  /\ r \notin blended /\ writer[r].pc # "write" => writer[r].transfer = NoChange

\* A watch with changes is listed.
ListInv(r) == \A o \in Objects : r \notin blended /\ watch[r][o].pend # NoChange => Listed(r, o)

\* The inductive invariant behind NothingForgotten.
IInv == /\ Types
        /\ \A p \in Setters : SetterInv(p)
        /\ \A r \in Readers : WriterInv(r) /\ ListInv(r)

\* The value the client holds once its watch and its writer have sent on what
\* they have.
Reach(r, o, k) ==
  IF k \in DOMAIN watch[r][o].pend THEN watch[r][o].pend[k]
  ELSE IF writer[r].pc = "write" /\ writer[r].cur = o /\ k \in DOMAIN writer[r].transfer
       THEN writer[r].transfer[k]
       ELSE view[r][o][k]

\* A thread has written the attribute and not pushed it yet.
OnItsWay(o, k) == \E p \in Setters : setter[p].o = o /\ k \in DOMAIN setter[p].change

\* What a thread will push is what the object has, unless threads crossed.
ChangeInv(p) ==
  /\ BulkSets = {} => setter[p].pc # "many"
  /\ \A o \in Objects, k \in Keys :
       setter[p].o = o /\ k \in DOMAIN setter[p].change /\ <<o, k>> \notin crossed
         => setter[p].change[k] = attrs[o][k]

\* The life of a watch: changes are collected for it, and sent, after its start.
LifeInv(r, o) ==
  /\ watch[r][o].active <=> watch[r][o].started /\ ~watch[r][o].closing
  /\ o \in writer[r].clo \cup writer[r].cClo => watch[r][o].closing
  /\ o \in writer[r].act \cup writer[r].cAct \cup writer[r].held => watch[r][o].started
  /\ writer[r].pc = "write" /\ writer[r].cur = o => watch[r][o].started
  /\ r \notin blended /\ watch[r][o].pend # NoChange => watch[r][o].started

\* An attribute is on its way to the watch, or the client will hold its value.
CopyInv(r, o) == \A k \in Keys :
  r \notin blended /\ watch[r][o].active /\ <<o, k>> \notin crossed
    => OnItsWay(o, k) \/ Reach(r, o, k) = attrs[o][k]

\* No moved-from value reaches the watch.
WholeInv(r, o) == watch[r][o].pend \in Partial(Given) /\ writer[r].transfer \in Partial(Given)

CopyParts(r) == \A o \in Objects : LifeInv(r, o) /\ CopyInv(r, o) /\ WholeInv(r, o)

\* The inductive invariant behind Converges.
CInv == /\ IInv
        /\ \A p \in Setters : ChangeInv(p)
        /\ \A r \in Readers : CopyParts(r)

-----------------------------------------------------------------------------
(* Changes *)

\* The empty change.
LEMMA NoChangeIs ==
  ASSUME NEW V PROVE NoChange \in Partial(V) /\ DOMAIN NoChange = {}
<1>1. <<>> \in [{} -> V] /\ DOMAIN <<>> = {}
  OBVIOUS
<1> QED BY <1>1 DEF NoChange, Partial

\* A change is its values.
LEMMA PartialIs ==
  ASSUME NEW V, NEW c \in Partial(V)
  PROVE  DOMAIN c \subseteq Keys /\ c = [k \in DOMAIN c |-> c[k]] /\ \A k \in DOMAIN c : c[k] \in V
<1>1. PICK D \in SUBSET Keys : c \in [D -> V]
  BY DEF Partial
<1> QED BY <1>1

\* What is given may be left, too.
LEMMA GivenMoved == Partial(Given) \subseteq Partial(Moved)
<1>1. ASSUME NEW c \in Partial(Given) PROVE c \in Partial(Moved)
  <2>1. PICK D \in SUBSET Keys : c \in [D -> Given]
    BY DEF Partial
  <2>2. c \in [D -> Moved]
    BY <2>1 DEF Moved
  <2> QED BY <2>2 DEF Partial
<1> QED BY <1>1

\* The newer change wins, and nothing is dropped.
LEMMA OverIs ==
  ASSUME NEW V, NEW f \in Partial(V), NEW g \in Partial(V)
  PROVE  /\ Over(f, g) \in Partial(V)
         /\ DOMAIN Over(f, g) = DOMAIN f \cup DOMAIN g
         /\ \A k \in DOMAIN f : Over(f, g)[k] = f[k]
         /\ \A k \in DOMAIN g \ DOMAIN f : Over(f, g)[k] = g[k]
<1>1. /\ DOMAIN f \subseteq Keys /\ \A k \in DOMAIN f : f[k] \in V
      /\ DOMAIN g \subseteq Keys /\ \A k \in DOMAIN g : g[k] \in V
  BY PartialIs
<1>2. Over(f, g) \in [DOMAIN f \cup DOMAIN g -> V]
  BY <1>1 DEF Over
<1> QED BY <1>1, <1>2 DEF Over, Partial

\* A change over an object's whole map gives a whole map.
LEMMA OverMap ==
  ASSUME NEW V, NEW f \in Partial(V), NEW g \in [Keys -> V]
  PROVE  /\ Over(f, g) \in [Keys -> V]
         /\ \A k \in DOMAIN f : Over(f, g)[k] = f[k]
         /\ \A k \in Keys \ DOMAIN f : Over(f, g)[k] = g[k]
<1>1. DOMAIN f \subseteq Keys /\ \A k \in DOMAIN f : f[k] \in V
  BY PartialIs
<1>2. DOMAIN f \cup DOMAIN g = Keys
  BY <1>1
<1> QED BY <1>1, <1>2 DEF Over

\* A change of one attribute.
LEMMA Set1Is ==
  ASSUME NEW k \in Keys, NEW v \in Given
  PROVE  Set1(k, v) \in Partial(Given)
<1>1. Set1(k, v) \in [{k} -> Given]
  BY DEF Set1
<1> QED BY <1>1 DEF Partial

\* The part of a change that changes something.
LEMMA ChangedIs ==
  ASSUME NEW o, NEW m \in Partial(Given)
  PROVE  Changed(o, m) \in Partial(Given)
<1>1. DOMAIN m \subseteq Keys /\ \A k \in DOMAIN m : m[k] \in Given
  BY PartialIs
<1> DEFINE D == {x \in DOMAIN m : attrs[o][x] # m[x]}
<1>2. Changed(o, m) \in [D -> Given]
  BY <1>1 DEF Changed
<1> QED BY <1>1, <1>2 DEF Partial

\* What is left of a change that was moved away.
LEMMA RestIs ==
  ASSUME NEW m \in Partial(Given), NEW pends
  PROVE  Rest(m, pends) \in Partial(Moved)
<1>1. DOMAIN m \subseteq Keys
  BY PartialIs
<1> DEFINE D == {x \in DOMAIN m : \A f \in pends : x \in DOMAIN f}
<1>2. Rest(m, pends) \in [D -> Moved]
  BY DEF Rest, Moved
<1> QED BY <1>1, <1>2 DEF Partial

\* The client keeps a whole map and never takes a moved-from value.
LEMMA ToldIs ==
  ASSUME NEW v \in [Keys -> Given], NEW m \in Partial(Moved)
  PROVE  /\ Told(v, m) \in [Keys -> Given]
         /\ \A k \in Keys : Told(v, m)[k] = IF k \in DOMAIN m /\ m[k] # Empty THEN m[k] ELSE v[k]
<1>1. \A k \in DOMAIN m : m[k] \in Moved
  BY PartialIs
<1> QED BY <1>1 DEF Told, Moved

-----------------------------------------------------------------------------
(* Steps *)

\* v is the writer w after a push by an object, which activates active watches.
Activated(w, v, o, active) ==
  /\ v \in Writers
  /\ v.pc = w.pc /\ v.blocked = w.blocked
  /\ v.clo = w.clo /\ v.cAct = w.cAct /\ v.cClo = w.cClo
  /\ v.cur = w.cur /\ v.transfer = w.transfer
  /\ v.act = IF active /\ ~w.blocked THEN w.act \cup {o} ELSE w.act
  /\ v.held = IF active /\ w.blocked THEN w.held \cup {o} ELSE w.held

\* TermWriter::activate puts the object on one of the two lists.
LEMMA ActivateIs ==
  ASSUME NEW w \in Writers, NEW o \in Objects, NEW active, NEW v,
         v = IF active THEN Activate(w, o) ELSE w
  PROVE  Activated(w, v, o, active)
<1>1. CASE active /\ w.blocked
  BY <1>1 DEF Activated, Activate, Writers
<1>2. CASE active /\ ~w.blocked
  BY <1>2 DEF Activated, Activate, Writers
<1>3. CASE ~active
  BY <1>3 DEF Activated
<1> QED BY <1>1, <1>2, <1>3

\* What a push of the object's change does to the watches and the writers,
\* given what each watch gets.
Pushed(o, given) ==
  /\ watch' \in [Readers -> [Objects -> Watches]]
  /\ writer' \in [Readers -> Writers]
  /\ \A r \in Readers, x \in Objects :
       /\ watch'[r][x].active = watch[r][x].active
       /\ watch'[r][x].started = watch[r][x].started
       /\ watch'[r][x].closing = watch[r][x].closing
       /\ watch'[r][x].pend = IF x = o /\ watch[r][o].active
                              THEN Over(given[r], watch[r][o].pend) ELSE watch[r][x].pend
  /\ \A r \in Readers : Activated(writer[r], writer'[r], o, watch[r][o].active)

\* The pushes have the effect above.
LEMMA PushedIs ==
  ASSUME Types, NEW o \in Objects, NEW given \in [Readers -> Partial(Moved)],
         watch' = [r \in Readers |-> IF r \in Taking(o)
                     THEN [watch[r] EXCEPT ![o].pend = Over(given[r], @)] ELSE watch[r]],
         ActivateAll(o)
  PROVE  Pushed(o, given)
<1>1. ASSUME NEW r \in Readers, NEW x \in Objects
      PROVE  /\ watch'[r][x] \in Watches
             /\ watch'[r] \in [Objects -> Watches]
             /\ watch'[r][x].active = watch[r][x].active
             /\ watch'[r][x].started = watch[r][x].started
             /\ watch'[r][x].closing = watch[r][x].closing
             /\ watch'[r][x].pend = IF x = o /\ watch[r][o].active
                                    THEN Over(given[r], watch[r][o].pend) ELSE watch[r][x].pend
  <2>1. watch[r] \in [Objects -> Watches] /\ watch[r][o].pend \in Partial(Moved)
    BY DEF Types, Watches
  <2>2. Over(given[r], watch[r][o].pend) \in Partial(Moved)
    BY <2>1, OverIs
  <2>3. CASE r \in Taking(o)
    <3>1. watch'[r] = [watch[r] EXCEPT ![o].pend = Over(given[r], watch[r][o].pend)]
      BY <2>3
    <3>2. watch[r][o].active
      BY <2>3 DEF Taking
    <3> QED BY <2>1, <2>2, <3>1, <3>2 DEF Watches
  <2>4. CASE r \notin Taking(o)
    BY <2>1, <2>4 DEF Taking
  <2> QED BY <2>3, <2>4
<1>2. watch' \in [Readers -> [Objects -> Watches]]
  <2>1. \A r \in Readers : watch'[r] \in [Objects -> Watches]
    <3> SUFFICES ASSUME NEW r \in Readers PROVE watch'[r] \in [Objects -> Watches]
      OBVIOUS
    <3> QED BY <1>1
  <2> QED BY <2>1
<1>3. ASSUME NEW r \in Readers
      PROVE  Activated(writer[r], writer'[r], o, watch[r][o].active)
  <2>1. writer[r] \in Writers
    BY DEF Types
  <2>2. writer'[r] = IF watch[r][o].active THEN Activate(writer[r], o) ELSE writer[r]
    BY DEF ActivateAll, Taking
  <2> QED BY <2>1, <2>2, ActivateIs, Zenon
<1>4. writer' \in [Readers -> Writers]
  BY <1>3 DEF ActivateAll, Activated
<1> QED BY <1>1, <1>2, <1>3, <1>4 DEF Pushed

\* Every watch gets the whole change from a push of one attribute.
LEMMA PushOneIs ==
  ASSUME Types, NEW o \in Objects, NEW m \in Partial(Given), PushOne(o, m)
  PROVE  Pushed(o, [r \in Readers |-> m])
<1> DEFINE given == [r \in Readers |-> m]
<1>1. given \in [Readers -> Partial(Moved)]
  BY GivenMoved
<1>2. watch' = [r \in Readers |-> IF r \in Taking(o)
                  THEN [watch[r] EXCEPT ![o].pend = Over(given[r], @)] ELSE watch[r]]
  BY DEF PushOne
<1>3. ActivateAll(o)
  BY DEF PushOne
<1> HIDE DEF given
<1>4. Pushed(o, given)
  BY <1>1, <1>2, <1>3, PushedIs
<1> QED BY <1>4 DEF given

\* From a push of several, every watch gets a part of it or moved-from values,
\* and the only client there is gets all of it.
LEMMA PushManyIs ==
  ASSUME Types, NEW o \in Objects, NEW m \in Partial(Given), PushMany(o, m)
  PROVE  \E given \in [Readers -> Partial(Moved)] :
           /\ Pushed(o, given)
           /\ (\A r, s \in Readers : r = s) =>
                \A r \in Readers : watch[r][o].active => given[r] = m
<1>1. PICK order \in SetToSeqs(Taking(o)) :
        LET Left(i) == IF i = 1 THEN m ELSE Rest(m, {watch[order[j]][o].pend : j \in 1..i - 1})
        IN /\ watch' = [r \in Readers |-> IF r \in Taking(o)
                THEN [watch[r] EXCEPT ![o].pend =
                        Over(Left(CHOOSE i \in DOMAIN order : order[i] = r), @)]
                ELSE watch[r]]
           /\ ActivateAll(o)
  BY DEF PushMany
<1> DEFINE Left(i) == IF i = 1 THEN m ELSE Rest(m, {watch[order[j]][o].pend : j \in 1..i - 1})
           Place(r) == CHOOSE i \in DOMAIN order : order[i] = r
           given == [r \in Readers |-> Left(Place(r))]
<1>2. given \in [Readers -> Partial(Moved)]
  <2>1. \A i : Left(i) \in Partial(Moved)
    BY RestIs, GivenMoved
  <2> HIDE DEF Left, Place
  <2> QED BY <2>1
<1>3. watch' = [r \in Readers |-> IF r \in Taking(o)
                  THEN [watch[r] EXCEPT ![o].pend = Over(given[r], @)] ELSE watch[r]]
  BY <1>1
<1>4. ASSUME \A r, s \in Readers : r = s, NEW r \in Readers, watch[r][o].active
      PROVE  given[r] = m
  <2>1. Taking(o) = {r}
    BY <1>4 DEF Taking
  <2>2. Cardinality(Taking(o)) = 1
    BY <2>1, FS_Singleton
  <2>3. order \in [1..1 -> {r}]
    BY <2>1, <2>2 DEF SetToSeqs
  <2>4. Place(r) = 1
    <3>1. 1 \in DOMAIN order /\ order[1] = r /\ DOMAIN order = {1}
      BY <2>3
    <3> QED BY <3>1
  <2> HIDE DEF Place
  <2> QED BY <2>4
<1> HIDE DEF given
<1>5. Pushed(o, given)
  BY <1>1, <1>2, <1>3, PushedIs
<1> QED BY <1>2, <1>4, <1>5

\* What is written reaches the object's map, and nothing else does.
LEMMA WriteIs ==
  ASSUME Types, NEW p \in Setters, NEW o \in Objects, NEW m \in Partial(Given), Write(p, o, m)
  PROVE  /\ attrs' \in [Objects -> [Keys -> Given]]
         /\ \A x \in Objects, k \in Keys :
              attrs'[x][k] = IF x = o /\ k \in DOMAIN m THEN m[k] ELSE attrs[x][k]
<1> DEFINE a == Over(m, attrs[o])
<1>1. /\ a \in [Keys -> Given]
      /\ \A k \in DOMAIN m : a[k] = m[k]
      /\ \A k \in Keys \ DOMAIN m : a[k] = attrs[o][k]
  BY OverMap DEF Types
<1>2. attrs' = [attrs EXCEPT ![o] = a]
  BY DEF Write
<1> HIDE DEF a
<1> QED BY <1>1, <1>2 DEF Types

\* The writer copies what it has been asked to do.
LEMMA SwapIs ==
  ASSUME Types, NEW r \in Readers, WriterSwap(r)
  PROVE  /\ writer' \in [Readers -> Writers]
         /\ \A x \in Readers \ {r} : writer'[x] = writer[x]
         /\ writer'[r].pc = "work" /\ writer'[r].act = {} /\ writer'[r].clo = {}
         /\ writer'[r].cAct = writer[r].act /\ writer'[r].cClo = writer[r].clo
         /\ writer'[r].blocked = writer[r].blocked /\ writer'[r].held = writer[r].held
         /\ writer'[r].cur = writer[r].cur /\ writer'[r].transfer = writer[r].transfer
<1> DEFINE w == [writer[r] EXCEPT !.pc = "work", !.cAct = writer[r].act, !.act = {},
                                  !.cClo = writer[r].clo, !.clo = {}]
<1>0. writer[r] \in Writers
  BY DEF Types
<1>1. w \in Writers
  BY <1>0 DEF Writers
<1>2. writer' = [writer EXCEPT ![r] = w]
  BY DEF WriterSwap, Types
<1>3. writer'[r] = w /\ writer' \in [Readers -> Writers] /\ \A x \in Readers \ {r} : writer'[x] = writer[x]
  BY <1>1, <1>2 DEF Types
<1>4. /\ w.pc = "work" /\ w.act = {} /\ w.clo = {}
      /\ w.cAct = writer[r].act /\ w.cClo = writer[r].clo
      /\ w.blocked = writer[r].blocked /\ w.held = writer[r].held
      /\ w.cur = writer[r].cur /\ w.transfer = writer[r].transfer
  BY DEF Types, Writers
<1> HIDE DEF w
<1> QED BY <1>3, <1>4

\* The watch and its writer swap their changes.
LEMMA TransferIs ==
  ASSUME Types, NEW r \in Readers, NEW o \in Objects, Transfer(r, o)
  PROVE  /\ watch' \in [Readers -> [Objects -> Watches]]
         /\ writer' \in [Readers -> Writers]
         /\ \A x \in Readers \ {r} : writer'[x] = writer[x] /\ watch'[x] = watch[x]
         /\ \A x \in Objects \ {o} : watch'[r][x] = watch[r][x]
         /\ watch'[r][o].active = watch[r][o].active
         /\ watch'[r][o].started = watch[r][o].started
         /\ watch'[r][o].closing = watch[r][o].closing
         /\ watch'[r][o].pend = writer[r].transfer
         /\ writer'[r].pc = "write" /\ writer'[r].cur = o
         /\ writer'[r].cAct = writer[r].cAct \ {o} /\ writer'[r].transfer = watch[r][o].pend
         /\ writer'[r].act = writer[r].act /\ writer'[r].clo = writer[r].clo
         /\ writer'[r].cClo = writer[r].cClo
         /\ writer'[r].blocked = writer[r].blocked /\ writer'[r].held = writer[r].held
<1> DEFINE w == [writer[r] EXCEPT !.pc = "write", !.cur = o, !.cAct = writer[r].cAct \ {o},
                                  !.transfer = watch[r][o].pend]
           x == [watch[r][o] EXCEPT !.pend = writer[r].transfer]
<1>0. writer[r] \in Writers /\ watch[r][o] \in Watches
  BY DEF Types
<1>1. w \in Writers /\ x \in Watches
  BY <1>0 DEF Writers, Watches
<1>2. writer' = [writer EXCEPT ![r] = w] /\ watch' = [watch EXCEPT ![r] = [watch[r] EXCEPT ![o] = x]]
  BY DEF Transfer, Types
<1>3. /\ w.pc = "write" /\ w.cur = o
      /\ w.cAct = writer[r].cAct \ {o} /\ w.transfer = watch[r][o].pend
      /\ w.act = writer[r].act /\ w.clo = writer[r].clo /\ w.cClo = writer[r].cClo
      /\ w.blocked = writer[r].blocked /\ w.held = writer[r].held
      /\ x.active = watch[r][o].active /\ x.started = watch[r][o].started
      /\ x.closing = watch[r][o].closing /\ x.pend = writer[r].transfer
  BY DEF Types, Writers, Watches
<1> HIDE DEF w, x
<1>4. /\ writer'[r] = w /\ writer' \in [Readers -> Writers]
      /\ \A y \in Readers \ {r} : writer'[y] = writer[y] /\ watch'[y] = watch[y]
      /\ watch'[r][o] = x /\ \A y \in Objects \ {o} : watch'[r][y] = watch[r][y]
      /\ watch' \in [Readers -> [Objects -> Watches]]
  BY <1>1, <1>2 DEF Types
<1> QED BY <1>3, <1>4

\* The client is told what was transferred.
LEMMA ResponsesAre ==
  ASSUME Types, NEW r \in Readers, WriteResponses(r), writer[r].cur \in Objects
  PROVE  /\ writer' \in [Readers -> Writers]
         /\ \A x \in Readers \ {r} : writer'[x] = writer[x] /\ view'[x] = view[x]
         /\ writer'[r].pc = "work" /\ writer'[r].cur = None /\ writer'[r].transfer = NoChange
         /\ writer'[r].act = writer[r].act /\ writer'[r].clo = writer[r].clo
         /\ writer'[r].cAct = writer[r].cAct /\ writer'[r].cClo = writer[r].cClo
         /\ writer'[r].blocked = writer[r].blocked /\ writer'[r].held = writer[r].held
         /\ view' \in [Readers -> [Objects -> [Keys -> Given]]]
         /\ \A x \in Objects \ {writer[r].cur} : view'[r][x] = view[r][x]
         /\ view'[r][writer[r].cur] = Told(view[r][writer[r].cur], writer[r].transfer)
<1> DEFINE w == [writer[r] EXCEPT !.pc = "work", !.cur = None, !.transfer = NoChange]
           v == Told(view[r][writer[r].cur], writer[r].transfer)
<1>0. /\ writer[r] \in Writers /\ writer[r].transfer \in Partial(Moved)
      /\ view[r][writer[r].cur] \in [Keys -> Given]
  BY DEF Types, Writers
<1>1. w \in Writers
  <2>1. NoChange \in Partial(Moved)
    BY NoChangeIs
  <2> QED BY <1>0, <2>1 DEF Writers
<1>2. v \in [Keys -> Given]
  BY <1>0, ToldIs
<1>3. /\ writer' = [writer EXCEPT ![r] = w]
      /\ view' = [view EXCEPT ![r] = [view[r] EXCEPT ![writer[r].cur] = v]]
  BY DEF WriteResponses, Types
<1>4. /\ w.pc = "work" /\ w.cur = None /\ w.transfer = NoChange
      /\ w.act = writer[r].act /\ w.clo = writer[r].clo
      /\ w.cAct = writer[r].cAct /\ w.cClo = writer[r].cClo
      /\ w.blocked = writer[r].blocked /\ w.held = writer[r].held
  BY DEF Types, Writers
<1> HIDE DEF w
<1>5. /\ writer'[r] = w /\ writer' \in [Readers -> Writers]
      /\ \A x \in Readers \ {r} : writer'[x] = writer[x]
  BY <1>1, <1>3 DEF Types
<1>6. /\ \A x \in Readers \ {r} : view'[x] = view[x]
      /\ view' \in [Readers -> [Objects -> [Keys -> Given]]]
      /\ \A x \in Objects \ {writer[r].cur} : view'[r][x] = view[r][x]
      /\ view'[r][writer[r].cur] = v
  <2> HIDE DEF v
  <2> QED BY <1>2, <1>3 DEF Types
<1> QED BY <1>4, <1>5, <1>6

\* The writer lets go of a watch.
Released(r, o) ==
  /\ watch' \in [Readers -> [Objects -> Watches]]
  /\ writer' \in [Readers -> Writers]
  /\ \A x \in Readers \ {r} : writer'[x] = writer[x] /\ watch'[x] = watch[x]
  /\ \A x \in Objects \ {o} : watch'[r][x] = watch[r][x]
  /\ watch'[r][o].active = FALSE
  /\ watch'[r][o].started = watch[r][o].started
  /\ watch'[r][o].closing = watch[r][o].closing
  /\ watch'[r][o].pend = writer[r].transfer
  /\ writer'[r].pc = "work" /\ writer'[r].cur = writer[r].cur
  /\ writer'[r].cClo = writer[r].cClo \ {o} /\ writer'[r].transfer = watch[r][o].pend
  /\ writer'[r].act = writer[r].act \ {o} /\ writer'[r].clo = writer[r].clo
  /\ writer'[r].cAct = writer[r].cAct
  /\ writer'[r].blocked = writer[r].blocked /\ writer'[r].held = writer[r].held \ {o}

\* The step has this effect.
LEMMA CloseIs ==
  ASSUME Types, NEW r \in Readers, NEW o \in Objects, CloseWatch(r, o)
  PROVE  Released(r, o)
<1> DEFINE w == [writer[r] EXCEPT !.cClo = writer[r].cClo \ {o}, !.transfer = watch[r][o].pend,
                                  !.act = writer[r].act \ {o}, !.held = writer[r].held \ {o}]
           x == [watch[r][o] EXCEPT !.active = FALSE, !.pend = writer[r].transfer]
<1>0. writer[r] \in Writers /\ watch[r][o] \in Watches
  BY DEF Types
<1>1. w \in Writers /\ x \in Watches
  BY <1>0 DEF Writers, Watches
<1>2. writer' = [writer EXCEPT ![r] = w] /\ watch' = [watch EXCEPT ![r] = [watch[r] EXCEPT ![o] = x]]
  BY DEF CloseWatch, Types
<1>3. /\ w.pc = "work" /\ w.cur = writer[r].cur
      /\ w.cClo = writer[r].cClo \ {o} /\ w.transfer = watch[r][o].pend
      /\ w.act = writer[r].act \ {o} /\ w.clo = writer[r].clo /\ w.cAct = writer[r].cAct
      /\ w.blocked = writer[r].blocked /\ w.held = writer[r].held \ {o}
      /\ x.active = FALSE /\ x.started = watch[r][o].started
      /\ x.closing = watch[r][o].closing /\ x.pend = writer[r].transfer
  BY DEF Types, Writers, Watches, CloseWatch
<1> HIDE DEF w, x
<1>4. /\ writer'[r] = w /\ writer' \in [Readers -> Writers]
      /\ \A y \in Readers \ {r} : writer'[y] = writer[y] /\ watch'[y] = watch[y]
      /\ watch'[r][o] = x /\ \A y \in Objects \ {o} : watch'[r][y] = watch[r][y]
      /\ watch' \in [Readers -> [Objects -> Watches]]
  BY <1>1, <1>2 DEF Types
<1> QED BY <1>3, <1>4 DEF Released

\* The writer goes back to wait.
LEMMA DoneIs ==
  ASSUME Types, NEW r \in Readers, WriterDone(r)
  PROVE  /\ writer' \in [Readers -> Writers]
         /\ \A x \in Readers \ {r} : writer'[x] = writer[x]
         /\ writer'[r].pc = "wait" /\ writer'[r].act = writer[r].act /\ writer'[r].clo = writer[r].clo
         /\ writer'[r].cAct = writer[r].cAct /\ writer'[r].cClo = writer[r].cClo
         /\ writer'[r].blocked = writer[r].blocked /\ writer'[r].held = writer[r].held
         /\ writer'[r].cur = writer[r].cur /\ writer'[r].transfer = writer[r].transfer
  BY DEF WriterDone, Types, Writers

\* The client asks for updates, and its writer gets what it was held back from.
LEMMA UnblockIs ==
  ASSUME Types, NEW r \in Readers, Unblock(r)
  PROVE  /\ writer' \in [Readers -> Writers]
         /\ \A x \in Readers \ {r} : writer'[x] = writer[x]
         /\ writer'[r].pc = writer[r].pc /\ writer'[r].clo = writer[r].clo
         /\ writer'[r].cAct = writer[r].cAct /\ writer'[r].cClo = writer[r].cClo
         /\ ~writer'[r].blocked /\ writer'[r].act = writer[r].held /\ writer'[r].held = {}
         /\ writer'[r].cur = writer[r].cur /\ writer'[r].transfer = writer[r].transfer
<1> DEFINE w == [writer[r] EXCEPT !.blocked = FALSE, !.act = writer[r].held, !.held = {}]
<1>0. writer[r] \in Writers
  BY DEF Types
<1>1. /\ w \in Writers
      /\ w.pc = writer[r].pc /\ w.clo = writer[r].clo
      /\ w.cAct = writer[r].cAct /\ w.cClo = writer[r].cClo
      /\ ~w.blocked /\ w.act = writer[r].held /\ w.held = {}
      /\ w.cur = writer[r].cur /\ w.transfer = writer[r].transfer
  BY <1>0 DEF Writers
<1>2. writer' = [writer EXCEPT ![r] = w]
  BY DEF Unblock, Types
<1> HIDE DEF w
<1>3. /\ writer'[r] = w /\ writer' \in [Readers -> Writers]
      /\ \A x \in Readers \ {r} : writer'[x] = writer[x]
  BY <1>1, <1>2 DEF Types
<1> QED BY <1>1, <1>3

\* A watch is announced and starts to collect.
Begun(r, o) ==
  /\ watch' \in [Readers -> [Objects -> Watches]]
  /\ writer' \in [Readers -> Writers]
  /\ view' \in [Readers -> [Objects -> [Keys -> Given]]]
  /\ \A x \in Readers \ {r} :
       writer'[x] = writer[x] /\ watch'[x] = watch[x] /\ view'[x] = view[x]
  /\ \A x \in Objects \ {o} : watch'[r][x] = watch[r][x] /\ view'[r][x] = view[r][x]
  /\ watch'[r][o].active /\ watch'[r][o].started
  /\ watch'[r][o].closing = watch[r][o].closing /\ watch'[r][o].pend = watch[r][o].pend
  /\ view'[r][o] = attrs[o]
  /\ Activated(writer[r], writer'[r], o, TRUE)

\* The step has this effect.
LEMMA StartIs ==
  ASSUME Types, NEW r \in Readers, NEW o \in Objects, Start(r, o)
  PROVE  Begun(r, o)
<1> DEFINE x == [watch[r][o] EXCEPT !.active = TRUE, !.started = TRUE]
           w == Activate(writer[r], o)
<1>0. watch[r][o] \in Watches
  BY DEF Types
<1>1. /\ x \in Watches /\ x.active /\ x.started
      /\ x.closing = watch[r][o].closing /\ x.pend = watch[r][o].pend
  BY <1>0 DEF Watches
<1>2. /\ watch' = [watch EXCEPT ![r] = [watch[r] EXCEPT ![o] = x]]
      /\ writer' = [writer EXCEPT ![r] = w]
      /\ view' = [view EXCEPT ![r] = [view[r] EXCEPT ![o] = attrs[o]]]
  BY DEF Start, Types
<1>3. Activated(writer[r], w, o, TRUE)
  <2>1. writer[r] \in Writers /\ w = IF TRUE THEN Activate(writer[r], o) ELSE writer[r]
    BY DEF Types
  <2> HIDE DEF w
  <2> QED BY <2>1, ActivateIs, Zenon
<1> HIDE DEF x, w
<1>4. /\ writer'[r] = w /\ writer' \in [Readers -> Writers]
      /\ \A y \in Readers \ {r} : writer'[y] = writer[y]
  BY <1>2, <1>3 DEF Types, Activated
<1>5. /\ \A y \in Readers \ {r} : watch'[y] = watch[y]
      /\ watch'[r][o] = x /\ \A y \in Objects \ {o} : watch'[r][y] = watch[r][y]
      /\ watch' \in [Readers -> [Objects -> Watches]]
  BY <1>1, <1>2 DEF Types
<1>6. /\ \A y \in Readers \ {r} : view'[y] = view[y]
      /\ view'[r][o] = attrs[o] /\ \A y \in Objects \ {o} : view'[r][y] = view[r][y]
      /\ view' \in [Readers -> [Objects -> [Keys -> Given]]]
  BY <1>2 DEF Types
<1> QED BY <1>1, <1>3, <1>4, <1>5, <1>6 DEF Begun

\* The object asks all of its watches back.
LEMMA RequestIs ==
  ASSUME Types, NEW o \in Objects, RequestRelease(o)
  PROVE  /\ watch' \in [Readers -> [Objects -> Watches]]
         /\ writer' \in [Readers -> Writers]
         /\ \A r \in Readers, x \in Objects :
              /\ watch'[r][x].active = (watch[r][x].active /\ x # o)
              /\ watch'[r][x].started = watch[r][x].started
              /\ watch'[r][x].closing = (watch[r][x].closing \/ x = o)
              /\ watch'[r][x].pend = watch[r][x].pend
         /\ \A r \in Readers :
              /\ writer'[r].pc = writer[r].pc /\ writer'[r].blocked = writer[r].blocked
              /\ writer'[r].clo = writer[r].clo \cup {o} /\ writer'[r].cClo = writer[r].cClo
              /\ writer'[r].act = writer[r].act /\ writer'[r].cAct = writer[r].cAct
              /\ writer'[r].held = writer[r].held
              /\ writer'[r].cur = writer[r].cur /\ writer'[r].transfer = writer[r].transfer
<1>1. ASSUME NEW r \in Readers
      PROVE  /\ watch'[r] \in [Objects -> Watches]
             /\ \A x \in Objects :
                  /\ watch'[r][x].active = (watch[r][x].active /\ x # o)
                  /\ watch'[r][x].started = watch[r][x].started
                  /\ watch'[r][x].closing = (watch[r][x].closing \/ x = o)
                  /\ watch'[r][x].pend = watch[r][x].pend
  <2> DEFINE y == [watch[r][o] EXCEPT !.active = FALSE, !.closing = TRUE]
  <2>0. watch[r][o] \in Watches
    BY DEF Types
  <2>1. /\ y \in Watches /\ ~y.active /\ y.started = watch[r][o].started
        /\ y.closing /\ y.pend = watch[r][o].pend
    BY <2>0 DEF Watches
  <2>2. watch'[r] = [watch[r] EXCEPT ![o] = y]
    BY DEF RequestRelease, Types
  <2> HIDE DEF y
  <2> QED BY <2>1, <2>2 DEF Types, Watches
<1>2. ASSUME NEW r \in Readers
      PROVE  /\ writer'[r] \in Writers
             /\ writer'[r].pc = writer[r].pc /\ writer'[r].blocked = writer[r].blocked
             /\ writer'[r].clo = writer[r].clo \cup {o} /\ writer'[r].cClo = writer[r].cClo
             /\ writer'[r].act = writer[r].act /\ writer'[r].cAct = writer[r].cAct
             /\ writer'[r].held = writer[r].held
             /\ writer'[r].cur = writer[r].cur /\ writer'[r].transfer = writer[r].transfer
  <2>1. writer[r] \in Writers
    BY DEF Types
  <2>2. writer'[r] = [writer[r] EXCEPT !.clo = writer[r].clo \cup {o}]
    BY DEF RequestRelease
  <2> QED BY <2>1, <2>2 DEF Writers
<1>3. watch' \in [Readers -> [Objects -> Watches]]
  BY <1>1 DEF RequestRelease
<1>4. writer' \in [Readers -> Writers]
  BY <1>2 DEF RequestRelease
<1> QED BY <1>1, <1>2, <1>3, <1>4

-----------------------------------------------------------------------------
(* Nothing is forgotten *)

\* At first nothing is held anywhere.
LEMMA IInvInit == ASSUME Init PROVE IInv
<1>1. \A V : NoChange \in Partial(V)
  BY NoChangeIs
<1>2. Types
  BY <1>1 DEF Init, Types, NoAttributes, Given, Pendings, Watches, Writers
<1>3. \A p \in Setters : SetterInv(p)
  BY DEF Init, SetterInv
<1>4. \A r \in Readers : WriterInv(r)
  BY DEF Init, WriterInv
<1>5. \A r \in Readers : ListInv(r)
  BY DEF Init, ListInv
<1> QED BY <1>2, <1>3, <1>4, <1>5 DEF IInv

\* Only what a reader and its writer hold counts for it.
LEMMA OthersKeep ==
  ASSUME NEW r, WriterInv(r), ListInv(r), watch'[r] = watch[r], writer'[r] = writer[r],
         r \in blended <=> r \in blended'
  PROVE  WriterInv(r)' /\ ListInv(r)'
<1>1. WriterInv(r)'
  BY DEF WriterInv
<1>2. ListInv(r)'
  BY DEF ListInv, Listed
<1> QED BY <1>1, <1>2

\* A watch that gets a change is put on the list.
LEMMA PushKeeps ==
  ASSUME IInv, NEW o \in Objects, NEW given, Pushed(o, given), blended' = blended,
         NEW r \in Readers
  PROVE  WriterInv(r)' /\ ListInv(r)'
<1>1. /\ WriterInv(r) /\ ListInv(r) /\ Activated(writer[r], writer'[r], o, watch[r][o].active)
      /\ watch[r][o].active \in BOOLEAN /\ writer[r].blocked \in BOOLEAN
  BY DEF IInv, Pushed, Types, Watches, Writers
<1>2. WriterInv(r)'
  BY <1>1 DEF WriterInv, Activated
<1>3. ASSUME NEW x \in Objects, r \notin blended', watch'[r][x].pend # NoChange
      PROVE  Listed(r, x)'
  <2>1. CASE x = o /\ watch[r][o].active
    BY <1>1, <2>1 DEF Activated, Listed
  <2>2. CASE ~(x = o /\ watch[r][o].active)
    <3>1. Listed(r, x)
      BY <1>1, <1>3, <2>2 DEF Pushed, ListInv
    <3> QED BY <1>1, <3>1 DEF Activated, Listed
  <2> QED BY <2>1, <2>2
<1> QED BY <1>2, <1>3 DEF ListInv

\* A thread that writes attributes touches no watch.
LEMMA SetKeeps ==
  ASSUME IInv, NEW p \in Setters, NEW o \in Objects, NEW m \in Partial(Given), NEW pc \in {"one", "many"},
         Write(p, o, m), UNCHANGED <<watch, writer, view, blended>>,
         setter' = [setter EXCEPT ![p] = [pc |-> pc, o |-> o, change |-> m]]
  PROVE  IInv'
<1>1. Types /\ \A x \in Setters : SetterInv(x)
  BY DEF IInv
<1>2. attrs' \in [Objects -> [Keys -> Given]]
  BY <1>1, WriteIs
<1> DEFINE s == [pc |-> pc, o |-> o, change |-> m]
<1>3. s \in Pendings /\ s.pc # "idle" /\ s.o \in Objects
  BY DEF Pendings
<1> HIDE DEF s
<1>4. setter' = [setter EXCEPT ![p] = s]
  BY DEF s
<1>5. Types'
  BY <1>1, <1>2, <1>3, <1>4 DEF Types
<1>6. \A x \in Setters : SetterInv(x)'
  BY <1>1, <1>3, <1>4 DEF SetterInv, Types
<1>7. \A r \in Readers : WriterInv(r)' /\ ListInv(r)'
  BY OthersKeep DEF IInv
<1> QED BY <1>5, <1>6, <1>7 DEF IInv

\* doSetOwner and doSetSender write and push at once.
LEMMA SetLockedKeeps ==
  ASSUME IInv, NEW p \in Setters, NEW o \in Objects, NEW m \in Partial(Given), SetLocked(p, o, m)
  PROVE  IInv'
<1>1. Types /\ Write(p, o, m) /\ PushMany(o, m) /\ UNCHANGED <<setter, view, blended>>
  BY DEF IInv, SetLocked
<1>2. attrs' \in [Objects -> [Keys -> Given]]
  BY <1>1, WriteIs
<1>3. PICK given \in [Readers -> Partial(Moved)] : Pushed(o, given)
  BY <1>1, PushManyIs
<1>4. Types'
  BY <1>1, <1>2, <1>3 DEF Types, Pushed
<1>5. \A x \in Setters : SetterInv(x)'
  BY <1>1 DEF IInv, SetterInv
<1>6. \A r \in Readers : WriterInv(r)' /\ ListInv(r)'
  BY <1>1, <1>3, PushKeeps
<1> QED BY <1>4, <1>5, <1>6 DEF IInv

\* What a push gives the watches, all of it to the only client there is and
\* to every client when it is of one attribute.
LEMMA PushIs ==
  ASSUME IInv, NEW p \in Setters, Push(p)
  PROVE  /\ setter[p].o \in Objects
         /\ \E given \in [Readers -> Partial(Moved)] :
              /\ Pushed(setter[p].o, given)
              /\ setter[p].pc = "one" \/ (\A r, s \in Readers : r = s) =>
                   \A r \in Readers : watch[r][setter[p].o].active => given[r] = setter[p].change
<1>1. Types /\ setter[p].pc # "idle" /\ setter[p].o \in Objects /\ setter[p].change \in Partial(Given)
  BY DEF IInv, SetterInv, Push, Idle, Types, Pendings
<1>2. CASE setter[p].pc = "one"
  <2>1. Pushed(setter[p].o, [r \in Readers |-> setter[p].change])
    BY <1>1, <1>2, PushOneIs DEF Push
  <2>2. [r \in Readers |-> setter[p].change] \in [Readers -> Partial(Moved)]
    BY <1>1, GivenMoved
  <2> QED BY <1>1, <2>1, <2>2
<1>3. CASE setter[p].pc # "one"
  <2>1. PushMany(setter[p].o, setter[p].change)
    BY <1>3 DEF Push
  <2>2. PICK given \in [Readers -> Partial(Moved)] :
          /\ Pushed(setter[p].o, given)
          /\ (\A r, s \in Readers : r = s) =>
               \A r \in Readers : watch[r][setter[p].o].active => given[r] = setter[p].change
    BY <1>1, <2>1, PushManyIs
  <2> QED BY <1>1, <1>3, <2>2
<1> QED BY <1>2, <1>3

\* The setter has nothing to push any more.
LEMMA SetterAfterPush ==
  ASSUME Types, NEW p \in Setters, Push(p)
  PROVE  /\ setter' \in [Setters -> Pendings]
         /\ \A x \in Setters \ {p} : setter'[x] = setter[x]
         /\ setter'[p].pc = "idle" /\ setter'[p].o = None /\ setter'[p].change = NoChange
<1> DEFINE s == [pc |-> "idle", o |-> None, change |-> NoChange]
<1>1. s \in Pendings /\ s.pc = "idle" /\ s.o = None /\ s.change = NoChange
  BY NoChangeIs DEF Pendings
<1>2. setter' = [setter EXCEPT ![p] = s]
  BY DEF Push
<1> HIDE DEF s
<1> QED BY <1>1, <1>2 DEF Types

\* A thread pushes what it has written.
LEMMA PushesKeep ==
  ASSUME IInv, NEW p \in Setters, Push(p)
  PROVE  IInv'
<1>1. PICK given \in [Readers -> Partial(Moved)] : Pushed(setter[p].o, given)
  BY PushIs
<1>2. setter[p].o \in Objects
  BY PushIs
<1>3. Types /\ UNCHANGED <<attrs, view, writes, crossed, blended>>
  BY DEF IInv, Push
<1>4. Types'
  BY <1>1, <1>3, SetterAfterPush DEF Types, Pushed
<1>5. \A x \in Setters : SetterInv(x)'
  BY <1>3, SetterAfterPush DEF IInv, SetterInv
<1>6. \A r \in Readers : WriterInv(r)' /\ ListInv(r)'
  BY <1>1, <1>2, <1>3, PushKeeps
<1> QED BY <1>4, <1>5, <1>6 DEF IInv

\* An object that closes puts its watches on the list to close.
LEMMA RequestKeeps ==
  ASSUME IInv, NEW o \in Objects, RequestRelease(o)
  PROVE  IInv'
<1>1. Types /\ UNCHANGED <<attrs, setter, view, writes, crossed, blended>>
  BY DEF IInv, RequestRelease
<1>2. Types'
  BY <1>1, RequestIs DEF Types
<1>3. \A x \in Setters : SetterInv(x)'
  BY <1>1 DEF IInv, SetterInv
<1>4. \A r \in Readers : WriterInv(r)'
  BY <1>1, RequestIs DEF IInv, WriterInv
<1>5. \A r \in Readers : ListInv(r)'
  BY <1>1, RequestIs DEF IInv, ListInv, Listed
<1> QED BY <1>2, <1>3, <1>4, <1>5 DEF IInv

\* Steps of the reader.
LEMMA ReaderKeeps ==
  ASSUME IInv, NEW r \in Readers, Unblock(r) \/ \E o \in Objects : Start(r, o)
  PROVE  IInv'
<1>1. Types /\ WriterInv(r) /\ ListInv(r) /\ UNCHANGED <<attrs, setter, blended>>
  BY DEF IInv, Unblock, Start
<1>2. \A x \in Setters : SetterInv(x)'
  BY <1>1 DEF IInv, SetterInv
<1>3. CASE Unblock(r)
  <2>1. watch' = watch /\ view' = view /\ writer[r].blocked
    BY <1>3 DEF Unblock
  <2>2. Types'
    BY <1>1, <1>3, <2>1, UnblockIs DEF Types
  <2>3. \A x \in Readers \ {r} : WriterInv(x)' /\ ListInv(x)'
    BY <1>1, <1>3, <2>1, UnblockIs, OthersKeep DEF IInv
  <2>4. WriterInv(r)' /\ ListInv(r)'
    BY <1>1, <1>3, <2>1, UnblockIs DEF WriterInv, ListInv, Listed
  <2> QED BY <1>2, <2>2, <2>3, <2>4 DEF IInv
<1>4. ASSUME NEW o \in Objects, Start(r, o) PROVE IInv'
  <2>0. Begun(r, o)
    BY <1>1, <1>4, StartIs, Zenon
  <2>1. Types'
    BY <1>1, <2>0 DEF Types, Begun
  <2>2. \A x \in Readers \ {r} : WriterInv(x)' /\ ListInv(x)'
    <3>1. \A x \in Readers \ {r} : writer'[x] = writer[x] /\ watch'[x] = watch[x]
      BY <2>0 DEF Begun
    <3> QED BY <1>1, <3>1, OthersKeep DEF IInv
  <2>3. /\ Activated(writer[r], writer'[r], o, TRUE)
        /\ \A x \in Objects : watch'[r][x].pend = watch[r][x].pend
    BY <2>0 DEF Begun
  <2>4. writer[r].blocked \in BOOLEAN
    BY <1>1 DEF Types, Writers
  <2>5. WriterInv(r)'
    BY <1>1, <2>3, <2>4 DEF WriterInv, Activated
  <2>6. ListInv(r)'
    BY <1>1, <2>3, <2>4 DEF ListInv, Listed, Activated
  <2> QED BY <1>2, <2>1, <2>2, <2>5, <2>6 DEF IInv
<1> QED BY <1>3, <1>4

\* Steps of the writer.
LEMMA WriterKeeps ==
  ASSUME IInv, NEW r \in Readers, WriterStep(r)
  PROVE  IInv'
<1>1. Types /\ WriterInv(r) /\ ListInv(r) /\ UNCHANGED <<attrs, setter>>
  BY DEF IInv, WriterStep, WriterSwap, WriteResponses, WriterDone, Transfer, CloseWatch
<1>2. \A x \in Setters : SetterInv(x)'
  BY <1>1 DEF IInv, SetterInv
<1>3. CASE WriterSwap(r)
  <2>1. watch' = watch /\ view' = view /\ blended' = blended /\ writer[r].pc = "wait"
    BY <1>3 DEF WriterSwap
  <2>2. Types'
    BY <1>1, <1>3, <2>1, SwapIs DEF Types
  <2>3. \A x \in Readers \ {r} : WriterInv(x)' /\ ListInv(x)'
    BY <1>1, <1>3, <2>1, SwapIs, OthersKeep DEF IInv
  <2>4. WriterInv(r)' /\ ListInv(r)'
    BY <1>1, <1>3, <2>1, SwapIs DEF WriterInv, ListInv, Listed
  <2> QED BY <1>2, <2>2, <2>3, <2>4 DEF IInv
<1>4. CASE WriteResponses(r)
  <2>1. watch' = watch /\ blended' = blended /\ writer[r].cur \in Objects
    BY <1>1, <1>4 DEF WriteResponses, WriterInv
  <2>2. Types'
    BY <1>1, <1>4, <2>1, ResponsesAre DEF Types
  <2>3. \A x \in Readers \ {r} : WriterInv(x)' /\ ListInv(x)'
    BY <1>1, <1>4, <2>1, ResponsesAre, OthersKeep DEF IInv
  <2>4. WriterInv(r)' /\ ListInv(r)'
    BY <1>1, <1>4, <2>1, ResponsesAre DEF WriterInv, ListInv, Listed
  <2> QED BY <1>2, <2>2, <2>3, <2>4 DEF IInv
<1>5. CASE WriterDone(r)
  <2>1. /\ watch' = watch /\ view' = view /\ blended' = blended /\ writer[r].pc = "work"
        /\ writer[r].cAct = {} /\ writer[r].cClo = {}
    BY <1>5 DEF WriterDone
  <2>2. Types'
    BY <1>1, <1>5, <2>1, DoneIs DEF Types
  <2>3. \A x \in Readers \ {r} : WriterInv(x)' /\ ListInv(x)'
    BY <1>1, <1>5, <2>1, DoneIs, OthersKeep DEF IInv
  <2>4. WriterInv(r)' /\ ListInv(r)'
    BY <1>1, <1>5, <2>1, DoneIs DEF WriterInv, ListInv, Listed
  <2> QED BY <1>2, <2>2, <2>3, <2>4 DEF IInv
<1>6. ASSUME NEW o \in Objects, Transfer(r, o) PROVE IInv'
  <2>1. view' = view /\ blended' = blended /\ writer[r].pc = "work"
    BY <1>6 DEF Transfer
  <2>2. Types'
    BY <1>1, <1>6, <2>1, TransferIs DEF Types
  <2>3. \A x \in Readers \ {r} : WriterInv(x)' /\ ListInv(x)'
    BY <1>1, <1>6, <2>1, TransferIs, OthersKeep DEF IInv
  <2>4. WriterInv(r)'
    BY <1>1, <1>6, <2>1, TransferIs DEF WriterInv
  <2>5. ListInv(r)'
    BY <1>1, <1>6, <2>1, TransferIs DEF WriterInv, ListInv, Listed
  <2> QED BY <1>2, <2>2, <2>3, <2>4, <2>5 DEF IInv
<1>7. ASSUME NEW o \in Objects, CloseWatch(r, o) PROVE IInv'
  <2>1. /\ view' = view /\ writer[r].pc = "work"
        /\ blended' = IF watch[r][o].pend # NoChange THEN blended \cup {r} ELSE blended
    BY <1>7 DEF CloseWatch
  <2>0. Released(r, o)
    BY <1>1, <1>7, CloseIs, Zenon
  <2>2. Types'
    BY <1>1, <2>0, <2>1 DEF Types, Released
  <2>3. \A x \in Readers \ {r} : WriterInv(x)' /\ ListInv(x)'
    <3>1. \A x \in Readers \ {r} : writer'[x] = writer[x] /\ watch'[x] = watch[x]
      BY <2>0 DEF Released
    <3>2. \A x \in Readers \ {r} : x \in blended <=> x \in blended'
      BY <2>1
    <3> QED BY <1>1, <3>1, <3>2, OthersKeep DEF IInv
  <2>4. WriterInv(r)'
    BY <1>1, <2>0, <2>1 DEF WriterInv, Released
  <2>5. /\ \A x \in Objects \ {o} : watch'[r][x] = watch[r][x]
        /\ watch'[r][o].pend = writer[r].transfer
    BY <2>0 DEF Released
  <2>6. /\ writer'[r].act = writer[r].act \ {o} /\ writer'[r].clo = writer[r].clo
        /\ writer'[r].cAct = writer[r].cAct /\ writer'[r].cClo = writer[r].cClo \ {o}
        /\ writer'[r].blocked = writer[r].blocked /\ writer'[r].held = writer[r].held \ {o}
    BY <2>0 DEF Released
  <2>7. ASSUME NEW x \in Objects, r \notin blended', watch'[r][x].pend # NoChange
        PROVE  Listed(r, x)'
    <3>1. r \notin blended
      BY <2>1, <2>7
    <3>2. x # o
      BY <1>1, <2>1, <2>5, <2>7, <3>1 DEF WriterInv
    <3>3. Listed(r, x)
      BY <1>1, <2>5, <2>7, <3>1, <3>2 DEF ListInv
    <3> QED BY <2>6, <3>2, <3>3 DEF Listed
  <2> QED BY <1>2, <2>2, <2>3, <2>4, <2>7 DEF IInv, ListInv
<1> QED BY <1>3, <1>4, <1>5, <1>6, <1>7 DEF WriterStep

\* The changes threads make.
LEMMA ChangesGiven ==
  ASSUME NEW m \in Changes PROVE m \in Partial(Given)
BY DEF Changes, Partial, Given

\* Every step keeps the invariant.
LEMMA NextKeeps == IInv /\ [Next]_vars => IInv'
<1> SUFFICES ASSUME IInv, [Next]_vars PROVE IInv'
  OBVIOUS
<1>1. ASSUME NEW p \in Setters, NEW o \in Objects, NEW k \in Keys, NEW v \in Given,
             SetAttribute(p, o, k, v)
      PROVE  IInv'
  BY <1>1, Set1Is, SetKeeps DEF SetAttribute
<1>2. ASSUME NEW p \in Setters, NEW o \in Objects, NEW m \in Changes, SetAttributes(p, o, m)
      PROVE  IInv'
  BY <1>2, ChangesGiven, ChangedIs, SetKeeps DEF SetAttributes
<1>3. ASSUME NEW p \in Setters, NEW o \in Objects, NEW m \in Changes, SetLocked(p, o, m)
      PROVE  IInv'
  BY <1>3, ChangesGiven, SetLockedKeeps
<1>4. ASSUME NEW p \in Setters, Push(p) PROVE IInv'
  BY <1>4, PushesKeep
<1>5. ASSUME NEW r \in Readers, WriterStep(r) PROVE IInv'
  BY <1>5, WriterKeeps
<1>6. ASSUME NEW r \in Readers, Unblock(r) \/ \E o \in Objects : Start(r, o) PROVE IInv'
  BY <1>6, ReaderKeeps
<1>7. ASSUME NEW o \in Objects, RequestRelease(o) PROVE IInv'
  BY <1>7, RequestKeeps
<1>8. CASE UNCHANGED vars
  <2>1. /\ Types' /\ \A p \in Setters : SetterInv(p)'
    BY <1>8 DEF vars, IInv, Types, SetterInv
  <2>2. \A r \in Readers : WriterInv(r)' /\ ListInv(r)'
    BY <1>8, OthersKeep DEF vars, IInv
  <2> QED BY <2>1, <2>2 DEF IInv
<1> QED BY <1>1, <1>2, <1>3, <1>4, <1>5, <1>6, <1>7, <1>8 DEF Next, Given

\* The invariant holds in every reachable state.
THEOREM Invariance == Spec => []IInv
BY IInvInit, NextKeeps, PTL DEF Spec

\* A watch with changes to send is on its writer's list, in every behaviour of
\* any clients, threads and objects.
THEOREM ListingSound == Spec => []NothingForgotten
<1>1. IInv => NothingForgotten
  BY DEF IInv, ListInv, Listed, NothingForgotten
<1> QED BY <1>1, Invariance, PTL

-----------------------------------------------------------------------------
(* Copies converge *)

\* No map is taken apart: all changes are pushed one by one, or there is one
\* client.
Undivided == BulkSets = {} \/ \A r, s \in Readers : r = s

\* At first nothing has been told and nothing is set.
LEMMA CInvInit == ASSUME Init PROVE CInv
<1>1. IInv
  BY IInvInit
<1>2. \A V : NoChange \in Partial(V) /\ DOMAIN NoChange = {}
  BY NoChangeIs
<1>3. \A p \in Setters : ChangeInv(p)
  BY <1>2 DEF Init, ChangeInv
<1>4. ASSUME NEW r \in Readers, NEW o \in Objects
      PROVE  LifeInv(r, o) /\ CopyInv(r, o) /\ WholeInv(r, o)
  <2>1. LifeInv(r, o)
    BY DEF Init, LifeInv
  <2>2. CopyInv(r, o)
    BY DEF Init, CopyInv
  <2>3. WholeInv(r, o)
    BY <1>2 DEF Init, WholeInv
  <2> QED BY <2>1, <2>2, <2>3
<1> QED BY <1>1, <1>3, <1>4 DEF CInv, CopyParts

\* An attribute that is not crossed after a write was being changed by nobody
\* else, or has not been written.
LEMMA CrossedIs ==
  ASSUME NEW p \in Setters, NEW o \in Objects, NEW m \in Partial(Given), Write(p, o, m),
         NEW x \in Objects, NEW k \in Keys, <<x, k>> \notin crossed'
  PROVE  /\ x = o /\ k \in DOMAIN m =>
              \A q \in Setters \ {p} : ~(setter[q].o = o /\ k \in DOMAIN setter[q].change)
         /\ ~(x = o /\ k \in DOMAIN m) => <<x, k>> \notin crossed
<1>1. crossed' = (crossed \ ({o} \X DOMAIN m)) \cup ({o} \X (DOMAIN m \cap Others(p, o)))
  BY DEF Write
<1>2. ASSUME x = o, k \in DOMAIN m, NEW q \in Setters \ {p}, setter[q].o = o,
             k \in DOMAIN setter[q].change
      PROVE  FALSE
  <2>1. k \in Others(p, o)
    BY <1>2 DEF Others
  <2> QED BY <1>1, <1>2, <2>1
<1>3. ASSUME ~(x = o /\ k \in DOMAIN m) PROVE <<x, k>> \notin crossed
  BY <1>1, <1>3
<1> QED BY <1>2, <1>3

\* Only what a reader and its writer hold counts for its copy, and the objects
\* and the threads that change them.
LEMMA OthersCopy ==
  ASSUME NEW r \in Readers, CopyParts(r), watch'[r] = watch[r], writer'[r] = writer[r],
         view'[r] = view[r], r \in blended <=> r \in blended',
         attrs' = attrs, setter' = setter, crossed' = crossed
  PROVE  CopyParts(r)'
<1> SUFFICES ASSUME NEW o \in Objects
             PROVE  LifeInv(r, o)' /\ CopyInv(r, o)' /\ WholeInv(r, o)'
  BY DEF CopyParts
<1>1. LifeInv(r, o) /\ CopyInv(r, o) /\ WholeInv(r, o)
  BY DEF CopyParts
<1>2. LifeInv(r, o)'
  BY <1>1 DEF LifeInv
<1>3. CopyInv(r, o)'
  BY <1>1 DEF CopyInv, OnItsWay, Reach
<1>4. WholeInv(r, o)'
  BY <1>1 DEF WholeInv
<1> QED BY <1>2, <1>3, <1>4

\* What a thread will push depends on nothing else.
LEMMA ChangesKeep ==
  ASSUME NEW p \in Setters, ChangeInv(p), setter' = setter, attrs' = attrs, crossed' = crossed
  PROVE  ChangeInv(p)'
BY DEF ChangeInv

\* What a push does to the way from an attribute to a client.
LEMMA PushedReach ==
  ASSUME Types, NEW o \in Objects, NEW given \in [Readers -> Partial(Moved)], Pushed(o, given),
         view' = view, NEW r \in Readers, NEW x \in Objects, NEW k \in Keys
  PROVE  Reach(r, x, k)' = IF x = o /\ watch[r][o].active /\ k \in DOMAIN given[r]
                           THEN given[r][k] ELSE Reach(r, x, k)
<1>1. /\ DOMAIN Over(given[r], watch[r][o].pend) = DOMAIN given[r] \cup DOMAIN watch[r][o].pend
      /\ \A y \in DOMAIN given[r] : Over(given[r], watch[r][o].pend)[y] = given[r][y]
      /\ \A y \in DOMAIN watch[r][o].pend \ DOMAIN given[r] :
           Over(given[r], watch[r][o].pend)[y] = watch[r][o].pend[y]
  BY DEF Over
<1>2. /\ watch'[r][x].pend = IF x = o /\ watch[r][o].active
                             THEN Over(given[r], watch[r][o].pend) ELSE watch[r][x].pend
      /\ writer'[r].pc = writer[r].pc /\ writer'[r].cur = writer[r].cur
      /\ writer'[r].transfer = writer[r].transfer /\ view'[r][x][k] = view[r][x][k]
  BY DEF Pushed, Activated
<1>3. CASE x = o /\ watch[r][o].active
  <2>1. CASE k \in DOMAIN given[r]
    BY <1>1, <1>2, <1>3, <2>1 DEF Reach
  <2>2. CASE k \notin DOMAIN given[r]
    <3>1. /\ k \in DOMAIN watch'[r][x].pend <=> k \in DOMAIN watch[r][x].pend
          /\ k \in DOMAIN watch[r][x].pend => watch'[r][x].pend[k] = watch[r][x].pend[k]
      BY <1>1, <1>2, <1>3, <2>2
    <3> QED BY <1>2, <2>2, <3>1 DEF Reach
  <2> QED BY <2>1, <2>2
<1>4. CASE ~(x = o /\ watch[r][o].active)
  BY <1>2, <1>4 DEF Reach
<1> QED BY <1>3, <1>4

\* A push reaches only watches that have started.
LEMMA PushedLife ==
  ASSUME Types, NEW o \in Objects, NEW given \in [Readers -> Partial(Moved)], Pushed(o, given),
         blended' = blended, NEW r \in Readers, CopyParts(r),
         watch[r][o].active => given[r] \in Partial(Given), NEW x \in Objects
  PROVE  LifeInv(r, x)' /\ WholeInv(r, x)'
<1>1. LifeInv(r, o) /\ LifeInv(r, x) /\ WholeInv(r, x)
  BY DEF CopyParts
<1>2. /\ watch'[r][x].active = watch[r][x].active
      /\ watch'[r][x].started = watch[r][x].started
      /\ watch'[r][x].closing = watch[r][x].closing
      /\ watch'[r][x].pend = IF x = o /\ watch[r][o].active
                             THEN Over(given[r], watch[r][o].pend) ELSE watch[r][x].pend
      /\ Activated(writer[r], writer'[r], o, watch[r][o].active)
      /\ watch[r][o].active \in BOOLEAN /\ writer[r].blocked \in BOOLEAN
  BY DEF Pushed, Types, Watches, Writers
<1>3. x \in writer'[r].clo \cup writer'[r].cClo => watch'[r][x].closing
  BY <1>1, <1>2 DEF LifeInv, Activated
<1>4. x \in writer'[r].act \cup writer'[r].cAct \cup writer'[r].held => watch'[r][x].started
  BY <1>1, <1>2 DEF LifeInv, Activated
<1>5. writer'[r].pc = "write" /\ writer'[r].cur = x => watch'[r][x].started
  BY <1>1, <1>2 DEF LifeInv, Activated
<1>6. r \notin blended' /\ watch'[r][x].pend # NoChange => watch'[r][x].started
  BY <1>1, <1>2 DEF LifeInv
<1>7. LifeInv(r, x)'
  BY <1>1, <1>2, <1>3, <1>4, <1>5, <1>6 DEF LifeInv
<1>8. WholeInv(r, x)'
  <2>1. writer'[r].transfer = writer[r].transfer
    BY <1>2 DEF Activated
  <2>2. watch'[r][x].pend \in Partial(Given)
    <3>1. CASE x = o /\ watch[r][o].active
      <4>1. given[r] \in Partial(Given) /\ watch[r][o].pend \in Partial(Given)
        BY <1>1, <3>1 DEF WholeInv
      <4>2. Over(given[r], watch[r][o].pend) \in Partial(Given)
        BY <4>1, OverIs
      <4> QED BY <1>2, <3>1, <4>2
    <3>2. CASE ~(x = o /\ watch[r][o].active)
      BY <1>1, <1>2, <3>2 DEF WholeInv
    <3> QED BY <3>1, <3>2
  <2> QED BY <1>1, <2>1, <2>2 DEF WholeInv
<1> QED BY <1>7, <1>8

\* A write leaves the attribute on its way, or crossed with another write.
LEMMA SetCopies ==
  ASSUME CInv, IInv', NEW p \in Setters, Idle(p), NEW o \in Objects, NEW m \in Partial(Given),
         NEW pc \in {"one", "many"}, BulkSets = {} => pc # "many",
         Write(p, o, m), UNCHANGED <<watch, writer, view, blended>>,
         setter' = [setter EXCEPT ![p] = [pc |-> pc, o |-> o, change |-> m]]
  PROVE  CInv'
<1>1. Types /\ \A q \in Setters : ChangeInv(q)
  BY DEF CInv, IInv
<1>2. /\ setter'[p].pc = pc /\ setter'[p].o = o /\ setter'[p].change = m
      /\ \A q \in Setters \ {p} : setter'[q] = setter[q]
  BY <1>1 DEF Types
<1>3. DOMAIN setter[p].change = {}
  BY NoChangeIs DEF CInv, IInv, SetterInv, Idle
<1>4. ASSUME NEW q \in Setters PROVE ChangeInv(q)'
  <2>1. BulkSets = {} => setter'[q].pc # "many"
    BY <1>1, <1>2 DEF ChangeInv
  <2>2. ASSUME NEW x \in Objects, NEW k \in Keys, setter'[q].o = x, k \in DOMAIN setter'[q].change,
               <<x, k>> \notin crossed'
        PROVE  setter'[q].change[k] = attrs'[x][k]
    <3>1. CASE q = p
      BY <1>1, <1>2, <2>2, <3>1, WriteIs
    <3>2. CASE q # p
      <4>1. ~(x = o /\ k \in DOMAIN m) /\ <<x, k>> \notin crossed
        BY <1>2, <2>2, <3>2, CrossedIs
      <4>2. setter[q].change[k] = attrs[x][k]
        BY <1>1, <1>2, <2>2, <3>2, <4>1 DEF ChangeInv
      <4> QED BY <1>1, <1>2, <3>2, <4>1, <4>2, WriteIs
    <3> QED BY <3>1, <3>2
  <2> QED BY <2>1, <2>2 DEF ChangeInv
<1>5. ASSUME NEW r \in Readers, NEW x \in Objects
      PROVE  LifeInv(r, x)' /\ CopyInv(r, x)' /\ WholeInv(r, x)'
  <2>1. LifeInv(r, x) /\ CopyInv(r, x) /\ WholeInv(r, x)
    BY DEF CInv, CopyParts
  <2>2. LifeInv(r, x)' /\ WholeInv(r, x)'
    BY <2>1 DEF LifeInv, WholeInv
  <2>3. ASSUME NEW k \in Keys, r \notin blended', watch'[r][x].active, <<x, k>> \notin crossed'
        PROVE  OnItsWay(x, k)' \/ Reach(r, x, k)' = attrs'[x][k]
    <3>1. CASE x = o /\ k \in DOMAIN m
      BY <1>2, <3>1 DEF OnItsWay
    <3>2. CASE ~(x = o /\ k \in DOMAIN m)
      <4>1. <<x, k>> \notin crossed /\ attrs'[x][k] = attrs[x][k]
        BY <1>1, <2>3, <3>2, CrossedIs, WriteIs
      <4>2. OnItsWay(x, k) => OnItsWay(x, k)'
        BY <1>2, <1>3 DEF OnItsWay
      <4>3. Reach(r, x, k)' = Reach(r, x, k)
        BY DEF Reach
      <4> QED BY <2>1, <2>3, <4>1, <4>2, <4>3 DEF CopyInv
    <3> QED BY <3>1, <3>2
  <2> QED BY <2>2, <2>3 DEF CopyInv
<1> QED BY <1>4, <1>5 DEF CInv, CopyParts

\* A write that is pushed at once reaches the only client there is.
LEMMA SetLockedCopies ==
  ASSUME Undivided, CInv, IInv', NEW p \in Setters, NEW o \in Objects, NEW m \in Partial(Given),
         SetLocked(p, o, m)
  PROVE  CInv'
<1>1. Types /\ \A q \in Setters : ChangeInv(q)
  BY DEF CInv, IInv
<1>2. /\ \A r, s \in Readers : r = s
      /\ Idle(p) /\ Write(p, o, m) /\ PushMany(o, m)
      /\ setter' = setter /\ view' = view /\ blended' = blended
  BY DEF SetLocked, Undivided
<1>3. PICK given \in [Readers -> Partial(Moved)] :
        /\ Pushed(o, given)
        /\ \A r \in Readers : watch[r][o].active => given[r] = m
  BY <1>1, <1>2, PushManyIs
<1>4. DOMAIN setter[p].change = {}
  BY <1>2, NoChangeIs DEF CInv, IInv, SetterInv, Idle
<1>5. ASSUME NEW q \in Setters PROVE ChangeInv(q)'
  <2>1. BulkSets = {} => setter'[q].pc # "many"
    BY <1>1, <1>2 DEF ChangeInv
  <2>2. ASSUME NEW x \in Objects, NEW k \in Keys, setter'[q].o = x, k \in DOMAIN setter'[q].change,
               <<x, k>> \notin crossed'
        PROVE  setter'[q].change[k] = attrs'[x][k]
    <3>1. q # p
      BY <1>2, <1>4, <2>2
    <3>2. ~(x = o /\ k \in DOMAIN m) /\ <<x, k>> \notin crossed
      BY <1>2, <2>2, <3>1, CrossedIs
    <3>3. setter[q].change[k] = attrs[x][k]
      BY <1>1, <1>2, <2>2, <3>2 DEF ChangeInv
    <3> QED BY <1>1, <1>2, <3>2, <3>3, WriteIs
  <2> QED BY <2>1, <2>2 DEF ChangeInv
<1>6. ASSUME NEW r \in Readers PROVE CopyParts(r)'
  <2>1. CopyParts(r)
    BY DEF CInv
  <2> SUFFICES ASSUME NEW x \in Objects
               PROVE  LifeInv(r, x)' /\ CopyInv(r, x)' /\ WholeInv(r, x)'
    BY DEF CopyParts
  <2>2. LifeInv(r, x)' /\ WholeInv(r, x)'
    BY <1>1, <1>2, <1>3, <2>1, PushedLife
  <2>3. ASSUME NEW k \in Keys, r \notin blended', watch'[r][x].active, <<x, k>> \notin crossed'
        PROVE  OnItsWay(x, k)' \/ Reach(r, x, k)' = attrs'[x][k]
    <3>1. watch[r][x].active
      BY <1>3, <2>3 DEF Pushed
    <3>2. CASE x = o /\ k \in DOMAIN m
      <4>1. given[r] = m
        BY <1>3, <3>1, <3>2
      <4>2. Reach(r, x, k)' = m[k]
        BY <1>1, <1>2, <1>3, <3>1, <3>2, <4>1, PushedReach
      <4> QED BY <1>1, <1>2, <3>2, <4>2, WriteIs
    <3>3. CASE ~(x = o /\ k \in DOMAIN m)
      <4>1. <<x, k>> \notin crossed /\ attrs'[x][k] = attrs[x][k]
        BY <1>1, <1>2, <2>3, <3>3, CrossedIs, WriteIs
      <4>2. OnItsWay(x, k) => OnItsWay(x, k)'
        BY <1>2 DEF OnItsWay
      <4>3. Reach(r, x, k)' = Reach(r, x, k)
        <5>1. ~(x = o /\ watch[r][o].active /\ k \in DOMAIN given[r])
          BY <1>3, <3>3
        <5> QED BY <1>1, <1>2, <1>3, <5>1, PushedReach
      <4> QED BY <1>2, <2>1, <2>3, <3>1, <4>1, <4>2, <4>3 DEF CopyInv, CopyParts
    <3> QED BY <3>2, <3>3
  <2> QED BY <2>2, <2>3 DEF CopyInv
<1> QED BY <1>5, <1>6 DEF CInv

\* A push takes the attribute from the thread to the watches.
LEMMA PushCopies ==
  ASSUME Undivided, CInv, IInv', NEW p \in Setters, Push(p)
  PROVE  CInv'
<1> DEFINE o == setter[p].o
           m == setter[p].change
<1>1. /\ IInv /\ Types /\ \A q \in Setters : ChangeInv(q)
      /\ attrs' = attrs /\ view' = view /\ crossed' = crossed /\ blended' = blended
  BY DEF CInv, IInv, Push
<1>2. setter[p].pc = "one" \/ (\A r, s \in Readers : r = s)
  BY <1>1 DEF Undivided, ChangeInv, Push, Idle, Types, Pendings
<1>3. o \in Objects /\ m \in Partial(Given)
  BY <1>1, PushIs DEF Types, Pendings
<1>4. PICK given \in [Readers -> Partial(Moved)] :
        /\ Pushed(o, given)
        /\ \A r \in Readers : watch[r][o].active => given[r] = m
  BY <1>1, <1>2, PushIs
<1>5. /\ \A q \in Setters \ {p} : setter'[q] = setter[q]
      /\ setter'[p].pc = "idle" /\ DOMAIN setter'[p].change = {}
  BY <1>1, SetterAfterPush, NoChangeIs
<1>6. ASSUME NEW q \in Setters PROVE ChangeInv(q)'
  <2>1. CASE q = p
    BY <1>5, <2>1 DEF ChangeInv
  <2>2. CASE q # p
    BY <1>1, <1>5, <2>2 DEF ChangeInv
  <2> QED BY <2>1, <2>2
<1> HIDE DEF o, m
<1>7. ASSUME NEW r \in Readers PROVE CopyParts(r)'
  <2>1. CopyParts(r)
    BY DEF CInv
  <2> SUFFICES ASSUME NEW x \in Objects
               PROVE  LifeInv(r, x)' /\ CopyInv(r, x)' /\ WholeInv(r, x)'
    BY DEF CopyParts
  <2>2. LifeInv(r, x)' /\ WholeInv(r, x)'
    BY <1>1, <1>3, <1>4, <2>1, PushedLife
  <2>3. ASSUME NEW k \in Keys, r \notin blended', watch'[r][x].active, <<x, k>> \notin crossed'
        PROVE  OnItsWay(x, k)' \/ Reach(r, x, k)' = attrs'[x][k]
    <3>1. watch[r][x].active
      BY <1>4, <2>3 DEF Pushed
    <3>2. CASE x = o /\ k \in DOMAIN m
      <4>1. given[r] = m
        BY <1>4, <3>1, <3>2
      <4>2. Reach(r, x, k)' = m[k]
        BY <1>1, <1>3, <1>4, <3>1, <3>2, <4>1, PushedReach
      <4>3. m[k] = attrs[x][k]
        BY <1>1, <2>3, <3>2 DEF ChangeInv, o, m
      <4> QED BY <1>1, <4>2, <4>3
    <3>3. CASE ~(x = o /\ k \in DOMAIN m)
      <4>1. OnItsWay(x, k) => OnItsWay(x, k)'
        BY <1>5, <3>3 DEF OnItsWay, o, m
      <4>2. Reach(r, x, k)' = Reach(r, x, k)
        <5>1. ~(x = o /\ watch[r][o].active /\ k \in DOMAIN given[r])
          BY <1>4, <3>3
        <5> QED BY <1>1, <1>3, <1>4, <5>1, PushedReach
      <4> QED BY <1>1, <2>1, <2>3, <3>1, <4>1, <4>2 DEF CopyInv, CopyParts
    <3> QED BY <3>2, <3>3
  <2> QED BY <2>2, <2>3 DEF CopyInv
<1> QED BY <1>6, <1>7 DEF CInv

\* An object that closes has no copies to keep any more.
LEMMA RequestCopies ==
  ASSUME CInv, IInv', NEW o \in Objects, RequestRelease(o)
  PROVE  CInv'
<1>1. Types /\ UNCHANGED <<attrs, setter, view, writes, crossed, blended>>
  BY DEF CInv, IInv, RequestRelease
<1>2. \A p \in Setters : ChangeInv(p)'
  BY <1>1, ChangesKeep DEF CInv
<1>3. ASSUME NEW r \in Readers, NEW x \in Objects
      PROVE  LifeInv(r, x)' /\ CopyInv(r, x)' /\ WholeInv(r, x)'
  <2>1. LifeInv(r, x) /\ CopyInv(r, x) /\ WholeInv(r, x)
    BY DEF CInv, CopyParts
  <2>2. /\ watch'[r][x].active = (watch[r][x].active /\ x # o)
        /\ watch'[r][x].started = watch[r][x].started
        /\ watch'[r][x].closing = (watch[r][x].closing \/ x = o)
        /\ watch'[r][x].pend = watch[r][x].pend
    BY <1>1, RequestIs
  <2>3. /\ writer'[r].pc = writer[r].pc
        /\ writer'[r].clo = writer[r].clo \cup {o} /\ writer'[r].cClo = writer[r].cClo
        /\ writer'[r].act = writer[r].act /\ writer'[r].cAct = writer[r].cAct
        /\ writer'[r].held = writer[r].held
        /\ writer'[r].cur = writer[r].cur /\ writer'[r].transfer = writer[r].transfer
    BY <1>1, RequestIs
  <2>4. LifeInv(r, x)'
    BY <1>1, <2>1, <2>2, <2>3 DEF LifeInv
  <2>5. CopyInv(r, x)'
    <3>1. \A k \in Keys : OnItsWay(x, k) <=> OnItsWay(x, k)'
      BY <1>1 DEF OnItsWay
    <3>2. \A k \in Keys : Reach(r, x, k)' = Reach(r, x, k)
      BY <1>1, <2>2, <2>3 DEF Reach
    <3> QED BY <1>1, <2>1, <2>2, <3>1, <3>2 DEF CopyInv
  <2>6. WholeInv(r, x)'
    BY <2>1, <2>2, <2>3 DEF WholeInv
  <2> QED BY <2>4, <2>5, <2>6
<1> QED BY <1>2, <1>3 DEF CInv, CopyParts

\* Which list the object is on does not change what the client will hold.
LEMMA UnblockCopies ==
  ASSUME CInv, IInv', NEW r \in Readers, Unblock(r)
  PROVE  CInv'
<1>1. Types /\ UNCHANGED <<attrs, setter, watch, view, writes, crossed, blended>>
  BY DEF CInv, IInv, Unblock
<1>2. \A p \in Setters : ChangeInv(p)'
  BY <1>1, ChangesKeep DEF CInv
<1>3. \A y \in Readers \ {r} : CopyParts(y)'
  BY <1>1, UnblockIs, OthersCopy DEF CInv
<1>4. /\ writer'[r].pc = writer[r].pc /\ writer'[r].clo = writer[r].clo
      /\ writer'[r].cAct = writer[r].cAct /\ writer'[r].cClo = writer[r].cClo
      /\ writer'[r].act = writer[r].held /\ writer'[r].held = {}
      /\ writer'[r].cur = writer[r].cur /\ writer'[r].transfer = writer[r].transfer
  BY <1>1, UnblockIs
<1>5. ASSUME NEW x \in Objects PROVE LifeInv(r, x)' /\ CopyInv(r, x)' /\ WholeInv(r, x)'
  <2>1. LifeInv(r, x) /\ CopyInv(r, x) /\ WholeInv(r, x)
    BY DEF CInv, CopyParts
  <2>2. LifeInv(r, x)'
    BY <1>1, <1>4, <2>1 DEF LifeInv
  <2>3. CopyInv(r, x)'
    BY <1>1, <1>4, <2>1 DEF CopyInv, OnItsWay, Reach
  <2>4. WholeInv(r, x)'
    BY <1>1, <1>4, <2>1 DEF WholeInv
  <2> QED BY <2>2, <2>3, <2>4
<1>6. CopyParts(r)'
  BY <1>5 DEF CopyParts
<1> QED BY <1>2, <1>3, <1>6 DEF CInv

\* The announcement carries what the object has at that moment, and nothing
\* was collected for the client before it.
LEMMA StartCopies ==
  ASSUME CInv, IInv', NEW r \in Readers, NEW o \in Objects, Start(r, o)
  PROVE  CInv'
<1>1. Types /\ UNCHANGED <<attrs, setter, writes, crossed, blended>>
  BY DEF CInv, IInv, Start
<1>2. \A p \in Setters : ChangeInv(p)'
  BY <1>1, ChangesKeep DEF CInv
<1>0. Begun(r, o)
  BY <1>1, StartIs, Zenon
<1>3. \A y \in Readers \ {r} : watch'[y] = watch[y] /\ writer'[y] = writer[y] /\ view'[y] = view[y]
  BY <1>0 DEF Begun
<1>4. \A y \in Readers \ {r} : CopyParts(y)'
  BY <1>1, <1>3, OthersCopy DEF CInv
<1>5. /\ \A x \in Objects \ {o} : watch'[r][x] = watch[r][x] /\ view'[r][x] = view[r][x]
      /\ watch'[r][o].active /\ watch'[r][o].started
      /\ watch'[r][o].closing = watch[r][o].closing /\ watch'[r][o].pend = watch[r][o].pend
      /\ view'[r][o] = attrs[o]
  BY <1>0 DEF Begun
<1>6. Activated(writer[r], writer'[r], o, TRUE)
  BY <1>0 DEF Begun
<1>7. writer[r].blocked \in BOOLEAN /\ ~watch[r][o].started /\ ~watch[r][o].closing
  BY <1>1 DEF Types, Writers, Start
<1>8. ASSUME NEW x \in Objects PROVE LifeInv(r, x)' /\ CopyInv(r, x)' /\ WholeInv(r, x)'
  <2>1. /\ LifeInv(r, x) /\ CopyInv(r, x) /\ WholeInv(r, x)
        /\ LifeInv(r, o)
    BY DEF CInv, CopyParts
  <2>2. LifeInv(r, x)'
    <3>1. CASE x = o
      BY <1>1, <1>5, <1>6, <1>7, <2>1, <3>1 DEF LifeInv, Activated
    <3>2. CASE x # o
      BY <1>1, <1>5, <1>6, <1>7, <2>1, <3>2 DEF LifeInv, Activated
    <3> QED BY <3>1, <3>2
  <2>3. CopyInv(r, x)'
    <3>1. /\ writer'[r].pc = writer[r].pc /\ writer'[r].cur = writer[r].cur
          /\ writer'[r].transfer = writer[r].transfer
      BY <1>6 DEF Activated
    <3>2. CASE x = o
      <4>1. ASSUME NEW k \in Keys, r \notin blended PROVE Reach(r, o, k)' = attrs'[o][k]
        <5>1. DOMAIN watch'[r][o].pend = {}
          BY <1>5, <1>7, <2>1, <4>1, NoChangeIs DEF LifeInv
        <5>2. ~(writer[r].pc = "write" /\ writer[r].cur = o)
          BY <1>7, <2>1 DEF LifeInv
        <5> QED BY <1>1, <1>5, <3>1, <5>1, <5>2 DEF Reach
      <4> QED BY <1>1, <3>2, <4>1 DEF CopyInv
    <3>3. CASE x # o
      BY <1>1, <1>5, <2>1, <3>1, <3>3 DEF CopyInv, OnItsWay, Reach
    <3> QED BY <3>2, <3>3
  <2>4. WholeInv(r, x)'
    BY <1>5, <1>6, <2>1 DEF WholeInv, Activated
  <2> QED BY <2>2, <2>3, <2>4
<1>9. CopyParts(r)'
  BY <1>8 DEF CopyParts
<1> QED BY <1>2, <1>4, <1>9 DEF CInv

\* Nor does who has the list.
LEMMA SwapCopies ==
  ASSUME CInv, IInv', NEW r \in Readers, WriterSwap(r)
  PROVE  CInv'
<1>1. /\ Types /\ UNCHANGED <<attrs, setter, watch, view, writes, crossed, blended>>
      /\ writer[r].pc = "wait"
  BY DEF CInv, IInv, WriterSwap
<1>2. \A p \in Setters : ChangeInv(p)'
  BY <1>1, ChangesKeep DEF CInv
<1>3. \A y \in Readers \ {r} : CopyParts(y)'
  BY <1>1, SwapIs, OthersCopy DEF CInv
<1>4. /\ writer'[r].pc = "work" /\ writer'[r].act = {} /\ writer'[r].clo = {}
      /\ writer'[r].cAct = writer[r].act /\ writer'[r].cClo = writer[r].clo
      /\ writer'[r].held = writer[r].held
      /\ writer'[r].cur = writer[r].cur /\ writer'[r].transfer = writer[r].transfer
  BY <1>1, SwapIs
<1>5. ASSUME NEW x \in Objects PROVE LifeInv(r, x)' /\ CopyInv(r, x)' /\ WholeInv(r, x)'
  <2>1. LifeInv(r, x) /\ CopyInv(r, x) /\ WholeInv(r, x)
    BY DEF CInv, CopyParts
  <2>2. LifeInv(r, x)'
    BY <1>1, <1>4, <2>1 DEF LifeInv
  <2>3. CopyInv(r, x)'
    BY <1>1, <1>4, <2>1 DEF CopyInv, OnItsWay, Reach
  <2>4. WholeInv(r, x)'
    BY <1>1, <1>4, <2>1 DEF WholeInv
  <2> QED BY <2>2, <2>3, <2>4
<1>6. CopyParts(r)'
  BY <1>5 DEF CopyParts
<1> QED BY <1>2, <1>3, <1>6 DEF CInv

\* Nor does a writer that waits.
LEMMA DoneCopies ==
  ASSUME CInv, IInv', NEW r \in Readers, WriterDone(r)
  PROVE  CInv'
<1>1. /\ Types /\ UNCHANGED <<attrs, setter, watch, view, writes, crossed, blended>>
      /\ writer[r].pc = "work"
  BY DEF CInv, IInv, WriterDone
<1>2. \A p \in Setters : ChangeInv(p)'
  BY <1>1, ChangesKeep DEF CInv
<1>3. \A y \in Readers \ {r} : CopyParts(y)'
  BY <1>1, DoneIs, OthersCopy DEF CInv
<1>4. /\ writer'[r].pc = "wait" /\ writer'[r].act = writer[r].act /\ writer'[r].clo = writer[r].clo
      /\ writer'[r].cAct = writer[r].cAct /\ writer'[r].cClo = writer[r].cClo
      /\ writer'[r].held = writer[r].held
      /\ writer'[r].cur = writer[r].cur /\ writer'[r].transfer = writer[r].transfer
  BY <1>1, DoneIs
<1>5. ASSUME NEW x \in Objects PROVE LifeInv(r, x)' /\ CopyInv(r, x)' /\ WholeInv(r, x)'
  <2>1. LifeInv(r, x) /\ CopyInv(r, x) /\ WholeInv(r, x)
    BY DEF CInv, CopyParts
  <2>2. LifeInv(r, x)'
    BY <1>1, <1>4, <2>1 DEF LifeInv
  <2>3. CopyInv(r, x)'
    BY <1>1, <1>4, <2>1 DEF CopyInv, OnItsWay, Reach
  <2>4. WholeInv(r, x)'
    BY <1>1, <1>4, <2>1 DEF WholeInv
  <2> QED BY <2>2, <2>3, <2>4
<1>6. CopyParts(r)'
  BY <1>5 DEF CopyParts
<1> QED BY <1>2, <1>3, <1>6 DEF CInv

\* What the watch held is in the transfer buffer now, and the client will be
\* told the same.
LEMMA TransferCopies ==
  ASSUME CInv, IInv', NEW r \in Readers, NEW o \in Objects, Transfer(r, o)
  PROVE  CInv'
<1>1. /\ Types /\ WriterInv(r) /\ UNCHANGED <<attrs, setter, view, writes, crossed, blended>>
      /\ writer[r].pc = "work" /\ o \in writer[r].cAct
  BY DEF CInv, IInv, Transfer
<1>2. \A p \in Setters : ChangeInv(p)'
  BY <1>1, ChangesKeep DEF CInv
<1>3. \A y \in Readers \ {r} : watch'[y] = watch[y] /\ writer'[y] = writer[y]
  BY <1>1, TransferIs
<1>4. \A y \in Readers \ {r} : CopyParts(y)'
  BY <1>1, <1>3, OthersCopy DEF CInv
<1>5. /\ \A x \in Objects \ {o} : watch'[r][x] = watch[r][x]
      /\ watch'[r][o].active = watch[r][o].active
      /\ watch'[r][o].started = watch[r][o].started
      /\ watch'[r][o].closing = watch[r][o].closing
      /\ watch'[r][o].pend = writer[r].transfer
  BY <1>1, TransferIs
<1>6. /\ writer'[r].pc = "write" /\ writer'[r].cur = o
      /\ writer'[r].cAct = writer[r].cAct \ {o} /\ writer'[r].transfer = watch[r][o].pend
      /\ writer'[r].act = writer[r].act /\ writer'[r].clo = writer[r].clo
      /\ writer'[r].cClo = writer[r].cClo /\ writer'[r].held = writer[r].held
  BY <1>1, TransferIs
<1>7. r \notin blended => writer[r].transfer = NoChange
  BY <1>1 DEF WriterInv
<1>8. ASSUME NEW x \in Objects PROVE LifeInv(r, x)' /\ CopyInv(r, x)' /\ WholeInv(r, x)'
  <2>1. /\ LifeInv(r, x) /\ CopyInv(r, x) /\ WholeInv(r, x)
        /\ LifeInv(r, o) /\ WholeInv(r, o)
    BY DEF CInv, CopyParts
  <2>2. LifeInv(r, x)'
    <3>1. CASE x = o
      BY <1>1, <1>5, <1>6, <1>7, <2>1, <3>1 DEF LifeInv
    <3>2. CASE x # o
      BY <1>1, <1>5, <1>6, <2>1, <3>2 DEF LifeInv
    <3> QED BY <3>1, <3>2
  <2>3. CopyInv(r, x)'
    <3>1. CASE x = o
      <4>1. ASSUME NEW k \in Keys, r \notin blended PROVE Reach(r, o, k)' = Reach(r, o, k)
        <5>1. DOMAIN watch'[r][o].pend = {}
          BY <1>5, <1>7, <4>1, NoChangeIs
        <5> QED BY <1>1, <1>6, <5>1 DEF Reach
      <4> QED BY <1>1, <1>5, <2>1, <3>1, <4>1 DEF CopyInv, OnItsWay
    <3>2. CASE x # o
      BY <1>1, <1>5, <1>6, <2>1, <3>2 DEF CopyInv, OnItsWay, Reach
    <3> QED BY <3>1, <3>2
  <2>4. WholeInv(r, x)'
    BY <1>5, <1>6, <2>1 DEF WholeInv
  <2> QED BY <2>2, <2>3, <2>4
<1>9. CopyParts(r)'
  BY <1>8 DEF CopyParts
<1> QED BY <1>2, <1>4, <1>9 DEF CInv

\* The client is told what was in the transfer buffer.
LEMMA ResponsesCopy ==
  ASSUME CInv, IInv', NEW r \in Readers, WriteResponses(r)
  PROVE  CInv'
<1> DEFINE o == writer[r].cur
<1>1. /\ Types /\ UNCHANGED <<attrs, setter, watch, writes, crossed, blended>>
      /\ writer[r].pc = "write" /\ o \in Objects
  BY DEF CInv, IInv, WriteResponses, WriterInv
<1>2. \A p \in Setters : ChangeInv(p)'
  BY <1>1, ChangesKeep DEF CInv
<1>3. \A y \in Readers \ {r} : view'[y] = view[y] /\ writer'[y] = writer[y]
  BY <1>1, ResponsesAre
<1>4. \A y \in Readers \ {r} : CopyParts(y)'
  BY <1>1, <1>3, OthersCopy DEF CInv
<1>5. /\ writer'[r].pc = "work" /\ writer'[r].cur = None /\ writer'[r].transfer = NoChange
      /\ writer'[r].act = writer[r].act /\ writer'[r].clo = writer[r].clo
      /\ writer'[r].cAct = writer[r].cAct /\ writer'[r].cClo = writer[r].cClo
      /\ writer'[r].held = writer[r].held
  BY <1>1, ResponsesAre
<1>6. /\ \A x \in Objects \ {o} : view'[r][x] = view[r][x]
      /\ view'[r][o] = Told(view[r][o], writer[r].transfer)
  BY <1>1, ResponsesAre
<1>7. WholeInv(r, o)
  BY <1>1 DEF CInv, CopyParts
<1>8. ASSUME NEW k \in Keys
      PROVE  view'[r][o][k] = IF k \in DOMAIN writer[r].transfer THEN writer[r].transfer[k]
                              ELSE view[r][o][k]
  <2>1. writer[r].transfer \in Partial(Given)
    BY <1>7 DEF WholeInv
  <2>2. \A x \in DOMAIN writer[r].transfer : writer[r].transfer[x] # Empty
    BY <2>1, PartialIs, ValuesAssumption DEF Given
  <2> QED BY <1>6, <2>2 DEF Told
<1> HIDE DEF o
<1>9. ASSUME NEW x \in Objects PROVE LifeInv(r, x)' /\ CopyInv(r, x)' /\ WholeInv(r, x)'
  <2>1. LifeInv(r, x) /\ CopyInv(r, x) /\ WholeInv(r, x)
    BY DEF CInv, CopyParts
  <2>2. LifeInv(r, x)'
    BY <1>1, <1>5, <2>1 DEF LifeInv
  <2>3. ASSUME NEW k \in Keys PROVE Reach(r, x, k)' = Reach(r, x, k)
    <3>1. CASE x = o
      BY <1>1, <1>5, <1>8, <3>1 DEF Reach, o
    <3>2. CASE x # o
      BY <1>1, <1>5, <1>6, <3>2 DEF Reach, o
    <3> QED BY <3>1, <3>2
  <2>4. CopyInv(r, x)'
    BY <1>1, <2>1, <2>3 DEF CopyInv, OnItsWay
  <2>5. WholeInv(r, x)'
    BY <1>1, <1>5, <2>1, NoChangeIs DEF WholeInv
  <2> QED BY <2>2, <2>4, <2>5
<1>10. CopyParts(r)'
  BY <1>9 DEF CopyParts
<1> QED BY <1>2, <1>4, <1>10 DEF CInv

\* A watch that is let go of is no copy any more.
LEMMA CloseCopies ==
  ASSUME CInv, IInv', NEW r \in Readers, NEW o \in Objects, CloseWatch(r, o)
  PROVE  CInv'
<1>1. /\ Types /\ WriterInv(r) /\ UNCHANGED <<attrs, setter, view, writes, crossed>>
      /\ writer[r].pc = "work" /\ o \in writer[r].cClo
      /\ blended' = IF watch[r][o].pend # NoChange THEN blended \cup {r} ELSE blended
  BY DEF CInv, IInv, CloseWatch
<1>2. \A p \in Setters : ChangeInv(p)'
  BY <1>1, ChangesKeep DEF CInv
<1>0. Released(r, o)
  BY <1>1, CloseIs, Zenon
<1>3. \A y \in Readers \ {r} :
        watch'[y] = watch[y] /\ writer'[y] = writer[y] /\ (y \in blended <=> y \in blended')
  <2>1. \A y \in Readers \ {r} : watch'[y] = watch[y] /\ writer'[y] = writer[y]
    BY <1>0 DEF Released
  <2>2. \A y \in Readers \ {r} : y \in blended <=> y \in blended'
    BY <1>1
  <2> QED BY <2>1, <2>2
<1>4. \A y \in Readers \ {r} : CopyParts(y)'
  BY <1>1, <1>3, OthersCopy DEF CInv
<1>5. /\ \A x \in Objects \ {o} : watch'[r][x] = watch[r][x]
      /\ watch'[r][o].active = FALSE
      /\ watch'[r][o].started = watch[r][o].started
      /\ watch'[r][o].closing = watch[r][o].closing
      /\ watch'[r][o].pend = writer[r].transfer
  BY <1>0 DEF Released
<1>6. /\ writer'[r].pc = "work"
      /\ writer'[r].cClo = writer[r].cClo \ {o} /\ writer'[r].transfer = watch[r][o].pend
      /\ writer'[r].act = writer[r].act \ {o} /\ writer'[r].clo = writer[r].clo
      /\ writer'[r].cAct = writer[r].cAct /\ writer'[r].held = writer[r].held \ {o}
  BY <1>0 DEF Released
<1>7. r \notin blended' => r \notin blended /\ writer[r].transfer = NoChange
  BY <1>1 DEF WriterInv
<1>8. ASSUME NEW x \in Objects PROVE LifeInv(r, x)' /\ CopyInv(r, x)' /\ WholeInv(r, x)'
  <2>1. /\ LifeInv(r, x) /\ CopyInv(r, x) /\ WholeInv(r, x)
        /\ LifeInv(r, o) /\ WholeInv(r, o)
    BY DEF CInv, CopyParts
  <2>2. LifeInv(r, x)'
    <3>1. CASE x = o
      BY <1>1, <1>5, <1>6, <1>7, <2>1, <3>1 DEF LifeInv
    <3>2. CASE x # o
      BY <1>1, <1>5, <1>6, <1>7, <2>1, <3>2 DEF LifeInv
    <3> QED BY <3>1, <3>2
  <2>3. CopyInv(r, x)'
    <3>1. CASE x = o
      BY <1>5, <3>1 DEF CopyInv
    <3>2. CASE x # o
      BY <1>1, <1>5, <1>6, <1>7, <2>1, <3>2 DEF CopyInv, OnItsWay, Reach
    <3> QED BY <3>1, <3>2
  <2>4. WholeInv(r, x)'
    BY <1>5, <1>6, <2>1 DEF WholeInv
  <2> QED BY <2>2, <2>3, <2>4
<1>9. CopyParts(r)'
  BY <1>8 DEF CopyParts
<1> QED BY <1>2, <1>4, <1>9 DEF CInv

\* Every step keeps the invariant when no map is taken apart.
LEMMA NextCopies == Undivided /\ CInv /\ [Next]_vars => CInv'
<1> SUFFICES ASSUME Undivided, CInv, [Next]_vars PROVE CInv'
  OBVIOUS
<1>1. IInv /\ IInv'
  BY NextKeeps DEF CInv
<1>2. ASSUME NEW p \in Setters, NEW o \in Objects, NEW k \in Keys, NEW v \in Given,
             SetAttribute(p, o, k, v)
      PROVE  CInv'
  BY <1>1, <1>2, Set1Is, SetCopies DEF SetAttribute
<1>3. ASSUME NEW p \in Setters, NEW o \in Objects, NEW m \in Changes, SetAttributes(p, o, m)
      PROVE  CInv'
  BY <1>1, <1>3, ChangesGiven, ChangedIs, SetCopies DEF SetAttributes
<1>4. ASSUME NEW p \in Setters, NEW o \in Objects, NEW m \in Changes, SetLocked(p, o, m)
      PROVE  CInv'
  BY <1>1, <1>4, ChangesGiven, SetLockedCopies
<1>5. ASSUME NEW p \in Setters, Push(p) PROVE CInv'
  BY <1>1, <1>5, PushCopies
<1>6. ASSUME NEW r \in Readers, WriterStep(r) PROVE CInv'
  BY <1>1, <1>6, SwapCopies, DoneCopies, TransferCopies, ResponsesCopy, CloseCopies DEF WriterStep
<1>7. ASSUME NEW r \in Readers, Unblock(r) PROVE CInv'
  BY <1>1, <1>7, UnblockCopies
<1>8. ASSUME NEW r \in Readers, NEW o \in Objects, Start(r, o) PROVE CInv'
  BY <1>1, <1>8, StartCopies
<1>9. ASSUME NEW o \in Objects, RequestRelease(o) PROVE CInv'
  BY <1>1, <1>9, RequestCopies
<1>10. CASE UNCHANGED vars
  <2>1. \A p \in Setters : ChangeInv(p)'
    BY <1>10, ChangesKeep DEF vars, CInv
  <2>2. \A r \in Readers : CopyParts(r)'
    BY <1>10, OthersCopy DEF vars, CInv
  <2> QED BY <1>1, <2>1, <2>2 DEF CInv
<1> QED BY <1>2, <1>3, <1>4, <1>5, <1>6, <1>7, <1>8, <1>9, <1>10 DEF Next, Given

\* Once nothing is on its way, a client's copy is the object's map, whatever the
\* threads, objects, keys and values, if changes are pushed one attribute at a
\* time or there is one client.  With several of both it is not so: Reported.
THEOREM CopiesConverge == Undivided => (Spec => []Converges)
<1> SUFFICES ASSUME Undivided PROVE Spec => []Converges
  OBVIOUS
<1>1. CInv => Converges
  <2> SUFFICES ASSUME CInv, NEW r \in Readers \ blended, NEW o \in Objects, Settled(r, o),
                      NEW k \in Keys, <<o, k>> \notin crossed
               PROVE  view[r][o][k] = attrs[o][k]
    BY DEF Converges
  <2>1. LifeInv(r, o) /\ CopyInv(r, o)
    BY DEF CInv, CopyParts
  <2>2. watch[r][o].active
    BY <2>1 DEF LifeInv, Settled
  <2>3. ~OnItsWay(o, k)
    BY DEF OnItsWay, Settled
  <2>4. Reach(r, o, k) = view[r][o][k]
    BY NoChangeIs DEF Reach, Settled
  <2> QED BY <2>1, <2>2, <2>3, <2>4 DEF CopyInv
<1>2. Init => CInv
  BY CInvInit
<1>3. CInv /\ [Next]_vars => CInv'
  BY NextCopies
<1> QED BY <1>1, <1>2, <1>3, PTL DEF Spec
=============================================================================
