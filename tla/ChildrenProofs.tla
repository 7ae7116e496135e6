---------------------------- MODULE ChildrenProofs ----------------------------
(***************************************************************************)
(* Proofs about Reaper and Scoper: what becomes of a terminal's children.  *)
(***************************************************************************)
EXTENDS Reaper, MCScopes, FiniteSetTheorems, TLAPS

OwnerStates == [pc : {"launching", "registering", "loop", "leaving", "deleted"},
                pid : Nat, closed : BOOLEAN, outcome : BOOLEAN, thrown : BOOLEAN, late : BOOLEAN]
ReaperStates == [pc : {"looking", "asleep", "awake", "waiting", "found", "telling"},
                 pid : Nat, owner : Owners \cup {Nobody}]

Types ==
  /\ owner \in [Owners -> OwnerStates]
  /\ work \in [Owners -> Seq(Pids)]
  /\ proc \in [Pids -> {"none", "running", "zombie", "reaped"}]
  /\ DOMAIN registered \subseteq 1 .. lastPid /\ orphans \subseteq 1 .. lastPid
  /\ reaper \in ReaperStates
  /\ lastPid \in 0 .. MaxPid

\* A pid's exit is yet to be collected, or in the reaper's hands.
Ahead(pid) == proc[pid] \in {"running", "zombie"} \/ (reaper.pc = "found" /\ reaper.pid = pid)
Starting(pid) == \E o \in Owners : At(o, "registering") /\ owner[o].pid = pid

OwnerInv(o) ==
  /\ owner[o].pid <= lastPid
  /\ At(o, "launching") => owner[o].pid = 0
  /\ At(o, "registering") => owner[o].pid # 0 /\ ~owner[o].outcome
  /\ owner[o].outcome /\ o \notin Commands => owner[o].pid = 0
\* No two owners have one pid.
OwnPids == \A o, p \in Owners : owner[o].pid = owner[p].pid /\ owner[o].pid # 0 => o = p

\* A process that can still exit is registered or about to be.
ProcInv(pid) ==
  /\ proc[pid] = "none" <=> pid > lastPid
  /\ pid <= lastPid /\ Ahead(pid) => pid \in DOMAIN registered \/ Starting(pid)

RegisteredInv(pid) ==
  /\ registered[pid] \in Owners \cup {Nobody}
  /\ Ahead(pid)
  /\ \A o \in Owners : owner[o].pid = pid =>
       IF registered[pid] = Nobody THEN owner[o].pc \in {"leaving", "deleted"}
       ELSE o = registered[pid] /\ ~owner[o].outcome
            /\ (At(o, "loop") \/ (owner[o].pc \in {"leaving", "deleted"} /\ owner[o].thrown))
  /\ registered[pid] # Nobody => owner[registered[pid]].pid = pid

OrphanInv(pid) == proc[pid] = "reaped" /\ ~InHand(pid) /\ Starting(pid)

ReaperInv ==
  /\ reaper.pc \in {"found", "telling"} => reaper.pid \in 1 .. lastPid /\ proc[reaper.pid] = "reaped"
  /\ reaper.pc = "telling" =>
       /\ reaper.owner \in Owners
       /\ owner[reaper.owner].pid = reaper.pid /\ ~owner[reaper.owner].outcome
       /\ \/ At(reaper.owner, "loop")
          \/ /\ owner[reaper.owner].pc \in {"leaving", "deleted"}
             /\ owner[reaper.owner].late \/ owner[reaper.owner].thrown
       /\ work[reaper.owner] = <<>>

WorkInv(o) ==
  work[o] # <<>> =>
    /\ work[o] = <<owner[o].pid>> /\ owner[o].pid # 0 /\ ~owner[o].outcome
    /\ owner[o].pc \in {"loop", "leaving", "deleted"}
    /\ proc[owner[o].pid] = "reaped" /\ ~InHand(owner[o].pid)

\* The exit of a child its owner waits for is somewhere on its way to it.
Coming(o) ==
  LET pid == owner[o].pid
  IN \/ Ahead(pid) /\ (At(o, "loop") => pid \in DOMAIN registered /\ registered[pid] = o)
     \/ Telling(o) \/ work[o] # <<>>
     \/ At(o, "registering") /\ pid \in orphans
KeptInv(o) ==
  owner[o].pc \in {"registering", "loop"} /\ owner[o].pid # 0 /\ ~owner[o].outcome => Coming(o)

IInv ==
  /\ Types /\ OwnPids /\ ReaperInv
  /\ \A o \in Owners : OwnerInv(o) /\ WorkInv(o) /\ KeptInv(o)
  /\ \A pid \in Pids : ProcInv(pid)
  /\ \A pid \in DOMAIN registered : RegisteredInv(pid)
  /\ \A pid \in orphans : OrphanInv(pid)

\* The table of exits nobody has asked for has room for one of each thread.
Enough == IsFiniteSet(Owners) /\ Cardinality(Owners) <= MaxOrphans
-----------------------------------------------------------------------------
LEMMA InitInv == Init => IInv
<1> SUFFICES ASSUME Init PROVE IInv
  OBVIOUS
<1>1. Types
  BY ReaperAssumption DEF Init, Types, OwnerStates, ReaperStates
<1>2. OwnPids /\ ReaperInv
  BY DEF Init, OwnPids, ReaperInv
<1>3. \A o \in Owners : OwnerInv(o) /\ WorkInv(o) /\ KeptInv(o)
  BY DEF Init, OwnerInv, WorkInv, KeptInv, At
<1>4. \A pid \in Pids : ProcInv(pid)
  BY DEF Init, ProcInv, Ahead, Pids
<1>5. DOMAIN registered = {} /\ orphans = {}
  BY DEF Init
<1> QED BY <1>1, <1>2, <1>3, <1>4, <1>5 DEF IInv

\* What a step of one thread does to the threads' states.
LEMMA OwnerSet ==
  ASSUME Types, NEW o \in Owners, NEW w \in OwnerStates, owner' = [owner EXCEPT ![o] = w]
  PROVE  /\ owner' \in [Owners -> OwnerStates]
         /\ owner'[o] = w /\ \A x \in Owners \ {o} : owner'[x] = owner[x]
  BY DEF Types
-----------------------------------------------------------------------------
LEMMA ForkKeeps ==
  ASSUME IInv, NEW o \in Owners, Fork(o)
  PROVE  IInv'
<1> DEFINE pid == lastPid + 1
           w == [owner[o] EXCEPT !.pc = "registering", !.pid = pid,
                                 !.closed = FALSE, !.outcome = FALSE]
<1>1. /\ Types /\ OwnPids /\ ReaperInv
      /\ \A x \in Owners : OwnerInv(x) /\ WorkInv(x) /\ KeptInv(x)
      /\ \A x \in Pids : ProcInv(x)
      /\ \A x \in DOMAIN registered : RegisteredInv(x)
      /\ \A x \in orphans : OrphanInv(x)
  BY DEF IInv
<1>2. /\ At(o, "launching") /\ pid \in Pids /\ lastPid' = pid /\ pid \in Nat \ {0}
      /\ UNCHANGED <<work, registered, orphans, reaper>>
      /\ proc' = [proc EXCEPT ![pid] = "running"]
  BY <1>1, ReaperAssumption DEF Fork, Types, Pids
<1>3. owner[o] \in OwnerStates
  BY <1>1 DEF Types
<1>4. /\ w \in OwnerStates /\ w.pc = "registering" /\ w.pid = pid /\ ~w.outcome
      /\ owner' = [owner EXCEPT ![o] = w]
  BY <1>1, <1>2, <1>3 DEF Fork, OwnerStates, Types
<1> HIDE DEF pid, w
<1>5. /\ owner' \in [Owners -> OwnerStates]
      /\ owner'[o] = w /\ \A x \in Owners \ {o} : owner'[x] = owner[x]
  BY <1>1, <1>4, OwnerSet
<1>6. /\ proc'[pid] = "running" /\ \A x \in Pids \ {pid} : proc'[x] = proc[x]
      /\ proc[pid] = "none" /\ ~(pid <= lastPid) /\ lastPid \in Nat
      /\ \A x \in Pids : x > lastPid' <=> x > lastPid /\ x # pid
      /\ \A x \in Pids : x <= lastPid' <=> x <= lastPid \/ x = pid
      /\ \A x \in 1 .. lastPid : x \in Pids /\ x # pid /\ x \in 1 .. lastPid'
  BY <1>1, <1>2, ReaperAssumption DEF Types, ProcInv, Pids, pid
<1>7. Types'
  BY <1>1, <1>2, <1>5 DEF Types, Pids, pid
<1>8. OwnPids'
  BY <1>1, <1>4, <1>5, <1>6 DEF OwnPids, OwnerInv
<1>9. ReaperInv'
  <2>1. CASE reaper.pc \in {"found", "telling"}
    <3>1. reaper.pid \in Pids /\ reaper.pid # pid /\ reaper.pid \in 1 .. lastPid'
      BY <1>1, <1>6, <2>1 DEF ReaperInv
    <3>2. reaper.pc = "telling" => reaper.owner # o
      BY <1>1, <1>2 DEF ReaperInv, At
    <3> QED BY <1>1, <1>2, <1>5, <1>6, <3>1, <3>2 DEF ReaperInv, At
  <2>2. CASE reaper.pc \notin {"found", "telling"}
    BY <1>2, <2>2 DEF ReaperInv
  <2> QED BY <2>1, <2>2
<1>10. ASSUME NEW x \in Owners PROVE OwnerInv(x)' /\ WorkInv(x)' /\ KeptInv(x)'
  <2>1. OwnerInv(x) /\ WorkInv(x) /\ KeptInv(x) /\ OwnerInv(o) /\ WorkInv(o)
    BY <1>1
  <2>2. OwnerInv(x)'
    BY <1>1, <1>2, <1>4, <1>5, <1>6, <2>1 DEF OwnerInv, At, Types, OwnerStates
  <2>3. WorkInv(x)'
    BY <1>1, <1>2, <1>4, <1>5, <1>6, <2>1 DEF WorkInv, At, InHand, Pids, Types
  <2>4. KeptInv(x)'
    <3>1. CASE x = o
      BY <1>2, <1>4, <1>5, <1>6, <3>1 DEF KeptInv, Coming, Ahead, At
    <3>2. CASE x # o
      BY <1>1, <1>2, <1>5, <1>6, <2>1, <3>2 DEF KeptInv, Coming, Ahead, At, Telling, OwnerInv, Types, Pids, OwnerStates
    <3> QED BY <3>1, <3>2
  <2> QED BY <2>2, <2>3, <2>4
<1>11. ASSUME NEW x \in Owners, At(x, "registering") PROVE At(x, "registering")' /\ owner'[x].pid = owner[x].pid
  BY <1>2, <1>5, <1>11 DEF At
<1>12. ASSUME NEW x \in Pids PROVE ProcInv(x)'
  <2>1. CASE x = pid
    BY <1>2, <1>4, <1>5, <1>6, <2>1 DEF ProcInv, Starting, At
  <2>2. CASE x # pid
    <3>1. Starting(x) => Starting(x)'
      BY <1>11 DEF Starting
    <3> QED BY <1>1, <1>2, <1>6, <2>2, <3>1 DEF ProcInv, Ahead
  <2> QED BY <2>1, <2>2
<1>13. ASSUME NEW x \in DOMAIN registered' PROVE RegisteredInv(x)'
  <2>1. x \in Pids /\ x # pid /\ RegisteredInv(x)
    BY <1>1, <1>2, <1>6 DEF Types
  <2>2. Ahead(x)'
    BY <1>2, <1>6, <2>1 DEF RegisteredInv, Ahead
  <2> QED BY <1>1, <1>2, <1>4, <1>5, <2>1, <2>2 DEF RegisteredInv, At
<1>14. ASSUME NEW x \in orphans' PROVE OrphanInv(x)'
  <2>1. x \in Pids /\ x # pid /\ OrphanInv(x)
    BY <1>1, <1>2, <1>6 DEF Types
  <2>2. Starting(x) => Starting(x)'
    BY <1>11 DEF Starting
  <2> QED BY <1>2, <1>6, <2>1, <2>2 DEF OrphanInv, InHand
<1> QED BY <1>7, <1>8, <1>9, <1>10, <1>12, <1>13, <1>14 DEF IInv

\* A thread that goes on by itself, and is not between a fork and the
\* registration, keeps its child and what it has heard.
GoesOn(o, w) ==
  /\ w \in OwnerStates /\ owner' = [owner EXCEPT ![o] = w]
  /\ UNCHANGED <<work, proc, registered, orphans, reaper, lastPid>>
  /\ ~At(o, "registering") /\ w.pc # "registering"
  /\ w.pid = owner[o].pid /\ w.outcome = owner[o].outcome
  /\ (owner[o].thrown => w.thrown)
  /\ w.pc = "launching" => w.pid = 0
  /\ w.pc = "loop" => At(o, "loop") \/ w.pid = 0
  /\ At(o, "loop") /\ w.pc # "loop" => w.thrown \/ w.outcome
  /\ owner[o].pc \in {"leaving", "deleted"} => w.pc \in {"leaving", "deleted"} /\ (owner[o].late => w.late)

LEMMA GoesOnKeeps ==
  ASSUME IInv, NEW o \in Owners, NEW w, GoesOn(o, w)
  PROVE  IInv'
<1>1. /\ Types /\ OwnPids /\ ReaperInv
      /\ \A x \in Owners : OwnerInv(x) /\ WorkInv(x) /\ KeptInv(x)
      /\ \A x \in Pids : ProcInv(x)
      /\ \A x \in DOMAIN registered : RegisteredInv(x)
      /\ \A x \in orphans : OrphanInv(x)
  BY DEF IInv
<1>2. /\ w \in OwnerStates /\ owner' = [owner EXCEPT ![o] = w]
      /\ UNCHANGED <<work, proc, registered, orphans, reaper, lastPid>>
  BY DEF GoesOn
<1>3. /\ ~At(o, "registering") /\ w.pc # "registering"
      /\ w.pid = owner[o].pid /\ w.outcome = owner[o].outcome
      /\ (owner[o].thrown => w.thrown)
      /\ w.pc = "launching" => w.pid = 0
      /\ w.pc = "loop" => At(o, "loop") \/ w.pid = 0
      /\ At(o, "loop") /\ w.pc # "loop" => w.thrown \/ w.outcome
      /\ owner[o].pc \in {"leaving", "deleted"} => w.pc \in {"leaving", "deleted"} /\ (owner[o].late => w.late)
  BY DEF GoesOn
<1>4. /\ owner' \in [Owners -> OwnerStates]
      /\ owner'[o] = w /\ \A x \in Owners \ {o} : owner'[x] = owner[x]
  BY <1>1, <1>2, OwnerSet
<1>5. \A x \in Owners : owner'[x].pid = owner[x].pid /\ owner'[x].outcome = owner[x].outcome
  BY <1>3, <1>4
<1>6. Types' /\ OwnPids'
  BY <1>1, <1>2, <1>4, <1>5 DEF Types, OwnPids
<1>7. ASSUME NEW x \in Owners,
             owner[x].pid # 0 /\ owner[x].pc \in {"loop", "leaving", "deleted"}
      PROVE  owner'[x].pc \in {"loop", "leaving", "deleted"}
  BY <1>2, <1>3, <1>4, <1>7 DEF OwnerStates
<1>8. ReaperInv'
  <2>1. CASE reaper.pc = "telling" /\ reaper.owner = o
    <3>1. /\ owner[o].pid = reaper.pid /\ owner[o].pid # 0 /\ ~owner[o].outcome
          /\ At(o, "loop") \/ (owner[o].pc \in {"leaving", "deleted"} /\ (owner[o].late \/ owner[o].thrown))
      BY <1>1, <2>1 DEF ReaperInv
    <3>2. w.pc \in {"loop", "leaving", "deleted"}
      BY <1>4, <1>7, <3>1 DEF At
    <3>3. \/ w.pc = "loop"
          \/ w.pc \in {"leaving", "deleted"} /\ (w.late \/ w.thrown)
      BY <1>3, <3>1, <3>2
    <3> QED BY <1>1, <1>2, <1>4, <1>5, <2>1, <3>3 DEF ReaperInv, At
  <2>2. CASE ~(reaper.pc = "telling" /\ reaper.owner = o)
    BY <1>1, <1>2, <1>4, <2>2 DEF ReaperInv, At
  <2> QED BY <2>1, <2>2
<1>9. ASSUME NEW x \in Owners PROVE OwnerInv(x)' /\ WorkInv(x)' /\ KeptInv(x)'
  <2>1. OwnerInv(x) /\ WorkInv(x) /\ KeptInv(x)
    BY <1>1
  <2>2. OwnerInv(x)'
    BY <1>2, <1>3, <1>4, <1>5, <2>1 DEF OwnerInv, At
  <2>3. WorkInv(x)'
    BY <1>2, <1>5, <1>7, <2>1 DEF WorkInv, InHand
  <2>4. KeptInv(x)'
    BY <1>2, <1>3, <1>4, <1>5, <2>1 DEF KeptInv, Coming, Ahead, At, Telling
  <2> QED BY <2>2, <2>3, <2>4
<1>10. \A x : Starting(x)' <=> Starting(x)
  BY <1>3, <1>4, <1>5 DEF Starting, At
<1>11. \A x \in Pids : ProcInv(x)'
  BY <1>1, <1>2, <1>10 DEF ProcInv, Ahead
<1>12. \A x \in orphans' : OrphanInv(x)'
  BY <1>1, <1>2, <1>10 DEF OrphanInv, InHand
<1>13. ASSUME NEW x \in DOMAIN registered' PROVE RegisteredInv(x)'
  <2>1. RegisteredInv(x)
    BY <1>1, <1>2
  <2>2. ASSUME NEW y \in Owners, owner'[y].pid = x
        PROVE  IF registered[x] = Nobody THEN owner'[y].pc \in {"leaving", "deleted"}
               ELSE y = registered[x] /\ ~owner'[y].outcome
                    /\ (At(y, "loop")' \/ (owner'[y].pc \in {"leaving", "deleted"} /\ owner'[y].thrown))
    <3>1. x # 0
      BY <1>1, <1>2 DEF Types
    <3> QED BY <1>2, <1>3, <1>4, <1>5, <2>1, <2>2, <3>1 DEF RegisteredInv, At, OwnerStates
  <2> QED BY <1>2, <1>5, <2>1, <2>2 DEF RegisteredInv, Ahead
<1> QED BY <1>6, <1>8, <1>9, <1>11, <1>12, <1>13 DEF IInv

LEMMA ForkFailsKeeps ==
  ASSUME IInv, NEW o \in Owners, ForkFails(o)
  PROVE  IInv'
<1> DEFINE w == [owner[o] EXCEPT !.pc = IF o \in Terms THEN "loop" ELSE "leaving", !.pid = 0]
<1>1. owner[o] \in OwnerStates /\ owner[o].pid = 0 /\ Types
  BY DEF IInv, Types, OwnerInv, ForkFails
<1>2. GoesOn(o, w)
  BY <1>1 DEF GoesOn, ForkFails, OwnerStates, At, Types
<1> QED BY <1>2, GoesOnKeeps, Zenon

LEMMA EofKeeps ==
  ASSUME IInv, NEW o \in Owners, HandleEof(o)
  PROVE  IInv'
<1> DEFINE state == [owner[o] EXCEPT !.closed = TRUE]
<1>1. owner[o] \in OwnerStates /\ OwnerInv(o) /\ At(o, "loop") /\ Types
  BY DEF IInv, Types, HandleEof
<1>2. PICK next \in IF state.outcome THEN Halted(o, state) ELSE {state} :
        owner' = [owner EXCEPT ![o] = next]
  BY DEF HandleEof
<1>3. /\ state \in OwnerStates /\ state.pc = "loop" /\ state.pid = owner[o].pid
      /\ state.outcome = owner[o].outcome /\ state.thrown = owner[o].thrown /\ state.late = owner[o].late
  BY <1>1 DEF OwnerStates, At
<1> HIDE DEF state
<1>4. /\ next \in OwnerStates
      /\ next.pid = owner[o].pid /\ next.outcome = owner[o].outcome
      /\ next.thrown = owner[o].thrown /\ next.late = owner[o].late
      /\ next.pc = "loop" \/ (next.pc = "leaving" /\ next.outcome)
         \/ (next.pc = "launching" /\ next.outcome /\ o \notin Commands)
  BY <1>2, <1>3 DEF Halted, OwnerStates
<1>5. GoesOn(o, next)
  BY <1>1, <1>2, <1>4 DEF GoesOn, HandleEof, At, OwnerInv
<1> QED BY <1>5, GoesOnKeeps, Zenon

LEMMA ThrowKeeps ==
  ASSUME IInv, NEW o \in Owners, Throw(o)
  PROVE  IInv'
<1> DEFINE w == [owner[o] EXCEPT !.pc = "leaving", !.thrown = TRUE, !.late = Telling(o)]
<1>1. owner[o] \in OwnerStates /\ Types /\ Telling(o) \in BOOLEAN
  BY DEF IInv, Types, Telling
<1>2. GoesOn(o, w)
  BY <1>1 DEF GoesOn, Throw, OwnerStates, At, Types
<1> QED BY <1>2, GoesOnKeeps, Zenon

LEMMA RemoveKeeps ==
  ASSUME IInv, NEW o \in Owners, Remove(o)
  PROVE  IInv'
<1> DEFINE w == [owner[o] EXCEPT !.pc = "deleted"]
<1>1. owner[o] \in OwnerStates /\ Types
  BY DEF IInv, Types
<1>2. GoesOn(o, w)
  BY <1>1 DEF GoesOn, Remove, OwnerStates, At, Types
<1> QED BY <1>2, GoesOnKeeps, Zenon

\* The thread's owner is no longer waiting for its child.
LEMMA CloseKeeps ==
  ASSUME IInv, NEW o \in Owners, Close(o)
  PROVE  IInv'
<1> DEFINE w == [owner[o] EXCEPT !.pc = "leaving", !.late = Telling(o)]
           pid == owner[o].pid
<1>1. /\ Types /\ OwnPids /\ ReaperInv
      /\ \A x \in Owners : OwnerInv(x) /\ WorkInv(x) /\ KeptInv(x)
      /\ \A x \in Pids : ProcInv(x)
      /\ \A x \in DOMAIN registered : RegisteredInv(x)
      /\ \A x \in orphans : OrphanInv(x)
  BY DEF IInv
<1>2. /\ At(o, "loop") /\ UNCHANGED <<work, proc, orphans, reaper, lastPid>>
      /\ registered' = IF pid = 0 THEN registered ELSE Abandoned(pid)
  BY DEF Close
<1>3. owner[o] \in OwnerStates /\ Telling(o) \in BOOLEAN
  BY <1>1 DEF Types, Telling
<1>4. /\ w \in OwnerStates /\ w.pc = "leaving" /\ w.pid = pid /\ w.outcome = owner[o].outcome
      /\ w.late = Telling(o)
      /\ owner' = [owner EXCEPT ![o] = w]
  BY <1>1, <1>3 DEF Close, OwnerStates, Types
<1> HIDE DEF w
<1>5. /\ owner' \in [Owners -> OwnerStates]
      /\ owner'[o] = w /\ \A x \in Owners \ {o} : owner'[x] = owner[x]
  BY <1>1, <1>4, OwnerSet
<1>6. \A x \in Owners : owner'[x].pid = owner[x].pid /\ owner'[x].outcome = owner[x].outcome
  BY <1>4, <1>5
<1>7. /\ DOMAIN registered' = DOMAIN registered
      /\ \A x \in DOMAIN registered :
           registered'[x] = IF pid # 0 /\ x = pid THEN Nobody ELSE registered[x]
  BY <1>2 DEF Abandoned
<1>8. Types' /\ OwnPids'
  BY <1>1, <1>2, <1>5, <1>6, <1>7 DEF Types, OwnPids
<1>9. ReaperInv'
  <2>1. CASE Telling(o)
    BY <1>1, <1>2, <1>4, <1>5, <1>6, <2>1 DEF ReaperInv, Telling
  <2>2. CASE ~Telling(o)
    BY <1>1, <1>2, <1>5, <2>2 DEF ReaperInv, Telling, At
  <2> QED BY <2>1, <2>2
<1>10. ASSUME NEW x \in Owners PROVE OwnerInv(x)' /\ WorkInv(x)' /\ KeptInv(x)'
  <2>1. OwnerInv(x) /\ WorkInv(x) /\ KeptInv(x)
    BY <1>1
  <2>2. OwnerInv(x)'
    BY <1>2, <1>4, <1>5, <1>6, <2>1 DEF OwnerInv, At
  <2>3. WorkInv(x)'
    BY <1>2, <1>4, <1>5, <1>6, <2>1 DEF WorkInv, InHand
  <2>4. KeptInv(x)'
    <3>1. CASE x = o
      BY <1>4, <1>5, <3>1 DEF KeptInv
    <3>2. CASE x # o
      <4>1. owner[x].pid # 0 => owner[x].pid # pid
        BY <1>1, <3>2 DEF OwnPids
      <4> QED BY <1>2, <1>5, <1>7, <2>1, <3>2, <4>1 DEF KeptInv, Coming, Ahead, At, Telling
    <3> QED BY <3>1, <3>2
  <2> QED BY <2>2, <2>3, <2>4
<1>11. \A x : Starting(x)' <=> Starting(x)
  BY <1>2, <1>4, <1>5, <1>6 DEF Starting, At
<1>12. \A x \in Pids : ProcInv(x)'
  BY <1>1, <1>2, <1>7, <1>11 DEF ProcInv, Ahead
<1>13. \A x \in orphans' : OrphanInv(x)'
  BY <1>1, <1>2, <1>11 DEF OrphanInv, InHand
<1>14. ASSUME NEW x \in DOMAIN registered' PROVE RegisteredInv(x)'
  <2>1. RegisteredInv(x) /\ x # 0
    BY <1>1, <1>7 DEF Types
  <2>2. CASE x = pid
    <3>1. \A y \in Owners : owner'[y].pid = x => y = o
      BY <1>1, <1>6, <2>1, <2>2 DEF OwnPids
    <3> QED BY <1>2, <1>4, <1>5, <1>7, <2>1, <2>2, <3>1 DEF RegisteredInv, Ahead
  <2>3. CASE x # pid
    BY <1>2, <1>4, <1>5, <1>6, <1>7, <2>1, <2>3 DEF RegisteredInv, Ahead, At
  <2> QED BY <2>2, <2>3
<1> QED BY <1>8, <1>9, <1>10, <1>12, <1>13, <1>14 DEF IInv

\* A thread hears of its child's end.
LEMMA ExitedKeeps ==
  ASSUME IInv, NEW o \in Owners, HandleProcessExited(o)
  PROVE  IInv'
<1> DEFINE pid == owner[o].pid
           state == [owner[o] EXCEPT !.outcome = TRUE, !.pid = IF o \in Terms THEN 0 ELSE pid]
<1>1. /\ Types /\ OwnPids /\ ReaperInv
      /\ \A x \in Owners : OwnerInv(x) /\ WorkInv(x) /\ KeptInv(x)
      /\ \A x \in Pids : ProcInv(x)
      /\ \A x \in DOMAIN registered : RegisteredInv(x)
      /\ \A x \in orphans : OrphanInv(x)
  BY DEF IInv
<1>2. /\ At(o, "loop") /\ work[o] # <<>> /\ UNCHANGED <<proc, registered, orphans, reaper, lastPid>>
      /\ work' = [work EXCEPT ![o] = Tail(work[o])]
  BY DEF HandleProcessExited
<1>3. PICK next \in IF state.closed THEN Halted(o, state) ELSE {state} :
        owner' = [owner EXCEPT ![o] = next]
  BY DEF HandleProcessExited
<1>4. owner[o] \in OwnerStates
  BY <1>1 DEF Types
<1>5. /\ state \in OwnerStates /\ state.outcome /\ state.pc = "loop"
      /\ state.pid = IF o \in Terms THEN 0 ELSE pid
  BY <1>2, <1>4 DEF OwnerStates, At
<1> HIDE DEF state
<1>6. /\ next \in OwnerStates /\ next.outcome
      /\ next.pid = IF o \in Terms THEN 0 ELSE pid
      /\ next.pc \in {"loop", "leaving"} \/ (next.pc = "launching" /\ o \notin Commands)
  BY <1>3, <1>5 DEF Halted, OwnerStates
<1>7. /\ owner' \in [Owners -> OwnerStates]
      /\ owner'[o] = next /\ \A x \in Owners \ {o} : owner'[x] = owner[x]
  BY <1>1, <1>3, <1>6, OwnerSet
<1>8. /\ work[o] = <<pid>> /\ pid # 0 /\ proc[pid] = "reaped" /\ ~InHand(pid) /\ ~Ahead(pid)
  BY <1>1, <1>2 DEF WorkInv, Ahead, InHand
<1>9. work'[o] = <<>> /\ \A x \in Owners \ {o} : work'[x] = work[x]
  BY <1>1, <1>2, <1>8 DEF Types
<1>10. Types'
  <2>1. work' \in [Owners -> Seq(Pids)]
    BY <1>1, <1>2, <1>9 DEF Types
  <2> QED BY <1>1, <1>2, <1>7, <2>1 DEF Types
<1>11. OwnPids'
  BY <1>1, <1>6, <1>7 DEF OwnPids
<1>12. reaper.pc = "telling" => reaper.owner # o
  BY <1>1, <1>2 DEF ReaperInv
<1>13. ReaperInv'
  BY <1>1, <1>2, <1>7, <1>9, <1>12 DEF ReaperInv, At
<1>14. ASSUME NEW x \in Owners PROVE OwnerInv(x)' /\ WorkInv(x)' /\ KeptInv(x)'
  <2>1. OwnerInv(x) /\ WorkInv(x) /\ KeptInv(x)
    BY <1>1
  <2>2. OwnerInv(x)'
    BY <1>1, <1>2, <1>6, <1>7, <2>1 DEF OwnerInv, At, Types, Owners
  <2>3. WorkInv(x)'
    BY <1>2, <1>7, <1>9, <2>1 DEF WorkInv, InHand
  <2>4. KeptInv(x)'
    BY <1>2, <1>6, <1>7, <1>9, <2>1 DEF KeptInv, Coming, Ahead, At, Telling
  <2> QED BY <2>2, <2>3, <2>4
<1>15. \A x : Starting(x)' <=> Starting(x)
  BY <1>2, <1>6, <1>7 DEF Starting, At
<1>16. \A x \in Pids : ProcInv(x)'
  BY <1>1, <1>2, <1>15 DEF ProcInv, Ahead
<1>17. \A x \in orphans' : OrphanInv(x)'
  BY <1>1, <1>2, <1>15 DEF OrphanInv, InHand
<1>18. ASSUME NEW x \in DOMAIN registered' PROVE RegisteredInv(x)'
  <2>1. RegisteredInv(x) /\ x # 0
    BY <1>1, <1>2 DEF Types
  <2>2. x # pid
    BY <1>8, <2>1 DEF RegisteredInv
  <2> QED BY <1>2, <1>6, <1>7, <2>1, <2>2 DEF RegisteredInv, Ahead, At
<1> QED BY <1>10, <1>11, <1>13, <1>14, <1>16, <1>17, <1>18 DEF IInv

\* A child that has exited already is told of at once, any other is registered.
LEMMA RegisterKeeps ==
  ASSUME IInv, NEW o \in Owners, RegisterProcess(o)
  PROVE  IInv'
<1> DEFINE pid == owner[o].pid
           w == [owner[o] EXCEPT !.pc = "loop"]
<1>1. /\ Types /\ OwnPids /\ ReaperInv
      /\ \A x \in Owners : OwnerInv(x) /\ WorkInv(x) /\ KeptInv(x)
      /\ \A x \in Pids : ProcInv(x)
      /\ \A x \in DOMAIN registered : RegisteredInv(x)
      /\ \A x \in orphans : OrphanInv(x)
  BY DEF IInv
<1>2. /\ At(o, "registering") /\ UNCHANGED <<proc, lastPid>>
      /\ IF pid \in orphans
         THEN /\ orphans' = orphans \ {pid} /\ work' = [work EXCEPT ![o] = Append(@, pid)]
              /\ UNCHANGED <<registered, reaper>>
         ELSE /\ registered' = Emplaced(pid, o) /\ reaper' = Woken
              /\ UNCHANGED <<orphans, work>>
  BY DEF RegisterProcess
<1>3. owner[o] \in OwnerStates
  BY <1>1 DEF Types
<1>4. /\ w \in OwnerStates /\ w.pc = "loop" /\ w.pid = pid /\ w.outcome = owner[o].outcome
      /\ owner' = [owner EXCEPT ![o] = w]
  BY <1>1, <1>3 DEF RegisterProcess, OwnerStates, Types
<1> HIDE DEF w
<1>5. /\ owner' \in [Owners -> OwnerStates]
      /\ owner'[o] = w /\ \A x \in Owners \ {o} : owner'[x] = owner[x]
  BY <1>1, <1>4, OwnerSet
<1>6. \A x \in Owners : owner'[x].pid = owner[x].pid /\ owner'[x].outcome = owner[x].outcome
  BY <1>4, <1>5
<1>7. pid \in 1 .. lastPid /\ pid \in Pids /\ ~owner[o].outcome /\ work[o] = <<>> /\ ~Telling(o)
  <2>1. pid \in 1 .. lastPid /\ pid \in Pids
    BY <1>1, <1>2, <1>3, ReaperAssumption DEF OwnerInv, At, Types, OwnerStates, Pids
  <2>2. ~owner[o].outcome /\ work[o] = <<>> /\ ~Telling(o)
    BY <1>1, <1>2 DEF OwnerInv, WorkInv, ReaperInv, Telling, At
  <2> QED BY <2>1, <2>2
<1>8. OwnPids'
  BY <1>1, <1>6 DEF OwnPids
<1>9. ASSUME NEW x \in Owners PROVE OwnerInv(x)'
  BY <1>1, <1>2, <1>4, <1>5, <1>6 DEF OwnerInv, At
<1>10. \A x : x # pid => (Starting(x)' <=> Starting(x))
  BY <1>2, <1>4, <1>5, <1>6 DEF Starting, At
<1>11. ASSUME NEW x \in Owners, x # o, owner[x].pid # 0 PROVE owner[x].pid # pid
  BY <1>1, <1>11 DEF OwnPids
<1>12. CASE pid \in orphans
  <2>1. /\ orphans' = orphans \ {pid} /\ work' = [work EXCEPT ![o] = Append(@, pid)]
        /\ UNCHANGED <<registered, reaper>>
    BY <1>2, <1>12
  <2>2. proc[pid] = "reaped" /\ ~InHand(pid) /\ ~Ahead(pid)
    BY <1>1, <1>12 DEF OrphanInv, Ahead, InHand
  <2>3. work'[o] = <<pid>> /\ \A x \in Owners \ {o} : work'[x] = work[x]
    BY <1>1, <1>7, <2>1 DEF Types
  <2>4. Types'
    <3>1. work' \in [Owners -> Seq(Pids)]
      BY <1>1, <1>7, <2>1 DEF Types
    <3> QED BY <1>1, <1>2, <1>5, <2>1, <3>1 DEF Types
  <2>5. ReaperInv'
    BY <1>1, <1>2, <1>5, <1>7, <2>1, <2>3 DEF ReaperInv, At, Telling
  <2>6. ASSUME NEW x \in Owners PROVE WorkInv(x)' /\ KeptInv(x)'
    <3>1. CASE x = o
      <4>1. work'[o] # <<>> /\ work'[o] = <<owner'[o].pid>>
        BY <1>6, <2>3
      <4>2. owner'[o].pid # 0 /\ ~owner'[o].outcome /\ owner'[o].pc = "loop"
        BY <1>4, <1>5, <1>7
      <4>3. proc'[pid] = "reaped" /\ ~InHand(pid)'
        BY <1>2, <1>6, <2>1, <2>2 DEF InHand
      <4> QED BY <1>6, <3>1, <4>1, <4>2, <4>3 DEF WorkInv, KeptInv, Coming
    <3>2. CASE x # o
      <4>1. WorkInv(x) /\ KeptInv(x)
        BY <1>1
      <4> QED BY <1>2, <1>5, <1>11, <2>1, <2>3, <3>2, <4>1
              DEF WorkInv, KeptInv, Coming, InHand, Ahead, At, Telling
    <3> QED BY <3>1, <3>2
  <2>7. \A x \in Pids : ProcInv(x)'
    BY <1>1, <1>2, <1>10, <2>1, <2>2 DEF ProcInv, Ahead
  <2>8. \A x \in orphans' : OrphanInv(x)'
    BY <1>1, <1>2, <1>10, <2>1 DEF OrphanInv, InHand
  <2>9. ASSUME NEW x \in DOMAIN registered' PROVE RegisteredInv(x)'
    <3>1. RegisteredInv(x) /\ x # pid
      BY <1>1, <2>1, <2>2 DEF RegisteredInv
    <3> QED BY <1>2, <1>4, <1>5, <1>6, <2>1, <3>1 DEF RegisteredInv, Ahead, At
  <2> QED BY <1>8, <1>9, <2>4, <2>5, <2>6, <2>7, <2>8, <2>9 DEF IInv
<1>13. CASE pid \notin orphans
  <2>1. registered' = Emplaced(pid, o) /\ reaper' = Woken /\ UNCHANGED <<orphans, work>>
    BY <1>2, <1>13
  <2>2. Ahead(pid)
    BY <1>1, <1>2, <1>7, <1>13 DEF KeptInv, Coming, At
  <2>3. /\ DOMAIN registered' = DOMAIN registered \cup {pid} /\ registered'[pid] = o
        /\ \A x \in DOMAIN registered \ {pid} : registered'[x] = registered[x]
    <3>1. pid \notin DOMAIN registered
      BY <1>1, <1>2 DEF RegisteredInv, At
    <3> QED BY <2>1, <3>1 DEF Emplaced
  <2>4. /\ reaper' \in ReaperStates /\ reaper'.pid = reaper.pid /\ reaper'.owner = reaper.owner
        /\ reaper'.pc = "found" <=> reaper.pc = "found"
        /\ reaper'.pc = "telling" <=> reaper.pc = "telling"
    BY <1>1, <2>1 DEF Types, ReaperStates, Woken
  <2>5. Types'
    BY <1>1, <1>2, <1>5, <1>7, <2>1, <2>3, <2>4 DEF Types
  <2>6. ReaperInv'
    BY <1>1, <1>2, <1>5, <1>7, <2>1, <2>4 DEF ReaperInv, At, Telling
  <2>7. ASSUME NEW x \in Owners PROVE WorkInv(x)' /\ KeptInv(x)'
    <3>1. CASE x = o
      BY <1>2, <1>4, <1>5, <1>7, <2>1, <2>2, <2>3, <2>4, <3>1 DEF WorkInv, KeptInv, Coming, Ahead
    <3>2. CASE x # o
      <4>1. WorkInv(x) /\ KeptInv(x)
        BY <1>1
      <4> QED BY <1>2, <1>5, <1>11, <2>1, <2>3, <2>4, <3>2, <4>1
              DEF WorkInv, KeptInv, Coming, InHand, Ahead, At, Telling
    <3> QED BY <3>1, <3>2
  <2>8. \A x \in Pids : ProcInv(x)'
    BY <1>1, <1>2, <1>10, <2>3, <2>4 DEF ProcInv, Ahead
  <2>9. \A x \in orphans' : OrphanInv(x)'
    BY <1>1, <1>2, <1>10, <1>13, <2>1, <2>4 DEF OrphanInv, InHand
  <2>10. ASSUME NEW x \in DOMAIN registered' PROVE RegisteredInv(x)'
    <3>1. CASE x = pid
      <4>1. \A y \in Owners : owner'[y].pid = x => y = o
        BY <1>6, <1>7, <1>11, <3>1
      <4>2. o # Nobody
        BY ReaperAssumption
      <4> QED BY <1>2, <1>4, <1>5, <1>7, <2>2, <2>3, <2>4, <3>1, <4>1, <4>2 DEF RegisteredInv, Ahead, At
    <3>2. CASE x # pid
      <4>1. RegisteredInv(x)
        BY <1>1, <2>3, <3>2
      <4> QED BY <1>2, <1>4, <1>5, <1>6, <2>3, <2>4, <3>2, <4>1 DEF RegisteredInv, Ahead, At
    <3> QED BY <3>1, <3>2
  <2> QED BY <1>8, <1>9, <2>5, <2>6, <2>7, <2>8, <2>9, <2>10 DEF IInv
<1> QED BY <1>12, <1>13
-----------------------------------------------------------------------------
\* Steps that leave every exit that is still ahead where it is.
LEMMA AheadKeeps ==
  ASSUME IInv, UNCHANGED <<owner, work, registered, orphans, lastPid>>,
         proc' \in [Pids -> {"none", "running", "zombie", "reaped"}],
         reaper' \in ReaperStates, ReaperInv',
         \A x \in Pids : (Ahead(x)' <=> Ahead(x)) /\ (proc'[x] = "none" <=> proc[x] = "none"),
         \A x \in Pids : proc[x] = "reaped" /\ ~InHand(x) => proc'[x] = "reaped" /\ ~InHand(x)',
         \A o \in Owners : Telling(o)' <=> Telling(o)
  PROVE  IInv'
<1>1. /\ Types /\ OwnPids /\ ReaperInv
      /\ \A x \in Owners : OwnerInv(x) /\ WorkInv(x) /\ KeptInv(x)
      /\ \A x \in Pids : ProcInv(x)
      /\ \A x \in DOMAIN registered : RegisteredInv(x)
      /\ \A x \in orphans : OrphanInv(x)
  BY DEF IInv
<1>2. 1 .. lastPid \subseteq Pids
  BY <1>1, ReaperAssumption DEF Types, Pids
<1>3. Types' /\ OwnPids'
  BY <1>1 DEF Types, OwnPids
<1>4. ASSUME NEW x \in Owners PROVE OwnerInv(x)' /\ WorkInv(x)' /\ KeptInv(x)'
  <2>1. OwnerInv(x) /\ WorkInv(x) /\ KeptInv(x) /\ owner[x].pid \in Nat
    BY <1>1 DEF Types, OwnerStates
  <2>2. owner[x].pid # 0 => owner[x].pid \in Pids
    BY <1>1, <1>2, <2>1 DEF OwnerInv, Types
  <2>3. OwnerInv(x)'
    BY <2>1 DEF OwnerInv, At
  <2>4. WorkInv(x)'
    BY <2>1, <2>2 DEF WorkInv
  <2>5. KeptInv(x)'
    BY <2>1, <2>2 DEF KeptInv, Coming, At
  <2> QED BY <2>3, <2>4, <2>5
<1>5. \A x : Starting(x)' <=> Starting(x)
  BY DEF Starting, At
<1>6. \A x \in Pids : ProcInv(x)'
  BY <1>1, <1>5 DEF ProcInv
<1>7. \A x \in orphans' : OrphanInv(x)'
  BY <1>1, <1>2, <1>5 DEF OrphanInv, Types
<1>8. \A x \in DOMAIN registered' : RegisteredInv(x)'
  BY <1>1, <1>2 DEF RegisteredInv, At, Types
<1> QED BY <1>3, <1>4, <1>6, <1>7, <1>8 DEF IInv

LEMMA ExitKeeps ==
  ASSUME IInv, NEW pid \in Pids, Exit(pid)
  PROVE  IInv'
<1>1. Types /\ ReaperInv
  BY DEF IInv
<1>2. /\ UNCHANGED <<owner, work, registered, orphans, reaper, lastPid>>
      /\ proc[pid] = "running" /\ proc' = [proc EXCEPT ![pid] = "zombie"]
  BY DEF Exit
<1>3. /\ proc' \in [Pids -> {"none", "running", "zombie", "reaped"}]
      /\ proc'[pid] = "zombie" /\ \A x \in Pids \ {pid} : proc'[x] = proc[x]
  BY <1>1, <1>2 DEF Types
<1>4. ReaperInv'
  BY <1>1, <1>2, <1>3, ReaperAssumption DEF ReaperInv, At, Types, Pids
<1>5. /\ \A x \in Pids : (Ahead(x)' <=> Ahead(x)) /\ (proc'[x] = "none" <=> proc[x] = "none")
      /\ \A x \in Pids : proc[x] = "reaped" /\ ~InHand(x) => proc'[x] = "reaped" /\ ~InHand(x)'
      /\ \A o \in Owners : Telling(o)' <=> Telling(o)
  BY <1>2, <1>3 DEF Ahead, InHand, Telling
<1> QED BY <1>1, <1>2, <1>3, <1>4, <1>5, AheadKeeps DEF Types

LEMMA LookKeeps ==
  ASSUME IInv, Look \/ Wake
  PROVE  IInv'
<1>1. Types /\ ReaperInv
  BY DEF IInv
<1>2. PICK pc \in {"looking", "asleep", "waiting"} :
        reaper' = [reaper EXCEPT !.pc = pc] /\ reaper.pc \in {"looking", "awake"}
  BY DEF Look, Wake
<1>3. UNCHANGED <<owner, work, proc, registered, orphans, lastPid>>
  BY DEF Look, Wake
<1>4. /\ reaper' \in ReaperStates /\ reaper'.pc \notin {"found", "telling"}
      /\ reaper.pc \notin {"found", "telling"}
  BY <1>1, <1>2 DEF Types, ReaperStates
<1>5. ReaperInv'
  BY <1>4 DEF ReaperInv
<1>6. /\ \A x \in Pids : (Ahead(x)' <=> Ahead(x)) /\ (proc'[x] = "none" <=> proc[x] = "none")
      /\ \A x \in Pids : proc[x] = "reaped" /\ ~InHand(x) => proc'[x] = "reaped" /\ ~InHand(x)'
      /\ \A o \in Owners : Telling(o)' <=> Telling(o)
  BY <1>3, <1>4 DEF Ahead, InHand, Telling
<1> QED BY <1>1, <1>3, <1>4, <1>5, <1>6, AheadKeeps DEF Types

LEMMA WaitKeeps ==
  ASSUME IInv, NEW pid \in Pids, WaitForAny(pid)
  PROVE  IInv'
<1>1. Types /\ ProcInv(pid)
  BY DEF IInv
<1>2. /\ UNCHANGED <<owner, work, registered, orphans, lastPid>>
      /\ reaper.pc = "waiting" /\ proc[pid] = "zombie" /\ proc' = [proc EXCEPT ![pid] = "reaped"]
      /\ reaper' = [pc |-> "found", pid |-> pid, owner |-> Nobody]
  BY DEF WaitForAny
<1>3. /\ proc' \in [Pids -> {"none", "running", "zombie", "reaped"}]
      /\ proc'[pid] = "reaped" /\ \A x \in Pids \ {pid} : proc'[x] = proc[x]
  BY <1>1, <1>2 DEF Types
<1>4. reaper' \in ReaperStates
  BY <1>2, ReaperAssumption DEF ReaperStates, Pids
<1>5. ReaperInv'
  BY <1>1, <1>2, <1>3, ReaperAssumption DEF ReaperInv, ProcInv, Types, Pids
<1>6. /\ \A x \in Pids : (Ahead(x)' <=> Ahead(x)) /\ (proc'[x] = "none" <=> proc[x] = "none")
      /\ \A x \in Pids : proc[x] = "reaped" /\ ~InHand(x) => proc'[x] = "reaped" /\ ~InHand(x)'
      /\ \A o \in Owners : Telling(o)' <=> Telling(o)
  BY <1>2, <1>3 DEF Ahead, InHand, Telling
<1> QED BY <1>1, <1>2, <1>3, <1>4, <1>5, <1>6, AheadKeeps

\* Each orphan is the child of a thread that is yet to register it, so the
\* table has room for the exit of one more.
LEMMA RoomForOrphan ==
  ASSUME IInv, Enough, NEW o \in Owners, owner[o].pid \notin orphans
  PROVE  Cardinality(orphans) < MaxOrphans
<1> DEFINE Parent(pid) == CHOOSE x \in Owners : owner[x].pid = pid
           f == [pid \in orphans |-> Parent(pid)]
<1>1. ASSUME NEW pid \in orphans PROVE Parent(pid) \in Owners /\ owner[Parent(pid)].pid = pid
  <2>1. \E x \in Owners : owner[x].pid = pid
    BY DEF IInv, OrphanInv, Starting
  <2> QED BY <2>1
<1>2. \A pid \in orphans : Parent(pid) \in Owners \ {o}
  BY <1>1
<1> HIDE DEF Parent
<1>3. f \in Injection(orphans, Owners \ {o})
  BY <1>1, <1>2 DEF Injection, IsInjective
<1>4. IsFiniteSet(Owners \ {o}) /\ Cardinality(Owners \ {o}) = Cardinality(Owners) - 1
  BY FS_RemoveElement DEF Enough
<1>5. IsFiniteSet(orphans) /\ Cardinality(orphans) <= Cardinality(Owners \ {o})
  BY <1>3, <1>4, FS_Injection, Zenon
<1>6. Cardinality(Owners) \in Nat /\ Cardinality(orphans) \in Nat
  BY <1>5, FS_CardinalityType DEF Enough
<1> QED BY <1>4, <1>5, <1>6, ReaperAssumption DEF Enough

\* The exit that has been collected goes to the registered owner, to nobody, or
\* to the orphans.
LEMMA FindKeeps ==
  ASSUME IInv, Enough, Find
  PROVE  IInv'
<1> DEFINE pid == reaper.pid
           known == pid \in DOMAIN registered
           tell == known /\ registered[pid] # Nobody
<1>1. /\ Types /\ OwnPids /\ ReaperInv
      /\ \A x \in Owners : OwnerInv(x) /\ WorkInv(x) /\ KeptInv(x)
      /\ \A x \in Pids : ProcInv(x)
      /\ \A x \in DOMAIN registered : RegisteredInv(x)
      /\ \A x \in orphans : OrphanInv(x)
  BY DEF IInv
<1>2. /\ reaper.pc = "found" /\ UNCHANGED <<owner, work, proc, lastPid>>
      /\ registered' = Restrict(registered, DOMAIN registered \ {pid})
      /\ orphans' = IF ~known /\ Cardinality(orphans) < MaxOrphans THEN orphans \cup {pid} ELSE orphans
      /\ reaper' = IF tell THEN [reaper EXCEPT !.pc = "telling", !.owner = registered[pid]]
                   ELSE [pc |-> "looking", pid |-> 0, owner |-> Nobody]
  BY DEF Find
<1>3. /\ pid \in 1 .. lastPid /\ pid \in Pids /\ proc[pid] = "reaped" /\ InHand(pid) /\ Ahead(pid)
  BY <1>1, <1>2, ReaperAssumption DEF ReaperInv, InHand, Ahead, Types, Pids
<1>4. /\ DOMAIN registered' = DOMAIN registered \ {pid}
      /\ \A x \in DOMAIN registered' : registered'[x] = registered[x]
  BY <1>2 DEF Restrict
<1>5. tell => /\ registered[pid] \in Owners /\ owner[registered[pid]].pid = pid
              /\ ~owner[registered[pid]].outcome
              /\ \/ At(registered[pid], "loop")
                 \/ /\ owner[registered[pid]].pc \in {"leaving", "deleted"}
                    /\ owner[registered[pid]].thrown
              /\ work[registered[pid]] = <<>>
  <2> SUFFICES ASSUME tell
               PROVE  /\ registered[pid] \in Owners /\ owner[registered[pid]].pid = pid
                      /\ ~owner[registered[pid]].outcome
                      /\ \/ At(registered[pid], "loop")
                         \/ /\ owner[registered[pid]].pc \in {"leaving", "deleted"}
                            /\ owner[registered[pid]].thrown
                      /\ work[registered[pid]] = <<>>
    OBVIOUS
  <2>1. RegisteredInv(pid)
    BY <1>1
  <2>2. registered[pid] \in Owners /\ owner[registered[pid]].pid = pid
    BY <2>1 DEF RegisteredInv
  <2>3. WorkInv(registered[pid])
    BY <1>1, <2>2
  <2> QED BY <1>3, <2>1, <2>2, <2>3 DEF RegisteredInv, WorkInv, At
<1>6. /\ tell => /\ reaper'.pc = "telling" /\ reaper'.pid = pid /\ reaper'.owner = registered[pid]
      /\ ~tell => reaper'.pc = "looking"
      /\ reaper' \in ReaperStates
  BY <1>1, <1>2, <1>5 DEF Types, ReaperStates
<1>7. ASSUME ~known
      PROVE  /\ Starting(pid) /\ orphans' = orphans \cup {pid}
  <2>1. Starting(pid)
    BY <1>1, <1>3, <1>7 DEF ProcInv
  <2>2. pid \notin orphans
    BY <1>1, <1>3 DEF OrphanInv
  <2>3. Cardinality(orphans) < MaxOrphans
    BY <2>1, <2>2, RoomForOrphan DEF Starting
  <2> QED BY <1>2, <1>7, <2>1, <2>3
<1>8. known => orphans' = orphans
  BY <1>2
<1> HIDE DEF tell
<1>9. \A x \in Pids : x # pid => (Ahead(x)' <=> Ahead(x))
  BY <1>2, <1>6 DEF Ahead
<1>10. Types' /\ OwnPids'
  BY <1>1, <1>2, <1>3, <1>4, <1>6, <1>7, <1>8 DEF Types, OwnPids
<1>11. ReaperInv'
  BY <1>2, <1>3, <1>5, <1>6 DEF ReaperInv, At
<1>12. ASSUME NEW x \in Owners PROVE OwnerInv(x)' /\ WorkInv(x)' /\ KeptInv(x)'
  <2>1. OwnerInv(x) /\ WorkInv(x) /\ KeptInv(x) /\ owner[x].pid \in Nat
    BY <1>1 DEF Types, OwnerStates
  <2>2. OwnerInv(x)'
    BY <1>2, <2>1 DEF OwnerInv, At
  <2>3. WorkInv(x)'
    BY <1>2, <1>3, <1>6, <2>1 DEF WorkInv, InHand
  <2>4. ASSUME KeptInv(x)!1 PROVE Coming(x)'
    <3>1. Coming(x)
      BY <2>1, <2>4 DEF KeptInv
    <3>2. CASE work[x] # <<>>
      BY <1>2, <3>2 DEF Coming
    <3>3. CASE owner[x].pid # pid /\ work[x] = <<>>
      <4>1. owner[x].pid \in Pids
        BY <1>1, <2>1, <2>4, ReaperAssumption DEF OwnerInv, Types, Pids
      <4>2. Ahead(owner[x].pid)' <=> Ahead(owner[x].pid)
        BY <1>2, <1>9, <3>3, <4>1
      <4> QED BY <1>2, <1>4, <1>7, <1>8, <3>1, <3>3, <4>2 DEF Coming, Telling, At
    <3>4. CASE owner[x].pid = pid /\ work[x] = <<>> /\ known
      <4>1. registered[pid] = x /\ tell
        BY <1>1, <2>4, <3>4 DEF RegisteredInv, tell
      <4> QED BY <1>6, <4>1 DEF Coming, Telling
    <3>5. CASE owner[x].pid = pid /\ work[x] = <<>> /\ ~known
      <4>1. At(x, "registering")
        BY <1>2, <2>4, <3>1, <3>5 DEF Coming, Telling, At
      <4> QED BY <1>2, <1>7, <3>5, <4>1 DEF Coming, At
    <3> QED BY <3>2, <3>3, <3>4, <3>5
  <2>5. KeptInv(x)'
    BY <1>2, <2>4 DEF KeptInv
  <2> QED BY <2>2, <2>3, <2>5
<1>13. \A x : Starting(x)' <=> Starting(x)
  BY <1>2 DEF Starting, At
<1>14. ASSUME NEW x \in Pids PROVE ProcInv(x)'
  <2>1. CASE x = pid
    <3>1. ~Ahead(x)'
      BY <1>2, <1>3, <1>6, <2>1 DEF Ahead
    <3> QED BY <1>1, <1>2, <2>1, <3>1 DEF ProcInv, Ahead
  <2>2. CASE x # pid
    BY <1>1, <1>2, <1>4, <1>9, <1>13, <2>2 DEF ProcInv
  <2> QED BY <2>1, <2>2
<1>15. ASSUME NEW x \in orphans' PROVE OrphanInv(x)'
  <2>1. CASE x \in orphans
    BY <1>1, <1>2, <1>3, <1>6, <1>13, <2>1 DEF OrphanInv, InHand
  <2>2. CASE x \notin orphans
    <3>1. x = pid /\ ~known
      BY <1>7, <1>8, <1>15, <2>2
    <3> QED BY <1>2, <1>3, <1>6, <1>7, <1>13, <3>1 DEF OrphanInv, InHand, tell
  <2> QED BY <2>1, <2>2
<1>16. ASSUME NEW x \in DOMAIN registered' PROVE RegisteredInv(x)'
  <2>1. RegisteredInv(x) /\ x # pid /\ x \in Pids
    BY <1>1, <1>4, ReaperAssumption DEF Types, Pids
  <2>2. Ahead(x)'
    BY <1>9, <2>1 DEF RegisteredInv
  <2> QED BY <1>2, <1>4, <2>1, <2>2 DEF RegisteredInv, At
<1> QED BY <1>10, <1>11, <1>12, <1>14, <1>15, <1>16 DEF IInv

\* The owner is told, unless it is gone.
LEMMA TellKeeps ==
  ASSUME IInv, Tell
  PROVE  IInv'
<1> DEFINE o == reaper.owner
           pid == reaper.pid
<1>1. /\ Types /\ OwnPids /\ ReaperInv
      /\ \A x \in Owners : OwnerInv(x) /\ WorkInv(x) /\ KeptInv(x)
      /\ \A x \in Pids : ProcInv(x)
      /\ \A x \in DOMAIN registered : RegisteredInv(x)
      /\ \A x \in orphans : OrphanInv(x)
  BY DEF IInv
<1>2. /\ reaper.pc = "telling" /\ UNCHANGED <<owner, proc, registered, orphans, lastPid>>
      /\ work' = IF At(o, "deleted") THEN work ELSE [work EXCEPT ![o] = Append(@, pid)]
      /\ reaper' = [pc |-> "looking", pid |-> 0, owner |-> Nobody]
  BY DEF Tell
<1>3. /\ o \in Owners /\ owner[o].pid = pid /\ ~owner[o].outcome
      /\ owner[o].pc \in {"loop", "leaving", "deleted"} /\ work[o] = <<>>
      /\ pid \in 1 .. lastPid /\ pid \in Pids /\ pid # 0 /\ proc[pid] = "reaped"
  BY <1>1, <1>2, ReaperAssumption DEF ReaperInv, At, Types, Pids
<1>4. /\ work'[o] = IF At(o, "deleted") THEN <<>> ELSE <<pid>>
      /\ \A x \in Owners \ {o} : work'[x] = work[x]
      /\ work' \in [Owners -> Seq(Pids)]
  BY <1>1, <1>2, <1>3 DEF Types
<1>5. reaper' \in ReaperStates /\ reaper'.pc = "looking"
  BY <1>2 DEF ReaperStates
<1>6. Types' /\ OwnPids' /\ ReaperInv'
  BY <1>1, <1>2, <1>4, <1>5 DEF Types, OwnPids, ReaperInv
<1> HIDE DEF o, pid
<1>7. \A x : (Ahead(x)' <=> Ahead(x)) /\ ~InHand(x)' /\ (Starting(x)' <=> Starting(x))
  BY <1>2, <1>5 DEF Ahead, InHand, Starting, At
<1>8. ASSUME NEW x \in Owners PROVE OwnerInv(x)' /\ WorkInv(x)' /\ KeptInv(x)'
  <2>1. OwnerInv(x) /\ WorkInv(x) /\ KeptInv(x)
    BY <1>1
  <2>2. OwnerInv(x)'
    BY <1>2, <2>1 DEF OwnerInv, At
  <2>3. CASE x = o
    <3>1. WorkInv(x)'
      <4>1. CASE At(o, "deleted")
        BY <1>4, <2>3, <4>1 DEF WorkInv
      <4>2. CASE ~At(o, "deleted")
        <5>1. work'[x] = <<owner'[x].pid>> /\ owner'[x] = owner[x] /\ proc' = proc
          BY <1>2, <1>3, <1>4, <2>3, <4>2
        <5> QED BY <1>3, <1>7, <2>3, <5>1 DEF WorkInv
      <4> QED BY <4>1, <4>2
    <3>2. KeptInv(x)'
      <4>1. CASE At(o, "deleted")
        <5>1. owner'[x].pc = "deleted"
          BY <1>2, <2>3, <4>1 DEF At
        <5> QED BY <5>1 DEF KeptInv
      <4>2. CASE ~At(o, "deleted")
        <5>1. work'[x] = <<pid>>
          BY <1>4, <2>3, <4>2
        <5>2. work'[x] # <<>>
          BY <5>1
        <5> QED BY <5>2 DEF KeptInv, Coming
      <4> QED BY <4>1, <4>2
    <3> QED BY <2>2, <3>1, <3>2
  <2>4. CASE x # o
    <3>1. WorkInv(x)'
      BY <1>2, <1>4, <1>7, <2>1, <2>4 DEF WorkInv
    <3>2. KeptInv(x)'
      BY <1>2, <1>4, <1>7, <2>1, <2>4 DEF KeptInv, Coming, At, Telling, o
    <3> QED BY <2>2, <3>1, <3>2
  <2> QED BY <2>3, <2>4
<1>9. \A x \in Pids : ProcInv(x)'
  BY <1>1, <1>2, <1>7 DEF ProcInv
<1>10. \A x \in orphans' : OrphanInv(x)'
  BY <1>1, <1>2, <1>7 DEF OrphanInv
<1>11. \A x \in DOMAIN registered' : RegisteredInv(x)'
  BY <1>1, <1>2, <1>7 DEF RegisteredInv, At
<1> QED BY <1>6, <1>8, <1>9, <1>10, <1>11 DEF IInv
-----------------------------------------------------------------------------
LEMMA NextInv == Enough /\ IInv /\ [Next]_vars => IInv'
<1> SUFFICES ASSUME Enough, IInv, [Next]_vars PROVE IInv'
  OBVIOUS
<1>1. CASE ReaperStep
  BY <1>1, LookKeeps, WaitKeeps, FindKeeps, TellKeeps DEF ReaperStep
<1>2. CASE \E pid \in Pids : Exit(pid)
  BY <1>2, ExitKeeps
<1>3. ASSUME NEW o \in Owners, Fork(o) \/ ForkFails(o) \/ RegisterProcess(o) PROVE IInv'
  BY <1>3, ForkKeeps, ForkFailsKeeps, RegisterKeeps
<1>4. ASSUME NEW o \in Owners,
             HandleEof(o) \/ HandleProcessExited(o) \/ Close(o) \/ Throw(o) \/ Remove(o)
      PROVE  IInv'
  BY <1>4, EofKeeps, ExitedKeeps, CloseKeeps, ThrowKeeps, RemoveKeeps
<1>5. CASE UNCHANGED vars
  <2>1. UNCHANGED <<owner, work, proc, registered, orphans, reaper, lastPid>>
    BY <1>5 DEF vars
  <2>2. Types /\ ReaperInv
    BY DEF IInv
  <2>3. ReaperInv'
    BY <2>1, <2>2 DEF ReaperInv, At
  <2>4. /\ \A x \in Pids : (Ahead(x)' <=> Ahead(x)) /\ (proc'[x] = "none" <=> proc[x] = "none")
        /\ \A x \in Pids : proc[x] = "reaped" /\ ~InHand(x) => proc'[x] = "reaped" /\ ~InHand(x)'
        /\ \A o \in Owners : Telling(o)' <=> Telling(o)
    BY <2>1 DEF Ahead, InHand, Telling
  <2> QED BY <2>1, <2>2, <2>3, <2>4, AheadKeeps DEF Types
<1> QED BY <1>1, <1>2, <1>3, <1>4, <1>5 DEF Next

\* The inductive invariant holds in every state, when the table of unclaimed
\* exits is as large as the number of threads that start processes.
THEOREM Invariance == Enough => (Spec => []IInv)
<1> SUFFICES ASSUME Enough PROVE Spec => []IInv
  OBVIOUS
<1>1. Init => IInv
  BY InitInv
<1>2. IInv /\ [Next]_vars => IInv'
  BY NextInv
<1> QED BY <1>1, <1>2, PTL DEF Spec

\* Pids and owners that are known exist, and a thread has at most one exit in
\* its queue.
THEOREM TypesHold == Enough => (Spec => []TypeOK)
<1> SUFFICES ASSUME Enough PROVE Spec => []TypeOK
  OBVIOUS
<1>1. ASSUME IInv PROVE TypeOK
  <2>1. DOMAIN registered \subseteq 1 .. lastPid /\ orphans \subseteq 1 .. lastPid
    BY <1>1 DEF IInv, Types
  <2>2. \A pid \in DOMAIN registered : registered[pid] \in Owners \cup {Nobody}
    BY <1>1 DEF IInv, RegisteredInv
  <2>3. ASSUME NEW o \in Owners PROVE owner[o].pid \in 0 .. lastPid /\ Len(work[o]) <= 1
    <3>1. owner[o].pid \in 0 .. lastPid
      BY <1>1, ReaperAssumption DEF IInv, Types, OwnerInv, OwnerStates
    <3>2. work[o] = <<>> \/ work[o] = <<owner[o].pid>>
      BY <1>1 DEF IInv, WorkInv
    <3>3. Len(work[o]) <= 1
      <4>1. CASE work[o] = <<>>
        BY <4>1
      <4>2. CASE work[o] = <<owner[o].pid>>
        BY <4>2
      <4> QED BY <3>2, <4>1, <4>2
    <3> QED BY <3>1, <3>3
  <2>4. \A pid \in DOMAIN registered : pid \notin orphans
    BY <1>1 DEF IInv, RegisteredInv, OrphanInv, Ahead, InHand
  <2> QED BY <2>1, <2>2, <2>3, <2>4 DEF TypeOK
<1>2. Spec => []IInv
  BY Invariance
<1> QED BY <1>1, <1>2, PTL

\* The exit of a child its owner waits for is never lost (zombies.cpp:138).
THEOREM NoExitLost == Enough => (Spec => []ExitNotLost)
<1> SUFFICES ASSUME Enough PROVE Spec => []ExitNotLost
  OBVIOUS
<1>1. ASSUME IInv PROVE ExitNotLost
  <2> SUFFICES ASSUME NEW o \in Owners, owner[o].pc \in {"registering", "loop"},
                      owner[o].pid # 0, ~owner[o].outcome
               PROVE  LET pid == owner[o].pid
                      IN \/ proc[pid] \in {"running", "zombie"} /\ (At(o, "loop") => registered[pid] = o)
                         \/ InHand(pid) \/ work[o] = <<pid>>
                         \/ At(o, "registering") /\ pid \in orphans
    BY DEF ExitNotLost
  <2>1. Coming(o) /\ WorkInv(o) /\ ReaperInv
    BY <1>1 DEF IInv, KeptInv
  <2>2. Telling(o) => InHand(owner[o].pid)
    BY <2>1 DEF ReaperInv, Telling, InHand
  <2> QED BY <2>1, <2>2 DEF Coming, WorkInv, Ahead, InHand
<1>2. Spec => []IInv
  BY Invariance
<1> QED BY <1>1, <1>2, PTL

\* What a thread hears is of the child it has, and it has not heard of it before
\* (term.cpp:633).
THEOREM ChildIsRight == Enough => (Spec => []RightChild)
<1> SUFFICES ASSUME Enough PROVE Spec => []RightChild
  OBVIOUS
<1>1. IInv => RightChild
  BY DEF IInv, WorkInv, RightChild
<1>2. Spec => []IInv
  BY Invariance
<1> QED BY <1>1, <1>2, PTL

\* An exit nobody has asked for belongs to a thread that is about to ask (zombies.cpp:126);
\* whom a child is registered for waits for it; and whom the reaper is about to tell waits
\* for that child, but for one that left after it was looked up (zombies.cpp:136) or threw.
THEOREM OwnersAreThere == Enough => (Spec => [](OrphansWait /\ OwnersLive))
<1> SUFFICES ASSUME Enough PROVE Spec => [](OrphansWait /\ OwnersLive)
  OBVIOUS
<1>1. IInv => OrphansWait
  BY DEF IInv, OrphanInv, Starting, OrphansWait
<1>2. ASSUME IInv PROVE OwnersLive
  <2>1. ASSUME NEW pid \in DOMAIN registered
        PROVE  /\ proc[pid] \in {"running", "zombie"} \/ InHand(pid)
               /\ registered[pid] # Nobody =>
                    Waits(registered[pid], pid) \/ owner[registered[pid]].thrown
    <3>1. RegisteredInv(pid)
      BY <1>2 DEF IInv
    <3> QED BY <3>1 DEF RegisteredInv, Ahead, InHand, Waits
  <2>2. reaper.pc = "telling" =>
          Waits(reaper.owner, reaper.pid) \/ owner[reaper.owner].thrown \/ owner[reaper.owner].late
    BY <1>2 DEF IInv, ReaperInv, Waits, At
  <2> QED BY <2>1, <2>2 DEF OwnersLive
<1>3. Spec => []IInv
  BY Invariance
<1> QED BY <1>1, <1>2, <1>3, PTL

\* Together: whatever order children exit, threads register, close and leave in,
\* each exit is told to the owner that waits for it.
THEOREM ExitsAreTold == Enough => (Spec => []ExitsTold)
  BY TypesHold, NoExitLost, ChildIsRight, OwnersAreThere, PTL DEF ExitsTold
-----------------------------------------------------------------------------
(***************************************************************************)
(* Scoper: the scopes that the children run in.                            *)
(***************************************************************************)

Terminals ==
  [pc : Scopes!Pcs, id : Nat, child : {0} \cup Scopes!Launches, name : {0} \cup Scopes!Launches]
Infos ==
  [addr : {0} \cup Addrs, id : Nat, pipe : {"none", "open"} \cup Scopes!Closings,
   copies : SUBSET Scopes!Launches, alive : BOOLEAN,
   child : {"none", "waiting", "running", "hasty", "dead"}]
Buses ==
  [up : BOOLEAN, jobs : SUBSET Scopes!Launches, stops : Nat, silent : SUBSET Scopes!Launches,
   signals : Seq(Scopes!Results)]
USE DEF Terminals, Infos, Buses

\* What an item behind the others, or the first one taken, does to a queue and to
\* the children it is about.
About(q) == {q[i].n : i \in DOMAIN q}

LEMMA Behind ==
  ASSUME NEW S, NEW q \in Seq(S), NEW e \in S
  PROVE  /\ Append(q, e) \in Seq(S) /\ Len(q) \in Nat /\ DOMAIN q = 1 .. Len(q)
         /\ DOMAIN Append(q, e) = 1 .. Len(q) + 1 /\ Append(q, e)[Len(q) + 1] = e
         /\ \A i \in 1 .. Len(q) : Append(q, e)[i] = q[i]
         /\ \A i \in DOMAIN Append(q, e) :
              (i \in DOMAIN q /\ Append(q, e)[i] = q[i]) \/ (i = Len(q) + 1 /\ Append(q, e)[i] = e)
         /\ About(Append(q, e)) = About(q) \cup {e.n}
<1>1. /\ Append(q, e) \in Seq(S) /\ Len(q) \in Nat /\ DOMAIN q = 1 .. Len(q)
      /\ DOMAIN Append(q, e) = 1 .. Len(q) + 1 /\ Append(q, e)[Len(q) + 1] = e
      /\ \A i \in 1 .. Len(q) : Append(q, e)[i] = q[i]
  OBVIOUS
<1> DEFINE p == Append(q, e)
<1> HIDE DEF p
<1>2. \A i \in DOMAIN p : i \in DOMAIN q \/ i = Len(q) + 1
  BY <1>1 DEF p
<1>3. About(p) \subseteq About(q) \cup {e.n}
  BY <1>1, <1>2 DEF About, p
<1>4. ASSUME NEW i \in DOMAIN q PROVE q[i].n \in About(p)
  <2>1. i \in DOMAIN p /\ p[i] = q[i]
    BY <1>1 DEF p
  <2> QED BY <2>1 DEF About
<1>5. e.n \in About(p)
  <2>1. Len(q) + 1 \in DOMAIN p /\ p[Len(q) + 1] = e
    BY <1>1 DEF p
  <2> QED BY <2>1 DEF About
<1>6. About(p) = About(q) \cup {e.n}
  BY <1>3, <1>4, <1>5 DEF About
<1>7. \A i \in DOMAIN p : (i \in DOMAIN q /\ p[i] = q[i]) \/ (i = Len(q) + 1 /\ p[i] = e)
  BY <1>1, <1>2 DEF p
<1> QED BY <1>1, <1>6, <1>7 DEF p

LEMMA First ==
  ASSUME NEW S, NEW q \in Seq(S), q # <<>>
  PROVE  /\ Tail(q) \in Seq(S) /\ Len(q) \in Nat \ {0} /\ DOMAIN q = 1 .. Len(q)
         /\ Head(q) = q[1] /\ q[1] \in S /\ DOMAIN Tail(q) = 1 .. Len(q) - 1
         /\ \A i \in 1 .. Len(q) - 1 : i + 1 \in DOMAIN q /\ Tail(q)[i] = q[i + 1]
         /\ About(q) = About(Tail(q)) \cup {Head(q).n}
<1>1. /\ Tail(q) \in Seq(S) /\ Len(q) \in Nat \ {0} /\ DOMAIN q = 1 .. Len(q)
      /\ Head(q) = q[1] /\ q[1] \in S /\ DOMAIN Tail(q) = 1 .. Len(q) - 1
      /\ \A i \in 1 .. Len(q) - 1 : i + 1 \in DOMAIN q /\ Tail(q)[i] = q[i + 1]
  OBVIOUS
<1> DEFINE p == Tail(q)
<1> HIDE DEF p
<1>2. About(p) \subseteq About(q)
  <2> SUFFICES ASSUME NEW i \in DOMAIN p PROVE p[i].n \in About(q)
    BY DEF About
  <2>1. i + 1 \in DOMAIN q /\ p[i] = q[i + 1]
    BY <1>1 DEF p
  <2> QED BY <2>1 DEF About
<1>3. Head(q).n \in About(q)
  <2>1. 1 \in DOMAIN q
    BY <1>1
  <2> QED BY <1>1, <2>1 DEF About
<1>4. ASSUME NEW i \in DOMAIN q PROVE q[i].n \in About(p) \cup {Head(q).n}
  <2>1. CASE i = 1
    BY <1>1, <2>1
  <2>2. CASE i # 1
    <3>1. i - 1 \in DOMAIN p /\ p[i - 1] = q[i]
      BY <1>1, <2>2 DEF p
    <3> QED BY <3>1 DEF About
  <2> QED BY <2>1, <2>2
<1>5. About(q) = About(p) \cup {Head(q).n}
  BY <1>2, <1>3, <1>4 DEF About
<1> QED BY <1>1, <1>5 DEF p

LEMMA AboutFacts == Scopes!Queued = About(inbox) /\ Scopes!Signalled = About(bus.signals)
                    /\ Scopes!Queued' = About(inbox') /\ Scopes!Signalled' = About(bus'.signals)
  BY DEF Scopes!Queued, Scopes!Signalled, About

\* What is said of children and scopes when the scoper's state does not change.
LEMMA Unmoved ==
  ASSUME UNCHANGED <<terms, units, inbox, bus, made>>
  PROVE  /\ Scopes!Referred' = Scopes!Referred /\ Scopes!Called' = Scopes!Called
         /\ Scopes!Queued' = Scopes!Queued /\ Scopes!Signalled' = Scopes!Signalled
  BY DEF Scopes!Referred, Scopes!Called, Scopes!Queued, Scopes!Signalled

LEMMA ScopesInit == MaxLaunches \in Nat /\ MaxStops \in Nat /\ Scopes!Init => Scopes!IInv
<1> SUFFICES ASSUME MaxLaunches \in Nat, MaxStops \in Nat, Scopes!Init PROVE Scopes!IInv
  OBVIOUS
<1> USE DEF Scopes!Init, Scopes!NoOne
<1>0. PICK up \in BOOLEAN : bus = [up |-> up, jobs |-> {}, stops |-> MaxStops, silent |-> {}, signals |-> <<>>]
  OBVIOUS
<1>1. Scopes!TypeOK
  <2>1. scope \in [Scopes!Launches -> Infos]
    BY DEF Scopes!NoScope
  <2>2. term \in [Addrs -> Terminals]
    BY DEF Scopes!Pcs
  <2>3. DOMAIN terms = {} /\ inbox \in Seq(Scopes!Work) /\ last \in 0 .. MaxLaunches /\ late \in BOOLEAN
    <3>1. terms = <<>> /\ inbox = <<>> /\ last = 0 /\ late = FALSE
      OBVIOUS
    <3>2. DOMAIN <<>> = {} /\ <<>> \in Seq(Scopes!Work) /\ 0 \in 0 .. MaxLaunches
      BY DEF Scopes!Work
    <3> QED BY <3>1, <3>2
  <2>4. bus \in Buses
    BY <1>0
  <2> QED BY <2>1, <2>2, <2>3, <2>4 DEF Scopes!TypeOK
<1>2. Scopes!Referred = {} /\ Scopes!Called = {}
  BY <1>0 DEF Scopes!Referred, Scopes!Called, Scopes!Queued, Scopes!Signalled
<1>3. Scopes!WorkRight /\ Scopes!NameRight
  BY DEF Scopes!WorkRight, Scopes!NameRight
<1>4. \A t \in Addrs : Scopes!ChildRight(t)
  BY DEF Scopes!ChildRight
<1>5. \A n \in Scopes!Launches : Scopes!PipeRight(n)
  BY <1>2 DEF Scopes!PipeRight, Scopes!NoScope
<1> QED BY <1>0, <1>1, <1>3, <1>4, <1>5 DEF Scopes!IInv

\* A terminal that the scoper does not know, and whose child is not about to be
\* given to it, may change but for its child.
LEMMA TermKeeps ==
  ASSUME Scopes!IInv, NEW t \in Addrs, term[t].pc \notin {"forked", "loop"},
         NEW r \in Terminals,
         term' = [term EXCEPT ![t] = r], r.pc # "forked",
         r.child # 0 => r.child = term[t].child,
         r.name # 0 => r.pc # "launching" /\ r.name = term[t].name /\ r.child = term[t].child,
         UNCHANGED <<scope, terms, units, inbox, bus, made, last, late>>
  PROVE  Scopes!IInv'
<1> USE DEF Scopes!IInv, Scopes!NoOne
<1>1. /\ Scopes!Referred' = Scopes!Referred /\ Scopes!Called' = Scopes!Called
      /\ Scopes!Queued' = Scopes!Queued /\ Scopes!Signalled' = Scopes!Signalled
  BY Unmoved
<1>2. term'[t] = r /\ \A u \in Addrs \ {t} : term'[u] = term[u]
  BY DEF Scopes!TypeOK
<1>3. Scopes!TypeOK'
  BY DEF Scopes!TypeOK
<1>4. Scopes!WorkRight'
  BY DEF Scopes!WorkRight
<1>5. Scopes!NameRight'
  BY <1>2 DEF Scopes!NameRight
<1>6. ASSUME NEW u \in Addrs PROVE Scopes!ChildRight(u)'
  <2>1. CASE u = t
    <3>1. t \notin DOMAIN terms
      BY DEF Scopes!ChildRight
    <3> QED BY <1>1, <1>2, <2>1, <3>1 DEF Scopes!ChildRight
  <2>2. CASE u # t
    BY <1>1, <1>2, <2>2 DEF Scopes!ChildRight
  <2> QED BY <2>1, <2>2
<1>7. ASSUME NEW n \in Scopes!Launches PROVE Scopes!PipeRight(n)'
  <2>1. ASSUME NEW u \in Addrs, term[u].pc = "forked", term[u].child = n
        PROVE  term'[u].pc = "forked" /\ term'[u].child = n
    BY <1>2, <2>1
  <2> QED BY <1>1, <2>1 DEF Scopes!PipeRight
<1> QED BY <1>3, <1>4, <1>5, <1>6, <1>7

LEMMA NewKeeps == ASSUME MaxLaunches \in Nat, Scopes!IInv, NEW t \in Addrs, Scopes!New(t) PROVE Scopes!IInv'
<1> DEFINE r == [pc |-> "launching", id |-> last + 1, child |-> 0, name |-> 0]
<1>1. r \in Terminals
  BY DEF Scopes!IInv, Scopes!TypeOK, Scopes!Pcs
<1>2. /\ r.pc = "launching" /\ r.child = 0 /\ r.name = 0
      /\ term[t].pc = "none" /\ term' = [term EXCEPT ![t] = r]
      /\ UNCHANGED <<scope, terms, units, inbox, bus, made, last, late>>
  BY DEF Scopes!New, Scopes!NoOne
<1> HIDE DEF r
<1> QED BY <1>1, <1>2, TermKeeps

LEMMA NoChildKeeps == ASSUME Scopes!IInv, NEW t \in Addrs, Scopes!ForkFails(t) PROVE Scopes!IInv'
<1> DEFINE r == [term[t] EXCEPT !.pc = "loop", !.child = 0]
<1>1. /\ r \in Terminals
      /\ r.pc = "loop" /\ r.child = 0 /\ r.name = term[t].name
  <2>1. term[t] \in Terminals
    BY DEF Scopes!IInv, Scopes!TypeOK, Scopes!NoOne
  <2>2. "loop" \in Scopes!Pcs
    BY DEF Scopes!Pcs
  <2> QED BY <2>1, <2>2
<1>2. /\ term[t].pc = "launching" /\ term' = [term EXCEPT ![t] = r]
      /\ UNCHANGED <<scope, terms, units, inbox, bus, made, last, late>>
  BY DEF Scopes!ForkFails, Scopes!NoOne
<1>3. term[t].name = 0
  BY <1>2 DEF Scopes!IInv, Scopes!ChildRight, Scopes!NoOne
<1> HIDE DEF r
<1> QED BY <1>1, <1>2, <1>3, TermKeeps

LEMMA NamelessKeeps == ASSUME Scopes!IInv, NEW t \in Addrs, Scopes!RemoveStatusAttributes(t) PROVE Scopes!IInv'
<1> DEFINE r == [term[t] EXCEPT !.pc = "launching", !.name = 0]
<1>1. /\ r \in Terminals
      /\ r.pc = "launching" /\ r.child = term[t].child /\ r.name = 0
  <2>1. term[t] \in Terminals
    BY DEF Scopes!IInv, Scopes!TypeOK, Scopes!NoOne
  <2>2. "launching" \in Scopes!Pcs
    BY DEF Scopes!Pcs
  <2> QED BY <2>1, <2>2
<1>2. /\ term[t].pc = "restarting" /\ term' = [term EXCEPT ![t] = r]
      /\ UNCHANGED <<scope, terms, units, inbox, bus, made, last, late>>
  BY DEF Scopes!RemoveStatusAttributes, Scopes!NoOne
<1> HIDE DEF r
<1> QED BY <1>1, <1>2, TermKeeps

LEMMA DeleteKeeps == ASSUME Scopes!IInv, NEW t \in Addrs, Scopes!Delete(t) PROVE Scopes!IInv'
<1> DEFINE r == [pc |-> "none", id |-> 0, child |-> 0, name |-> 0]
<1>1. /\ r \in Terminals
      /\ r.pc = "none" /\ r.child = 0 /\ r.name = 0
  BY DEF Scopes!Pcs
<1>2. /\ term[t].pc = "leaving" /\ term' = [term EXCEPT ![t] = r]
      /\ UNCHANGED <<scope, terms, units, inbox, bus, made, last, late>>
  BY DEF Scopes!Delete, Scopes!NoOne
<1> HIDE DEF r
<1> QED BY <1>1, <1>2, TermKeeps

\* launch: the new child is nobody's yet.
LEMMA LaunchKeeps == ASSUME MaxLaunches \in Nat, Scopes!IInv, NEW t \in Addrs, Scopes!Fork(t) PROVE Scopes!IInv'
<1> USE DEF Scopes!IInv, Scopes!NoOne
<1> DEFINE k == last + 1
<1>1. /\ k \in Scopes!Launches /\ last' = k /\ last \in Nat /\ k \in 0 .. MaxLaunches
      /\ term[t].pc = "launching" /\ term[t].name = 0
      /\ UNCHANGED <<terms, units, inbox, bus, made, late>>
  BY DEF Scopes!Fork, Scopes!TypeOK, Scopes!Launches, Scopes!ChildRight
<1>2. /\ Scopes!Referred' = Scopes!Referred /\ Scopes!Called' = Scopes!Called
      /\ Scopes!Queued' = Scopes!Queued /\ Scopes!Signalled' = Scopes!Signalled
  BY <1>1, Unmoved
<1>3. k \notin Scopes!Referred \cup Scopes!Called
  BY <1>1 DEF Scopes!PipeRight
<1> DEFINE new == [addr |-> t, id |-> term[t].id, pipe |-> "open", copies |-> {}, alive |-> TRUE, child |-> "waiting"]
<1>4. /\ \A n \in Scopes!Launches :
           scope'[n] = IF n = k THEN new
                       ELSE IF scope[n].pipe = "open" THEN [scope[n] EXCEPT !.copies = @ \cup {k}] ELSE scope[n]
      /\ scope' = [n \in Scopes!Launches |-> scope'[n]]
  BY <1>1 DEF Scopes!Fork
<1>5. scope'[k].addr = t /\ scope'[k].alive /\ scope'[k].pipe = "open" /\ scope'[k].child = "waiting"
  BY <1>1, <1>4
<1>6. \A n \in Scopes!Launches \ {k} : /\ scope'[n].addr = scope[n].addr /\ scope'[n].alive = scope[n].alive
                                   /\ scope'[n].pipe = scope[n].pipe /\ scope'[n].child = scope[n].child
  BY <1>1, <1>4 DEF Scopes!TypeOK
<1>7. /\ term' = [term EXCEPT ![t].pc = "forked", ![t].child = k]
      /\ term'[t].pc = "forked" /\ term'[t].child = k /\ term'[t].name = 0
      /\ \A u \in Addrs \ {t} : term'[u] = term[u]
  BY <1>1 DEF Scopes!Fork, Scopes!TypeOK
<1>8. Scopes!TypeOK'
  <2>1. term' \in [Addrs -> Terminals]
    <3>1. /\ term'[t] = [term[t] EXCEPT !.pc = "forked", !.child = k]
          /\ term[t] \in Terminals
          /\ \A u \in Addrs \ {t} : term'[u] \in Terminals
          /\ term' = [u \in Addrs |-> term'[u]]
      BY <1>7 DEF Scopes!TypeOK
    <3>2. term'[t] \in Terminals
      BY <1>1, <3>1 DEF Scopes!Pcs
    <3> QED BY <3>1, <3>2
  <2> DEFINE R == Infos
  <2>2. ASSUME NEW n \in Scopes!Launches PROVE scope'[n] \in R
    <3>1. CASE n = k
      <4>1. term[t].id \in Nat
        BY DEF Scopes!TypeOK
      <4>2. {} \in SUBSET Scopes!Launches /\ "open" \in {"none", "open"} \cup Scopes!Closings
        OBVIOUS
      <4>3. scope'[n] = new
        BY <1>4, <3>1
      <4>4. new \in R
        BY <4>1, <4>2
      <4> QED BY <4>3, <4>4
    <3>2. CASE n # k
      <4>1. scope[n] \in R
        BY DEF Scopes!TypeOK
      <4> QED BY <1>1, <1>4, <3>2, <4>1
    <3> QED BY <3>1, <3>2
  <2>3. scope' \in [Scopes!Launches -> R]
    <3> HIDE DEF R
    <3> QED BY <1>4, <2>2
  <2> QED BY <1>1, <2>1, <2>3 DEF Scopes!TypeOK
<1> HIDE DEF new
<1>9. Scopes!WorkRight' /\ Scopes!NameRight'
  BY <1>1, <1>7 DEF Scopes!WorkRight, Scopes!NameRight
<1>10. ASSUME NEW u \in Addrs PROVE Scopes!ChildRight(u)'
  <2>1. CASE u = t
    <3>1. t \notin DOMAIN terms
      BY <1>1 DEF Scopes!ChildRight
    <3> QED BY <1>1, <1>2, <1>3, <1>5, <1>7, <2>1, <3>1 DEF Scopes!ChildRight
  <2>2. CASE u # t
    <3>1. Scopes!ChildRight(u) /\ term'[u] = term[u] /\ term[u].child \in {0} \cup Scopes!Launches
      BY <1>7, <2>2 DEF Scopes!TypeOK
    <3>2. term[u].child # 0 => term[u].child <= last /\ term[u].child # k /\ term[u].child \in Scopes!Launches
      BY <1>1, <3>1 DEF Scopes!ChildRight, Scopes!Launches
    <3> QED BY <1>1, <1>2, <1>6, <3>1, <3>2 DEF Scopes!ChildRight, Scopes!Launches
  <2> QED BY <2>1, <2>2
<1>11. ASSUME NEW n \in Scopes!Launches PROVE Scopes!PipeRight(n)'
  <2>1. CASE n = k
    BY <1>1, <1>2, <1>3, <1>5, <1>7, <2>1 DEF Scopes!PipeRight, Scopes!Closings
  <2>2. CASE n # k
    <3>1. \A u \in Addrs : term[u].pc = "forked" => term'[u] = term[u]
      BY <1>1, <1>7
    <3>2. n > last' => n > last
      BY <1>1 DEF Scopes!Launches
    <3>3. Scopes!PipeRight(n)
      OBVIOUS
    <3> QED BY <1>1, <1>2, <1>6, <2>2, <3>1, <3>2, <3>3 DEF Scopes!PipeRight
  <2> QED BY <2>1, <2>2
<1> QED BY <1>1, <1>8, <1>9, <1>10, <1>11

\* A terminal's thread goes on to another place.
LEMMA GoesTo ==
  ASSUME Scopes!IInv, NEW t \in Addrs, NEW pc \in Scopes!Pcs, term' = [term EXCEPT ![t].pc = pc]
  PROVE  /\ term'[t].pc = pc /\ term'[t].child = term[t].child /\ term'[t].name = term[t].name
         /\ \A u \in Addrs \ {t} : term'[u] = term[u]
         /\ term' \in [Addrs -> Terminals]
<1> DEFINE R == Terminals
<1>1. /\ term'[t] = [term[t] EXCEPT !.pc = pc] /\ term[t] \in R
      /\ \A u \in Addrs \ {t} : term'[u] = term[u] /\ term[u] \in R
      /\ term' = [u \in Addrs |-> term'[u]]
  BY DEF Scopes!IInv, Scopes!TypeOK, Scopes!NoOne
<1>2. term'[t].pc = pc /\ term'[t].child = term[t].child /\ term'[t].name = term[t].name /\ term'[t] \in R
  BY <1>1
<1> HIDE DEF R
<1>3. term' \in [Addrs -> R]
  BY <1>1, <1>2
<1> QED BY <1>1, <1>2, <1>3 DEF R

\* createScope: the scoper is given the child, and nobody else refers to it.
LEMMA CreateScopeKeeps == ASSUME Scopes!IInv, NEW t \in Addrs, Scopes!CreateScope(t) PROVE Scopes!IInv'
<1> USE DEF Scopes!IInv, Scopes!NoOne
<1> DEFINE k == term[t].child
           item == [op |-> "Create", n |-> k]
<1>1. /\ term[t].pc = "forked" /\ inbox' = Append(inbox, item) /\ term' = [term EXCEPT ![t].pc = "loop"]
      /\ terms' = [u \in DOMAIN terms \cup {t} |-> IF u = t THEN k ELSE terms[u]]
      /\ UNCHANGED <<scope, units, bus, made, last, late>>
  BY DEF Scopes!CreateScope
<1>2. /\ k \in Scopes!Launches \ Scopes!Referred /\ scope[k].alive /\ scope[k].addr = t /\ k <= last
      /\ term[t].name = 0 /\ k # 0
  BY <1>1 DEF Scopes!ChildRight, Scopes!Launches
<1>3. /\ term'[t].pc = "loop" /\ term'[t].child = k /\ term'[t].name = 0
      /\ \A u \in Addrs \ {t} : term'[u] = term[u]
      /\ term' \in [Addrs -> Terminals]
  <2>1. "loop" \in Scopes!Pcs
    BY DEF Scopes!Pcs
  <2> QED BY <1>1, <1>2, <2>1, GoesTo
<1> HIDE DEF k
<1>4. item \in Scopes!Work /\ item.n = k /\ item.op = "Create"
  BY <1>2 DEF Scopes!Work
<1> HIDE DEF item
<1>5. /\ inbox' \in Seq(Scopes!Work) /\ Len(inbox) \in Nat /\ DOMAIN inbox = 1 .. Len(inbox)
      /\ DOMAIN inbox' = 1 .. Len(inbox) + 1 /\ inbox'[Len(inbox) + 1] = item
      /\ \A i \in DOMAIN inbox' :
           (i \in DOMAIN inbox /\ inbox'[i] = inbox[i]) \/ (i = Len(inbox) + 1 /\ inbox'[i] = item)
      /\ About(inbox') = About(inbox) \cup {k}
  BY <1>1, <1>4, Behind DEF Scopes!TypeOK
<1>6. /\ Scopes!Queued' = Scopes!Queued \cup {k} /\ Scopes!Signalled' = Scopes!Signalled
  BY <1>1, <1>5, AboutFacts
<1>7. Scopes!Called' = Scopes!Called
  BY <1>1, <1>6 DEF Scopes!Called
<1>8. /\ DOMAIN terms' = DOMAIN terms \cup {t} /\ terms'[t] = k /\ t \notin DOMAIN terms
      /\ \A u \in DOMAIN terms : terms'[u] = terms[u]
  BY <1>1 DEF Scopes!ChildRight, Scopes!TypeOK
<1>9. Scopes!Referred' = Scopes!Referred \cup {k}
  <2>1. {terms'[u] : u \in DOMAIN terms'} = {terms[u] : u \in DOMAIN terms} \cup {k}
    BY <1>8
  <2> QED BY <1>1, <1>6, <2>1 DEF Scopes!Referred
<1>10. Scopes!TypeOK'
  BY <1>1, <1>2, <1>3, <1>5, <1>8 DEF Scopes!TypeOK
<1>11. Scopes!WorkRight'
  <2>1. \A i \in DOMAIN inbox : inbox[i].n # k
    BY <1>2 DEF Scopes!Referred, Scopes!Queued
  <2>2. \A i, j \in DOMAIN inbox' : i < j => i \in DOMAIN inbox
    BY <1>5
  <2>3. \A i, j \in DOMAIN inbox' :
          inbox'[i].n = inbox'[j].n /\ i < j => inbox'[i].op = "Create" /\ inbox'[j].op = "Abandon"
    <3> SUFFICES ASSUME NEW i \in DOMAIN inbox', NEW j \in DOMAIN inbox', inbox'[i].n = inbox'[j].n, i < j
                 PROVE  inbox'[i].op = "Create" /\ inbox'[j].op = "Abandon"
      OBVIOUS
    <3>1. i \in DOMAIN inbox /\ inbox'[i] = inbox[i]
      BY <1>5, <2>2
    <3>2. j \in DOMAIN inbox /\ inbox'[j] = inbox[j]
      BY <1>4, <1>5, <2>1, <3>1
    <3> QED BY <3>1, <3>2 DEF Scopes!WorkRight
  <2>4. \A i \in DOMAIN inbox' : inbox'[i].op = "Abandon" => \A u \in DOMAIN terms' : terms'[u] # inbox'[i].n
    BY <1>4, <1>5, <1>8, <2>1 DEF Scopes!WorkRight
  <2> QED BY <2>3, <2>4 DEF Scopes!WorkRight
<1>12. Scopes!NameRight'
  BY <1>1, <1>3 DEF Scopes!NameRight
<1>13. ASSUME NEW u \in Addrs PROVE Scopes!ChildRight(u)'
  <2>1. CASE u = t
    BY <1>1, <1>2, <1>3, <1>8, <2>1 DEF Scopes!ChildRight
  <2>2. CASE u # t
    <3>1. Scopes!ChildRight(u) /\ term'[u] = term[u] /\ (u \in DOMAIN terms' <=> u \in DOMAIN terms)
      BY <1>3, <1>8, <2>2
    <3>2. term[u].child # k
      BY <1>2, <2>2, <3>1 DEF Scopes!ChildRight
    <3> QED BY <1>1, <1>8, <1>9, <3>1, <3>2 DEF Scopes!ChildRight
  <2> QED BY <2>1, <2>2
<1>14. ASSUME NEW n \in Scopes!Launches PROVE Scopes!PipeRight(n)'
  <2>1. \A u \in Addrs : term[u].pc = "forked" /\ term[u].child # k => term'[u] = term[u]
    BY <1>3 DEF k
  <2>2. n = k => n <= last /\ scope[n].alive
    BY <1>2
  <2>3. last \in Nat /\ n \in Nat
    BY DEF Scopes!TypeOK, Scopes!Launches
  <2>4. Scopes!PipeRight(n)
    OBVIOUS
  <2>5. scope[n].pipe = "open" =>
          \/ n \in (Scopes!Queued \cup bus.jobs \cup Scopes!Signalled \cup bus.silent)'
          \/ \E u \in Addrs : term'[u].pc = "forked" /\ term'[u].child = n
    <3>1. CASE n = k
      BY <1>6, <3>1
    <3>2. CASE n # k
      <4>1. ASSUME NEW u \in Addrs, term[u].pc = "forked", term[u].child = n
            PROVE  term'[u].pc = "forked" /\ term'[u].child = n
        BY <2>1, <3>2, <4>1
      <4> QED BY <1>1, <1>6, <2>4, <4>1 DEF Scopes!PipeRight
    <3> QED BY <3>1, <3>2
  <2>6. /\ n \in Scopes!Referred' => scope[n].alive
        /\ n > last => n \notin (Scopes!Referred \cup Scopes!Called)'
    BY <1>2, <1>7, <1>9, <2>2, <2>3, <2>4 DEF Scopes!PipeRight
  <2> QED BY <1>1, <1>7, <2>4, <2>5, <2>6 DEF Scopes!PipeRight
<1> QED BY <1>1, <1>10, <1>11, <1>12, <1>13, <1>14

\* unregisterTerm: the scope the scoper has for the terminal, if any, is given up
\* behind all that was asked before.
LEMMA UnregisterTermKeeps ==
  ASSUME Scopes!IInv, NEW t \in Addrs, NEW next \in {"restarting", "leaving"}, Scopes!UnregisterTerm(t, next)
  PROVE  Scopes!IInv'
<1> USE DEF Scopes!IInv, Scopes!NoOne
<1>1. /\ term[t].pc = "loop" /\ term' = [term EXCEPT ![t].pc = next]
      /\ UNCHANGED <<scope, units, bus, made, last, late>>
  BY DEF Scopes!UnregisterTerm
<1>2. /\ term'[t].pc = next /\ term'[t].child = term[t].child /\ term'[t].name = term[t].name
      /\ \A u \in Addrs \ {t} : term'[u] = term[u]
      /\ term' \in [Addrs -> Terminals]
  <2>1. next \in Scopes!Pcs
    BY DEF Scopes!Pcs
  <2> QED BY <1>1, <2>1, GoesTo
<1>3. Scopes!NameRight'
  BY <1>1, <1>2 DEF Scopes!NameRight
<1>4. ASSUME Scopes!WorkRight', inbox' \in Seq(Scopes!Work), DOMAIN terms' = DOMAIN terms \ {t},
             \A u \in DOMAIN terms' : terms'[u] = terms[u],
             Scopes!Queued \subseteq Scopes!Queued', Scopes!Signalled' = Scopes!Signalled, Scopes!Referred' \subseteq Scopes!Referred
      PROVE  Scopes!IInv'
  <2>1. Scopes!Called' = Scopes!Called
    BY <1>1, <1>4 DEF Scopes!Called
  <2>2. Scopes!TypeOK'
    BY <1>1, <1>2, <1>4 DEF Scopes!TypeOK
  <2>3. ASSUME NEW u \in Addrs PROVE Scopes!ChildRight(u)'
    <3>1. CASE u = t
      BY <1>1, <1>2, <1>4, <3>1 DEF Scopes!ChildRight
    <3>2. CASE u # t
      BY <1>1, <1>2, <1>4, <3>2 DEF Scopes!ChildRight
    <3> QED BY <3>1, <3>2
  <2>4. ASSUME NEW n \in Scopes!Launches PROVE Scopes!PipeRight(n)'
    <3>1. \A u \in Addrs : term[u].pc = "forked" => term'[u] = term[u]
      BY <1>1, <1>2
    <3> QED BY <1>1, <1>4, <2>1, <3>1 DEF Scopes!PipeRight
  <2> QED BY <1>1, <1>3, <1>4, <2>2, <2>3, <2>4
<1>5. CASE t \notin DOMAIN terms
  <2>1. UNCHANGED <<inbox, terms>>
    BY <1>5 DEF Scopes!UnregisterTerm
  <2>2. Scopes!Queued' = Scopes!Queued /\ Scopes!Signalled' = Scopes!Signalled /\ Scopes!Referred' = Scopes!Referred
    BY <1>1, <2>1, Unmoved
  <2>3. Scopes!WorkRight' /\ inbox' \in Seq(Scopes!Work)
    BY <2>1 DEF Scopes!WorkRight, Scopes!TypeOK
  <2> QED BY <1>4, <1>5, <2>1, <2>2, <2>3
<1>6. CASE t \in DOMAIN terms
  <2> DEFINE k == terms[t]
             item == [op |-> "Abandon", n |-> k]
  <2>1. inbox' = Append(inbox, item) /\ terms' = [u \in DOMAIN terms \ {t} |-> terms[u]]
    BY <1>6 DEF Scopes!UnregisterTerm
  <2>2. k \in Scopes!Launches /\ item \in Scopes!Work /\ item.op = "Abandon" /\ item.n = k
    BY <1>6 DEF Scopes!TypeOK, Scopes!Work
  <2>3. \A u \in DOMAIN terms \ {t} : terms[u] # k
    <3> SUFFICES ASSUME NEW u \in DOMAIN terms \ {t}, terms[u] = k PROVE FALSE
      OBVIOUS
    <3>1. u \in Addrs /\ t \in Addrs /\ k # 0 /\ Scopes!ChildRight(u) /\ Scopes!ChildRight(t)
      BY <2>2 DEF Scopes!TypeOK, Scopes!Launches
    <3>2. term[u].child = k /\ term[t].child = k
      BY <1>6, <3>1 DEF Scopes!ChildRight
    <3>3. scope[k].addr = u /\ scope[k].addr = t
      BY <3>1, <3>2 DEF Scopes!ChildRight
    <3> QED BY <3>3
  <2>4. \A i \in DOMAIN inbox : inbox[i].op = "Abandon" => inbox[i].n # k
    BY <1>6 DEF Scopes!WorkRight
  <2>5. k \in Scopes!Referred
    BY <1>6 DEF Scopes!Referred
  <2> HIDE DEF k, item
  <2>6. /\ inbox' \in Seq(Scopes!Work) /\ Len(inbox) \in Nat /\ DOMAIN inbox = 1 .. Len(inbox)
        /\ DOMAIN inbox' = 1 .. Len(inbox) + 1 /\ inbox'[Len(inbox) + 1] = item
        /\ \A i \in DOMAIN inbox' :
             (i \in DOMAIN inbox /\ inbox'[i] = inbox[i]) \/ (i = Len(inbox) + 1 /\ inbox'[i] = item)
        /\ About(inbox') = About(inbox) \cup {k}
    BY <2>1, <2>2, Behind DEF Scopes!TypeOK
  <2>7. Scopes!Queued' = Scopes!Queued \cup {k} /\ Scopes!Signalled' = Scopes!Signalled
    BY <1>1, <2>6, AboutFacts
  <2>8. DOMAIN terms' = DOMAIN terms \ {t} /\ \A u \in DOMAIN terms' : terms'[u] = terms[u]
    BY <2>1
  <2>9. Scopes!Referred' \subseteq Scopes!Referred
    BY <1>1, <2>5, <2>7, <2>8 DEF Scopes!Referred
  <2>10. \A i, j \in DOMAIN inbox' : i < j => i \in DOMAIN inbox
    BY <2>6
  <2>11. \A i \in DOMAIN inbox : inbox[i].op = "Create" \/ inbox[i].op = "Abandon"
    <3> SUFFICES ASSUME NEW i \in DOMAIN inbox PROVE inbox[i].op = "Create" \/ inbox[i].op = "Abandon"
      OBVIOUS
    <3>1. inbox[i] \in Scopes!Work
      BY DEF Scopes!TypeOK
    <3> QED BY <3>1 DEF Scopes!Work
  <2>12. \A i, j \in DOMAIN inbox' :
           inbox'[i].n = inbox'[j].n /\ i < j => inbox'[i].op = "Create" /\ inbox'[j].op = "Abandon"
    <3> SUFFICES ASSUME NEW i \in DOMAIN inbox', NEW j \in DOMAIN inbox', inbox'[i].n = inbox'[j].n, i < j
                 PROVE  inbox'[i].op = "Create" /\ inbox'[j].op = "Abandon"
      OBVIOUS
    <3>1. i \in DOMAIN inbox /\ inbox'[i] = inbox[i]
      BY <2>6, <2>10
    <3>2. CASE j \in DOMAIN inbox /\ inbox'[j] = inbox[j]
      BY <3>1, <3>2 DEF Scopes!WorkRight
    <3>3. CASE inbox'[j] = item
      BY <2>2, <2>4, <2>11, <3>1, <3>3
    <3> QED BY <2>6, <3>2, <3>3
  <2>13. \A i \in DOMAIN inbox' : inbox'[i].op = "Abandon" => \A u \in DOMAIN terms' : terms'[u] # inbox'[i].n
    BY <2>2, <2>3, <2>6, <2>8 DEF Scopes!WorkRight
  <2>14. Scopes!WorkRight'
    BY <2>12, <2>13 DEF Scopes!WorkRight
  <2> QED BY <1>4, <2>6, <2>7, <2>8, <2>9, <2>14
<1> QED BY <1>5, <1>6

\* A child that has its turn keeps its scope: it leaves the pipes it holds.
LEMMA BecomesKeeps ==
  ASSUME Scopes!IInv, NEW k \in Scopes!Launches, NEW child \in {"running", "hasty", "dead"},
         scope' = Scopes!Becomes(k, child), scope[k].child # "none",
         child = "running" => scope[k].pipe # "open",
         UNCHANGED <<term, terms, units, inbox, bus, made, last, late>>
  PROVE  Scopes!IInv'
<1> USE DEF Scopes!IInv, Scopes!NoOne
<1> DEFINE R == Infos
<1>1. /\ Scopes!Referred' = Scopes!Referred /\ Scopes!Called' = Scopes!Called
      /\ Scopes!Queued' = Scopes!Queued /\ Scopes!Signalled' = Scopes!Signalled
  BY Unmoved
<1>2. ASSUME NEW n \in Scopes!Launches
      PROVE  /\ scope'[n].addr = scope[n].addr /\ scope'[n].id = scope[n].id /\ scope'[n].alive = scope[n].alive
             /\ scope'[n].pipe = scope[n].pipe
             /\ scope'[n].child = (IF n = k THEN child ELSE scope[n].child)
             /\ scope'[n] \in R
  <2>1. scope'[n] = [IF n = k THEN [scope[k] EXCEPT !.child = child] ELSE scope[n] EXCEPT !.copies = @ \ {k}]
    BY DEF Scopes!Becomes
  <2>2. scope[n] \in R
    BY DEF Scopes!TypeOK
  <2>3. CASE n = k
    <3> DEFINE r == [scope[k] EXCEPT !.child = child]
    <3>1. r \in R /\ scope'[n] = [r EXCEPT !.copies = @ \ {k}]
      BY <2>1, <2>2, <2>3
    <3>2. r.addr = scope[n].addr /\ r.id = scope[n].id /\ r.alive = scope[n].alive /\ r.pipe = scope[n].pipe
          /\ r.child = child
      BY <2>2, <2>3
    <3> HIDE DEF r
    <3> QED BY <2>3, <3>1, <3>2
  <2>4. CASE n # k
    BY <2>1, <2>2, <2>4
  <2> QED BY <2>3, <2>4
<1>3. scope' \in [Scopes!Launches -> R]
  <2>1. scope' = [n \in Scopes!Launches |-> scope'[n]]
    BY DEF Scopes!Becomes
  <2> HIDE DEF R
  <2> QED BY <1>2, <2>1
<1>4. Scopes!TypeOK'
  BY <1>3 DEF Scopes!TypeOK
<1> HIDE DEF R
<1>5. Scopes!WorkRight' /\ Scopes!NameRight'
  BY DEF Scopes!WorkRight, Scopes!NameRight
<1>6. ASSUME NEW t \in Addrs PROVE Scopes!ChildRight(t)'
  <2>1. term[t].child \in {0} \cup Scopes!Launches
    BY DEF Scopes!TypeOK
  <2>2. Scopes!ChildRight(t)
    OBVIOUS
  <2> QED BY <1>1, <1>2, <2>1, <2>2 DEF Scopes!ChildRight
<1>7. ASSUME NEW n \in Scopes!Launches PROVE Scopes!PipeRight(n)'
  <2>1. Scopes!PipeRight(n) /\ scope[n].pipe \in {"none", "open"} \cup Scopes!Closings
    BY DEF Scopes!TypeOK
  <2>2. n = k => scope[n].child # "none" /\ (child = "running" => scope[n].pipe # "open")
    OBVIOUS
  <2> QED BY <1>1, <1>2, <2>1, <2>2 DEF Scopes!PipeRight
<1> QED BY <1>4, <1>5, <1>6, <1>7

LEMMA ChildKeeps ==
  ASSUME Scopes!IInv, NEW n \in Scopes!Launches, Scopes!Exec(n) \/ Scopes!ExecAnyway(n) \/ Scopes!Exit(n)
  PROVE  Scopes!IInv'
<1>1. CASE Scopes!Exec(n)
  <2>1. /\ scope' = Scopes!Becomes(n, "running") /\ scope[n].child # "none" /\ scope[n].pipe # "open"
        /\ UNCHANGED <<term, terms, units, inbox, bus, made, last, late>>
    BY <1>1 DEF Scopes!Exec, Scopes!Waiting, Scopes!Hung
  <2> QED BY <2>1, BecomesKeeps
<1>2. CASE Scopes!ExecAnyway(n)
  <2>1. /\ scope' = Scopes!Becomes(n, "hasty") /\ scope[n].child # "none"
        /\ UNCHANGED <<term, terms, units, inbox, bus, made, last, late>>
    BY <1>2 DEF Scopes!ExecAnyway, Scopes!Waiting
  <2> QED BY <2>1, BecomesKeeps
<1>3. CASE Scopes!Exit(n)
  <2>1. /\ scope' = Scopes!Becomes(n, "dead") /\ scope[n].child # "none"
        /\ UNCHANGED <<term, terms, units, inbox, bus, made, last, late>>
    BY <1>3 DEF Scopes!Exit
  <2> QED BY <2>1, BecomesKeeps
<1> QED BY <1>1, <1>2, <1>3

\* What happens on the bus is known to the scoper, or remembered as silent.
LEMMA BusKeeps ==
  ASSUME Scopes!IInv, UNCHANGED <<term, scope, terms, units, inbox, last, late>>,
         bus' \in Buses,
         made \subseteq made', Scopes!Called' \subseteq Scopes!Called,
         bus.jobs \cup Scopes!Signalled \cup bus.silent \subseteq (bus.jobs \cup Scopes!Signalled \cup bus.silent)',
         \A i \in DOMAIN bus'.signals : bus'.signals[i].result = "done" => bus'.signals[i].n \in made'
  PROVE  Scopes!IInv'
<1> USE DEF Scopes!IInv, Scopes!NoOne
<1>1. Scopes!Referred' = Scopes!Referred /\ Scopes!Queued' = Scopes!Queued
  BY DEF Scopes!Referred, Scopes!Queued
<1>2. made' \subseteq Scopes!Called'
  BY DEF Scopes!Called
<1>3. Scopes!Called \subseteq Scopes!Launches
  <2>1. ASSUME NEW i \in DOMAIN bus.signals PROVE bus.signals[i].n \in Scopes!Launches
    <3>1. bus.signals[i] \in Scopes!Results
      BY DEF Scopes!TypeOK
    <3> QED BY <3>1 DEF Scopes!Results
  <2> QED BY <2>1 DEF Scopes!TypeOK, Scopes!Called, Scopes!Signalled
<1>4. Scopes!TypeOK'
  BY <1>2, <1>3 DEF Scopes!TypeOK
<1>5. Scopes!WorkRight' /\ Scopes!NameRight'
  BY DEF Scopes!WorkRight, Scopes!NameRight
<1>6. ASSUME NEW t \in Addrs PROVE Scopes!ChildRight(t)'
  BY <1>1 DEF Scopes!ChildRight
<1>7. ASSUME NEW n \in Scopes!Launches PROVE Scopes!PipeRight(n)'
  BY <1>1 DEF Scopes!PipeRight
<1> QED BY <1>4, <1>5, <1>6, <1>7

\* A signal is sent for a scope that was asked for.
LEMMA SignalKeeps ==
  ASSUME Scopes!IInv, NEW n \in Scopes!Called, NEW r \in Scopes!Results, r.n = n,
         UNCHANGED <<term, scope, terms, units, inbox, last, late>>,
         bus' \in Buses,
         bus'.signals = Append(bus.signals, r), bus'.silent = bus.silent,
         bus.jobs \ {n} \subseteq bus'.jobs, bus'.jobs \subseteq bus.jobs,
         made \subseteq made', made' \subseteq made \cup {n}, r.result = "done" => n \in made'
  PROVE  Scopes!IInv'
<1>1. /\ About(bus'.signals) = About(bus.signals) \cup {n}
      /\ \A i \in DOMAIN bus'.signals : (i \in DOMAIN bus.signals /\ bus'.signals[i] = bus.signals[i]) \/ bus'.signals[i] = r
  <2>1. bus.signals \in Seq(Scopes!Results)
    BY DEF Scopes!IInv, Scopes!TypeOK
  <2> QED BY <2>1, Behind
<1>2. Scopes!Signalled' = Scopes!Signalled \cup {n}
  BY <1>1, AboutFacts
<1>3. Scopes!Called' \subseteq Scopes!Called
  BY <1>2 DEF Scopes!Called
<1>4. \A i \in DOMAIN bus'.signals : bus'.signals[i].result = "done" => bus'.signals[i].n \in made'
  BY <1>1 DEF Scopes!IInv
<1>5. bus.jobs \cup Scopes!Signalled \cup bus.silent \subseteq (bus.jobs \cup Scopes!Signalled \cup bus.silent)'
  BY <1>2
<1> QED BY <1>3, <1>4, <1>5, BusKeeps

LEMMA EndJobKeeps ==
  ASSUME Scopes!IInv, NEW n \in Scopes!Launches, NEW result \in {"done", "failed", "refused"}, Scopes!EndJob(n, result)
  PROVE  Scopes!IInv'
<1> DEFINE r == [n |-> n, result |-> result]
<1>1. /\ n \in bus.jobs /\ UNCHANGED <<term, scope, terms, units, inbox, last, late>>
      /\ made' = (IF result = "done" THEN made \cup {n} ELSE made)
      /\ bus' = IF result = "refused" THEN [bus EXCEPT !.jobs = @ \ {n}, !.silent = @ \cup {n}]
                ELSE [bus EXCEPT !.jobs = @ \ {n}, !.signals = Append(@, r)]
  BY DEF Scopes!EndJob
<1>2. /\ bus \in Buses
      /\ n \in Scopes!Called
  BY <1>1 DEF Scopes!IInv, Scopes!TypeOK, Scopes!Called
<1>3. CASE result = "refused"
  <2>1. /\ bus'.jobs = bus.jobs \ {n} /\ bus'.silent = bus.silent \cup {n} /\ bus'.signals = bus.signals
        /\ bus' \in Buses
        /\ made' = made
    BY <1>1, <1>2, <1>3
  <2>2. Scopes!Signalled' = Scopes!Signalled
    BY <2>1 DEF Scopes!Signalled
  <2>3. /\ Scopes!Called' \subseteq Scopes!Called
        /\ bus.jobs \cup Scopes!Signalled \cup bus.silent \subseteq (bus.jobs \cup Scopes!Signalled \cup bus.silent)'
    BY <2>1, <2>2 DEF Scopes!Called
  <2>4. \A i \in DOMAIN bus'.signals : bus'.signals[i].result = "done" => bus'.signals[i].n \in made'
    BY <2>1 DEF Scopes!IInv
  <2> QED BY <1>1, <2>1, <2>3, <2>4, BusKeeps
<1>4. CASE result # "refused"
  <2>1. r \in Scopes!Results /\ r.n = n /\ r.result = result
    BY <1>4 DEF Scopes!Results
  <2> HIDE DEF r
  <2>2. Append(bus.signals, r) \in Seq(Scopes!Results)
    BY <1>2, <2>1, Behind
  <2>3. /\ bus'.jobs = bus.jobs \ {n} /\ bus'.silent = bus.silent /\ bus'.signals = Append(bus.signals, r)
        /\ bus' \in Buses
    BY <1>1, <1>2, <1>4, <2>2
  <2>4. made \subseteq made' /\ made' \subseteq made \cup {n} /\ (r.result = "done" => n \in made')
    BY <1>1, <2>1
  <2>5. bus.jobs \ {n} \subseteq bus'.jobs /\ bus'.jobs \subseteq bus.jobs
    BY <2>3
  <2> QED BY <1>1, <1>2, <2>1, <2>3, <2>4, <2>5, SignalKeeps
<1> QED BY <1>3, <1>4

LEMMA StopScopeKeeps ==
  ASSUME Scopes!IInv, NEW n \in Scopes!Launches, Scopes!StopScope(n)
  PROVE  Scopes!IInv'
<1> DEFINE r == [n |-> n, result |-> "done"]
<1>1. /\ n \in made /\ bus.stops > 0 /\ UNCHANGED <<term, scope, terms, units, inbox, made, last, late>>
      /\ bus' = [bus EXCEPT !.stops = @ - 1, !.signals = Append(@, r)]
  BY DEF Scopes!StopScope
<1>2. /\ bus \in Buses
      /\ n \in Scopes!Called
  BY <1>1 DEF Scopes!IInv, Scopes!TypeOK, Scopes!Called
<1>3. r \in Scopes!Results /\ r.n = n /\ r.result = "done"
  BY DEF Scopes!Results
<1> HIDE DEF r
<1>4. Append(bus.signals, r) \in Seq(Scopes!Results) /\ bus.stops - 1 \in Nat
  BY <1>1, <1>2, <1>3, Behind
<1>5. /\ bus'.jobs = bus.jobs /\ bus'.silent = bus.silent /\ bus'.signals = Append(bus.signals, r)
      /\ bus' \in Buses
  BY <1>1, <1>2, <1>4
<1> QED BY <1>1, <1>2, <1>3, <1>5, SignalKeeps

LEMMA LoseBusKeeps ==
  ASSUME Scopes!IInv, Scopes!LoseBus
  PROVE  Scopes!IInv'
<1>1. /\ UNCHANGED <<term, scope, terms, units, inbox, made, last, late>>
      /\ bus' = [bus EXCEPT !.up = FALSE, !.jobs = {}, !.signals = <<>>,
                            !.silent = @ \cup bus.jobs \cup Scopes!Signalled]
  BY DEF Scopes!LoseBus, Scopes!Signalled
<1>2. bus \in Buses
  BY DEF Scopes!IInv, Scopes!TypeOK
<1>3. Scopes!Signalled \subseteq Scopes!Launches
  <2>1. ASSUME NEW i \in DOMAIN bus.signals PROVE bus.signals[i].n \in Scopes!Launches
    <3>1. bus.signals[i] \in Scopes!Results
      BY <1>2
    <3> QED BY <3>1 DEF Scopes!Results
  <2> QED BY <2>1 DEF Scopes!Signalled
<1>4. <<>> \in Seq(Scopes!Results) /\ DOMAIN <<>> = {}
  OBVIOUS
<1>5. /\ bus'.jobs = {} /\ bus'.silent = bus.silent \cup bus.jobs \cup Scopes!Signalled /\ bus'.signals = <<>>
      /\ bus' \in Buses
  BY <1>1, <1>2, <1>3, <1>4
<1>6. Scopes!Signalled' = {}
  BY <1>4, <1>5 DEF Scopes!Signalled
<1>7. /\ Scopes!Called' \subseteq Scopes!Called
      /\ bus.jobs \cup Scopes!Signalled \cup bus.silent \subseteq (bus.jobs \cup Scopes!Signalled \cup bus.silent)'
  BY <1>1, <1>5, <1>6 DEF Scopes!Called
<1> QED BY <1>1, <1>4, <1>5, <1>7, BusKeeps

\* A pipe that is closed: nothing else of the ScopeInfo changes, and a pipe is never
\* opened again.
LEMMA Closed ==
  ASSUME Scopes!IInv, NEW k \in Scopes!Launches, NEW why \in Scopes!Closings
  PROVE  LET s == Scopes!ClosePipe(k, why)
         IN /\ s \in [Scopes!Launches -> Infos]
            /\ \A n \in Scopes!Launches :
                 /\ s[n].addr = scope[n].addr /\ s[n].alive = scope[n].alive /\ s[n].child = scope[n].child
                 /\ s[n].pipe = IF n = k /\ scope[n].pipe = "open" THEN why ELSE scope[n].pipe
<1> DEFINE R == Infos
           s == Scopes!ClosePipe(k, why)
           p == IF scope[k].pipe = "open" THEN why ELSE scope[k].pipe
<1>1. scope \in [Scopes!Launches -> R]
  BY DEF Scopes!IInv, Scopes!TypeOK, Scopes!NoOne
<1>2. /\ s = [n \in Scopes!Launches |-> s[n]]
      /\ s[k] = [scope[k] EXCEPT !.pipe = p]
      /\ \A n \in Scopes!Launches \ {k} : s[n] = scope[n]
  <2> HIDE DEF R
  <2> QED BY <1>1 DEF Scopes!ClosePipe
<1>3. scope[k] \in R
  BY <1>1
<1>4. p \in {"none", "open"} \cup Scopes!Closings
  BY <1>3
<1> HIDE DEF s, p
<1>5. /\ s[k] \in R /\ s[k].pipe = p
      /\ s[k].addr = scope[k].addr /\ s[k].alive = scope[k].alive /\ s[k].child = scope[k].child
  BY <1>2, <1>3, <1>4
<1>6. s \in [Scopes!Launches -> R]
  <2> HIDE DEF R
  <2> QED BY <1>1, <1>2, <1>5
<1> QED BY <1>2, <1>5, <1>6 DEF s, p

\* handleCreate: the child is in the table and its job on the bus, or its pipe is
\* closed; the queue moves up.
LEMMA HandleCreateKeeps ==
  ASSUME Scopes!IInv, NEW sent \in BOOLEAN, Scopes!HandleCreate(sent)
  PROVE  Scopes!IInv'
<1> USE DEF Scopes!IInv, Scopes!NoOne
<1> DEFINE k == Head(inbox).n
<1>1. /\ inbox # <<>> /\ inbox' = Tail(inbox) /\ UNCHANGED <<term, terms, made, last, late>>
      /\ IF sent THEN units' = units \cup {k} /\ bus' = [bus EXCEPT !.jobs = @ \cup {k}] /\ scope' = scope
         ELSE scope' = Scopes!ClosePipe(k, "failed") /\ UNCHANGED <<units, bus>>
  BY DEF Scopes!HandleCreate
<1>2. /\ inbox' \in Seq(Scopes!Work) /\ Head(inbox) \in Scopes!Work
      /\ \A i \in DOMAIN inbox' : i + 1 \in DOMAIN inbox /\ inbox'[i] = inbox[i + 1] /\ i \in Nat
      /\ About(inbox) = About(inbox') \cup {k}
  BY <1>1, First DEF Scopes!TypeOK
<1>3. k \in Scopes!Launches /\ k \in Scopes!Queued /\ Scopes!Queued' \cup {k} = Scopes!Queued
  BY <1>2, AboutFacts DEF Scopes!Work
<1> HIDE DEF k
<1>4. Scopes!WorkRight'
  <2>1. \A i, j \in DOMAIN inbox' :
          inbox'[i].n = inbox'[j].n /\ i < j => inbox'[i].op = "Create" /\ inbox'[j].op = "Abandon"
    <3> SUFFICES ASSUME NEW i \in DOMAIN inbox', NEW j \in DOMAIN inbox', inbox'[i].n = inbox'[j].n, i < j
                 PROVE  inbox'[i].op = "Create" /\ inbox'[j].op = "Abandon"
      OBVIOUS
    <3>1. /\ i + 1 \in DOMAIN inbox /\ j + 1 \in DOMAIN inbox /\ i + 1 < j + 1
          /\ inbox'[i] = inbox[i + 1] /\ inbox'[j] = inbox[j + 1]
      BY <1>2
    <3> HIDE DEF Scopes!IInv
    <3>2. Scopes!WorkRight
      BY DEF Scopes!IInv
    <3> QED BY <3>1, <3>2 DEF Scopes!WorkRight
  <2>2. ASSUME NEW i \in DOMAIN inbox', inbox'[i].op = "Abandon", NEW t \in DOMAIN terms'
        PROVE  terms'[t] # inbox'[i].n
    BY <1>1, <1>2, <2>2 DEF Scopes!WorkRight
  <2> QED BY <2>1, <2>2 DEF Scopes!WorkRight
<1>5. Scopes!NameRight'
  BY <1>1 DEF Scopes!NameRight
<1>6. bus \in Buses
  BY DEF Scopes!TypeOK
<1>7. bus'.silent = bus.silent /\ bus'.signals = bus.signals /\ Scopes!Signalled' = Scopes!Signalled
  BY <1>1, <1>6 DEF Scopes!Signalled
<1>8. CASE sent
  <2>1. units' = units \cup {k} /\ bus' = [bus EXCEPT !.jobs = @ \cup {k}] /\ scope' = scope
    BY <1>1, <1>8
  <2>2. /\ bus'.jobs = bus.jobs \cup {k}
        /\ bus' \in Buses
    BY <1>3, <1>6, <2>1
  <2>3. Scopes!Referred' = Scopes!Referred /\ Scopes!Called' = Scopes!Called \cup {k} /\ k \in Scopes!Referred
    BY <1>1, <1>3, <1>7, <2>1, <2>2 DEF Scopes!Referred, Scopes!Called
  <2>4. Scopes!TypeOK'
    BY <1>1, <1>2, <1>3, <2>1, <2>2 DEF Scopes!TypeOK
  <2>5. ASSUME NEW t \in Addrs PROVE Scopes!ChildRight(t)'
    BY <1>1, <2>1, <2>3 DEF Scopes!ChildRight
  <2>6. ASSUME NEW n \in Scopes!Launches PROVE Scopes!PipeRight(n)'
    <3>1. Scopes!PipeRight(n)
      OBVIOUS
    <3> QED BY <1>1, <1>3, <1>7, <2>1, <2>2, <2>3, <3>1 DEF Scopes!PipeRight
  <2> QED BY <1>1, <1>4, <1>5, <1>7, <2>4, <2>5, <2>6
<1>9. CASE ~sent
  <2>1. scope' = Scopes!ClosePipe(k, "failed") /\ UNCHANGED <<units, bus>>
    BY <1>1, <1>9
  <2>2. "failed" \in Scopes!Closings /\ "failed" # "open" /\ "failed" # "none" /\ "failed" # "done"
    BY DEF Scopes!Closings
  <2>3. /\ scope' \in [Scopes!Launches -> Infos]
        /\ \A n \in Scopes!Launches :
             /\ scope'[n].addr = scope[n].addr /\ scope'[n].alive = scope[n].alive /\ scope'[n].child = scope[n].child
             /\ scope'[n].pipe = IF n = k /\ scope[n].pipe = "open" THEN "failed" ELSE scope[n].pipe
    <3> HIDE DEF Scopes!IInv
    <3> QED BY <1>3, <2>1, <2>2, Closed
  <2>4. Scopes!Referred' \subseteq Scopes!Referred /\ Scopes!Called' = Scopes!Called
    BY <1>1, <1>3, <1>7, <2>1 DEF Scopes!Referred, Scopes!Called
  <2>5. Scopes!TypeOK'
    BY <1>1, <1>2, <2>1, <2>3 DEF Scopes!TypeOK
  <2>6. ASSUME NEW t \in Addrs PROVE Scopes!ChildRight(t)'
    <3>1. Scopes!ChildRight(t) /\ term[t].child \in {0} \cup Scopes!Launches
      BY DEF Scopes!TypeOK
    <3> QED BY <1>1, <2>3, <2>4, <3>1 DEF Scopes!ChildRight
  <2>7. ASSUME NEW n \in Scopes!Launches PROVE Scopes!PipeRight(n)'
    <3>1. Scopes!PipeRight(n)
      OBVIOUS
    <3> QED BY <1>1, <1>3, <1>7, <2>1, <2>2, <2>3, <2>4, <3>1 DEF Scopes!PipeRight
  <2> QED BY <1>1, <1>4, <1>5, <2>1, <2>5, <2>6, <2>7
<1> QED BY <1>8, <1>9

\* handleAbandon: nothing refers to the ScopeInfo any more when it is deleted.
LEMMA HandleAbandonKeeps == ASSUME Scopes!IInv, Scopes!HandleAbandon PROVE Scopes!IInv'
<1> USE DEF Scopes!IInv, Scopes!NoOne
<1> DEFINE k == Head(inbox).n
           s == Scopes!ClosePipe(k, "abandoned")
<1>1. /\ inbox # <<>> /\ inbox' = Tail(inbox) /\ UNCHANGED <<term, terms, bus, made, last, late>>
      /\ Head(inbox).op = "Abandon" /\ units' = units \ {k} /\ scope' = [s EXCEPT ![k].alive = FALSE]
  BY DEF Scopes!HandleAbandon
<1>2. /\ inbox' \in Seq(Scopes!Work) /\ Head(inbox) \in Scopes!Work /\ 1 \in DOMAIN inbox /\ Head(inbox) = inbox[1]
      /\ \A i \in DOMAIN inbox' : i + 1 \in DOMAIN inbox /\ inbox'[i] = inbox[i + 1] /\ i \in Nat \ {0}
      /\ About(inbox) = About(inbox') \cup {k}
  BY <1>1, First DEF Scopes!TypeOK
<1>3. k \in Scopes!Launches /\ k \in Scopes!Queued /\ Scopes!Queued' \cup {k} = Scopes!Queued
  BY <1>2, AboutFacts DEF Scopes!Work
<1>4. /\ \A i \in DOMAIN inbox' : inbox'[i].n # k
      /\ \A t \in DOMAIN terms : terms[t] # k
  <2>1. Scopes!WorkRight /\ inbox[1].op = "Abandon" /\ inbox[1].n = k
    BY <1>1, <1>2
  <2>2. ASSUME NEW i \in DOMAIN inbox', inbox'[i].n = k PROVE FALSE
    <3>1. i + 1 \in DOMAIN inbox /\ inbox[i + 1].n = k /\ 1 < i + 1
      BY <1>2, <2>2
    <3> HIDE DEF Scopes!IInv
    <3> QED BY <1>2, <2>1, <3>1 DEF Scopes!WorkRight
  <2> QED BY <1>2, <2>1, <2>2 DEF Scopes!WorkRight
<1> HIDE DEF k
<1>5. k \notin Scopes!Referred' /\ Scopes!Referred' \subseteq Scopes!Referred /\ k \in Scopes!Referred
  BY <1>1, <1>3, <1>4 DEF Scopes!Referred, Scopes!Queued
<1>6. "abandoned" \in Scopes!Closings /\ "abandoned" # "open" /\ "abandoned" # "none" /\ "abandoned" # "done"
  BY DEF Scopes!Closings
<1> DEFINE R == Infos
<1>7. /\ s \in [Scopes!Launches -> R]
      /\ \A n \in Scopes!Launches :
           /\ s[n].addr = scope[n].addr /\ s[n].alive = scope[n].alive /\ s[n].child = scope[n].child
           /\ s[n].pipe = IF n = k /\ scope[n].pipe = "open" THEN "abandoned" ELSE scope[n].pipe
  <2> HIDE DEF Scopes!IInv
  <2> QED BY <1>3, <1>6, Closed
<1> HIDE DEF s
<1>8. /\ scope' \in [Scopes!Launches -> R]
      /\ \A n \in Scopes!Launches :
           /\ scope'[n].addr = scope[n].addr /\ scope'[n].child = scope[n].child
           /\ scope'[n].alive = IF n = k THEN FALSE ELSE scope[n].alive
           /\ scope'[n].pipe = IF n = k /\ scope[n].pipe = "open" THEN "abandoned" ELSE scope[n].pipe
  <2>1. /\ scope' = [n \in Scopes!Launches |-> scope'[n]] /\ scope'[k] = [s[k] EXCEPT !.alive = FALSE]
        /\ \A n \in Scopes!Launches \ {k} : scope'[n] = s[n]
    <3> HIDE DEF R
    <3> QED BY <1>1, <1>3, <1>7
  <2>2. s[k] \in R
    BY <1>3, <1>7
  <2>3. /\ scope'[k] \in R /\ scope'[k].alive = FALSE
        /\ scope'[k].addr = s[k].addr /\ scope'[k].child = s[k].child /\ scope'[k].pipe = s[k].pipe
    BY <2>1, <2>2
  <2>4. scope' \in [Scopes!Launches -> R]
    <3> HIDE DEF R
    <3> QED BY <1>7, <2>1, <2>3
  <2> HIDE DEF R, Scopes!IInv
  <2>5. ASSUME NEW n \in Scopes!Launches
        PROVE  /\ scope'[n].addr = scope[n].addr /\ scope'[n].child = scope[n].child
               /\ scope'[n].alive = IF n = k THEN FALSE ELSE scope[n].alive
               /\ scope'[n].pipe = IF n = k /\ scope[n].pipe = "open" THEN "abandoned" ELSE scope[n].pipe
    <3>1. CASE n = k
      BY <1>7, <2>3, <3>1
    <3>2. CASE n # k
      BY <1>7, <2>1, <3>2
    <3> QED BY <3>1, <3>2
  <2> QED BY <2>4, <2>5
<1>9. Scopes!TypeOK'
  BY <1>1, <1>2, <1>8 DEF Scopes!TypeOK
<1> HIDE DEF R
<1>10. Scopes!WorkRight'
  <2>1. \A i, j \in DOMAIN inbox' :
          inbox'[i].n = inbox'[j].n /\ i < j => inbox'[i].op = "Create" /\ inbox'[j].op = "Abandon"
    <3> SUFFICES ASSUME NEW i \in DOMAIN inbox', NEW j \in DOMAIN inbox', inbox'[i].n = inbox'[j].n, i < j
                 PROVE  inbox'[i].op = "Create" /\ inbox'[j].op = "Abandon"
      OBVIOUS
    <3>1. /\ i + 1 \in DOMAIN inbox /\ j + 1 \in DOMAIN inbox /\ i + 1 < j + 1
          /\ inbox'[i] = inbox[i + 1] /\ inbox'[j] = inbox[j + 1]
      BY <1>2
    <3>2. Scopes!WorkRight
      OBVIOUS
    <3> HIDE DEF Scopes!IInv
    <3> QED BY <3>1, <3>2 DEF Scopes!WorkRight
  <2>2. ASSUME NEW i \in DOMAIN inbox', inbox'[i].op = "Abandon", NEW t \in DOMAIN terms'
        PROVE  terms'[t] # inbox'[i].n
    BY <1>1, <1>2, <2>2 DEF Scopes!WorkRight
  <2> QED BY <2>1, <2>2 DEF Scopes!WorkRight
<1>11. Scopes!NameRight'
  BY <1>1 DEF Scopes!NameRight
<1>12. Scopes!Called' = Scopes!Called /\ Scopes!Signalled' = Scopes!Signalled
  BY <1>1 DEF Scopes!Called, Scopes!Signalled
<1>13. ASSUME NEW t \in Addrs PROVE Scopes!ChildRight(t)'
  <2>1. Scopes!ChildRight(t) /\ term[t].child \in {0} \cup Scopes!Launches
    BY DEF Scopes!TypeOK
  <2>2. term[t].pc = "forked" => term[t].child # k
    BY <1>5, <2>1 DEF Scopes!ChildRight
  <2>3. term[t].child \in Scopes!Launches => scope'[term[t].child].addr = scope[term[t].child].addr
    BY <1>8
  <2>4. term[t].child \in Scopes!Launches /\ term[t].child # k => scope'[term[t].child].alive = scope[term[t].child].alive
    BY <1>8
  <2> HIDE DEF Scopes!IInv
  <2> QED BY <1>1, <1>5, <2>1, <2>2, <2>3, <2>4 DEF Scopes!ChildRight
<1>14. ASSUME NEW n \in Scopes!Launches PROVE Scopes!PipeRight(n)'
  <2>1. Scopes!PipeRight(n)
    OBVIOUS
  <2>2. CASE n = k
    <3>1. /\ scope'[n].pipe # "open" /\ scope'[n].pipe \in {scope[n].pipe, "abandoned"}
          /\ scope'[n].child = scope[n].child /\ n \notin Scopes!Referred'
      BY <1>5, <1>6, <1>8, <2>2
    <3> HIDE DEF Scopes!IInv
    <3> QED BY <1>1, <1>5, <1>6, <1>12, <2>1, <3>1 DEF Scopes!PipeRight
  <2>3. CASE n # k
    BY <1>1, <1>3, <1>5, <1>8, <1>12, <2>1, <2>3 DEF Scopes!PipeRight
  <2> QED BY <2>2, <2>3
<1> QED BY <1>1, <1>9, <1>10, <1>11, <1>13, <1>14

\* handleJob: the pipe of a known scope is closed, and the name goes to the terminal
\* that the scope was made for, or the change is remembered as late.
LEMMA HandleJobKeeps == ASSUME Scopes!IInv, Scopes!HandleJob PROVE Scopes!IInv'
<1> USE DEF Scopes!IInv, Scopes!NoOne
<1> DEFINE r == Head(bus.signals)
           k == r.n
           t == scope[k].addr
           known == k \in units
           named == known /\ r.result = "done" /\ Scopes!Named(k)
<1>1. /\ bus.signals # <<>> /\ UNCHANGED <<terms, units, inbox, made, last>>
      /\ scope' = IF known THEN Scopes!ClosePipe(k, r.result) ELSE scope
      /\ term' = IF named THEN [term EXCEPT ![t].name = k] ELSE term
      /\ late' = (late \/ (named /\ terms[t] # k /\ term[t].id = scope[k].id))
      /\ bus' = [bus EXCEPT !.signals = Tail(@)]
  BY DEF Scopes!HandleJob
<1>2. bus \in Buses
  BY DEF Scopes!TypeOK
<1>3. /\ Tail(bus.signals) \in Seq(Scopes!Results) /\ r \in Scopes!Results /\ 1 \in DOMAIN bus.signals /\ r = bus.signals[1]
      /\ \A i \in DOMAIN Tail(bus.signals) :
           i + 1 \in DOMAIN bus.signals /\ Tail(bus.signals)[i] = bus.signals[i + 1]
      /\ About(bus.signals) = About(Tail(bus.signals)) \cup {r.n}
  <2> DEFINE q == bus.signals
  <2>1. q \in Seq(Scopes!Results) /\ q # <<>> /\ r = Head(q)
    BY <1>1, <1>2
  <2> HIDE DEF q, r
  <2>2. /\ Tail(q) \in Seq(Scopes!Results) /\ Len(q) \in Nat \ {0} /\ DOMAIN q = 1 .. Len(q)
        /\ Head(q) = q[1] /\ q[1] \in Scopes!Results /\ DOMAIN Tail(q) = 1 .. Len(q) - 1
        /\ \A i \in 1 .. Len(q) - 1 : i + 1 \in DOMAIN q /\ Tail(q)[i] = q[i + 1]
        /\ About(q) = About(Tail(q)) \cup {Head(q).n}
    <3> HIDE DEF Scopes!IInv
    <3> QED BY <2>1, First
  <2>3. 1 \in DOMAIN q
    BY <2>2
  <2> QED BY <2>1, <2>2, <2>3 DEF q
<1>4. /\ k \in Scopes!Launches /\ r.result \in {"done", "failed"} /\ r.result \in Scopes!Closings
      /\ r.result = "done" => k \in made
  BY <1>3 DEF Scopes!Results, Scopes!Closings
<1> HIDE DEF r
<1>5. /\ bus'.jobs = bus.jobs /\ bus'.silent = bus.silent /\ bus'.signals = Tail(bus.signals)
      /\ bus' \in Buses
  BY <1>1, <1>2, <1>3
<1>6. Scopes!Signalled' \cup {k} = Scopes!Signalled /\ k \in Scopes!Called
  BY <1>3, <1>5, AboutFacts DEF Scopes!Called
<1>7. /\ Scopes!Referred' = Scopes!Referred /\ Scopes!Queued' = Scopes!Queued
      /\ Scopes!Called' \subseteq Scopes!Called
  BY <1>1, <1>5, <1>6 DEF Scopes!Referred, Scopes!Queued, Scopes!Called
<1>8. ASSUME NEW i \in DOMAIN bus'.signals, bus'.signals[i].result = "done"
      PROVE  bus'.signals[i].n \in made'
  <2>1. i + 1 \in DOMAIN bus.signals /\ bus'.signals[i] = bus.signals[i + 1]
    BY <1>3, <1>5
  <2>2. \A j \in DOMAIN bus.signals : bus.signals[j].result = "done" => bus.signals[j].n \in made
    OBVIOUS
  <2> HIDE DEF Scopes!IInv
  <2> QED BY <1>1, <1>8, <2>1, <2>2
<1> DEFINE R == Infos
<1>9. /\ scope' \in [Scopes!Launches -> R]
      /\ \A n \in Scopes!Launches :
           /\ scope'[n].addr = scope[n].addr /\ scope'[n].alive = scope[n].alive /\ scope'[n].child = scope[n].child
           /\ scope'[n].pipe = IF known /\ n = k /\ scope[n].pipe = "open" THEN r.result ELSE scope[n].pipe
  <2>1. CASE known
    <3>1. scope' = Scopes!ClosePipe(k, r.result)
      BY <1>1, <2>1
    <3> HIDE DEF Scopes!IInv, k, known
    <3> QED BY <1>4, <2>1, <3>1, Closed
  <2>2. CASE ~known
    BY <1>1, <2>2 DEF Scopes!TypeOK
  <2> QED BY <2>1, <2>2
<1> DEFINE Q == Terminals
<1>10. /\ term' \in [Addrs -> Q]
       /\ \A u \in Addrs : /\ term'[u].pc = term[u].pc /\ term'[u].child = term[u].child
                           /\ term'[u].name = IF named /\ u = t THEN k ELSE term[u].name
       /\ named => t \in DOMAIN terms /\ t \in Addrs
  <2>1. term \in [Addrs -> Q] /\ DOMAIN terms \subseteq Addrs
    BY DEF Scopes!TypeOK
  <2>2. CASE named
    <3>1. t \in DOMAIN terms /\ t \in Addrs
      BY <2>1, <2>2 DEF Scopes!Named
    <3>2. /\ term' = [u \in Addrs |-> term'[u]] /\ term'[t] = [term[t] EXCEPT !.name = k]
          /\ \A u \in Addrs \ {t} : term'[u] = term[u]
      <4> HIDE DEF Q, t, k
      <4> QED BY <1>1, <2>1, <2>2, <3>1
    <3>3. term[t] \in Q
      BY <2>1, <3>1
    <3> HIDE DEF t, k
    <3>4. term'[t] \in Q /\ term'[t].pc = term[t].pc /\ term'[t].child = term[t].child /\ term'[t].name = k
      BY <1>4, <3>2, <3>3
    <3>5. term' \in [Addrs -> Q]
      <4> HIDE DEF Q
      <4> QED BY <2>1, <3>1, <3>2, <3>4
    <3> HIDE DEF Q
    <3> QED BY <2>2, <3>1, <3>2, <3>4, <3>5
  <2>3. CASE ~named
    <3>1. term' = term
      BY <1>1, <2>3
    <3> HIDE DEF Q, named
    <3> QED BY <2>1, <2>3, <3>1
  <2> QED BY <2>2, <2>3
<1>11. named /\ ~late' => terms[t] = k
  <2>1. named => term[t].id = scope[k].id
    BY DEF Scopes!Named
  <2> QED BY <1>1, <2>1
<1>12. ~late' => ~late
  BY <1>1
<1>13. late' \in BOOLEAN
  BY <1>1 DEF Scopes!TypeOK
<1>14. Scopes!TypeOK'
  <2> HIDE DEF named
  <2> QED BY <1>1, <1>5, <1>9, <1>10, <1>13 DEF Scopes!TypeOK
<1> HIDE DEF k, t, known, named, R, Q
<1>15. Scopes!WorkRight'
  BY <1>1 DEF Scopes!WorkRight
<1>16. Scopes!NameRight'
  <2> SUFFICES ASSUME ~late', NEW u \in Addrs, term'[u].name # 0 PROVE term'[u].name = term'[u].child
    BY DEF Scopes!NameRight
  <2>1. CASE named /\ u = t
    <3>1. terms[t] = k /\ Scopes!ChildRight(t) /\ t \in DOMAIN terms
      BY <1>10, <1>11, <2>1
    <3> QED BY <1>10, <2>1, <3>1 DEF Scopes!ChildRight
  <2>2. CASE ~(named /\ u = t)
    BY <1>10, <1>12, <2>2 DEF Scopes!NameRight
  <2> QED BY <2>1, <2>2
<1>17. ASSUME NEW u \in Addrs PROVE Scopes!ChildRight(u)'
  <2>1. Scopes!ChildRight(u) /\ term[u].child \in {0} \cup Scopes!Launches
    BY DEF Scopes!TypeOK
  <2>2. named /\ u = t => term[u].pc = "loop"
    BY <1>10, <2>1 DEF Scopes!ChildRight
  <2> QED BY <1>1, <1>7, <1>9, <1>10, <2>1, <2>2 DEF Scopes!ChildRight
<1>18. ASSUME NEW n \in Scopes!Launches PROVE Scopes!PipeRight(n)'
  <2>1. Scopes!PipeRight(n)
    OBVIOUS
  <2>2. CASE n = k
    <3>1. scope[n].pipe = "open" => known
      BY <1>6, <2>1, <2>2 DEF Scopes!PipeRight, known
    <3> QED BY <1>1, <1>4, <1>7, <1>9, <2>1, <2>2, <3>1 DEF Scopes!PipeRight, Scopes!Closings
  <2>3. CASE n # k
    BY <1>1, <1>5, <1>6, <1>7, <1>9, <1>10, <2>1, <2>3 DEF Scopes!PipeRight
  <2> QED BY <2>2, <2>3
<1> QED BY <1>8, <1>14, <1>15, <1>16, <1>17, <1>18

LEMMA ScopesNext ==
  ASSUME MaxLaunches \in Nat, Scopes!IInv, [Scopes!Next]_(Scopes!scopeVars)
  PROVE  Scopes!IInv'
<1>1. CASE UNCHANGED Scopes!scopeVars
  <2>1. UNCHANGED <<term, scope, terms, units, inbox, bus, made, last, late>>
    BY <1>1 DEF Scopes!scopeVars
  <2>2. Scopes!Called' = Scopes!Called /\ Scopes!Signalled' = Scopes!Signalled
    BY <2>1 DEF Scopes!Called, Scopes!Signalled
  <2>3. /\ bus \in Buses
        /\ \A i \in DOMAIN bus.signals : bus.signals[i].result = "done" => bus.signals[i].n \in made
    BY DEF Scopes!IInv, Scopes!TypeOK
  <2> QED BY <2>1, <2>2, <2>3, BusKeeps
<1>2. ASSUME NEW t \in Addrs,
             \/ Scopes!New(t) \/ Scopes!Fork(t) \/ Scopes!ForkFails(t) \/ Scopes!CreateScope(t)
             \/ Scopes!UnregisterTerm(t, "restarting") \/ Scopes!UnregisterTerm(t, "leaving")
             \/ Scopes!RemoveStatusAttributes(t) \/ Scopes!Delete(t)
      PROVE  Scopes!IInv'
  BY <1>2, NewKeeps, LaunchKeeps, NoChildKeeps, CreateScopeKeeps, UnregisterTermKeeps, NamelessKeeps, DeleteKeeps
<1>3. ASSUME NEW n \in Scopes!Launches,
             \/ Scopes!Exec(n) \/ Scopes!ExecAnyway(n) \/ Scopes!Exit(n) \/ Scopes!StopScope(n)
             \/ \E result \in {"done", "failed", "refused"} : Scopes!EndJob(n, result)
      PROVE  Scopes!IInv'
  BY <1>3, ChildKeeps, StopScopeKeeps, EndJobKeeps
<1>4. CASE \E sent \in BOOLEAN : Scopes!HandleCreate(sent)
  BY <1>4, HandleCreateKeeps
<1>5. CASE Scopes!HandleAbandon \/ Scopes!HandleJob \/ Scopes!LoseBus
  BY <1>5, HandleAbandonKeeps, HandleJobKeeps, LoseBusKeeps
<1> QED BY <1>1, <1>2, <1>3, <1>4, <1>5 DEF Scopes!Next

\* What is known of terminals, children, work, signals and pipes always holds.
THEOREM ScopesInvariance == MaxLaunches \in Nat /\ MaxStops \in Nat => (Scopes!Spec => []Scopes!IInv)
<1> SUFFICES ASSUME MaxLaunches \in Nat, MaxStops \in Nat PROVE Scopes!Spec => []Scopes!IInv
  OBVIOUS
<1>1. Scopes!Init => Scopes!IInv
  BY ScopesInit
<1>2. Scopes!IInv /\ [Scopes!Next]_(Scopes!scopeVars) => Scopes!IInv'
  BY ScopesNext
<1> QED BY <1>1, <1>2, PTL DEF Scopes!Spec

\* A child that was let go runs in its scope, unless there could be none; a terminal
\* is named after its own child; the scoper points to nothing deleted; and no pipe
\* is forgotten.
THEOREM ScopesAreTrue == MaxLaunches \in Nat /\ MaxStops \in Nat => (Scopes!Spec => []ScopesTrue)
<1> SUFFICES ASSUME MaxLaunches \in Nat, MaxStops \in Nat PROVE Scopes!Spec => []ScopesTrue
  OBVIOUS
<1>1. Scopes!IInv => Scopes!ScopesTrue
  <2> SUFFICES ASSUME Scopes!IInv PROVE Scopes!ScopesTrue
    OBVIOUS
  <2>1. Scopes!InScope
    BY DEF Scopes!IInv, Scopes!InScope, Scopes!PipeRight, Scopes!Closings
  <2>2. Scopes!InfosLive
    <3>1. \A n \in Scopes!Referred : n \in Scopes!Launches
      <4>1. ASSUME NEW i \in DOMAIN inbox PROVE inbox[i].n \in Scopes!Launches
        <5>1. inbox[i] \in Scopes!Work
          BY DEF Scopes!IInv, Scopes!TypeOK
        <5> QED BY <5>1 DEF Scopes!Work
      <4> QED BY <4>1 DEF Scopes!IInv, Scopes!TypeOK, Scopes!Referred, Scopes!Queued
    <3>2. \A n \in Scopes!Referred : scope[n].alive
      BY <3>1 DEF Scopes!IInv, Scopes!PipeRight
    <3>3. \A t \in DOMAIN terms : term[t].pc = "loop" /\ term[t].child = terms[t]
      BY DEF Scopes!IInv, Scopes!TypeOK, Scopes!ChildRight
    <3>4. Scopes!WorkRight
      BY DEF Scopes!IInv
    <3> QED BY <3>2, <3>3, <3>4 DEF Scopes!InfosLive, Scopes!Referred, Scopes!Queued, Scopes!WorkRight
  <2>3. Scopes!PipesClosed
    <3> SUFFICES ASSUME inbox = <<>>, bus.signals = <<>>, bus.jobs = {}, NEW n \in Scopes!Launches, scope[n].pipe = "open"
                 PROVE  n \in bus.silent \/ \E t \in Addrs : term[t].pc = "forked" /\ term[t].child = n
      BY DEF Scopes!PipesClosed
    <3>1. Scopes!Queued = {} /\ Scopes!Signalled = {}
      <4>1. DOMAIN <<>> = {}
        OBVIOUS
      <4> QED BY <4>1 DEF Scopes!Queued, Scopes!Signalled
    <3> QED BY <3>1 DEF Scopes!IInv, Scopes!PipeRight
  <2> QED BY <2>1, <2>2, <2>3 DEF Scopes!IInv, Scopes!ScopesTrue
<1>2. Scopes!IInv => ScopesTrue
  BY <1>1 DEF ScopesTrue
<1> QED BY <1>2, ScopesInvariance, PTL
=============================================================================
