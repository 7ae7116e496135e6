---------------------------- MODULE ScreenProofs ----------------------------
(***************************************************************************)
(* Proofs about Screen and the ring of rows it drives (TermBuffer), for    *)
(* any heights, capacities and sequences of operations.                    *)
(* The two buffers keep their shape, the cursor stays on the screen and    *)
(* inside its margins, and m_row and m_nextRow are the rows of the cursor: *)
(* first the arithmetic of slots and capacities, then one lemma for each   *)
(* operation of a buffer, then one for each operation of the screen.       *)
(* Clients see what the emulator does: a row of the screen that is         *)
(* written, moved or revealed is among the rows to send, and a new length  *)
(* or capacity is reported.  Tracked(b, c) says this of a buffer before    *)
(* and after, and composes; again a lemma for each operation of a buffer,  *)
(* then one for each of the screen, and then one case for each handler.    *)
(***************************************************************************)
EXTENDS Screen, SequenceTheorems, FiniteSetTheorems, WellFoundedInduction, TLAPS

RowTypes == [text : Nat, cont : BOOLEAN]
BufferTypes ==
  [size : Nat, realsize : Nat, cap : Nat \ {0}, noScroll : BOOLEAN, height : Nat \ {0},
   rows : Seq(RowTypes), changed : SUBSET Nat, told : SUBSET {"length", "capacity"},
   lost : BOOLEAN]

(* A buffer holds the rows it counts, as far as its slots go; one that     *)
(* keeps no scrollback is as long as the screen.                           *)
Sound(b) ==
  /\ b \in BufferTypes
  /\ b.height <= b.size /\ b.size <= b.realsize /\ b.height <= b.cap
  /\ Len(b.rows) = SmallerOf(b.realsize, b.cap)
  /\ b.noScroll => b.size = b.height /\ b.realsize <= b.cap

(* The place of row i is filled. *)
Held(b, i) == i \in Nat /\ (i < b.realsize \/ b.realsize >= b.cap)

(* c is b after an operation that leaves its measures alone. *)
Alike(b, c) ==
  /\ Sound(c)
  /\ c.size = b.size /\ c.cap = b.cap /\ c.height = b.height /\ c.noScroll = b.noScroll
  /\ c.lost = b.lost

(* And which makes no row a continuation that was none. *)
NoNewCont(b, c) == \A i \in 0 .. b.size - 1 : Row(c, i).cont => Row(b, i).cont
-----------------------------------------------------------------------------
(* Arithmetic *)

LEMMA DivMod == ASSUME NEW i \in Int, NEW c \in Nat \ {0}
  PROVE i \div c \in Int /\ i % c \in 0 .. c-1 /\ i = c * (i \div c) + (i % c)
<1>1. i % c \in 0 .. c-1
  OBVIOUS
<1>2. i \div c \in Int 
  OBVIOUS
<1>3. i = c * (i \div c) + (i % c)
  BY SMT
<1> QED BY <1>1, <1>2, <1>3

LEMMA NoMultiple == ASSUME NEW q \in Int, NEW c \in Nat \ {0} PROVE c * q <= 0 \/ c * q >= c
<1>1. CASE q <= 0
  BY <1>1
<1>2. CASE q >= 1
  BY <1>2
<1> QED BY <1>1, <1>2
LEMMA OneMod == ASSUME NEW c \in Nat \ {0}, NEW p \in Int, NEW q \in Int, NEW r \in 0 .. c-1, NEW s \in 0 .. c-1, c*p + r = c*q + s PROVE p = q /\ r = s
<1>1. c * (p-q) = s - r
  OBVIOUS
<1>2. p - q \in Int /\ q - p \in Int
  OBVIOUS
<1>3. c * (p-q) <= 0 \/ c * (p-q) >= c
  BY <1>2, NoMultiple
<1>4. c * (q-p) = r - s
  OBVIOUS
<1>5. c * (q-p) <= 0 \/ c * (q-p) >= c
  BY <1>2, NoMultiple
<1>6. s = r
  BY <1>1, <1>3, <1>4, <1>5
<1>7. c * (p - q) = 0
  BY <1>1, <1>6
<1> QED BY <1>6, <1>7
LEMMA ModIs == ASSUME NEW c \in Nat \ {0}, NEW i \in Int, NEW q \in Int, NEW r \in 0 .. c-1, i = c*q + r PROVE i % c = r
  BY DivMod, OneMod
LEMMA ModNext ==
  ASSUME NEW i \in Int, NEW c \in Nat \ {0}
  PROVE  (i + 1) % c = IF i % c = c - 1 THEN 0 ELSE (i % c) + 1
<1> DEFINE q == i \div c
           r == i % c
<1>1. q \in Int /\ r \in 0 .. c - 1 /\ i = c * q + r
  BY DivMod
<1> HIDE DEF q, r
<1>2. CASE r = c - 1
  <2>1. i + 1 = c * (q + 1) + 0
    BY <1>1, <1>2
  <2>2. q + 1 \in Int /\ 0 \in 0 .. c - 1 /\ i + 1 \in Int
    BY <1>1
  <2>3. (i + 1) % c = 0
    BY <2>1, <2>2, ModIs
  <2> QED BY <2>3, <1>2 DEF r
<1>3. CASE r # c - 1
  <2>1. i + 1 = c * q + (r + 1)
    BY <1>1
  <2>2. r + 1 \in 0 .. c - 1 /\ i + 1 \in Int
    BY <1>1, <1>3
  <2>3. (i + 1) % c = r + 1
    BY <1>1, <2>1, <2>2, ModIs
  <2> QED BY <2>3, <1>3 DEF r
<1> QED BY <1>2, <1>3

LEMMA ModShift ==
  ASSUME NEW i \in Int, NEW c \in Nat \ {0}
  PROVE  (i + c) % c = i % c
<1> DEFINE q == i \div c
           r == i % c
<1>1. q \in Int /\ r \in 0 .. c - 1 /\ i = c * q + r
  BY DivMod
<1> HIDE DEF q, r
<1>2. i + c = c * (q + 1) + r
  BY <1>1
<1>3. q + 1 \in Int /\ i + c \in Int
  BY <1>1
<1>4. (i + c) % c = r
  BY <1>1, <1>2, <1>3, ModIs
<1> QED BY <1>4 DEF r

LEMMA ModDistinct ==
  ASSUME NEW i \in Int, NEW j \in Int, NEW c \in Nat \ {0}, i < j, j - i < c
  PROVE  i % c # j % c
<1> SUFFICES ASSUME i % c = j % c PROVE FALSE
  OBVIOUS
<1> DEFINE p == i \div c
           q == j \div c
           r == i % c
<1>1. p \in Int /\ q \in Int /\ r \in 0 .. c - 1 /\ i = c * p + r /\ j = c * q + r
  BY DivMod
<1> HIDE DEF p, q, r
<1>2. j - i = c * (q - p)
  BY <1>1
<1>3. q - p \in Int
  BY <1>1
<1>4. c * (q - p) <= 0 \/ c * (q - p) >= c
  BY <1>3, NoMultiple
<1> QED BY <1>2, <1>4

LEMMA ModSlot ==
  ASSUME NEW i \in Nat, NEW c \in Nat \ {0}
  PROVE  /\ (i % c) + 1 \in 1 .. c /\ (i < c => (i % c) + 1 = i + 1)
<1>1. i % c \in 0 .. c - 1
  BY DivMod
<1>2. ASSUME i < c PROVE i % c = i
  <2>1. i = c * 0 + i /\ 0 \in Int /\ i \in 0 .. c - 1
    BY <1>2
  <2> QED BY <2>1, ModIs
<1> QED BY <1>1, <1>2

LEMMA Least == ASSUME NEW S, S \subseteq Nat, S # {} PROVE \E x \in S : \A y \in S : x <= y
<1>1. PICK x \in S : \A y \in S : ~ (<<y, x>> \in OpToRel(<, Nat))
  BY WFMin, NatLessThanWellFounded
<1>2. \A y \in S : ~(y < x)
  BY <1>1 DEF OpToRel
<1> QED BY <1>2
LEMMA Greatest == ASSUME NEW S, NEW n \in Int, S \subseteq Int, S # {}, \A x \in S : x <= n PROVE \E x \in S : \A y \in S : x >= y
<1> DEFINE T == {n - x : x \in S}
<1>1. T \subseteq Nat
  OBVIOUS
<1>0. T # {}
  OBVIOUS
<1>2. PICK z \in T : \A y \in T : z <= y
  BY <1>0, <1>1, Least
<1>3. PICK x \in S : z = n - x
  OBVIOUS
<1>4. ASSUME NEW y \in S PROVE x >= y
  <2>1. n - y \in T /\ x \in Int /\ y \in Int
    OBVIOUS
  <2> QED BY <1>2, <1>3, <2>1
<1> QED BY <1>4

LEMMA DoublesExist == ASSUME NEW cap \in Nat, NEW n \in Nat
  PROVE \E d : d = [k \in 0 .. n |-> IF k = 0 THEN cap ELSE 2 * d[k-1]]
<1> DEFINE Bad == {m \in Nat : ~\E d : d = [k \in 0 .. m |-> IF k = 0 THEN cap ELSE 2 * d[k-1]]}
<1> SUFFICES ASSUME Bad # {} PROVE FALSE
  OBVIOUS
<1>1. PICK m \in Bad : \A y \in Bad : m <= y
  BY Least
<1>2. m # 0
  <2> SUFFICES 0 \notin Bad
    BY <1>1
  <2> DEFINE d == [k \in 0 .. 0 |-> cap]
  <2>1. d = [k \in 0 .. 0 |-> IF k = 0 THEN cap ELSE 2 * d[k-1]]
    OBVIOUS
  <2> QED BY <2>1
<1>3. m \in Nat /\ m - 1 \in Nat /\ m - 1 \notin Bad
  <2>1. m \in Nat
    OBVIOUS
  <2> HIDE DEF Bad
  <2>2. m - 1 \notin Bad
    BY <1>1, <2>1
  <2> QED BY <2>1, <2>2, <1>2
<1>4. PICK d : d = [k \in 0 .. m-1 |-> IF k = 0 THEN cap ELSE 2 * d[k-1]]
  BY <1>3
<1> DEFINE e == [k \in 0 .. m |-> IF k = m THEN 2 * d[m-1] ELSE d[k]]
<1>5. ASSUME NEW k \in 0 .. m PROVE e[k] = IF k = 0 THEN cap ELSE 2 * e[k-1]
  <2>1. CASE k = m
    BY <2>1, <1>2
  <2>2. CASE k # m /\ k # 0
    <3>1. k \in 0 .. m-1 /\ k-1 \in 0 .. m-1 /\ k - 1 # m
      BY <2>2
    <3>2. d[k] = 2 * d[k-1]
      BY <1>4, <3>1, <2>2
    <3>3. e[k] = d[k] /\ e[k-1] = d[k-1]
      BY <3>1, <2>2
    <3> QED BY <3>2, <3>3, <2>2
  <2>3. CASE k = 0
    <3>1. d[0] = cap
      BY <1>4, <1>3
    <3> QED BY <2>3, <3>1, <1>2
  <2> QED BY <2>1, <2>2, <2>3
<1>6. e = [k \in 0 .. m |-> IF k = 0 THEN cap ELSE 2 * e[k-1]]
  BY <1>5
<1> QED BY <1>6

LEMMA Doubles == ASSUME NEW cap \in Nat, NEW n \in Nat
  PROVE  /\ Doubled(cap, n) = [k \in 0 .. n |-> IF k = 0 THEN cap ELSE 2 * Doubled(cap, n)[k-1]]
<1>1. \E d : d = [k \in 0 .. n |-> IF k = 0 THEN cap ELSE 2 * d[k-1]]
  BY DoublesExist
<1> QED BY <1>1 DEF Doubled

LEMMA DoubledGrows == ASSUME NEW cap \in Nat \ {0}, NEW n \in Nat, NEW k \in 0 .. n
  PROVE  Doubled(cap, n)[k] \in Nat \ {0} /\ Doubled(cap, n)[k] > k /\ Doubled(cap, n)[k] >= cap
<1> DEFINE D == Doubled(cap, n)
           Bad == {m \in 0 .. n : ~(D[m] \in Nat \ {0} /\ D[m] > m /\ D[m] >= cap)}
<1>0. \A m \in 0 .. n : D[m] = IF m = 0 THEN cap ELSE 2 * D[m-1]
  BY Doubles
<1> HIDE DEF D
<1> SUFFICES ASSUME Bad # {} PROVE FALSE
  BY DEF D
<1>a. Bad \subseteq Nat
  OBVIOUS
<1>1. PICK m \in Bad : \A y \in Bad : m <= y
  <2> HIDE DEF Bad
  <2> QED BY <1>a, Least
<1>2. CASE m = 0
  BY <1>0, <1>1, <1>2
<1>3. CASE m # 0
  <2>1. m-1 \in 0 .. n /\ m - 1 \notin Bad /\ m \in 0 .. n
    BY <1>1, <1>3
  <2>2. D[m-1] \in Nat \ {0} /\ D[m-1] > m-1 /\ D[m-1] >= cap /\ D[m] = 2 * D[m-1]
    BY <2>1, <1>3, <1>0
  <2> QED BY <2>1, <2>2, <1>1
<1> QED BY <1>2, <1>3

LEMMA CapacityFits == ASSUME NEW cap \in Nat \ {0}, NEW n \in Nat
  PROVE CapacityFor(cap, n) \in Nat \ {0} /\ CapacityFor(cap, n) >= n /\ CapacityFor(cap, n) >= cap
<1> DEFINE S == {c \in {Doubled(cap, n)[k] : k \in 0 .. n} : c >= n}
<1>1. S \subseteq Nat \ {0} /\ \A c \in S : c >= n /\ c >= cap
  BY DoubledGrows
<1>2. Doubled(cap, n)[n] \in S
  BY DoubledGrows
<1>3. \E x \in S : \A y \in S : x <= y
  BY <1>1, <1>2, Least
<1>4. CapacityFor(cap, n) \in S
  BY <1>3 DEF CapacityFor, Min
<1> QED BY <1>1, <1>4
-----------------------------------------------------------------------------
(* Rows and slots *)

LEMMA SlotHeld ==
  ASSUME NEW b, Sound(b), NEW i, Held(b, i)
  PROVE  Slot(b, i) \in 1 .. Len(b.rows) /\ Slot(b, i) \in DOMAIN b.rows
<1>1. /\ i \in Nat /\ b.cap \in Nat \ {0} /\ b.realsize \in Nat
      /\ Len(b.rows) \in Nat /\ DOMAIN b.rows = 1 .. Len(b.rows)
  BY DEF Sound, Held, BufferTypes
<1>2. Slot(b, i) \in 1 .. b.cap /\ (i < b.cap => Slot(b, i) = i + 1)
  BY <1>1, ModSlot, Zenon DEF Slot
<1>3. Len(b.rows) = IF b.realsize < b.cap THEN b.realsize ELSE b.cap
  BY DEF Sound, SmallerOf
<1>4. i < b.realsize \/ b.realsize >= b.cap
  BY DEF Held
<1>5. Slot(b, i) \in 1 .. Len(b.rows)
  BY <1>1, <1>2, <1>3, <1>4
<1> QED BY <1>1, <1>5

LEMMA RowHeld ==
  ASSUME NEW b, Sound(b), NEW i, Held(b, i)
  PROVE  Row(b, i) \in RowTypes /\ Row(b, i).text \in Nat /\ Row(b, i).cont \in BOOLEAN
<1>1. b.rows \in Seq(RowTypes)
  BY DEF Sound, BufferTypes
<1>2. Slot(b, i) \in 1 .. Len(b.rows)
  BY SlotHeld
<1>3. b.rows[Slot(b, i)] \in RowTypes
  BY <1>1, <1>2
<1> QED BY <1>3 DEF Row, RowTypes

LEMMA SlotsApart ==
  ASSUME NEW b, Sound(b), NEW i \in Nat, NEW j \in Nat, i < j, j - i < b.cap
  PROVE  Slot(b, i) # Slot(b, j)
<1>1. b.cap \in Nat \ {0}
  BY DEF Sound, BufferTypes
<1>2. i % b.cap # j % b.cap
  BY <1>1, ModDistinct
<1>3. i % b.cap \in Int /\ j % b.cap \in Int
  BY <1>1, DivMod
<1> QED BY <1>2, <1>3 DEF Slot

LEMMA BlankFacts == BlankRow \in RowTypes /\ BlankRow.cont = FALSE /\ BlankRow.text = 0
BY DEF BlankRow, RowTypes

LEMMA BlanksFacts ==
  ASSUME NEW n \in Nat
  PROVE  /\ Blanks(n) \in Seq(RowTypes) /\ Len(Blanks(n)) = n
         /\ \A i \in 1 .. n : Blanks(n)[i] = BlankRow
<1> DEFINE s == [i \in 1 .. n |-> BlankRow]
<1>1. s \in Seq(RowTypes) /\ Len(s) = n
  BY BlankFacts
<1>2. <<>> \in Seq(RowTypes) /\ Len(<<>>) = 0
  OBVIOUS
<1>3. <<>> \o s = s
  BY <1>1
<1> QED BY <1>1, <1>3 DEF Blanks

\* R is b's slots with the rows of f in their places.
Filled(b, D, f, R) ==
  /\ R \in Seq(RowTypes) /\ Len(R) = Len(b.rows)
  /\ \A s \in 1 .. Len(b.rows) :
       \/ R[s] = b.rows[s] /\ \A i \in D : Slot(b, i) # s
       \/ \E i \in D : Slot(b, i) = s /\ R[s] = f[i]

LEMMA ReplacedFacts ==
  ASSUME NEW b, b.rows \in Seq(RowTypes), NEW D, D \subseteq Nat, NEW n, n \in Nat, \A i \in D : i <= n,
         NEW f, f \in [D -> RowTypes]
  PROVE  Filled(b, D, f, Replaced(b, f))
<1> DEFINE at(s) == {i \in DOMAIN f : Slot(b, i) = s}
           val(s) == IF at(s) = {} THEN b.rows[s] ELSE f[Max(at(s))]
           g == [s \in DOMAIN b.rows |-> val(s)]
<1>1. b.rows \in Seq(RowTypes) /\ DOMAIN b.rows = 1 .. Len(b.rows) /\ Len(b.rows) \in Nat
  OBVIOUS
<1>2. DOMAIN f = D
  OBVIOUS
<1>3. ASSUME NEW s \in 1 .. Len(b.rows)
      PROVE  /\ val(s) \in RowTypes
             /\ \/ val(s) = b.rows[s] /\ \A i \in D : Slot(b, i) # s
                \/ \E i \in D : Slot(b, i) = s /\ val(s) = f[i]
  <2>1. CASE at(s) = {}
    BY <1>1, <1>2, <2>1
  <2>2. CASE at(s) # {}
    <3>0. at(s) \subseteq D
      BY <1>2
    <3>1. at(s) \subseteq Int
      <4> HIDE DEF at
      <4> QED BY <3>0
    <3>5. \A x \in at(s) : x <= n
      BY <1>2
    <3>6. n \in Int
      OBVIOUS
    <3>2. \E x \in at(s) : \A y \in at(s) : x >= y
      <4> HIDE DEF at
      <4> QED BY <2>2, <3>1, <3>5, <3>6, Greatest, Zenon
    <3>3. Max(at(s)) \in at(s)
      BY <3>2 DEF Max
    <3>4. Max(at(s)) \in D /\ Slot(b, Max(at(s))) = s /\ val(s) = f[Max(at(s))]
      BY <3>3, <1>2, <2>2
    <3> HIDE DEF at
    <3> QED BY <3>4
  <2> QED BY <2>1, <2>2
<1>4. \A s \in 1 .. Len(b.rows) : g[s] = val(s)
  BY <1>1
<1> HIDE DEF val
<1>5. g \in Seq(RowTypes) /\ Len(g) = Len(b.rows)
  BY <1>1, <1>3
<1>6. <<>> \o g = g
  BY <1>5
<1>7. Replaced(b, f) = g
  BY <1>6 DEF Replaced, val
<1> HIDE DEF g
<1> QED BY <1>3, <1>4, <1>5, <1>7 DEF Filled
-----------------------------------------------------------------------------
(* Operations of a buffer that leave its measures alone *)

WithRows(b, R, C) == [b EXCEPT !.rows = R, !.changed = C]
WithChanged(b, C) == [b EXCEPT !.changed = C]
WithTold(b, T) == [b EXCEPT !.told = T]
WithRow(b, i, row, C) == [b EXCEPT !.rows[Slot(b, i)] = row, !.changed = C]

\* c is b with other rows and changed rows.
Became(b, c, R, C) ==
  /\ Alike(b, c) /\ c.rows = R /\ c.changed = C
  /\ c.realsize = b.realsize /\ c.told = b.told

LEMMA NewRows ==
  ASSUME NEW b, Sound(b), NEW R, R \in Seq(RowTypes), Len(R) = Len(b.rows),
         NEW C, C \subseteq Nat
  PROVE  Became(b, WithRows(b, R, C), R, C)
<1> DEFINE c == WithRows(b, R, C)
<1>1. /\ c \in BufferTypes /\ c.rows = R /\ c.changed = C
      /\ c.size = b.size /\ c.cap = b.cap /\ c.height = b.height /\ c.noScroll = b.noScroll
      /\ c.lost = b.lost /\ c.realsize = b.realsize /\ c.told = b.told
  BY DEF Sound, BufferTypes, WithRows
<1> QED BY <1>1 DEF Alike, Sound, Became

LEMMA NewChanged ==
  ASSUME NEW b, Sound(b), NEW C, C \subseteq Nat
  PROVE  Became(b, WithChanged(b, C), b.rows, C)
<1> DEFINE c == WithChanged(b, C)
<1>1. /\ c \in BufferTypes /\ c.rows = b.rows /\ c.changed = C
      /\ c.size = b.size /\ c.cap = b.cap /\ c.height = b.height /\ c.noScroll = b.noScroll
      /\ c.lost = b.lost /\ c.realsize = b.realsize /\ c.told = b.told
  BY DEF Sound, BufferTypes, WithChanged
<1> QED BY <1>1 DEF Alike, Sound, Became

LEMMA NewTold ==
  ASSUME NEW b, Sound(b), NEW T, T \subseteq {"length", "capacity"}
  PROVE  LET c == WithTold(b, T)
         IN Alike(b, c) /\ c.rows = b.rows /\ c.changed = b.changed /\ c.realsize = b.realsize
<1> DEFINE c == WithTold(b, T)
<1>1. /\ c \in BufferTypes /\ c.rows = b.rows /\ c.changed = b.changed
      /\ c.size = b.size /\ c.cap = b.cap /\ c.height = b.height /\ c.noScroll = b.noScroll
      /\ c.lost = b.lost /\ c.realsize = b.realsize
  BY DEF Sound, BufferTypes, WithTold
<1> QED BY <1>1 DEF Alike, Sound

LEMMA AlikeTrans ==
  ASSUME NEW a, NEW b, NEW c, Alike(a, b), Alike(b, c)
  PROVE  Alike(a, c)
  BY DEF Alike

LEMMA AlikeSelf ==
  ASSUME NEW b, Sound(b)
  PROVE  Alike(b, b) /\ NoNewCont(b, b)
  BY DEF Alike, NoNewCont

LEMMA ContTrans ==
  ASSUME NEW a, NEW b, NEW c, Alike(a, b), NoNewCont(a, b), NoNewCont(b, c)
  PROVE  NoNewCont(a, c)
  BY DEF NoNewCont, Alike

LEMMA InSize ==
  ASSUME NEW b, Sound(b), NEW i \in 0 .. b.size - 1
  PROVE  Held(b, i)
  BY DEF Sound, BufferTypes, Held

LEMMA FewerConts ==
  ASSUME NEW b, Sound(b), NEW c, Alike(b, c), Len(c.rows) = Len(b.rows),
         \A s \in 1 .. Len(b.rows) : c.rows[s].cont => b.rows[s].cont
  PROVE  NoNewCont(b, c)
<1> SUFFICES ASSUME NEW i \in 0 .. b.size - 1, Row(c, i).cont PROVE Row(b, i).cont
  BY DEF NoNewCont
<1>1. Slot(b, i) \in 1 .. Len(b.rows)
  BY InSize, SlotHeld
<1>2. Slot(c, i) = Slot(b, i)
  BY DEF Slot, Alike
<1> QED BY <1>1, <1>2 DEF Row

LEMMA TouchRowFacts ==
  ASSUME NEW b, Sound(b), NEW i \in Nat
  PROVE  Became(b, TouchRow(b, i), b.rows, b.changed \cup {i}) /\ NoNewCont(b, TouchRow(b, i))
<1> DEFINE C == b.changed \cup {i}
<1>1. TouchRow(b, i) = WithChanged(b, C)
  BY DEF TouchRow, WithChanged
<1>2. C \subseteq Nat
  BY DEF Sound, BufferTypes
<1> HIDE DEF C
<1>3. Became(b, WithChanged(b, C), b.rows, C)
  BY <1>2, NewChanged, Zenon
<1>4. NoNewCont(b, WithChanged(b, C))
  BY <1>3, FewerConts DEF Became
<1> QED BY <1>1, <1>3, <1>4 DEF C

\* One row set to a value.
LEMMA SetRowFacts ==
  ASSUME NEW b, Sound(b), NEW i, Held(b, i), NEW row, row \in RowTypes,
         NEW C, C \subseteq Nat
  PROVE  /\ Became(b, WithRow(b, i, row, C), [b.rows EXCEPT ![Slot(b, i)] = row], C)
         /\ (row.cont => Row(b, i).cont) => NoNewCont(b, WithRow(b, i, row, C))
<1> DEFINE c == WithRow(b, i, row, C)
           R == [b.rows EXCEPT ![Slot(b, i)] = row]
<1>1. /\ b.rows \in Seq(RowTypes) /\ Slot(b, i) \in 1 .. Len(b.rows)
  BY SlotHeld DEF Sound, BufferTypes
<1>2. R \in Seq(RowTypes) /\ Len(R) = Len(b.rows)
  BY <1>1
<1>3. \A s \in 1 .. Len(b.rows) : R[s] = IF s = Slot(b, i) THEN row ELSE b.rows[s]
  BY <1>1
<1>4. c = WithRows(b, R, C)
  BY DEF Sound, BufferTypes, WithRow, WithRows
<1> HIDE DEF R
<1>5. Became(b, WithRows(b, R, C), R, C)
  BY <1>2, NewRows, Zenon
<1> HIDE DEF c
<1>6. Became(b, c, R, C)
  BY <1>4, <1>5
<1>7. ASSUME row.cont => Row(b, i).cont PROVE NoNewCont(b, c)
  <2>1. \A s \in 1 .. Len(b.rows) : c.rows[s].cont => b.rows[s].cont
    BY <1>3, <1>6, <1>7 DEF Row, Became
  <2> QED BY <2>1, <1>2, <1>6, FewerConts DEF Became
<1> QED BY <1>6, <1>7 DEF R, c

LEMMA PutRowFacts ==
  ASSUME NEW b, Sound(b), NEW i, Held(b, i), NEW row, row \in RowTypes
  PROVE  /\ Became(b, PutRow(b, i, row), [b.rows EXCEPT ![Slot(b, i)] = row], b.changed \cup {i})
         /\ (row.cont => Row(b, i).cont) => NoNewCont(b, PutRow(b, i, row))
<1> DEFINE C == b.changed \cup {i}
<1>1. C \subseteq Nat
  BY DEF Sound, BufferTypes, Held
<1>2. PutRow(b, i, row) = WithRow(b, i, row, C)
  BY DEF PutRow, WithRow
<1> HIDE DEF C
<1>3. /\ Became(b, WithRow(b, i, row, C), [b.rows EXCEPT ![Slot(b, i)] = row], C)
      /\ (row.cont => Row(b, i).cont) => NoNewCont(b, WithRow(b, i, row, C))
  BY <1>1, SetRowFacts, Zenon
<1> QED BY <1>2, <1>3 DEF C

\* Taking a row for a change ends its continuation.
LEMMA TakeRowFacts ==
  ASSUME NEW b, Sound(b), NEW i \in 0 .. b.size - 1
  PROVE  /\ Alike(b, TakeRow(b, i)) /\ NoNewCont(b, TakeRow(b, i))
         /\ i + 1 < b.size => ~Row(TakeRow(b, i), i + 1).cont
<1>0. b.size \in Nat /\ b.changed \subseteq Nat /\ b.rows \in Seq(RowTypes)
  BY DEF Sound, BufferTypes
<1>1. CASE i < b.size - 1 /\ Row(b, i + 1).cont
  <2> DEFINE row == [Row(b, i + 1) EXCEPT !.cont = FALSE]
             C == b.changed \cup {i, i + 1}
             c == WithRow(b, i + 1, row, C)
  <2>1. Held(b, i + 1) /\ C \subseteq Nat
    BY <1>0, <1>1, InSize
  <2>2. row \in RowTypes /\ row.cont = FALSE
    BY <2>1, RowHeld DEF RowTypes
  <2>3. TakeRow(b, i) = c
    BY <1>0, <1>1 DEF TakeRow, Row, WithRow
  <2> HIDE DEF row, C
  <2>a. /\ Became(b, WithRow(b, i + 1, row, C), [b.rows EXCEPT ![Slot(b, i + 1)] = row], C)
        /\ (row.cont => Row(b, i + 1).cont) => NoNewCont(b, WithRow(b, i + 1, row, C))
    BY <2>1, <2>2, SetRowFacts, Zenon
  <2>4. /\ Alike(b, c) /\ NoNewCont(b, c)
        /\ c.rows = [b.rows EXCEPT ![Slot(b, i + 1)] = row]
    BY <2>2, <2>a DEF Became
  <2>5. Slot(c, i + 1) = Slot(b, i + 1) /\ Slot(b, i + 1) \in DOMAIN b.rows
    BY <2>1, <2>4, SlotHeld DEF Slot, Alike
  <2>6. Row(c, i + 1) = row
    BY <2>4, <2>5 DEF Row
  <2> QED BY <2>2, <2>3, <2>4, <2>6
<1>2. CASE ~(i < b.size - 1 /\ Row(b, i + 1).cont)
  <2>1. TakeRow(b, i) = TouchRow(b, i)
    BY <1>2 DEF TakeRow
  <2>2. Alike(b, TouchRow(b, i)) /\ NoNewCont(b, TouchRow(b, i))
    BY TouchRowFacts DEF Became
  <2>3. i + 1 < b.size => i + 1 \in 0 .. b.size - 1 /\ i < b.size - 1
    BY <1>0
  <2> QED BY <1>2, <2>1, <2>2, <2>3 DEF NoNewCont
<1> QED BY <1>1, <1>2

\* Several rows set at once.
LEMMA ReplacingFacts ==
  ASSUME NEW b, Sound(b), NEW D, D \subseteq Nat, NEW n, n \in Nat, \A i \in D : i <= n,
         NEW f, f \in [D -> RowTypes], NEW C, C \subseteq Nat
  PROVE  /\ Became(b, WithRows(b, Replaced(b, f), C), Replaced(b, f), C)
         /\ (\A i \in D : ~f[i].cont) => NoNewCont(b, WithRows(b, Replaced(b, f), C))
<1> DEFINE R == Replaced(b, f)
           c == WithRows(b, R, C)
<1>a. b.rows \in Seq(RowTypes)
  BY DEF Sound, BufferTypes
<1>0. Filled(b, D, f, R)
  BY <1>a, ReplacedFacts, Zenon
<1> HIDE DEF R
<1>1. /\ R \in Seq(RowTypes) /\ Len(R) = Len(b.rows)
      /\ \A s \in 1 .. Len(b.rows) : R[s] = b.rows[s] \/ \E i \in D : R[s] = f[i]
  BY <1>0 DEF Filled
<1>2. Became(b, c, R, C)
  BY <1>1, NewRows, Zenon
<1>3. ASSUME \A i \in D : ~f[i].cont PROVE NoNewCont(b, c)
  <2>1. \A s \in 1 .. Len(b.rows) : c.rows[s].cont => b.rows[s].cont
    BY <1>1, <1>2, <1>3 DEF Became
  <2> QED BY <2>1, <1>1, <1>2, FewerConts DEF Became
<1> QED BY <1>2, <1>3 DEF R

\* c is b with rows moved.
Moved(b, c) == Alike(b, c) /\ c.realsize = b.realsize

LEMMA MoveRowFacts ==
  ASSUME NEW b, Sound(b), NEW from, NEW to, Held(b, from), Held(b, to),
         NEW row, row \in RowTypes
  PROVE  Moved(b, MoveRow(b, from, to, row))
<1> DEFINE step == IF to < from THEN -1 ELSE 1
           span == SmallerOf(from, to) .. LargerOf(from, to)
           moved == [i \in span |-> IF i = to THEN row ELSE Row(b, i + step)]
           C == b.changed \cup span
<1>1. /\ from \in Nat /\ to \in Nat /\ b.changed \subseteq Nat /\ b.realsize \in Nat /\ b.cap \in Nat
  BY DEF Held, Sound, BufferTypes
<1>2. LargerOf(from, to) \in Nat /\ SmallerOf(from, to) \in Nat
  BY <1>1 DEF LargerOf, SmallerOf
<1>3. span \subseteq Nat /\ (\A i \in span : i <= LargerOf(from, to)) /\ C \subseteq Nat
  BY <1>1, <1>2
<1>4. ASSUME NEW i \in span, i # to PROVE Row(b, i + step) \in RowTypes
  <2>1. i \in Nat /\ i + step \in span
    BY <1>1, <1>4 DEF LargerOf, SmallerOf
  <2>2. \A j \in span : Held(b, j)
    BY <1>1 DEF LargerOf, SmallerOf, Held
  <2> HIDE DEF span, step
  <2> QED BY <2>1, <2>2, RowHeld
<1>5. moved \in [span -> RowTypes]
  <2> HIDE DEF span, step
  <2> QED BY <1>4
<1>6. MoveRow(b, from, to, row) = WithRows(b, Replaced(b, moved), C)
  BY DEF MoveRow, WithRows
<1> HIDE DEF step, span, moved, C
<1>7. Became(b, WithRows(b, Replaced(b, moved), C), Replaced(b, moved), C)
  BY <1>2, <1>3, <1>5, ReplacingFacts, Zenon
<1> QED BY <1>6, <1>7 DEF Became, Moved
-----------------------------------------------------------------------------
(* Operations that change a buffer's measures *)

\* p is the part of s from m to n.
Part(S, s, m, n, p) ==
  /\ p \in Seq(S) /\ Len(p) = (IF m <= n THEN n - m + 1 ELSE 0)
  /\ \A i \in 1 .. n - m + 1 : p[i] = s[m + i - 1]

LEMMA SubSeqPart ==
  ASSUME NEW S, NEW s, s \in Seq(S), NEW m, m \in Int, NEW n, n \in Int, 1 <= m, n <= Len(s)
  PROVE  Part(S, s, m, n, SubSeq(s, m, n))
<1>1. \A i \in m .. n : s[i] \in S
  OBVIOUS
<1> QED BY <1>1, SubSeqProperties DEF Part

\* p is s with t behind it.
Joined(S, s, t, p) ==
  /\ p \in Seq(S) /\ Len(p) = Len(s) + Len(t)
  /\ \A i \in 1 .. Len(s) + Len(t) : p[i] = IF i <= Len(s) THEN s[i] ELSE t[i - Len(s)]

LEMMA Joining ==
  ASSUME NEW S, NEW s, s \in Seq(S), NEW t, t \in Seq(S)
  PROVE  Joined(S, s, t, s \o t)
  BY DEF Joined

LEMMA InsertAtFacts ==
  ASSUME NEW S, NEW s, s \in Seq(S), NEW e, e \in S, NEW i, i \in 1 .. Len(s) + 1
  PROVE  InsertAt(s, i, e) \in Seq(S) /\ Len(InsertAt(s, i, e)) = Len(s) + 1
<1> DEFINE a == SubSeq(s, 1, i - 1)
           c == SubSeq(s, i, Len(s))
           d == a \o <<e>>
<1>1. Len(s) \in Int /\ i - 1 \in Int /\ 1 \in Int /\ 1 <= 1 /\ i - 1 <= Len(s)
  OBVIOUS
<1>2. i \in Int /\ 1 <= i /\ Len(s) <= Len(s)
  OBVIOUS
<1>3. Part(S, s, 1, i - 1, a)
  BY <1>1, SubSeqPart, Zenon
<1>4. Part(S, s, i, Len(s), c)
  BY <1>1, <1>2, SubSeqPart, Zenon
<1> HIDE DEF a, c
<1>5. a \in Seq(S) /\ c \in Seq(S) /\ Len(a) = i - 1 /\ Len(c) = Len(s) - i + 1
  BY <1>1, <1>2, <1>3, <1>4 DEF Part
<1>6. <<e>> \in Seq(S) /\ Len(<<e>>) = 1
  OBVIOUS
<1>7. Joined(S, a, <<e>>, d)
  BY <1>5, <1>6, Joining, Zenon
<1> HIDE DEF d
<1>8. d \in Seq(S) /\ Len(d) = i
  BY <1>1, <1>5, <1>6, <1>7 DEF Joined
<1>9. Joined(S, d, c, d \o c)
  BY <1>5, <1>8, Joining, Zenon
<1>10. d \o c \in Seq(S) /\ Len(d \o c) = Len(s) + 1
  BY <1>1, <1>5, <1>8, <1>9 DEF Joined
<1> QED BY <1>10 DEF InsertAt, a, c, d

\* c has b's height and kind, and is as long as n.
Resized(b, c, n) ==
  Sound(c) /\ c.size = n /\ c.height = b.height /\ c.noScroll = b.noScroll

LEMMA AlikeResized ==
  ASSUME NEW b, NEW c, Alike(b, c)
  PROVE  Resized(b, c, b.size)
  BY DEF Alike, Resized

LEMMA TellFacts ==
  ASSUME NEW b, Sound(b)
  PROVE  Alike(b, TellLength(b)) /\ Alike(b, TellCapacity(b)) /\ Alike(b, ResetEventState(b))
         /\ TellLength(b).rows = b.rows /\ TellCapacity(b).rows = b.rows
         /\ ResetEventState(b).rows = b.rows
<1>1. b.told \cup {"length"} \subseteq {"length", "capacity"}
      /\ b.told \cup {"length", "capacity"} \subseteq {"length", "capacity"}
  BY DEF Sound, BufferTypes
<1>2. TellLength(b) = WithTold(b, b.told \cup {"length"})
      /\ TellCapacity(b) = WithTold(b, b.told \cup {"length", "capacity"})
  BY DEF TellLength, TellCapacity, WithTold
<1>3. ResetEventState(b) = WithTold(WithChanged(b, {}), {})
  BY DEF ResetEventState, WithTold, WithChanged, Sound, BufferTypes
<1>4. Became(b, WithChanged(b, {}), b.rows, {})
  BY NewChanged
<1>5. Sound(WithChanged(b, {}))
  BY <1>4 DEF Became, Alike
<1>6. Alike(WithChanged(b, {}), WithTold(WithChanged(b, {}), {}))
      /\ WithTold(WithChanged(b, {}), {}).rows = WithChanged(b, {}).rows
  BY <1>5, NewTold
<1>7. Alike(b, ResetEventState(b)) /\ ResetEventState(b).rows = b.rows
  BY <1>3, <1>4, <1>6, AlikeTrans DEF Became
<1>8. Alike(b, TellLength(b)) /\ TellLength(b).rows = b.rows
  BY <1>1, <1>2, NewTold
<1>9. Alike(b, TellCapacity(b)) /\ TellCapacity(b).rows = b.rows
  BY <1>1, <1>2, NewTold
<1> QED BY <1>7, <1>8, <1>9

LEMMA TrimFacts ==
  ASSUME NEW b, Sound(b)
  PROVE  Alike(b, TrimOne(b)) /\ Alike(b, TrimAll(b)) /\ TrimOne(b).rows = b.rows /\ TrimAll(b).rows = b.rows
<1> DEFINE C == b.changed \ {Min(b.changed)}
           K == {i \in b.changed : Cardinality({j \in b.changed : j >= i}) <= b.height}
<1>1. C \subseteq Nat /\ K \subseteq Nat
  BY DEF Sound, BufferTypes
<1>2. TrimOne(b) = (IF Cardinality(b.changed) > b.height THEN WithChanged(b, C) ELSE b)
      /\ TrimAll(b) = WithChanged(b, K)
  BY DEF TrimOne, TrimAll, WithChanged
<1> HIDE DEF C, K
<1>3. Became(b, WithChanged(b, C), b.rows, C) /\ Became(b, WithChanged(b, K), b.rows, K)
  BY <1>1, NewChanged, Zenon
<1> QED BY <1>2, <1>3, AlikeSelf DEF Became

\* c is of b's kind: it has its height, and scrolls back if b does.
Kindred(b, c) == Sound(c) /\ c.height = b.height /\ c.noScroll = b.noScroll

LEMMA AlikeKindred ==
  ASSUME NEW b, NEW c, Alike(b, c)
  PROVE  Kindred(b, c)
  BY DEF Alike, Kindred

LEMMA KindredTrans ==
  ASSUME NEW a, NEW b, NEW c, Kindred(a, b), Kindred(b, c)
  PROVE  Kindred(a, c)
  BY DEF Kindred

\* One row more.
Longer(c, real) == [c EXCEPT !.size = @ + 1, !.realsize = @ + real]

LEMMA LongerFacts ==
  ASSUME NEW c, c \in BufferTypes, ~c.noScroll, NEW real, real \in {0, 1},
         c.height <= c.size, c.height <= c.cap, c.size + 1 <= c.realsize + real,
         Len(c.rows) = SmallerOf(c.realsize + real, c.cap)
  PROVE  Kindred(c, TrimOne(TellLength(Longer(c, real))))
<1> DEFINE d == Longer(c, real)
<1>0. c.size + 1 \in Nat /\ c.realsize + real \in Nat
  BY DEF BufferTypes
<1>1. /\ d \in BufferTypes /\ d.rows = c.rows /\ d.cap = c.cap /\ d.height = c.height
      /\ d.noScroll = c.noScroll /\ d.size = c.size + 1 /\ d.realsize = c.realsize + real
  BY <1>0 DEF BufferTypes, Longer
<1>2. c.size \in Nat /\ c.height \in Nat
  BY DEF BufferTypes
<1> HIDE DEF d
<1>3. Sound(d)
  BY <1>1, <1>2 DEF Sound
<1>4. Alike(d, TellLength(d))
  BY <1>3, TellFacts
<1>5. Alike(TellLength(d), TrimOne(TellLength(d)))
  BY <1>4, TrimFacts DEF Alike
<1>6. Kindred(d, TrimOne(TellLength(d)))
  BY <1>4, <1>5, AlikeTrans, AlikeKindred
<1> QED BY <1>1, <1>6 DEF Kindred, d

LEMMA TailFacts ==
  ASSUME NEW S, NEW s, s \in Seq(S), Len(s) > 0
  PROVE  Tail(s) \in Seq(S) /\ Len(Tail(s)) = Len(s) - 1
  BY HeadTailProperties

\* insertRow in each of its four ways.
LEMMA InsertRowFacts ==
  ASSUME NEW b, Sound(b), NEW pos, pos \in 0 .. b.size
  PROVE  Kindred(b, InsertRow(b, pos))
<1>1. /\ b.size \in Nat /\ b.realsize \in Nat /\ b.cap \in Nat \ {0} /\ b.height \in Nat
      /\ b.rows \in Seq(RowTypes) /\ b.changed \subseteq Nat /\ pos \in Nat /\ Len(b.rows) \in Nat
      /\ b.height <= b.size /\ b.size <= b.realsize /\ b.height <= b.cap
      /\ Len(b.rows) = (IF b.realsize < b.cap THEN b.realsize ELSE b.cap)
      /\ b.noScroll \in BOOLEAN /\ (b.noScroll => b.size = b.height /\ b.realsize <= b.cap)
  BY DEF Sound, BufferTypes, SmallerOf
<1> DEFINE J == InsertAt(b.rows, pos + 1, BlankRow)
<1>2. ASSUME pos <= Len(b.rows) PROVE J \in Seq(RowTypes) /\ Len(J) = Len(b.rows) + 1
  <2>1. pos + 1 \in 1 .. Len(b.rows) + 1
    BY <1>1, <1>2
  <2>2. BlankRow \in RowTypes /\ b.rows \in Seq(RowTypes)
    BY <1>1, BlankFacts
  <2> QED BY <2>1, <2>2, InsertAtFacts, Zenon
<1>3. CASE b.noScroll
  <2> DEFINE C == b.changed \cup (0 .. pos - 1)
             R == Tail(J)
  <2>1. J \in Seq(RowTypes) /\ Len(J) = Len(b.rows) + 1
    BY <1>1, <1>2, <1>3
  <2> HIDE DEF J
  <2>2. R \in Seq(RowTypes) /\ Len(R) = Len(b.rows)
    BY <1>1, <2>1, TailFacts
  <2>3. C \subseteq Nat
    BY <1>1
  <2>4. InsertRow(b, pos) = WithRows(b, R, C)
    BY <1>3 DEF InsertRow, WithRows, J
  <2> HIDE DEF C, R
  <2>5. Became(b, WithRows(b, R, C), R, C)
    BY <2>2, <2>3, NewRows, Zenon
  <2> QED BY <2>4, <2>5, AlikeKindred DEF Became
<1>4. CASE ~b.noScroll /\ b.size < b.realsize
  <2> DEFINE m == MoveRow(b, b.size, pos, Row(b, b.size))
  <2>1. Held(b, b.size) /\ Held(b, pos)
    BY <1>1, <1>4 DEF Held
  <2>2. Row(b, b.size) \in RowTypes
    BY <2>1, RowHeld
  <2>a. Moved(b, m)
    BY <2>1, <2>2, MoveRowFacts, Zenon
  <2>3. Alike(b, m) /\ m.realsize = b.realsize
    BY <2>a DEF Moved
  <2>4. InsertRow(b, pos) = TrimOne(TellLength(Longer(m, 0)))
    BY <1>4 DEF InsertRow, Longer
  <2> HIDE DEF m
  <2>5. /\ m \in BufferTypes /\ ~m.noScroll /\ m.height <= m.size /\ m.height <= m.cap
        /\ m.size + 1 <= m.realsize + 0 /\ Len(m.rows) = SmallerOf(m.realsize + 0, m.cap)
    BY <1>1, <1>4, <2>3 DEF Alike, Sound
  <2>6. Kindred(m, TrimOne(TellLength(Longer(m, 0))))
    BY <2>5, LongerFacts
  <2> QED BY <2>3, <2>4, <2>6, AlikeKindred, KindredTrans
<1>5. CASE ~b.noScroll /\ ~(b.size < b.realsize) /\ b.size < b.cap
  <2> DEFINE C == b.changed \cup (pos .. b.size)
             c == WithRows(b, J, C)
  <2>1. J \in Seq(RowTypes) /\ Len(J) = Len(b.rows) + 1
    BY <1>1, <1>2, <1>5
  <2>2. C \subseteq Nat
    BY <1>1
  <2>3. InsertRow(b, pos) = TrimOne(TellLength(Longer(c, 1)))
    BY <1>5 DEF InsertRow, Longer, WithRows
  <2> HIDE DEF J, C
  <2>4. /\ c \in BufferTypes /\ c.rows = J /\ c.noScroll = b.noScroll /\ c.height = b.height
        /\ c.size = b.size /\ c.cap = b.cap /\ c.realsize = b.realsize
    BY <2>1, <2>2 DEF WithRows, Sound, BufferTypes
  <2> HIDE DEF c
  <2>5. /\ ~c.noScroll /\ c.height <= c.size /\ c.height <= c.cap
        /\ c.size + 1 <= c.realsize + 1 /\ Len(c.rows) = SmallerOf(c.realsize + 1, c.cap)
    BY <1>1, <1>5, <2>1, <2>4 DEF SmallerOf
  <2>6. Kindred(c, TrimOne(TellLength(Longer(c, 1))))
    BY <2>4, <2>5, LongerFacts
  <2> QED BY <2>3, <2>4, <2>6 DEF Kindred
<1>6. CASE ~b.noScroll /\ ~(b.size < b.realsize) /\ ~(b.size < b.cap)
  <2> DEFINE m == MoveRow(b, b.size, pos, BlankRow)
  <2>1. Held(b, b.size) /\ Held(b, pos)
    BY <1>1, <1>6 DEF Held
  <2>2. BlankRow \in RowTypes
    BY BlankFacts
  <2>a. Moved(b, m)
    BY <2>1, <2>2, MoveRowFacts, Zenon
  <2>3. Alike(b, m) /\ m.realsize = b.realsize
    BY <2>a DEF Moved
  <2>4. InsertRow(b, pos) = TrimOne(TellLength(Longer(m, 1)))
    BY <1>6 DEF InsertRow, Longer
  <2> HIDE DEF m
  <2>5. /\ m \in BufferTypes /\ ~m.noScroll /\ m.height <= m.size /\ m.height <= m.cap
        /\ m.size + 1 <= m.realsize + 1 /\ Len(m.rows) = SmallerOf(m.realsize + 1, m.cap)
    BY <1>1, <1>6, <2>3 DEF Alike, Sound, SmallerOf
  <2>6. Kindred(m, TrimOne(TellLength(Longer(m, 1))))
    BY <2>5, LongerFacts
  <2> QED BY <2>3, <2>4, <2>6, AlikeKindred, KindredTrans
<1> QED BY <1>3, <1>4, <1>5, <1>6

\* Rows numbered from zero again.
LEMMA RenumberedFacts ==
  ASSUME NEW b, Sound(b), NEW rows, rows \in Seq(RowTypes), NEW cap, cap \in Nat \ {0},
         b.height <= cap, Len(rows) <= cap, b.noScroll => Len(rows) <= b.height
  PROVE  Kindred(b, Renumbered(b, rows, cap)) /\ Renumbered(b, rows, cap).cap = cap
<1> DEFINE missing == LargerOf(0, b.height - Len(rows))
           all == Blanks(missing) \o rows
           C == Len(all) - b.height .. Len(all) - 1
           lost == b.lost \/ missing > 0
           c == [b EXCEPT !.rows = all, !.size = Len(all), !.realsize = Len(all), !.cap = cap,
                          !.changed = C, !.lost = lost]
<1>1. b.height \in Nat \ {0} /\ Len(rows) \in Nat /\ b.lost \in BOOLEAN /\ b.noScroll \in BOOLEAN
  BY DEF Sound, BufferTypes
<1>2. missing \in Nat /\ missing + Len(rows) = (IF b.height < Len(rows) THEN Len(rows) ELSE b.height)
  BY <1>1 DEF LargerOf
<1>3. c = Renumbered(b, rows, cap)
  BY DEF Renumbered
<1> HIDE DEF missing
<1>4. Blanks(missing) \in Seq(RowTypes) /\ Len(Blanks(missing)) = missing
  BY <1>2, BlanksFacts
<1>5. Joined(RowTypes, Blanks(missing), rows, all)
  BY <1>4, Joining, Zenon
<1>6. all \in Seq(RowTypes) /\ Len(all) = (IF b.height < Len(rows) THEN Len(rows) ELSE b.height)
  BY <1>2, <1>4, <1>5 DEF Joined
<1> HIDE DEF all
<1>7. C \subseteq Nat /\ lost \in BOOLEAN /\ Len(all) \in Nat
  BY <1>1, <1>6
<1> HIDE DEF C, lost
<1>8. /\ c \in BufferTypes /\ c.rows = all /\ c.size = Len(all) /\ c.realsize = Len(all)
      /\ c.cap = cap /\ c.height = b.height /\ c.noScroll = b.noScroll
  BY <1>6, <1>7 DEF Sound, BufferTypes
<1> HIDE DEF c
<1>9. Sound(c)
  BY <1>1, <1>6, <1>8 DEF Sound, SmallerOf
<1> QED BY <1>3, <1>8, <1>9 DEF Kindred
-----------------------------------------------------------------------------
(* The rows cut out of the ring: where they start, and how many.           *)
LEMMA ModBack ==
  ASSUME NEW c \in Nat \ {0}, NEW end \in 0 .. c - 1, NEW n \in 0 .. c
  PROVE  (end - n) % c = IF n <= end THEN end - n ELSE end - n + c
<1>1. CASE n <= end
  <2>1. end - n \in 0 .. c - 1 /\ end - n = c * 0 + (end - n) /\ 0 \in Int /\ end - n \in Int
    BY <1>1
  <2>2. (end - n) % c = end - n
    BY <2>1, ModIs
  <2> QED BY <1>1, <2>2
<1>2. CASE ~(n <= end)
  <2>1. end - n + c \in 0 .. c - 1 /\ end - n = c * (-1) + (end - n + c) /\ -1 \in Int /\ end - n \in Int
    BY <1>2
  <2>2. (end - n) % c = end - n + c
    BY <2>1, ModIs
  <2> QED BY <1>2, <2>2
<1> QED BY <1>1, <1>2

LEMMA UnrolledFacts ==
  ASSUME NEW b, Sound(b), NEW n, n \in Nat, n <= b.size, n <= b.cap
  PROVE  Unrolled(b, n) \in Seq(RowTypes) /\ Len(Unrolled(b, n)) <= n
<1> DEFINE end == b.size % b.cap
           start == (end - n) % b.cap
           whole == SubSeq(b.rows, start + 1, end)
           front == SubSeq(b.rows, start + 1, Len(b.rows))
           back == SubSeq(b.rows, 1, end)
<1>1. /\ b.size \in Nat /\ b.realsize \in Nat /\ b.cap \in Nat \ {0}
      /\ b.rows \in Seq(RowTypes) /\ Len(b.rows) \in Nat /\ b.size <= b.realsize
      /\ Len(b.rows) = (IF b.realsize < b.cap THEN b.realsize ELSE b.cap)
  BY DEF Sound, BufferTypes, SmallerOf
<1>2. end \in 0 .. b.cap - 1 /\ (b.size < b.cap => end = b.size)
  <2>1. (b.size % b.cap) + 1 \in 1 .. b.cap /\ (b.size < b.cap => (b.size % b.cap) + 1 = b.size + 1)
    BY <1>1, ModSlot, Zenon
  <2>2. end \in Int
    BY <1>1
  <2> QED BY <1>1, <2>1, <2>2
<1>3. Unrolled(b, n) = IF end >= start THEN whole ELSE front \o back
  BY DEF Unrolled
<1> HIDE DEF end
<1>4. start = IF n <= end THEN end - n ELSE end - n + b.cap
  <2>1. end \in 0 .. b.cap - 1
    BY <1>2
  <2>2. n \in 0 .. b.cap
    BY <1>1
  <2>3. b.cap \in Nat \ {0}
    BY <1>1
  <2>4. (end - n) % b.cap = IF n <= end THEN end - n ELSE end - n + b.cap
    BY <2>1, <2>2, <2>3, ModBack, Zenon
  <2> QED BY <2>4 DEF start
<1> HIDE DEF start
<1>5. start \in Nat /\ end \in Nat /\ end <= Len(b.rows) /\ start <= b.cap
  <2>1. end \in Nat /\ end <= b.cap - 1 /\ b.cap \in Nat /\ n \in Nat /\ n <= b.cap
    BY <1>1, <1>2
  <2>2. start \in Nat /\ start <= b.cap
    BY <1>4, <2>1
  <2>3. end <= Len(b.rows)
    BY <1>1, <1>2, <2>1
  <2> QED BY <2>1, <2>2, <2>3
<1>6. CASE end >= start
  <2>1. start + 1 \in Int /\ 1 <= start + 1 /\ end \in Int /\ end <= Len(b.rows)
    BY <1>5
  <2>2. Part(RowTypes, b.rows, start + 1, end, whole)
    BY <1>1, <2>1, SubSeqPart, Zenon
  <2> HIDE DEF whole
  <2>3. whole \in Seq(RowTypes) /\ Len(whole) <= n
    BY <1>1, <1>2, <1>4, <1>5, <1>6, <2>2 DEF Part
  <2> QED BY <1>3, <1>6, <2>3
<1>7. CASE ~(end >= start)
  <2>1. start + 1 \in Int /\ 1 <= start + 1 /\ Len(b.rows) \in Int /\ Len(b.rows) <= Len(b.rows)
        /\ 1 \in Int /\ 1 <= 1 /\ end \in Int /\ end <= Len(b.rows)
    BY <1>1, <1>5
  <2>2. Part(RowTypes, b.rows, start + 1, Len(b.rows), front)
    BY <1>1, <2>1, SubSeqPart, Zenon
  <2>3. Part(RowTypes, b.rows, 1, end, back)
    BY <1>1, <2>1, SubSeqPart, Zenon
  <2> HIDE DEF front, back
  <2>4. Len(b.rows) = b.cap /\ start = end - n + b.cap /\ n > end
    BY <1>1, <1>2, <1>4, <1>5, <1>7
  <2>5. front \in Seq(RowTypes) /\ back \in Seq(RowTypes) /\ Len(back) = end
        /\ Len(front) = b.cap - start
    BY <1>1, <1>5, <2>2, <2>3, <2>4 DEF Part
  <2>6. Joined(RowTypes, front, back, front \o back)
    BY <2>5, Joining, Zenon
  <2>7. front \o back \in Seq(RowTypes) /\ Len(front \o back) = n
    BY <1>1, <1>5, <2>4, <2>5, <2>6 DEF Joined
  <2> QED BY <1>3, <1>7, <2>7
<1> QED BY <1>6, <1>7

LEMMA StraightenedFacts ==
  ASSUME NEW b, Sound(b)
  PROVE  /\ Straightened(b) \in Seq(RowTypes)
         /\ Len(Straightened(b)) <= b.cap /\ Len(Straightened(b)) = Cardinality(Kept(b))
         /\ b.noScroll => Len(Straightened(b)) = b.size
<1> DEFINE pos == b.realsize % b.cap
           front == SubSeq(b.rows, pos + 1, Len(b.rows))
           back == SubSeq(b.rows, 1, pos)
           turned == IF pos < Len(b.rows) THEN front \o back ELSE b.rows
           most == Len(turned) - (b.realsize - b.size)
<1>1. /\ b.size \in Nat /\ b.realsize \in Nat /\ b.cap \in Nat \ {0}
      /\ b.rows \in Seq(RowTypes) /\ Len(b.rows) \in Nat /\ b.size <= b.realsize
      /\ Len(b.rows) = (IF b.realsize < b.cap THEN b.realsize ELSE b.cap)
      /\ b.noScroll => b.realsize <= b.cap
  BY DEF Sound, BufferTypes, SmallerOf
<1>2. pos \in Nat
  <2>1. b.realsize \in Int
    BY <1>1
  <2>2. pos \in 0 .. b.cap - 1
    BY <1>1, <2>1, DivMod, Zenon
  <2> HIDE DEF pos
  <2> QED BY <1>1, <2>2
<1>3. Straightened(b) = SubSeq(turned, 1, most)
  BY DEF Straightened
<1> HIDE DEF pos
<1>4. turned \in Seq(RowTypes) /\ Len(turned) = Len(b.rows)
  <2>1. CASE pos < Len(b.rows)
    <3>1. pos + 1 \in Int /\ 1 <= pos + 1 /\ Len(b.rows) \in Int /\ Len(b.rows) <= Len(b.rows)
          /\ 1 \in Int /\ 1 <= 1 /\ pos \in Int /\ pos <= Len(b.rows)
      BY <1>1, <1>2, <2>1
    <3>2. Part(RowTypes, b.rows, pos + 1, Len(b.rows), front)
      BY <1>1, <3>1, SubSeqPart, Zenon
    <3>3. Part(RowTypes, b.rows, 1, pos, back)
      BY <1>1, <3>1, SubSeqPart, Zenon
    <3> HIDE DEF front, back
    <3>4. front \in Seq(RowTypes) /\ back \in Seq(RowTypes) /\ Len(back) = pos
          /\ Len(front) = Len(b.rows) - pos
      BY <1>1, <1>2, <2>1, <3>2, <3>3 DEF Part
    <3>5. Joined(RowTypes, front, back, front \o back)
      BY <3>4, Joining, Zenon
    <3>6. front \o back \in Seq(RowTypes) /\ Len(front \o back) = Len(b.rows)
      BY <1>1, <1>2, <3>4, <3>5 DEF Joined
    <3> QED BY <2>1, <3>6
  <2>2. CASE ~(pos < Len(b.rows))
    BY <1>1, <2>2
  <2> QED BY <2>1, <2>2
<1> HIDE DEF turned
<1>5. most \in Int /\ 1 \in Int /\ 1 <= 1 /\ most <= Len(turned)
  BY <1>1, <1>4
<1>6. Part(RowTypes, turned, 1, most, SubSeq(turned, 1, most))
  BY <1>4, <1>5, SubSeqPart, Zenon
<1>7. /\ SubSeq(turned, 1, most) \in Seq(RowTypes)
      /\ Len(SubSeq(turned, 1, most)) = (IF 1 <= most THEN most - 1 + 1 ELSE 0)
  BY <1>6 DEF Part
<1>8. most <= b.cap /\ (b.noScroll => most = b.size)
  BY <1>1, <1>4
<1>9. Cardinality(Kept(b)) = IF 1 <= most THEN most ELSE 0
  <2>1. First(b) = IF b.realsize > b.cap THEN b.realsize - b.cap ELSE 0
    BY <1>1 DEF First, LargerOf
  <2>2. First(b) \in Int /\ b.size - 1 \in Int
    BY <1>1, <2>1
  <2>3. Cardinality(Kept(b)) = IF First(b) > b.size - 1 THEN 0 ELSE (b.size - 1) - First(b) + 1
    BY <2>2, FS_Interval DEF Kept
  <2> QED BY <1>1, <1>4, <2>1, <2>3
<1> HIDE DEF most
<1> QED BY <1>1, <1>3, <1>5, <1>7, <1>8, <1>9

\* The rows that are kept by a buffer of another capacity.
CapacityRows(b, cap) ==
  IF b.cap < cap THEN Straightened(b)
  ELSE IF b.size > cap THEN Unrolled(b, cap)
  ELSE SubSeq(b.rows, 1, b.size % b.cap)

LEMMA CapacityRowsFacts ==
  ASSUME NEW b, Sound(b), NEW cap, cap \in Nat \ {0}, cap # b.cap, b.height <= cap,
         b.noScroll => b.cap < cap
  PROVE  /\ CapacityRows(b, cap) \in Seq(RowTypes) /\ Len(CapacityRows(b, cap)) <= cap
         /\ b.noScroll => Len(CapacityRows(b, cap)) <= b.height
<1> DEFINE rows == CapacityRows(b, cap)
<1>1. /\ b.size \in Nat /\ b.realsize \in Nat /\ b.cap \in Nat \ {0}
      /\ b.rows \in Seq(RowTypes) /\ Len(b.rows) \in Nat /\ b.size <= b.realsize
      /\ Len(b.rows) = (IF b.realsize < b.cap THEN b.realsize ELSE b.cap)
      /\ b.noScroll => b.size = b.height
  BY DEF Sound, BufferTypes, SmallerOf
<1>3. rows \in Seq(RowTypes) /\ Len(rows) <= cap /\ (b.noScroll => Len(rows) <= b.height)
  <2>1. CASE b.cap < cap
    <3>1. rows = Straightened(b)
      BY <2>1 DEF CapacityRows
    <3> HIDE DEF rows
    <3>2. Straightened(b) \in Seq(RowTypes) /\ Len(Straightened(b)) <= b.cap
          /\ (b.noScroll => Len(Straightened(b)) = b.size)
      BY StraightenedFacts
    <3>3. rows \in Seq(RowTypes) /\ Len(rows) \in Nat
      BY <3>1, <3>2
    <3> QED BY <1>1, <2>1, <3>1, <3>2, <3>3
  <2>2. CASE ~(b.cap < cap) /\ b.size > cap
    <3>1. rows = Unrolled(b, cap)
      BY <2>2 DEF CapacityRows
    <3> HIDE DEF rows
    <3>2. cap \in Nat /\ cap <= b.size /\ cap <= b.cap /\ ~b.noScroll
      BY <1>1, <2>2
    <3>3. Unrolled(b, cap) \in Seq(RowTypes) /\ Len(Unrolled(b, cap)) <= cap
      BY <3>2, UnrolledFacts
    <3> QED BY <3>1, <3>2, <3>3
  <2>3. CASE ~(b.cap < cap) /\ ~(b.size > cap)
    <3> DEFINE end == b.size % b.cap
    <3>1. b.size < b.cap /\ ~b.noScroll
      BY <1>1, <2>3
    <3>2. end + 1 = b.size + 1 /\ end \in Int
      <4>1. (b.size % b.cap) + 1 \in 1 .. b.cap /\ (b.size < b.cap => (b.size % b.cap) + 1 = b.size + 1)
        BY <1>1, ModSlot, Zenon
      <4> QED BY <1>1, <3>1, <4>1
    <3>3. rows = SubSeq(b.rows, 1, end)
      BY <2>3 DEF CapacityRows
    <3> HIDE DEF end, rows
    <3>4. 1 \in Int /\ 1 <= 1 /\ end \in Int /\ end <= Len(b.rows)
      BY <1>1, <3>1, <3>2
    <3>5. Part(RowTypes, b.rows, 1, end, rows)
      BY <1>1, <3>3, <3>4, SubSeqPart, Zenon
    <3> QED BY <1>1, <2>3, <3>1, <3>2, <3>5 DEF Part
  <2> QED BY <2>1, <2>2, <2>3
<1> QED BY <1>3

\* The capacity is changed: to more for any buffer, to less for the main one.
LEMMA SetCapacityFacts ==
  ASSUME NEW b, Sound(b), NEW cap, cap \in Nat \ {0}, cap # b.cap, b.height <= cap,
         b.noScroll => b.cap < cap
  PROVE  Kindred(b, SetCapacity(b, cap)) /\ SetCapacity(b, cap).cap = cap
<1> DEFINE rows == CapacityRows(b, cap)
<1>1. rows \in Seq(RowTypes) /\ Len(rows) <= cap /\ (b.noScroll => Len(rows) <= b.height)
  BY CapacityRowsFacts
<1>2. SetCapacity(b, cap) = Renumbered(b, rows, cap)
  BY DEF SetCapacity, CapacityRows
<1> HIDE DEF rows
<1>3. Kindred(b, Renumbered(b, rows, cap)) /\ Renumbered(b, rows, cap).cap = cap
  BY <1>1, RenumberedFacts
<1> QED BY <1>2, <1>3

LEMMA EnableScrollbackFacts ==
  ASSUME NEW b, Sound(b), ~b.noScroll, NEW cap, cap \in Nat \ {0}
  PROVE  Kindred(b, EnableScrollback(b, cap))
<1> DEFINE new == CapacityFor(cap, b.height)
           open == [b EXCEPT !.noScroll = FALSE]
           fit == IF b.cap = new THEN open ELSE SetCapacity(open, new)
<1>1. b.height \in Nat
  BY DEF Sound, BufferTypes
<1>2. new \in Nat \ {0} /\ b.height <= new
  BY <1>1, CapacityFits
<1>3. open = b
  BY DEF Sound, BufferTypes
<1> HIDE DEF new, open
<1>4. Kindred(b, fit)
  <2>1. CASE b.cap = new
    BY <1>3, <2>1 DEF Kindred
  <2>2. CASE b.cap # new
    <3>1. Kindred(b, SetCapacity(b, new))
      BY <1>2, <2>2, SetCapacityFacts
    <3> QED BY <1>3, <2>2, <3>1
  <2> QED BY <2>1, <2>2
<1>5. EnableScrollback(b, cap) = IF ~b.noScroll /\ b.cap = new THEN b ELSE TellCapacity(fit)
  BY DEF EnableScrollback, new, open
<1> HIDE DEF fit
<1>6. Kindred(fit, TellCapacity(fit))
  BY <1>4, TellFacts, AlikeKindred DEF Kindred
<1> QED BY <1>4, <1>5, <1>6, KindredTrans DEF Kindred

LEMMA ClearScrollbackFacts ==
  ASSUME NEW b, Sound(b)
  PROVE  Kindred(b, ClearScrollback(b))
<1> DEFINE rows == Unrolled(b, b.height)
           c == Renumbered(b, rows, b.cap)
<1>1. b.height \in Nat /\ b.height <= b.size /\ b.height <= b.cap /\ b.cap \in Nat \ {0}
  BY DEF Sound, BufferTypes
<1>2. rows \in Seq(RowTypes) /\ Len(rows) <= b.height
  BY <1>1, UnrolledFacts
<1>3. Len(rows) <= b.cap
  <2>1. Len(rows) \in Nat
    BY <1>2
  <2> QED BY <1>1, <1>2, <2>1
<1>4. ClearScrollback(b) = IF b.size = b.height THEN b ELSE TellCapacity(c)
  BY DEF ClearScrollback
<1> HIDE DEF rows
<1>5. Kindred(b, c)
  BY <1>1, <1>2, <1>3, RenumberedFacts
<1> HIDE DEF c
<1>6. Kindred(c, TellCapacity(c))
  BY <1>5, TellFacts, AlikeKindred DEF Kindred
<1> QED BY <1>4, <1>5, <1>6, KindredTrans DEF Kindred

LEMMA ClearFacts ==
  ASSUME NEW b, Sound(b), b.noScroll
  PROVE  Alike(b, Clear(b)) /\ NoNewCont(b, Clear(b))
<1> DEFINE R == Blanks(b.size)
           C == b.changed \cup (0 .. b.size - 1)
           c == [b EXCEPT !.rows = R, !.realsize = b.size, !.changed = C]
<1>1. /\ b.size \in Nat /\ b.realsize \in Nat /\ b.cap \in Nat \ {0} /\ b.changed \subseteq Nat
      /\ b.size <= b.cap /\ b.size <= b.realsize
  BY DEF Sound, BufferTypes
<1>2. R \in Seq(RowTypes) /\ Len(R) = b.size /\ \A i \in 1 .. b.size : R[i] = BlankRow
  BY <1>1, BlanksFacts
<1>3. C \subseteq Nat
  BY <1>1
<1>4. c = Clear(b)
  BY DEF Clear, Sound, BufferTypes
<1> HIDE DEF R, C
<1>5. /\ c \in BufferTypes /\ c.rows = R /\ c.realsize = b.size /\ c.size = b.size /\ c.cap = b.cap
      /\ c.height = b.height /\ c.noScroll = b.noScroll /\ c.lost = b.lost
  BY <1>1, <1>2, <1>3 DEF Sound, BufferTypes
<1> HIDE DEF c
<1>6. Sound(c)
  BY <1>1, <1>2, <1>5 DEF Sound, SmallerOf
<1>7. \A s \in 1 .. Len(c.rows) : ~c.rows[s].cont
  BY <1>2, <1>5, BlankFacts
<1>8. ASSUME NEW i \in 0 .. b.size - 1 PROVE ~Row(c, i).cont
  <2>1. Held(c, i)
    BY <1>1, <1>5 DEF Held
  <2>2. Slot(c, i) \in 1 .. Len(c.rows)
    BY <1>6, <2>1, SlotHeld
  <2> QED BY <1>7, <2>2 DEF Row
<1> QED BY <1>4, <1>5, <1>6, <1>8 DEF Alike, NoNewCont

\* A buffer while its screen is made taller: b has got n rows more.
Growing(b, c, n) ==
  /\ c \in BufferTypes /\ c.size = b.size + n /\ c.cap = b.cap
  /\ c.height = b.height /\ c.noScroll = b.noScroll
  /\ c.realsize = LargerOf(b.realsize, b.size + n)
  /\ Len(c.rows) = SmallerOf(c.realsize, c.cap)
  /\ c.changed = b.changed \cup (b.size .. b.size + n - 1) /\ c.told = b.told /\ c.lost = b.lost
  /\ \A s \in 1 .. Len(b.rows) : c.rows[s] = b.rows[s]
  /\ \A s \in 1 .. Len(c.rows) : s > Len(b.rows) => c.rows[s] = BlankRow

LEMMA AddRowFacts ==
  ASSUME NEW b, Sound(b), NEW n, n \in Nat, NEW c, Growing(b, c, n), c.size < c.cap
  PROVE  Growing(b, AddRow(c), n + 1)
<1> DEFINE R == IF c.size < c.realsize THEN c.rows
                ELSE IF c.noScroll \/ c.size < c.cap THEN Append(c.rows, BlankRow)
                ELSE [c.rows EXCEPT ![Slot(c, c.size)] = BlankRow]
           N == LargerOf(c.realsize, c.size + 1)
           C == c.changed \cup {c.size}
           d == [c EXCEPT !.rows = R, !.realsize = N, !.changed = C, !.size = c.size + 1]
<1>1. /\ c.size \in Nat /\ c.realsize \in Nat /\ c.cap \in Nat \ {0} /\ c.rows \in Seq(RowTypes)
      /\ c.changed \subseteq Nat /\ Len(c.rows) \in Nat /\ c.size = b.size + n /\ b.size \in Nat
      /\ b.realsize \in Nat /\ b.size <= b.realsize
      /\ c.changed = b.changed \cup (b.size .. b.size + n - 1)
  BY DEF Growing, BufferTypes, Sound
<1>2. AddRow(c) = d
  BY DEF AddRow, Growing, BufferTypes
<1>9. d.changed = b.changed \cup (b.size .. b.size + (n + 1) - 1) /\ d.told = b.told /\ d.lost = b.lost
  <2>1. C = b.changed \cup (b.size .. b.size + (n + 1) - 1)
    BY <1>1
  <2> HIDE DEF R, N, C
  <2> QED BY <2>1 DEF Growing, BufferTypes
<1>3. /\ R \in Seq(RowTypes)
      /\ Len(R) = IF c.size < c.realsize THEN Len(c.rows) ELSE Len(c.rows) + 1
  <2>1. CASE c.size < c.realsize
    BY <1>1, <2>1
  <2>2. CASE ~(c.size < c.realsize)
    <3>1. R = Append(c.rows, BlankRow)
      BY <2>2
    <3>2. BlankRow \in RowTypes
      BY BlankFacts
    <3> QED BY <1>1, <2>2, <3>1, <3>2
  <2> QED BY <2>1, <2>2
<1>10. \A s \in 1 .. Len(b.rows) : R[s] = b.rows[s]
  <2>1. Len(b.rows) <= Len(c.rows) /\ Len(b.rows) \in Nat
    BY <1>1 DEF Growing, Sound, BufferTypes, SmallerOf, LargerOf
  <2>2. \A s \in 1 .. Len(c.rows) : R[s] = c.rows[s]
    BY <1>1
  <2> HIDE DEF R
  <2> QED BY <1>1, <2>1, <2>2 DEF Growing
<1>11. ASSUME NEW s \in 1 .. Len(R), s > Len(b.rows) PROVE R[s] = BlankRow
  <2>1. \A x \in 1 .. Len(c.rows) : x > Len(b.rows) => c.rows[x] = BlankRow
    BY DEF Growing
  <2>2. CASE s <= Len(c.rows)
    <3>1. s \in 1 .. Len(c.rows) /\ R[s] = c.rows[s]
      BY <1>1, <1>3, <2>2
    <3> QED BY <1>11, <2>1, <3>1
  <2>3. CASE ~(s <= Len(c.rows))
    <3>1. R = Append(c.rows, BlankRow) /\ s = Len(c.rows) + 1
      BY <1>1, <1>3, <2>3
    <3> QED BY <1>1, <3>1
  <2> QED BY <2>2, <2>3
<1>4. N \in Nat /\ C \subseteq Nat /\ N = (IF c.size < c.realsize THEN c.realsize ELSE c.size + 1)
  BY <1>1 DEF LargerOf
<1> HIDE DEF R, N, C
<1>5. /\ d \in BufferTypes /\ d.size = c.size + 1 /\ d.cap = c.cap /\ d.rows = R /\ d.realsize = N
      /\ d.height = c.height /\ d.noScroll = c.noScroll
  <2>1. c.size + 1 \in Nat /\ c \in BufferTypes
    BY <1>1 DEF Growing
  <2> DEFINE size == c.size + 1
  <2>2. d = [c EXCEPT !.rows = R, !.realsize = N, !.changed = C, !.size = size] /\ size \in Nat
    BY <2>1
  <2> HIDE DEF size, d
  <2>3. /\ d \in BufferTypes /\ d.size = size /\ d.cap = c.cap /\ d.rows = R /\ d.realsize = N
        /\ d.height = c.height /\ d.noScroll = c.noScroll
    BY <1>3, <1>4, <2>1, <2>2 DEF BufferTypes
  <2> QED BY <2>3 DEF size
<1> HIDE DEF d
<1>6. N = LargerOf(b.realsize, b.size + (n + 1))
  <2>1. c.realsize = (IF b.realsize < b.size + n THEN b.size + n ELSE b.realsize)
    BY DEF Growing, LargerOf
  <2>2. c.size = b.size + n /\ b.size \in Nat /\ b.realsize \in Nat /\ n \in Nat
    BY <1>1
  <2>3. N = IF b.realsize < b.size + (n + 1) THEN b.size + (n + 1) ELSE b.realsize
    BY <1>4, <2>1, <2>2
  <2> QED BY <2>3 DEF LargerOf
<1>7. Len(R) = SmallerOf(N, c.cap)
  BY <1>1, <1>3, <1>4 DEF Growing, SmallerOf, LargerOf
<1>8. d.size = b.size + (n + 1)
  <2>1. c.size + 1 = b.size + (n + 1)
    <3>1. c.size = b.size + n /\ b.size \in Nat
      BY <1>1
    <3>2. \A x \in Nat : (x + n) + 1 = x + (n + 1)
      OBVIOUS
    <3> QED BY <3>1, <3>2
  <2> QED BY <1>5, <2>1
<1> QED BY <1>2, <1>5, <1>6, <1>7, <1>8, <1>9, <1>10, <1>11 DEF Growing

LEMMA AddedExists ==
  ASSUME NEW b, NEW n \in Nat
  PROVE  \E a : a = [k \in 0 .. n |-> IF k = 0 THEN b ELSE AddRow(a[k-1])]
<1> DEFINE Bad == {m \in Nat : ~\E a : a = [k \in 0 .. m |-> IF k = 0 THEN b ELSE AddRow(a[k-1])]}
<1> SUFFICES ASSUME Bad # {} PROVE FALSE
  OBVIOUS
<1>1. PICK m \in Bad : \A y \in Bad : m <= y
  BY Least
<1>2. m # 0
  <2> SUFFICES 0 \notin Bad
    BY <1>1
  <2> DEFINE a == [k \in 0 .. 0 |-> b]
  <2>1. a = [k \in 0 .. 0 |-> IF k = 0 THEN b ELSE AddRow(a[k-1])]
    OBVIOUS
  <2> QED BY <2>1
<1>3. m \in Nat /\ m - 1 \in Nat /\ m - 1 \notin Bad
  <2>1. m \in Nat
    OBVIOUS
  <2> HIDE DEF Bad
  <2>2. m - 1 \notin Bad
    BY <1>1, <2>1
  <2> QED BY <2>1, <2>2, <1>2
<1>4. PICK a : a = [k \in 0 .. m-1 |-> IF k = 0 THEN b ELSE AddRow(a[k-1])]
  BY <1>3
<1> DEFINE e == [k \in 0 .. m |-> IF k = m THEN AddRow(a[m-1]) ELSE a[k]]
<1>5. ASSUME NEW k \in 0 .. m PROVE e[k] = IF k = 0 THEN b ELSE AddRow(e[k-1])
  <2>1. CASE k = m
    BY <2>1, <1>2
  <2>2. CASE k # m /\ k # 0
    <3>1. k \in 0 .. m-1 /\ k-1 \in 0 .. m-1 /\ k - 1 # m
      BY <2>2
    <3>2. a[k] = AddRow(a[k-1])
      BY <1>4, <3>1, <2>2
    <3>3. e[k] = a[k] /\ e[k-1] = a[k-1]
      BY <3>1, <2>2
    <3> QED BY <3>2, <3>3, <2>2
  <2>3. CASE k = 0
    <3>1. a[0] = b
      BY <1>4, <1>3
    <3> QED BY <2>3, <3>1, <1>2
  <2> QED BY <2>1, <2>2, <2>3
<1>6. e = [k \in 0 .. m |-> IF k = 0 THEN b ELSE AddRow(e[k-1])]
  BY <1>5
<1> QED BY <1>6

LEMMA AddRowsFacts ==
  ASSUME NEW b, Sound(b), NEW n, n \in Nat, b.size + n <= b.cap \/ n = 0
  PROVE  Growing(b, AddRows(b, n), n)
<1> DEFINE A == Added(b, n)
           Bad == {m \in 0 .. n : ~Growing(b, A[m], m)}
<1>0. \A m \in 0 .. n : A[m] = IF m = 0 THEN b ELSE AddRow(A[m-1])
  <2>1. \E a : a = [k \in 0 .. n |-> IF k = 0 THEN b ELSE AddRow(a[k-1])]
    BY AddedExists
  <2>2. A = [k \in 0 .. n |-> IF k = 0 THEN b ELSE AddRow(A[k-1])]
    BY <2>1 DEF Added
  <2> HIDE DEF A
  <2> QED BY <2>2
<1> HIDE DEF A
<1> SUFFICES ASSUME Bad # {} PROVE FALSE
  <2>1. n \in 0 .. n
    OBVIOUS
  <2> QED BY <2>1 DEF A, AddRows
<1>a. Bad \subseteq Nat
  OBVIOUS
<1>1. PICK m \in Bad : \A y \in Bad : m <= y
  <2> HIDE DEF Bad
  <2> QED BY <1>a, Least
<1>b. m \in 0 .. n /\ ~Growing(b, A[m], m)
  OBVIOUS
<1>c. b.size \in Nat /\ b.realsize \in Nat /\ b.size <= b.realsize /\ b.cap \in Nat
  BY DEF Sound, BufferTypes
<1>2. m # 0
  <2> SUFFICES Growing(b, b, 0)
    BY <1>0, <1>b
  <2>1. LargerOf(b.realsize, b.size + 0) = b.realsize
    BY <1>c DEF LargerOf
  <2>2. b.changed = b.changed \cup (b.size .. b.size + 0 - 1)
    BY <1>c
  <2>3. Len(b.rows) \in Nat
    BY DEF Sound, BufferTypes
  <2> QED BY <1>c, <2>1, <2>2, <2>3 DEF Growing, Sound
<1>3. m - 1 \in 0 .. n /\ m - 1 \notin Bad /\ m - 1 \in Nat
  <2>1. m - 1 \in 0 .. n /\ m - 1 \in Nat /\ ~(m <= m - 1)
    BY <1>2, <1>b
  <2> HIDE DEF Bad
  <2> QED BY <1>1, <2>1
<1>4. Growing(b, A[m-1], m - 1)
  BY <1>3
<1> HIDE DEF Bad
<1>5. A[m-1].size < A[m-1].cap
  BY <1>c, <1>b, <1>3, <1>4 DEF Growing
<1>6. Growing(b, AddRow(A[m-1]), (m - 1) + 1)
  BY <1>3, <1>4, <1>5, AddRowFacts, Zenon
<1>7. A[m] = AddRow(A[m-1]) /\ (m - 1) + 1 = m
  BY <1>0, <1>b, <1>2
<1> QED BY <1>b, <1>6, <1>7

LEMMA EmptyRowsFacts ==
  ASSUME NEW b, b.size \in Nat, NEW most, most \in Nat
  PROVE  /\ EmptyRows(b, most) \in 0 .. most
         /\ \A i \in b.size - EmptyRows(b, most) .. b.size - 1 : Row(b, i).text = 0
<1> DEFINE S == {n \in 0 .. most : \A i \in b.size - n .. b.size - 1 : IsEmptyRow(Row(b, i))}
<1>1. 0 \in S
  OBVIOUS
<1>2. S \subseteq Int /\ (\A x \in S : x <= most) /\ S \subseteq 0 .. most /\ most \in Int
  OBVIOUS
<1>3. EmptyRows(b, most) = Max(S)
  BY DEF EmptyRows
<1> HIDE DEF S
<1>4. \E x \in S : \A y \in S : x >= y
  BY <1>1, <1>2, Greatest
<1>5. EmptyRows(b, most) \in S
  BY <1>2, <1>3, <1>4 DEF Max
<1> QED BY <1>5 DEF S, IsEmptyRow

\* c is of b's kind and has the height.
Fitted(b, height, c) == Sound(c) /\ c.height = height /\ (c.noScroll <=> b.noScroll)

\* What a buffer that is too small for the height is made first, and the
\* parts of what setScreenHeight makes of the buffer d then.
FitFor(b, height) ==
  IF b.cap < height THEN TellCapacity(SetCapacity(b, CapacityFor(b.cap, height))) ELSE b
ShownFor(d, height) == IF d.noScroll THEN {} ELSE Revealed(d, height, LinesAdded(d, height))
SizedFor(d, height, removed) ==
  LET sized == DropRows(AddRows(d, LinesAdded(d, height)), removed)
  IN [sized EXCEPT !.height = height, !.changed = @ \cup ShownFor(d, height)]
RemovedFor(b, d, height, maxChop) ==
  IF b.noScroll THEN LargerOf(0, d.size - height)
  ELSE EmptyRows(d, SmallerOf(maxChop, LargerOf(0, b.height - height)))

\* A screen is left with no fewer rows than its height.
Removable(d, height, removed) ==
  /\ removed \in Nat
  /\ d.noScroll => removed = LargerOf(0, d.size - height)
  /\ ~d.noScroll => removed <= LargerOf(0, d.height - height)

LEMMA FitFacts ==
  ASSUME NEW b, Sound(b), NEW height, height \in Nat \ {0}
  PROVE  Kindred(b, FitFor(b, height)) /\ height <= FitFor(b, height).cap
<1> DEFINE new == CapacityFor(b.cap, height)
<1>1. CASE b.cap < height
  <2>1. b.cap \in Nat \ {0} /\ b.height \in Nat /\ b.height <= b.cap
    BY DEF Sound, BufferTypes
  <2>2. new \in Nat \ {0} /\ height <= new
    BY <2>1, CapacityFits
  <2>3. new # b.cap /\ b.height <= new /\ b.cap < new
    BY <1>1, <2>1, <2>2
  <2>4. FitFor(b, height) = TellCapacity(SetCapacity(b, new))
    BY <1>1 DEF FitFor
  <2> HIDE DEF new
  <2>5. Kindred(b, SetCapacity(b, new)) /\ SetCapacity(b, new).cap = new
    BY <2>2, <2>3, SetCapacityFacts
  <2>6. Alike(SetCapacity(b, new), TellCapacity(SetCapacity(b, new)))
    BY <2>5, TellFacts DEF Kindred
  <2> QED BY <2>2, <2>4, <2>5, <2>6, AlikeKindred, KindredTrans DEF Alike
<1>2. CASE ~(b.cap < height)
  <2>1. FitFor(b, height) = b
    BY <1>2 DEF FitFor
  <2> QED BY <1>2, <2>1 DEF Kindred, Sound, BufferTypes
<1> QED BY <1>1, <1>2

LEMMA RemovedFacts ==
  ASSUME NEW b, Sound(b), NEW d, Kindred(b, d), NEW height, height \in Nat \ {0},
         NEW maxChop, maxChop \in Nat
  PROVE  Removable(d, height, RemovedFor(b, d, height, maxChop))
<1> DEFINE most == SmallerOf(maxChop, LargerOf(0, b.height - height))
<1>1. d.size \in Nat /\ b.height \in Nat /\ d.height = b.height /\ d.noScroll = b.noScroll
      /\ b.noScroll \in BOOLEAN
  BY DEF Kindred, Sound, BufferTypes
<1>2. most \in Nat /\ most <= LargerOf(0, b.height - height) /\ LargerOf(0, b.height - height) \in Nat
  BY <1>1 DEF SmallerOf, LargerOf
<1> HIDE DEF most
<1>3. EmptyRows(d, most) \in 0 .. most
  BY <1>1, <1>2, EmptyRowsFacts
<1>4. LargerOf(0, d.size - height) \in Nat
  BY <1>1 DEF LargerOf
<1>5. RemovedFor(b, d, height, maxChop) = IF b.noScroll THEN LargerOf(0, d.size - height)
                                          ELSE EmptyRows(d, most)
  BY DEF RemovedFor, most
<1> QED BY <1>1, <1>2, <1>3, <1>4, <1>5 DEF Removable

\* c is d with rows added or removed: those that stay are where they were.
Sized(d, height, removed, c) ==
  /\ Sound(c) /\ c.height = height /\ c.noScroll = d.noScroll /\ c.cap = d.cap /\ c.told = d.told
  /\ c.lost = d.lost /\ c.realsize = LargerOf(d.realsize, height)
  /\ c.size = d.size + LinesAdded(d, height) - removed
  /\ c.changed = (d.changed \cup (d.size .. d.size + LinesAdded(d, height) - 1)) \cup ShownFor(d, height)
  /\ LinesAdded(d, height) > 0 => removed = 0
  /\ \A s \in 1 .. Len(d.rows) :
       c.rows[s] = d.rows[s] \/ \E i \in d.size - removed .. d.size - 1 : Slot(d, i) = s
  /\ \A s \in 1 .. Len(c.rows) :
       (s > Len(d.rows) \/ \E i \in d.size - removed .. d.size - 1 : Slot(d, i) = s) => c.rows[s] = BlankRow

LEMMA SizedFacts ==
  ASSUME NEW d, Sound(d), NEW height, height \in Nat \ {0}, height <= d.cap,
         NEW removed, Removable(d, height, removed)
  PROVE  Sized(d, height, removed, SizedFor(d, height, removed))
<1> DEFINE added == LinesAdded(d, height)
           grown == AddRows(d, added)
           sized == DropRows(grown, removed)
           shown == ShownFor(d, height)
           done == [sized EXCEPT !.height = height, !.changed = @ \cup shown]
<1>1. done = SizedFor(d, height, removed)
  BY DEF SizedFor
<1>3. /\ d.size \in Nat /\ d.realsize \in Nat /\ d.cap \in Nat \ {0} /\ d.height \in Nat \ {0}
      /\ d.size <= d.realsize /\ d.height <= d.size /\ d.noScroll \in BOOLEAN
      /\ d.rows \in Seq(RowTypes) /\ Len(d.rows) \in Nat /\ Len(d.rows) = SmallerOf(d.realsize, d.cap)
      /\ d.noScroll => d.size = d.height /\ d.realsize <= d.cap
  BY DEF Sound, BufferTypes
<1>4. added = IF d.size < height THEN height - d.size ELSE 0
  BY <1>3 DEF LinesAdded, LargerOf
<1>6. /\ removed \in Nat
      /\ d.noScroll => removed = IF height < d.size THEN d.size - height ELSE 0
      /\ ~d.noScroll => removed <= (IF height < d.height THEN d.height - height ELSE 0)
  BY <1>3 DEF Removable, LargerOf
<1>a. added \in Nat /\ (added > 0 => removed = 0)
  BY <1>3, <1>4, <1>6
<1> HIDE DEF added
<1>7. Growing(d, grown, added)
  <2>1. d.size + added <= d.cap \/ added = 0
    BY <1>3, <1>4
  <2> QED BY <1>a, <2>1, AddRowsFacts, Zenon
<1> HIDE DEF grown
<1>8. /\ grown \in BufferTypes /\ grown.size \in Nat /\ grown.rows \in Seq(RowTypes)
      /\ grown.realsize \in Nat /\ grown.cap = d.cap
      /\ grown.size = (IF d.size < height THEN height ELSE d.size)
      /\ grown.realsize = (IF d.realsize < height THEN height ELSE d.realsize)
      /\ grown.noScroll = d.noScroll /\ Len(grown.rows) = SmallerOf(grown.realsize, grown.cap)
      /\ grown.size = d.size + added /\ grown.told = d.told
      /\ grown.changed = d.changed \cup (d.size .. d.size + added - 1)
      /\ \A s \in 1 .. Len(d.rows) : grown.rows[s] = d.rows[s]
      /\ grown.lost = d.lost
      /\ \A s \in 1 .. Len(grown.rows) : s > Len(d.rows) => grown.rows[s] = BlankRow
  <2>1. /\ grown \in BufferTypes /\ grown.cap = d.cap /\ grown.size = d.size + added
        /\ grown.noScroll = d.noScroll /\ grown.realsize = LargerOf(d.realsize, d.size + added)
        /\ Len(grown.rows) = SmallerOf(grown.realsize, grown.cap) /\ grown.told = d.told
        /\ grown.changed = d.changed \cup (d.size .. d.size + added - 1)
        /\ \A s \in 1 .. Len(d.rows) : grown.rows[s] = d.rows[s]
        /\ grown.lost = d.lost
        /\ \A s \in 1 .. Len(grown.rows) : s > Len(d.rows) => grown.rows[s] = BlankRow
    BY <1>7 DEF Growing
  <2>2. grown.size \in Nat /\ grown.rows \in Seq(RowTypes) /\ grown.realsize \in Nat
    BY <2>1 DEF BufferTypes
  <2>3. grown.size = (IF d.size < height THEN height ELSE d.size)
    BY <1>3, <1>4, <2>1
  <2>4. grown.realsize = (IF d.realsize < height THEN height ELSE d.realsize)
    BY <1>3, <1>4, <2>1 DEF LargerOf
  <2> QED BY <2>1, <2>2, <2>3, <2>4
<1> DEFINE D == grown.size - removed .. grown.size - 1
           f == [i \in D |-> BlankRow]
           R == Replaced(grown, f)
<1>9. R \in Seq(RowTypes) /\ Len(R) = Len(grown.rows)
      /\ \A s \in 1 .. Len(grown.rows) :
           \/ R[s] = grown.rows[s] /\ \A i \in D : Slot(grown, i) # s
           \/ (\E i \in D : Slot(grown, i) = s) /\ R[s] = BlankRow
  <2>0. grown.size \in Nat /\ removed \in Nat /\ removed <= grown.size
    BY <1>3, <1>6, <1>8
  <2>1. D \subseteq Nat /\ (\A i \in D : i <= grown.size)
    BY <2>0
  <2> HIDE DEF D
  <2>2. f \in [D -> RowTypes] /\ \A i \in D : f[i] = BlankRow
    BY BlankFacts
  <2> HIDE DEF f
  <2>3. Filled(grown, D, f, R)
    BY <1>8, <2>1, <2>2, ReplacedFacts, Zenon
  <2> QED BY <2>2, <2>3 DEF Filled
<1>10. sized = [grown EXCEPT !.size = grown.size - removed, !.rows = R]
  BY <1>8 DEF DropRows, BufferTypes
<1>b. D = IF removed = 0 THEN {} ELSE d.size - removed .. d.size - 1
  BY <1>3, <1>6, <1>8, <1>a
<1> HIDE DEF R, D
<1>11. shown \subseteq Nat
  <2> DEFINE G == {d.size + added - i : i \in d.height - added + 1 .. height}
  <2>1. shown = IF d.noScroll \/ added > d.height THEN {} ELSE G
    BY <1>3 DEF ShownFor, Revealed, added
  <2>2. G \subseteq Nat
    BY <1>3, <1>4
  <2> HIDE DEF G
  <2> QED BY <2>1, <2>2
<1> HIDE DEF shown
<1>12. /\ done \in BufferTypes /\ done.size = grown.size - removed /\ done.rows = R
       /\ done.realsize = grown.realsize /\ done.cap = grown.cap /\ done.height = height
       /\ done.noScroll = d.noScroll /\ done.told = d.told /\ done.changed = grown.changed \cup shown
       /\ done.lost = d.lost
  <2>1. grown.size - removed \in Nat
    BY <1>3, <1>6, <1>8
  <2>2. /\ sized \in BufferTypes /\ sized.size = grown.size - removed /\ sized.rows = R
        /\ sized.realsize = grown.realsize /\ sized.cap = grown.cap /\ sized.noScroll = d.noScroll
        /\ sized.told = d.told /\ sized.changed = grown.changed /\ sized.lost = d.lost
    BY <1>8, <1>9, <1>10, <2>1 DEF BufferTypes
  <2> HIDE DEF sized
  <2> QED BY <1>11, <2>2 DEF BufferTypes
<1> HIDE DEF done
<1>13. Sound(done)
  <2>1. height <= done.size /\ (d.noScroll => done.size = height)
    BY <1>3, <1>6, <1>8, <1>12
  <2>2. done.size <= done.realsize
    BY <1>3, <1>6, <1>8, <1>12
  <2>3. d.noScroll => done.realsize <= done.cap
    BY <1>3, <1>8, <1>12
  <2>4. Len(done.rows) = SmallerOf(done.realsize, done.cap) /\ height <= done.cap
    BY <1>8, <1>9, <1>12
  <2> QED BY <1>12, <2>1, <2>2, <2>3, <2>4 DEF Sound
<1>14. ASSUME NEW s \in 1 .. Len(d.rows)
       PROVE  done.rows[s] = d.rows[s] \/ \E i \in d.size - removed .. d.size - 1 : Slot(d, i) = s
  <2>1. s \in 1 .. Len(grown.rows) /\ grown.rows[s] = d.rows[s]
    BY <1>3, <1>8 DEF SmallerOf
  <2>2. R[s] = grown.rows[s] \/ \E i \in D : Slot(grown, i) = s
    BY <1>9, <2>1
  <2>3. \A i : Slot(grown, i) = Slot(d, i)
    BY <1>8 DEF Slot
  <2> QED BY <1>b, <1>12, <2>1, <2>2, <2>3
<1>15. done.size = d.size + added - removed
  <2>1. grown.size = d.size + added
    BY <1>8
  <2>2. done.size = grown.size - removed
    BY <1>12
  <2>3. d.size \in Nat /\ added \in Nat /\ removed \in Nat
    BY <1>3, <1>6, <1>a
  <2> QED BY <2>1, <2>2, <2>3
<1>17. ASSUME NEW s \in 1 .. Len(done.rows),
              s > Len(d.rows) \/ \E i \in d.size - removed .. d.size - 1 : Slot(d, i) = s
       PROVE  done.rows[s] = BlankRow
  <2>1. s \in 1 .. Len(grown.rows)
    BY <1>9, <1>12
  <2>2. \/ R[s] = grown.rows[s] /\ \A i \in D : Slot(grown, i) # s
        \/ R[s] = BlankRow
    BY <1>9, <2>1
  <2>3. \A i : Slot(grown, i) = Slot(d, i)
    BY <1>8 DEF Slot
  <2>4. CASE s > Len(d.rows)
    BY <1>8, <1>12, <2>1, <2>2, <2>4
  <2>5. CASE \E i \in d.size - removed .. d.size - 1 : Slot(d, i) = s
    <3>1. removed # 0
      BY <1>3, <2>5
    <3>2. D = d.size - removed .. d.size - 1
      BY <1>b, <3>1
    <3> QED BY <1>12, <2>2, <2>3, <2>5, <3>2
  <2> QED BY <1>17, <2>4, <2>5
<1>18. done.realsize = LargerOf(d.realsize, height)
  BY <1>8, <1>12 DEF LargerOf
<1>16. Sized(d, height, removed, done)
  BY <1>8, <1>a, <1>12, <1>13, <1>14, <1>15, <1>17, <1>18 DEF Sized, added, shown
<1> QED BY <1>1, <1>16

\* The buffer is fitted to a screen of another height.
SetHeightSteps(b, height, maxChop) ==
  LET d == FitFor(b, height)
      removed == RemovedFor(b, d, height, maxChop)
      done == SizedFor(d, height, removed)
  IN IF LinesAdded(d, height) + removed > 0 THEN TellLength(done) ELSE done

LEMMA SetScreenHeightFacts ==
  ASSUME NEW b, Sound(b), NEW height, height \in Nat \ {0}, NEW maxChop, maxChop \in Nat
  PROVE  /\ SetScreenHeight(b, height, maxChop) = TrimAll(SetHeightSteps(b, height, maxChop))
         /\ Fitted(b, height, SetScreenHeight(b, height, maxChop))
<1> DEFINE d == FitFor(b, height)
           removed == RemovedFor(b, d, height, maxChop)
           done == SizedFor(d, height, removed)
           set == IF LinesAdded(d, height) + removed > 0 THEN TellLength(done) ELSE done
<1>1. Kindred(b, d) /\ height <= d.cap
  BY FitFacts
<1>2. SetScreenHeight(b, height, maxChop) = TrimAll(set)
  <2>1. d.noScroll = b.noScroll
    BY <1>1 DEF Kindred
  <2> QED BY <2>1 DEF SetScreenHeight, FitFor, RemovedFor, SizedFor, ShownFor
<1>3. set = SetHeightSteps(b, height, maxChop)
  BY DEF SetHeightSteps
<1> HIDE DEF d
<1>4. Removable(d, height, removed)
  BY <1>1, RemovedFacts
<1> HIDE DEF removed
<1>5. Sized(d, height, removed, done)
  BY <1>1, <1>4, SizedFacts DEF Kindred
<1> HIDE DEF done
<1>6. Alike(done, set)
  BY <1>5, TellFacts, AlikeSelf DEF Sized
<1>7. Alike(set, TrimAll(set))
  BY <1>6, TrimFacts DEF Alike
<1> HIDE DEF set
<1>8. Sound(TrimAll(set)) /\ TrimAll(set).height = height /\ TrimAll(set).noScroll = b.noScroll
  BY <1>1, <1>5, <1>6, <1>7 DEF Alike, Sized, Kindred
<1> QED BY <1>2, <1>3, <1>8 DEF Fitted

LEMMA NewBufferFacts ==
  ASSUME NEW height, height \in Nat \ {0}, NEW cap, cap \in Nat \ {0}, NEW noScroll, noScroll \in BOOLEAN
  PROVE  /\ Sound(NewBuffer(height, cap, noScroll)) /\ NewBuffer(height, cap, noScroll).height = height
         /\ NewBuffer(height, cap, noScroll).noScroll = noScroll
         /\ NewBuffer(height, cap, noScroll).size = height
         /\ \A s \in 1 .. height : ~NewBuffer(height, cap, noScroll).rows[s].cont
<1> DEFINE b == NewBuffer(height, cap, noScroll)
           new == CapacityFor(cap, height)
           R == Blanks(height)
<1>1. new \in Nat \ {0} /\ height <= new
  BY CapacityFits
<1>2. R \in Seq(RowTypes) /\ Len(R) = height /\ \A s \in 1 .. height : R[s] = BlankRow
  BY BlanksFacts
<1>3. b = [size |-> height, realsize |-> height, cap |-> new, noScroll |-> noScroll,
           height |-> height, rows |-> R, changed |-> {}, told |-> {}, lost |-> FALSE]
  BY DEF NewBuffer
<1> HIDE DEF b, new, R
<1>4. b \in BufferTypes
  BY <1>1, <1>2, <1>3 DEF BufferTypes
<1>5. Sound(b)
  BY <1>1, <1>2, <1>3, <1>4 DEF Sound, SmallerOf
<1> QED BY <1>2, <1>3, <1>5, BlankFacts DEF b
-----------------------------------------------------------------------------
(* The screen *)

Pointers == {None, Dangling} \cup ((0 .. 1) \X Nat)
Terminals ==
  [buf : [0 .. 1 -> BufferTypes], cur : 0 .. 1, height : Nat \ {0}, top : Nat, bottom : Nat,
   offset : Nat, y : Nat, stay : BOOLEAN, origin : Nat, originMode : BOOLEAN,
   saved : [y : Nat, origin : BOOLEAN], row : Pointers, next : Pointers]

(* The buffers fit the screen, and only the main one keeps a scrollback. *)
Framed(t) ==
  /\ t \in Terminals
  /\ \A k \in 0 .. 1 :
       Sound(t.buf[k]) /\ t.buf[k].height = t.height /\ (t.buf[k].noScroll <=> k = 1)
  /\ t.top <= t.bottom /\ t.bottom < t.height

(* The screen is the end of the buffer and the cursor is on it. *)
Poised(t) == Framed(t) /\ t.offset = Cur(t).size - t.height /\ t.y < t.height

(* The two pointers: to the cursor's row, and to the row below it if that  *)
(* row may be its continuation.                                            *)
Pointed(t) ==
  LET i == CursorRow(t)
  IN /\ t.row = At(t, i) \/ (t.row = Dangling /\ t.cur = 1)
     /\ t.next = None \/ (t.next \in {Dangling, At(t, i + 1)} /\ i + 1 < Cur(t).size)
     /\ (t.row # Dangling /\ i + 1 < Cur(t).size /\ Row(Cur(t), i + 1).cont)
          => t.next = At(t, i + 1)

Good(t) == Poised(t) /\ Pointed(t) /\ (t.stay => InMargins(t))

(* What every step keeps. *)
IInv ==
  /\ Good(term)
  /\ left \in 0 .. MaxOps /\ arrived \in BOOLEAN /\ crowded \in BOOLEAN

(* u is t, still good, with the same rows on the screen. *)
Leads(t, u) == Good(u) /\ u.height = t.height
Stays(t, u) ==
  /\ Leads(t, u) /\ u.cur = t.cur /\ u.offset = t.offset /\ u.y = t.y
  /\ Cur(u).size = Cur(t).size /\ Cur(u).cap = Cur(t).cap

WithBuffers(t, B) == [t EXCEPT !.buf = B]
WithPointers(t, row, next) == [t EXCEPT !.row = row, !.next = next]

LEMMA LeadsTrans ==
  ASSUME NEW t, NEW u, NEW v, Leads(t, u), Leads(u, v)
  PROVE  Leads(t, v)
  BY DEF Leads

LEMMA StaysTrans ==
  ASSUME NEW t, NEW u, NEW v, Stays(t, u), Stays(u, v)
  PROVE  Stays(t, v)
  BY DEF Leads, Stays

LEMMA StaysSelf ==
  ASSUME NEW t, Good(t)
  PROVE  Stays(t, t) /\ Leads(t, t)
  BY DEF Leads, Stays

(* The facts about a screen that the lemmas below use. *)
LEMMA ScreenFacts ==
  ASSUME NEW t, Poised(t)
  PROVE  /\ t \in Terminals /\ Sound(Cur(t)) /\ Cur(t) = t.buf[t.cur] /\ Cur(t).size \in Nat
         /\ Cur(t).height = t.height /\ t.cur \in 0 .. 1 /\ t.cur \in DOMAIN t.buf
         /\ t.height \in Nat \ {0} /\ t.offset \in Nat /\ t.y \in Nat /\ t.y < t.height
         /\ t.top \in Nat /\ t.bottom \in Nat /\ t.top <= t.bottom /\ t.bottom < t.height
         /\ t.offset + t.height = Cur(t).size /\ t.height <= Cur(t).size
<1>1. t \in Terminals /\ t.cur \in 0 .. 1 /\ t.buf \in [0 .. 1 -> BufferTypes]
  BY DEF Poised, Framed, Terminals
<1>2. /\ t.height \in Nat \ {0} /\ t.offset \in Nat /\ t.y \in Nat /\ t.top \in Nat /\ t.bottom \in Nat
  BY <1>1 DEF Terminals
<1>3. Sound(Cur(t)) /\ Cur(t).height = t.height
  BY <1>1 DEF Poised, Framed, Cur
<1>4. Cur(t).size \in Nat /\ Cur(t).height <= Cur(t).size
  BY <1>3 DEF Sound, BufferTypes
<1> QED BY <1>1, <1>2, <1>3, <1>4 DEF Poised, Framed, Cur

LEMMA RowOfScreen ==
  ASSUME NEW t, Poised(t), NEW y \in 0 .. t.height - 1
  PROVE  /\ t.offset + y \in 0 .. Cur(t).size - 1 /\ Held(Cur(t), t.offset + y)
         /\ t.offset + y \in Nat
         /\ Slot(Cur(t), t.offset + y) \in 1 .. Len(Cur(t).rows)
         /\ Row(Cur(t), t.offset + y) \in RowTypes
<1>1. t.offset + y \in 0 .. Cur(t).size - 1 /\ t.offset + y \in Nat
  BY ScreenFacts
<1>2. Sound(Cur(t))
  BY ScreenFacts
<1> DEFINE i == t.offset + y
           b == Cur(t)
<1> HIDE DEF i, b
<1>3. Sound(b) /\ i \in 0 .. b.size - 1 /\ i \in Nat
  BY <1>1, <1>2 DEF i, b
<1>4. Held(b, i)
  BY <1>3, InSize
<1>5. Slot(b, i) \in 1 .. Len(b.rows) /\ Row(b, i) \in RowTypes
  BY <1>3, <1>4, SlotHeld, RowHeld
<1> QED BY <1>3, <1>4, <1>5 DEF i, b

LEMMA CursorsRow ==
  ASSUME NEW t, Poised(t)
  PROVE  /\ CursorRow(t) \in 0 .. Cur(t).size - 1 /\ Held(Cur(t), CursorRow(t))
         /\ CursorRow(t) \in Nat
         /\ Slot(Cur(t), CursorRow(t)) \in 1 .. Len(Cur(t).rows)
         /\ Row(Cur(t), CursorRow(t)) \in RowTypes
<1>1. t.y \in 0 .. t.height - 1
  BY ScreenFacts
<1> QED BY <1>1, RowOfScreen DEF CursorRow

LEMMA Pointing ==
  ASSUME NEW t, Poised(t), NEW i, i \in Nat
  PROVE  At(t, i) \in Pointers /\ At(t, i) \notin {None, Dangling} /\ At(t, i)[1] = t.cur
         /\ At(t, i)[2] = Slot(Cur(t), i) /\ At(t, i) # None /\ At(t, i) # Dangling
<1>1. Cur(t).cap \in Nat \ {0} /\ t.cur \in 0 .. 1
  BY ScreenFacts DEF Sound, BufferTypes
<1>2. Slot(Cur(t), i) \in 1 .. Cur(t).cap
  BY <1>1, ModSlot, Zenon DEF Slot
<1>3. Slot(Cur(t), i) \in Nat
  BY <1>1, <1>2
<1> QED BY <1>1, <1>3 DEF At, Pointers, None, Dangling

\* rowUpdate puts the two pointers right.
LEMMA RowUpdateFacts ==
  ASSUME NEW t, Poised(t), t.stay => InMargins(t)
  PROVE  Leads(t, RowUpdate(t))
<1> DEFINE i == CursorRow(t)
           b == Cur(t)
           follows == i # b.size - 1 /\ Row(b, i + 1).cont
           row == At(t, i)
           next == IF follows THEN At(t, i + 1) ELSE None
           u == WithPointers(t, row, next)
<1>1. RowUpdate(t) = u
  BY DEF RowUpdate, WithPointers
<1>2. i \in 0 .. b.size - 1 /\ i \in Nat /\ i + 1 \in Nat /\ b.size \in Nat
  BY CursorsRow, ScreenFacts
<1>3. row \in Pointers /\ At(t, i + 1) \in Pointers /\ None \in Pointers
  BY <1>2, Pointing DEF Pointers
<1>4. next \in Pointers
  BY <1>3
<1>5. i # b.size - 1 <=> i + 1 < b.size
  BY <1>2
<1>6. /\ u \in Terminals /\ u.buf = t.buf /\ u.cur = t.cur /\ u.height = t.height /\ u.top = t.top
      /\ u.bottom = t.bottom /\ u.offset = t.offset /\ u.y = t.y /\ u.stay = t.stay
      /\ u.row = row /\ u.next = next
  <2> HIDE DEF row, next
  <2>1. t \in Terminals
    BY ScreenFacts
  <2> QED BY <1>3, <1>4, <2>1 DEF Terminals, WithPointers
<1> HIDE DEF u
<1>7. Cur(u) = b /\ CursorRow(u) = i /\ \A j : At(u, j) = At(t, j)
  BY <1>6 DEF Cur, CursorRow, At
<1>8. Poised(u) /\ (u.stay => InMargins(u))
  BY <1>6, <1>7 DEF Poised, Framed, InMargins
<1>9. Pointed(u)
  <2> HIDE DEF b, i
  <2> QED BY <1>5, <1>6, <1>7 DEF Pointed
<1> QED BY <1>1, <1>6, <1>8, <1>9 DEF Leads, Good

\* The buffers get other rows, and no row becomes a continuation.
LEMMA BuffersPoised ==
  ASSUME NEW t, Poised(t), NEW B, B \in [0 .. 1 -> BufferTypes],
         \A k \in 0 .. 1 : Alike(t.buf[k], B[k])
  PROVE  LET u == WithBuffers(t, B)
         IN /\ Poised(u) /\ u.buf = B /\ u.height = t.height /\ u.cur = t.cur /\ u.offset = t.offset
            /\ u.y = t.y /\ u.stay = t.stay /\ u.top = t.top /\ u.bottom = t.bottom
            /\ u.row = t.row /\ u.next = t.next /\ Alike(Cur(t), Cur(u))
<1> DEFINE u == WithBuffers(t, B)
<1>1. t \in Terminals /\ t.cur \in 0 .. 1
  BY ScreenFacts
<1>2. /\ u \in Terminals /\ u.buf = B /\ u.height = t.height /\ u.cur = t.cur /\ u.offset = t.offset
      /\ u.y = t.y /\ u.stay = t.stay /\ u.top = t.top /\ u.bottom = t.bottom
      /\ u.row = t.row /\ u.next = t.next
  BY <1>1 DEF Terminals, WithBuffers
<1> HIDE DEF u
<1>3. Alike(Cur(t), Cur(u))
  BY <1>1, <1>2 DEF Cur
<1>4. Framed(u)
  BY <1>2 DEF Poised, Framed, Alike
<1>5. Poised(u)
  BY <1>2, <1>3, <1>4 DEF Poised, Alike
<1> QED BY <1>2, <1>3, <1>5 DEF u

LEMMA BuffersStay ==
  ASSUME NEW t, Good(t), NEW B, B \in [0 .. 1 -> BufferTypes],
         \A k \in 0 .. 1 : Alike(t.buf[k], B[k]) /\ NoNewCont(t.buf[k], B[k])
  PROVE  Stays(t, WithBuffers(t, B))
<1> DEFINE u == WithBuffers(t, B)
<1>1. Poised(t) /\ t.cur \in 0 .. 1
  BY ScreenFacts DEF Good
<1>2. /\ Poised(u) /\ u.buf = B /\ u.height = t.height /\ u.cur = t.cur /\ u.offset = t.offset
      /\ u.y = t.y /\ u.stay = t.stay /\ u.top = t.top /\ u.bottom = t.bottom
      /\ u.row = t.row /\ u.next = t.next /\ Alike(Cur(t), Cur(u))
  BY <1>1, BuffersPoised
<1> HIDE DEF u
<1>3. /\ Cur(u).size = Cur(t).size /\ Cur(u).cap = Cur(t).cap /\ NoNewCont(Cur(t), Cur(u))
      /\ CursorRow(u) = CursorRow(t) /\ \A j : At(u, j) = At(t, j)
  BY <1>1, <1>2 DEF Alike, Cur, CursorRow, At, Slot
<1>4. CursorRow(t) \in Nat /\ Cur(t).size \in Nat
  BY <1>1, CursorsRow, ScreenFacts
<1>5. Pointed(u)
  <2> DEFINE i == CursorRow(t)
  <2>1. /\ t.row = At(t, i) \/ (t.row = Dangling /\ t.cur = 1)
        /\ t.next = None \/ (t.next \in {Dangling, At(t, i + 1)} /\ i + 1 < Cur(t).size)
        /\ (t.row # Dangling /\ i + 1 < Cur(t).size /\ Row(Cur(t), i + 1).cont)
             => t.next = At(t, i + 1)
    BY DEF Good, Pointed
  <2>2. i + 1 < Cur(t).size => i + 1 \in 0 .. Cur(t).size - 1
    BY <1>4
  <2>3. (i + 1 < Cur(t).size /\ Row(Cur(u), i + 1).cont) => Row(Cur(t), i + 1).cont
    BY <1>3, <2>2 DEF NoNewCont
  <2> HIDE DEF i
  <2>4. CursorRow(u) = i
    BY <1>3 DEF i
  <2> QED BY <1>2, <1>3, <2>1, <2>3, <2>4 DEF Pointed
<1>6. u.stay => InMargins(u)
  BY <1>2 DEF Good, InMargins
<1> QED BY <1>2, <1>3, <1>5, <1>6 DEF Stays, Leads, Good, u

LEMMA OneBuffer ==
  ASSUME NEW t, Poised(t), NEW k \in 0 .. 1, NEW b, Alike(t.buf[k], b)
  PROVE  LET B == [t.buf EXCEPT ![k] = b]
         IN /\ B \in [0 .. 1 -> BufferTypes] /\ B[k] = b
            /\ \A j \in 0 .. 1 : Alike(t.buf[j], B[j])
            /\ NoNewCont(t.buf[k], b) => \A j \in 0 .. 1 : NoNewCont(t.buf[j], B[j])
            /\ [t EXCEPT !.buf[k] = b] = WithBuffers(t, B)
<1>1. t \in Terminals /\ t.buf \in [0 .. 1 -> BufferTypes] /\ \A j \in 0 .. 1 : Sound(t.buf[j])
  BY DEF Poised, Framed, Terminals
<1>2. b \in BufferTypes
  BY DEF Alike, Sound
<1>3. \A j \in 0 .. 1 : Alike(t.buf[j], t.buf[j]) /\ NoNewCont(t.buf[j], t.buf[j])
  BY <1>1, AlikeSelf
<1> QED BY <1>1, <1>2, <1>3 DEF WithBuffers

LEMMA CurPoised ==
  ASSUME NEW t, Poised(t), NEW b, Alike(Cur(t), b)
  PROVE  LET u == WithCur(t, b)
         IN /\ Poised(u) /\ u.height = t.height /\ u.cur = t.cur /\ u.offset = t.offset
            /\ u.y = t.y /\ u.stay = t.stay /\ u.top = t.top /\ u.bottom = t.bottom
            /\ u.row = t.row /\ u.next = t.next /\ Cur(u) = b
<1> DEFINE B == [t.buf EXCEPT ![t.cur] = b]
           u == WithBuffers(t, B)
<1>1. t.cur \in 0 .. 1 /\ Alike(t.buf[t.cur], b)
  BY ScreenFacts DEF Cur
<1>2. B \in [0 .. 1 -> BufferTypes] /\ B[t.cur] = b
      /\ (\A j \in 0 .. 1 : Alike(t.buf[j], B[j])) /\ [t EXCEPT !.buf[t.cur] = b] = WithBuffers(t, B)
  BY <1>1, OneBuffer
<1>3. WithCur(t, b) = u
  BY <1>2 DEF WithCur
<1> HIDE DEF B
<1>4. /\ Poised(u) /\ u.buf = B /\ u.height = t.height /\ u.cur = t.cur /\ u.offset = t.offset
      /\ u.y = t.y /\ u.stay = t.stay /\ u.top = t.top /\ u.bottom = t.bottom
      /\ u.row = t.row /\ u.next = t.next
  BY <1>2, BuffersPoised
<1>5. Cur(u) = b
  BY <1>2, <1>4 DEF Cur
<1> HIDE DEF u
<1> QED BY <1>3, <1>4, <1>5

LEMMA CurStays ==
  ASSUME NEW t, Good(t), NEW b, Alike(Cur(t), b), NoNewCont(Cur(t), b)
  PROVE  Stays(t, WithCur(t, b)) /\ Cur(WithCur(t, b)) = b
<1> DEFINE B == [t.buf EXCEPT ![t.cur] = b]
           u == WithBuffers(t, B)
<1>0. Poised(t)
  BY DEF Good
<1>1. t.cur \in 0 .. 1 /\ Alike(t.buf[t.cur], b) /\ NoNewCont(t.buf[t.cur], b)
  BY <1>0, ScreenFacts DEF Cur
<1>2. /\ B \in [0 .. 1 -> BufferTypes] /\ \A j \in 0 .. 1 : Alike(t.buf[j], B[j]) /\ NoNewCont(t.buf[j], B[j])
      /\ [t EXCEPT !.buf[t.cur] = b] = WithBuffers(t, B)
  BY <1>0, <1>1, OneBuffer
<1>3. WithCur(t, b) = u
  BY <1>2 DEF WithCur
<1> HIDE DEF B
<1>4. Stays(t, u)
  BY <1>2, BuffersStay
<1>5. Cur(WithCur(t, b)) = b
  BY <1>0, CurPoised
<1> QED BY <1>3, <1>4, <1>5
-----------------------------------------------------------------------------
(* Operations that move the cursor or the margins *)

\* u is t but for the cursor's place, the margins and the flags.
Same(t, u) ==
  /\ u \in Terminals /\ u.buf = t.buf /\ u.cur = t.cur /\ u.height = t.height
  /\ u.offset = t.offset /\ u.row = t.row /\ u.next = t.next

LEMMA SameFacts ==
  ASSUME NEW t, Poised(t), NEW u, Same(t, u), u.top <= u.bottom, u.bottom < u.height, u.y < u.height
  PROVE  Poised(u) /\ (u.y = t.y /\ Pointed(t) => Pointed(u))
<1>1. Cur(u) = Cur(t) /\ \A j : At(u, j) = At(t, j)
  BY DEF Same, Cur, At
<1>2. Poised(u)
  BY <1>1 DEF Same, Poised, Framed
<1>3. ASSUME u.y = t.y, Pointed(t) PROVE Pointed(u)
  <2>1. CursorRow(u) = CursorRow(t)
    BY <1>3 DEF Same, CursorRow
  <2> QED BY <1>1, <1>3, <2>1 DEF Pointed, Same
<1> QED BY <1>2, <1>3

LEMMA ClampFacts ==
  ASSUME NEW y, y \in Int, NEW low, low \in Int, NEW high, high \in Int, low <= high
  PROVE  Clamp(y, low, high) \in low .. high
  BY DEF Clamp

LEMMA NewY ==
  ASSUME NEW t, Poised(t), NEW y, y \in 0 .. t.height - 1, t.stay => y \in t.top .. t.bottom
  PROVE  Leads(t, RowUpdate([t EXCEPT !.y = y]))
<1> DEFINE u == [t EXCEPT !.y = y]
<1>1. t \in Terminals /\ t.height \in Nat /\ t.top <= t.bottom /\ t.bottom < t.height
  BY ScreenFacts
<1>2. Same(t, u) /\ u.y = y /\ u.stay = t.stay /\ u.top = t.top /\ u.bottom = t.bottom
  BY <1>1 DEF Same, Terminals
<1> HIDE DEF u
<1>3. u.y < u.height /\ u.height = t.height
  BY <1>1, <1>2 DEF Same
<1>4. Poised(u)
  BY <1>1, <1>2, <1>3, SameFacts
<1>5. u.stay => InMargins(u)
  BY <1>2 DEF InMargins
<1>6. Leads(u, RowUpdate(u))
  BY <1>4, <1>5, RowUpdateFacts
<1> QED BY <1>3, <1>6 DEF Leads, u

LEMMA ConstrainFacts ==
  ASSUME NEW t, Poised(t), Pointed(t)
  PROVE  Leads(t, ConstrainToMargins(t))
<1>1. CASE InMargins(t)
  BY <1>1 DEF ConstrainToMargins, Leads, Good
<1>2. CASE ~InMargins(t)
  <2> DEFINE y == Clamp(t.y, t.top, t.bottom)
  <2>1. /\ t.y \in Int /\ t.top \in Nat /\ t.bottom \in Nat /\ t.top <= t.bottom
        /\ t.bottom < t.height /\ t.height \in Nat
    BY ScreenFacts
  <2>2. y \in t.top .. t.bottom
    BY <2>1, ClampFacts
  <2> HIDE DEF y
  <2>3. y \in 0 .. t.height - 1
    BY <2>1, <2>2
  <2>4. Leads(t, RowUpdate([t EXCEPT !.y = y]))
    BY <2>2, <2>3, NewY
  <2> QED BY <1>2, <2>4 DEF ConstrainToMargins, y
<1> QED BY <1>1, <1>2

LEMMA MoveYFacts ==
  ASSUME NEW t, Good(t), NEW y, y \in Int, NEW within, within \in BOOLEAN
  PROVE  Leads(t, MoveY(t, y, within))
<1> DEFINE inside == (within /\ InMargins(t)) \/ t.stay
           z == IF inside THEN Clamp(y, t.top, t.bottom) ELSE Clamp(y, 0, t.height - 1)
<1>1. /\ Poised(t) /\ t.y \in Nat /\ t.top \in Nat /\ t.bottom \in Nat /\ t.top <= t.bottom
      /\ t.bottom < t.height /\ t.height \in Nat \ {0}
  BY ScreenFacts DEF Good
<1>2. Clamp(y, t.top, t.bottom) \in t.top .. t.bottom
  BY <1>1, ClampFacts
<1>3. Clamp(y, 0, t.height - 1) \in 0 .. t.height - 1
  <2>1. 0 \in Int /\ t.height - 1 \in Int /\ 0 <= t.height - 1
    BY <1>1
  <2> QED BY <2>1, ClampFacts
<1>4. z \in 0 .. t.height - 1 /\ (t.stay => z \in t.top .. t.bottom)
  <2>1. \A w \in t.top .. t.bottom : w \in 0 .. t.height - 1
    BY <1>1
  <2> QED BY <1>2, <1>3, <2>1
<1>5. MoveY(t, y, within) = RowUpdate([t EXCEPT !.y = z])
  BY DEF MoveY
<1> HIDE DEF z
<1> QED BY <1>1, <1>4, <1>5, NewY

LEMMA MoveFacts ==
  ASSUME NEW t, Good(t), NEW y, y \in Int
  PROVE  Leads(t, MoveBy(t, y)) /\ Leads(t, MoveTo(t, y)) /\ Leads(t, MoveY(t, y + t.origin, TRUE))
<1>1. t.y + y \in Int /\ y + t.origin \in Int
  <2>1. t \in Terminals
    BY ScreenFacts DEF Good
  <2> QED BY <2>1 DEF Terminals
<1> QED BY <1>1, MoveYFacts DEF MoveBy, MoveTo

\* The flag of origin mode changes.
LEMMA ModeFacts ==
  ASSUME NEW t, Good(t), NEW on, on \in BOOLEAN
  PROVE  Leads(t, [t EXCEPT !.originMode = on])
<1> DEFINE u == [t EXCEPT !.originMode = on]
<1>1. Poised(t) /\ Pointed(t) /\ (t.stay => InMargins(t))
      /\ t \in Terminals /\ t.top <= t.bottom /\ t.bottom < t.height /\ t.y < t.height
  BY ScreenFacts DEF Good
<1>2. Same(t, u) /\ u.y = t.y /\ u.top = t.top /\ u.bottom = t.bottom /\ u.stay = t.stay
      /\ u.height = t.height
  BY <1>1 DEF Same, Terminals
<1> HIDE DEF u
<1>3. Poised(u) /\ Pointed(u) /\ (u.stay => InMargins(u))
  BY <1>1, <1>2, SameFacts DEF InMargins
<1> QED BY <1>2, <1>3 DEF Leads, Good, u

\* The saved cursor changes.
LEMMA SavedFacts ==
  ASSUME NEW t, Good(t), NEW saved, saved \in [y : Nat, origin : BOOLEAN]
  PROVE  Leads(t, [t EXCEPT !.saved = saved])
<1> DEFINE u == [t EXCEPT !.saved = saved]
<1>1. Poised(t) /\ Pointed(t) /\ (t.stay => InMargins(t))
      /\ t \in Terminals /\ t.top <= t.bottom /\ t.bottom < t.height /\ t.y < t.height
  BY ScreenFacts DEF Good
<1>2. Same(t, u) /\ u.y = t.y /\ u.top = t.top /\ u.bottom = t.bottom /\ u.stay = t.stay
      /\ u.height = t.height
  BY <1>1 DEF Same, Terminals
<1> HIDE DEF u
<1>3. Poised(u) /\ Pointed(u) /\ (u.stay => InMargins(u))
  BY <1>1, <1>2, SameFacts DEF InMargins
<1> QED BY <1>2, <1>3 DEF Leads, Good, u

LEMMA SetMarginsFacts ==
  ASSUME NEW t, Good(t), NEW top, top \in 0 .. t.height - 1, NEW bottom, bottom \in 0 .. t.height - 1,
         top <= bottom
  PROVE  Leads(t, SetMargins(t, top, bottom))
<1> DEFINE u == [t EXCEPT !.top = top, !.bottom = bottom]
           v == [u EXCEPT !.origin = top]
<1>1. Poised(t) /\ Pointed(t) /\ t \in Terminals /\ t.y < t.height /\ t.height \in Nat
  BY ScreenFacts DEF Good
<1>a. top \in Nat /\ bottom \in Nat
  BY <1>1
<1>2. Same(t, u) /\ u.y = t.y /\ u.top = top /\ u.bottom = bottom /\ u.stay = t.stay /\ u.height = t.height
  BY <1>1, <1>a DEF Same, Terminals
<1>3. Same(t, v) /\ v.y = t.y /\ v.top = top /\ v.bottom = bottom /\ v.height = t.height
  BY <1>1, <1>a DEF Same, Terminals
<1>4. SetMargins(t, top, bottom) = IF t.stay THEN ConstrainToMargins(v) ELSE u
  BY DEF SetMargins
<1> HIDE DEF u, v
<1>5. Poised(u) /\ Pointed(u)
  BY <1>1, <1>2, SameFacts
<1>6. Poised(v) /\ Pointed(v)
  BY <1>1, <1>3, SameFacts
<1>7. Leads(v, ConstrainToMargins(v))
  BY <1>6, ConstrainFacts
<1> QED BY <1>2, <1>3, <1>4, <1>5, <1>7 DEF Leads, Good

LEMMA SetStayFacts ==
  ASSUME NEW t, Good(t), NEW on, on \in BOOLEAN
  PROVE  Leads(t, SetStayWithinMargins(t, on))
<1> DEFINE u == [t EXCEPT !.stay = FALSE, !.origin = 0]
           v == [t EXCEPT !.stay = TRUE, !.origin = t.top]
<1>1. Poised(t) /\ Pointed(t) /\ t \in Terminals /\ t.y < t.height /\ t.top \in Nat
      /\ t.top <= t.bottom /\ t.bottom < t.height
  BY ScreenFacts DEF Good
<1>2. Same(t, u) /\ u.y = t.y /\ u.top = t.top /\ u.bottom = t.bottom /\ u.stay = FALSE /\ u.height = t.height
  BY <1>1 DEF Same, Terminals
<1>3. Same(t, v) /\ v.y = t.y /\ v.top = t.top /\ v.bottom = t.bottom /\ v.height = t.height
  BY <1>1 DEF Same, Terminals
<1>4. SetStayWithinMargins(t, on) = IF t.stay = on THEN t
                                    ELSE IF on THEN ConstrainToMargins(v) ELSE u
  BY DEF SetStayWithinMargins
<1> HIDE DEF u, v
<1>5. Poised(u) /\ Pointed(u)
  BY <1>1, <1>2, SameFacts
<1>6. Poised(v) /\ Pointed(v)
  BY <1>1, <1>3, SameFacts
<1>7. Leads(v, ConstrainToMargins(v))
  BY <1>6, ConstrainFacts
<1> QED BY <1>2, <1>3, <1>4, <1>5, <1>7 DEF Leads, Good

LEMMA SaveFacts ==
  ASSUME NEW t, Good(t)
  PROVE  Leads(t, SaveCursor(t))
<1> DEFINE saved == [y |-> t.y, origin |-> t.originMode]
<1>1. t \in Terminals
  BY ScreenFacts DEF Good
<1>2. saved \in [y : Nat, origin : BOOLEAN]
  BY <1>1 DEF Terminals
<1> HIDE DEF saved
<1>3. Leads(t, [t EXCEPT !.saved = saved])
  BY <1>2, SavedFacts
<1> QED BY <1>3 DEF SaveCursor, saved

LEMMA RestoreFacts ==
  ASSUME NEW t, Good(t)
  PROVE  Leads(t, RestoreCursor(t))
<1> DEFINE u == [t EXCEPT !.originMode = t.saved.origin]
           v == SetStayWithinMargins(u, t.saved.origin)
<1>1. t.saved \in [y : Nat, origin : BOOLEAN] /\ t.saved.origin \in BOOLEAN /\ t.saved.y \in Int
  <2>1. t \in Terminals
    BY ScreenFacts DEF Good
  <2> QED BY <2>1 DEF Terminals
<1>2. Leads(t, u)
  BY <1>1, ModeFacts
<1>3. RestoreCursor(t) = MoveTo(v, t.saved.y)
  BY DEF RestoreCursor
<1> HIDE DEF u
<1>4. Leads(u, v)
  BY <1>1, <1>2, SetStayFacts DEF Leads
<1> HIDE DEF v
<1>5. Leads(v, MoveTo(v, t.saved.y))
  BY <1>1, <1>4, MoveFacts DEF Leads
<1> QED BY <1>2, <1>3, <1>4, <1>5, LeadsTrans

LEMMA MoveDownFacts ==
  ASSUME NEW t, Good(t)
  PROVE  Leads(t, CursorMoveDown(t))
<1> DEFINE u == MoveBy(t, 1)
           b == TouchRow(Cur(u), CursorRow(u))
<1>1. Leads(t, u)
  <2>1. 1 \in Int
    OBVIOUS
  <2> QED BY <2>1, MoveFacts
<1>2. CursorMoveDown(t) = WithCur(u, b)
  BY DEF CursorMoveDown
<1> HIDE DEF u
<1>3. Poised(u) /\ Good(u)
  BY <1>1 DEF Leads, Good
<1>4. CursorRow(u) \in Nat /\ Sound(Cur(u))
  BY <1>3, CursorsRow, ScreenFacts
<1>5. Alike(Cur(u), b) /\ NoNewCont(Cur(u), b)
  BY <1>4, TouchRowFacts DEF Became
<1> HIDE DEF b
<1>6. Stays(u, WithCur(u, b))
  BY <1>3, <1>5, CurStays
<1> QED BY <1>1, <1>2, <1>6, LeadsTrans DEF Stays
-----------------------------------------------------------------------------
(* Operations that move rows *)

\* Rows were moved in the buffer that is shown.
LEMMA MovedRows ==
  ASSUME NEW t, Good(t), NEW b, Alike(Cur(t), b)
  PROVE  Leads(t, RowUpdate(WithCur(t, b)))
<1> DEFINE u == WithCur(t, b)
<1>1. Poised(t) /\ (t.stay => InMargins(t))
  BY DEF Good
<1>2. /\ Poised(u) /\ u.height = t.height /\ u.y = t.y /\ u.stay = t.stay /\ u.top = t.top
      /\ u.bottom = t.bottom
  BY <1>1, CurPoised
<1> HIDE DEF u
<1>3. u.stay => InMargins(u)
  BY <1>1, <1>2 DEF InMargins
<1>4. Leads(u, RowUpdate(u))
  BY <1>2, <1>3, RowUpdateFacts
<1> QED BY <1>2, <1>4 DEF Leads, u

LEMMA MoveRowsFacts ==
  ASSUME NEW t, Good(t), NEW y \in 0 .. t.height - 1, NEW z \in 0 .. t.height - 1
  PROVE  Leads(t, RowUpdate(WithCur(t, MoveRow(Cur(t), t.offset + y, t.offset + z, BlankRow))))
<1> DEFINE b == Cur(t)
           from == t.offset + y
           to == t.offset + z
<1>1. Poised(t)
  BY DEF Good
<1>2. Held(b, from) /\ Held(b, to) /\ Sound(b)
  BY <1>1, RowOfScreen, ScreenFacts
<1> HIDE DEF b, from, to
<1>3. BlankRow \in RowTypes
  BY BlankFacts
<1>4. Alike(b, MoveRow(b, from, to, BlankRow))
  BY <1>2, <1>3, MoveRowFacts DEF Moved
<1> QED BY <1>4, MovedRows DEF b, from, to

LEMMA InsertDeleteFacts ==
  ASSUME NEW t, Good(t)
  PROVE  Leads(t, InsertRowHere(t)) /\ Leads(t, DeleteRowHere(t)) /\ Leads(t, ScrollDown(t))
<1>1. t.y \in 0 .. t.height - 1 /\ t.bottom \in 0 .. t.height - 1 /\ t.top \in 0 .. t.height - 1
  BY ScreenFacts DEF Good
<1>2. Leads(t, t)
  BY StaysSelf
<1>3. /\ Leads(t, RowUpdate(WithCur(t, MoveRow(Cur(t), t.offset + t.bottom, t.offset + t.y, BlankRow))))
      /\ Leads(t, RowUpdate(WithCur(t, MoveRow(Cur(t), t.offset + t.y, t.offset + t.bottom, BlankRow))))
      /\ Leads(t, RowUpdate(WithCur(t, MoveRow(Cur(t), t.offset + t.bottom, t.offset + t.top, BlankRow))))
  BY <1>1, MoveRowsFacts
<1> QED BY <1>2, <1>3 DEF InsertRowHere, DeleteRowHere, ScrollDown, DeleteRowAndInsertAbove,
                          DeleteRowAndInsertBelow, CursorRow

\* A buffer has got other rows, and the screen moves to its end.
LEMMA NewBufferPoised ==
  ASSUME NEW t, Poised(t), NEW k, k \in 0 .. 1, NEW b, Kindred(t.buf[k], b)
  PROVE  LET u == MoveToEnd([t EXCEPT !.buf[k] = b])
         IN /\ Poised(u) /\ u.height = t.height /\ u.y = t.y /\ u.stay = t.stay /\ u.top = t.top
            /\ u.bottom = t.bottom
<1> DEFINE B == [t.buf EXCEPT ![k] = b]
           s == WithBuffers(t, B)
           offset == B[t.cur].size - t.height
           u == [s EXCEPT !.offset = offset]
<1>1. /\ t \in Terminals /\ t.cur \in 0 .. 1 /\ t.buf \in [0 .. 1 -> BufferTypes] /\ t.height \in Nat
      /\ \A j \in 0 .. 1 : /\ Sound(t.buf[j]) /\ t.buf[j].height = t.height
                           /\ (t.buf[j].noScroll <=> j = 1)
      /\ t.top <= t.bottom /\ t.bottom < t.height /\ t.y < t.height
  BY ScreenFacts DEF Poised, Framed, Terminals
<1>2. b \in BufferTypes /\ Sound(b) /\ b.height = t.height /\ (b.noScroll <=> k = 1)
  BY <1>1 DEF Kindred, Sound
<1>3. /\ B \in [0 .. 1 -> BufferTypes]
      /\ \A j \in 0 .. 1 : Sound(B[j]) /\ B[j].height = t.height /\ (B[j].noScroll <=> j = 1)
  BY <1>1, <1>2
<1>4. [t EXCEPT !.buf[k] = b] = s
  BY <1>1 DEF WithBuffers
<1>5. s.height = t.height /\ Cur(s) = B[t.cur] /\ s.cur = t.cur
  BY <1>1 DEF WithBuffers, Cur, Terminals
<1>6. MoveToEnd(s) = u
  BY <1>5 DEF MoveToEnd
<1> HIDE DEF B
<1>7. offset \in Nat
  <2>1. B[t.cur].size \in Nat /\ t.height <= B[t.cur].size
    BY <1>1, <1>3 DEF Sound, BufferTypes
  <2> QED BY <1>1, <2>1
<1> HIDE DEF offset
<1>8. s \in Terminals
  BY <1>1, <1>3 DEF Terminals, WithBuffers
<1>9. /\ u \in Terminals /\ u.buf = B /\ u.cur = t.cur /\ u.height = t.height /\ u.offset = offset
      /\ u.y = t.y /\ u.stay = t.stay /\ u.top = t.top /\ u.bottom = t.bottom
  BY <1>1, <1>3, <1>7 DEF Terminals, WithBuffers
<1> HIDE DEF u, s
<1>10. Cur(u).size = B[t.cur].size
  BY <1>9 DEF Cur
<1>11. Poised(u)
  BY <1>1, <1>3, <1>9, <1>10 DEF Poised, Framed, offset
<1> QED BY <1>4, <1>6, <1>9, <1>11

LEMMA NewBufferLeads ==
  ASSUME NEW t, Good(t), NEW k, k \in 0 .. 1, NEW b, Kindred(t.buf[k], b)
  PROVE  Leads(t, RowUpdate(MoveToEnd([t EXCEPT !.buf[k] = b])))
<1> DEFINE u == MoveToEnd([t EXCEPT !.buf[k] = b])
<1>1. Poised(t) /\ (t.stay => InMargins(t))
  BY DEF Good
<1>2. /\ Poised(u) /\ u.height = t.height /\ u.y = t.y /\ u.stay = t.stay /\ u.top = t.top
      /\ u.bottom = t.bottom
  BY <1>1, NewBufferPoised
<1> HIDE DEF u
<1>3. u.stay => InMargins(u)
  BY <1>1, <1>2 DEF InMargins
<1>4. Leads(u, RowUpdate(u))
  BY <1>2, <1>3, RowUpdateFacts
<1> QED BY <1>2, <1>4 DEF Leads, u

LEMMA ScrollUpFacts ==
  ASSUME NEW t, Good(t)
  PROVE  Leads(t, ScrollUp(t))
<1>1. Poised(t)
  BY DEF Good
<1>2. CASE t.top = 0
  <2> DEFINE pos == t.offset + t.bottom + 1
             b == InsertRow(Cur(t), pos)
  <2>1. pos \in 0 .. Cur(t).size /\ Sound(Cur(t)) /\ t.cur \in 0 .. 1 /\ Cur(t) = t.buf[t.cur]
    BY <1>1, ScreenFacts
  <2>2. ScrollUp(t) = RowUpdate(MoveToEnd([t EXCEPT !.buf[t.cur] = b]))
    BY <1>2 DEF ScrollUp, WithCur
  <2> HIDE DEF pos
  <2>3. Kindred(t.buf[t.cur], b)
    BY <2>1, InsertRowFacts
  <2> HIDE DEF b
  <2>4. Leads(t, RowUpdate(MoveToEnd([t EXCEPT !.buf[t.cur] = b])))
    BY <2>1, <2>3, NewBufferLeads
  <2> QED BY <2>2, <2>4
<1>3. CASE t.top # 0
  <2>1. t.bottom \in 0 .. t.height - 1 /\ t.top \in 0 .. t.height - 1
    BY <1>1, ScreenFacts
  <2>2. Leads(t, RowUpdate(WithCur(t, MoveRow(Cur(t), t.offset + t.top, t.offset + t.bottom, BlankRow))))
    BY <2>1, MoveRowsFacts
  <2> QED BY <1>3, <2>2 DEF ScrollUp, DeleteRowAndInsertBelow
<1> QED BY <1>2, <1>3

LEMMA FeedFacts ==
  ASSUME NEW t, Good(t)
  PROVE  Leads(t, LineFeed(t)) /\ Leads(t, ReverseIndex(t))
<1>1. Leads(t, ScrollUp(t)) /\ Leads(t, ScrollDown(t)) /\ Leads(t, CursorMoveDown(t))
  BY ScrollUpFacts, InsertDeleteFacts, MoveDownFacts
<1>2. Leads(t, MoveBy(t, -1))
  <2>1. -1 \in Int
    OBVIOUS
  <2> QED BY <2>1, MoveFacts
<1> QED BY <1>1, <1>2 DEF LineFeed, ReverseIndex

LEMMA SetBufferFacts ==
  ASSUME NEW t, Good(t), NEW k, k \in 0 .. 1
  PROVE  Leads(t, SetBuffer(t, k))
<1> DEFINE offset == t.buf[k].size - t.height
           u == [[t EXCEPT !.cur = k] EXCEPT !.offset = offset]
<1>1. /\ Poised(t) /\ t \in Terminals /\ t.height \in Nat /\ t.top <= t.bottom /\ t.bottom < t.height
      /\ t.y < t.height /\ Sound(t.buf[k]) /\ t.buf[k].height = t.height /\ (t.stay => InMargins(t))
  BY ScreenFacts DEF Good, Poised, Framed
<1>2. offset \in Nat
  BY <1>1 DEF Sound, BufferTypes
<1>3. MoveToEnd([t EXCEPT !.cur = k]) = u
  BY <1>1 DEF MoveToEnd, Cur, Terminals
<1> HIDE DEF offset
<1>4. /\ u \in Terminals /\ u.buf = t.buf /\ u.cur = k /\ u.height = t.height /\ u.offset = offset
      /\ u.y = t.y /\ u.stay = t.stay /\ u.top = t.top /\ u.bottom = t.bottom
  BY <1>1, <1>2 DEF Terminals
<1> HIDE DEF u
<1>5. Poised(u) /\ (u.stay => InMargins(u))
  BY <1>1, <1>4 DEF Poised, Framed, Cur, InMargins, offset
<1>6. Leads(u, RowUpdate(u))
  BY <1>5, RowUpdateFacts
<1>7. Leads(t, RowUpdate(u))
  BY <1>4, <1>6 DEF Leads
<1>8. Leads(t, t)
  BY StaysSelf
<1> QED BY <1>3, <1>7, <1>8 DEF SetBuffer
-----------------------------------------------------------------------------
(* Operations that write and erase *)

WithText(b, i, text) == [b EXCEPT !.rows[Slot(b, i)].text = text]
WithCont(b, i, cont) == [b EXCEPT !.rows[Slot(b, i)].cont = cont]

LEMMA WithTextFacts ==
  ASSUME NEW b, Sound(b), NEW i, Held(b, i), NEW text, text \in Nat
  PROVE  Alike(b, WithText(b, i, text)) /\ NoNewCont(b, WithText(b, i, text))
<1> DEFINE row == [Row(b, i) EXCEPT !.text = text]
           C == b.changed
<1>1. row \in RowTypes /\ (row.cont => Row(b, i).cont) /\ C \subseteq Nat
  BY RowHeld DEF RowTypes, Sound, BufferTypes
<1>2. WithText(b, i, text) = WithRow(b, i, row, C)
  BY DEF WithText, WithRow, Row, Sound, BufferTypes
<1> HIDE DEF row, C
<1>3. /\ Became(b, WithRow(b, i, row, C), [b.rows EXCEPT ![Slot(b, i)] = row], C)
      /\ (row.cont => Row(b, i).cont) => NoNewCont(b, WithRow(b, i, row, C))
  BY <1>1, SetRowFacts, Zenon
<1> QED BY <1>1, <1>2, <1>3 DEF Became

LEMMA WithContFacts ==
  ASSUME NEW b, Sound(b), NEW i, Held(b, i), NEW cont, cont \in BOOLEAN
  PROVE  /\ Alike(b, WithCont(b, i, cont)) /\ (~cont => NoNewCont(b, WithCont(b, i, cont)))
         /\ Row(WithCont(b, i, cont), i).cont = cont
         /\ \A s : s # Slot(b, i) => WithCont(b, i, cont).rows[s] = b.rows[s]
<1> DEFINE row == [Row(b, i) EXCEPT !.cont = cont]
           C == b.changed
           c == WithCont(b, i, cont)
<1>1. row \in RowTypes /\ row.cont = cont /\ C \subseteq Nat
  BY RowHeld DEF RowTypes, Sound, BufferTypes
<1>2. c = WithRow(b, i, row, C)
  BY DEF WithCont, WithRow, Row, Sound, BufferTypes
<1> HIDE DEF row, C
<1>3. /\ Became(b, WithRow(b, i, row, C), [b.rows EXCEPT ![Slot(b, i)] = row], C)
      /\ (row.cont => Row(b, i).cont) => NoNewCont(b, WithRow(b, i, row, C))
  BY <1>1, SetRowFacts, Zenon
<1> HIDE DEF c
<1>4. Alike(b, c) /\ (~cont => NoNewCont(b, c)) /\ c.rows = [b.rows EXCEPT ![Slot(b, i)] = row]
  BY <1>1, <1>2, <1>3 DEF Became
<1>5. Slot(c, i) = Slot(b, i) /\ Slot(b, i) \in DOMAIN b.rows
  BY <1>4, SlotHeld DEF Slot, Alike
<1>6. Row(c, i) = row
  BY <1>4, <1>5 DEF Row
<1>7. b.rows \in Seq(RowTypes)
  BY DEF Sound, BufferTypes
<1>8. \A s : s # Slot(b, i) => c.rows[s] = b.rows[s]
  BY <1>4
<1> QED BY <1>1, <1>4, <1>6, <1>8 DEF c

LEMMA ChangedFacts ==
  ASSUME NEW b, Sound(b), NEW C, C \subseteq Nat
  PROVE  /\ Alike(b, WithChanged(b, C)) /\ NoNewCont(b, WithChanged(b, C))
         /\ WithChanged(b, C).rows = b.rows
<1>1. Became(b, WithChanged(b, C), b.rows, C)
  BY NewChanged
<1> QED BY <1>1, FewerConts DEF Became

LEMMA EraseRowFacts ==
  ASSUME NEW t, Good(t), NEW y, y \in 0 .. t.height - 1
  PROVE  Stays(t, EraseRow(t, y))
<1> DEFINE i == t.offset + y
           b == Cur(t)
           c == TakeRow(b, i)
           d == PutRow(c, i, BlankRow)
<1>1. Poised(t)
  BY DEF Good
<1>2. i \in 0 .. b.size - 1 /\ Sound(b)
  BY <1>1, RowOfScreen, ScreenFacts
<1> HIDE DEF i, b
<1>3. Alike(b, c) /\ NoNewCont(b, c)
  BY <1>2, TakeRowFacts
<1> HIDE DEF c
<1>4. Sound(c) /\ Held(c, i)
  BY <1>2, <1>3, InSize DEF Alike
<1>5. BlankRow \in RowTypes /\ ~BlankRow.cont
  BY BlankFacts
<1>6. /\ Became(c, PutRow(c, i, BlankRow), [c.rows EXCEPT ![Slot(c, i)] = BlankRow], c.changed \cup {i})
      /\ (BlankRow.cont => Row(c, i).cont) => NoNewCont(c, PutRow(c, i, BlankRow))
  BY <1>4, <1>5, PutRowFacts
<1>7. Alike(c, d) /\ NoNewCont(c, d)
  BY <1>5, <1>6 DEF Became
<1> HIDE DEF d
<1>8. Alike(b, d) /\ NoNewCont(b, d)
  BY <1>3, <1>7, AlikeTrans, ContTrans, Zenon
<1>9. Stays(t, WithCur(t, d))
  BY <1>8, CurStays DEF b
<1> QED BY <1>9 DEF EraseRow, i, b, c, d

LEMMA EraseRowsFacts ==
  ASSUME NEW t, Good(t), NEW ys, ys \subseteq 0 .. t.height - 1
  PROVE  Stays(t, EraseRows(t, ys))
<1> DEFINE b == Cur(t)
           D == {t.offset + y : y \in ys}
           f == [i \in D |-> BlankRow]
           C == b.changed \cup D
           c == WithRows(b, Replaced(b, f), C)
           n == b.size
<1>1. Poised(t)
  BY DEF Good
<1>2. Sound(b) /\ n \in Nat /\ t.offset \in Nat /\ t.height \in Nat /\ t.offset + t.height = n
  BY <1>1, ScreenFacts
<1>3. D \subseteq Nat /\ \A i \in D : i <= n
  BY <1>2
<1>4. C \subseteq Nat
  BY <1>2, <1>3 DEF Sound, BufferTypes
<1> HIDE DEF D
<1>5. f \in [D -> RowTypes] /\ \A i \in D : ~f[i].cont
  BY BlankFacts
<1>6. EraseRows(t, ys) = WithCur(t, c)
  BY DEF EraseRows, WithRows, D
<1> HIDE DEF f, C, b, n
<1>7. /\ Became(b, WithRows(b, Replaced(b, f), C), Replaced(b, f), C)
      /\ (\A i \in D : ~f[i].cont) => NoNewCont(b, WithRows(b, Replaced(b, f), C))
  BY <1>2, <1>3, <1>4, <1>5, ReplacingFacts, Zenon
<1>8. Alike(b, c) /\ NoNewCont(b, c)
  BY <1>5, <1>7 DEF Became
<1> HIDE DEF c
<1> QED BY <1>6, <1>8, CurStays DEF b

LEMMA SetTextFacts ==
  ASSUME NEW t, Good(t), NEW text, text \in Nat
  PROVE  Stays(t, SetText(t, text))
<1> DEFINE b == WithText(Cur(t), CursorRow(t), text)
<1>1. Poised(t)
  BY DEF Good
<1>2. Sound(Cur(t)) /\ Held(Cur(t), CursorRow(t))
  BY <1>1, CursorsRow, ScreenFacts
<1>3. Alike(Cur(t), b) /\ NoNewCont(Cur(t), b)
  BY <1>2, WithTextFacts
<1>4. SetText(t, text) = WithCur(t, b)
  BY DEF SetText, WithText
<1> HIDE DEF b
<1> QED BY <1>3, <1>4, CurStays

LEMMA PartsFacts ==
  ASSUME NEW t, Good(t)
  PROVE  Parts(t) \subseteq Nat
<1>1. Row(Cur(t), CursorRow(t)) \in RowTypes
  BY CursorsRow DEF Good
<1> QED BY <1>1 DEF Parts, RowTypes

\* The cursor's row is taken, or marked as changed.
LEMMA TakenFacts ==
  ASSUME NEW t, Good(t)
  PROVE  /\ Stays(t, WithCur(t, TakeRow(Cur(t), CursorRow(t))))
         /\ Stays(t, WithCur(t, TouchRow(Cur(t), CursorRow(t))))
<1>1. Poised(t)
  BY DEF Good
<1>2. Sound(Cur(t)) /\ CursorRow(t) \in 0 .. Cur(t).size - 1 /\ CursorRow(t) \in Nat
  BY <1>1, CursorsRow, ScreenFacts
<1>3. Alike(Cur(t), TakeRow(Cur(t), CursorRow(t))) /\ NoNewCont(Cur(t), TakeRow(Cur(t), CursorRow(t)))
  BY <1>2, TakeRowFacts
<1>4. Alike(Cur(t), TouchRow(Cur(t), CursorRow(t))) /\ NoNewCont(Cur(t), TouchRow(Cur(t), CursorRow(t)))
  BY <1>2, TouchRowFacts DEF Became
<1> QED BY <1>3, <1>4, CurStays

\* e is t with more and more rows erased.
Erasing(t, n, e) == e = [k \in 0 .. n |-> IF k = 0 THEN t ELSE EraseRow(e[k-1], k-1)]

LEMMA ErasedExists ==
  ASSUME NEW t, NEW n \in Nat
  PROVE  \E e : Erasing(t, n, e)
<1> DEFINE Bad == {m \in Nat : ~\E e : e = [k \in 0 .. m |-> IF k = 0 THEN t ELSE EraseRow(e[k-1], k-1)]}
<1> SUFFICES ASSUME Bad # {} PROVE FALSE
  BY DEF Erasing
<1>1. PICK m \in Bad : \A y \in Bad : m <= y
  BY Least
<1>2. m # 0
  <2> SUFFICES 0 \notin Bad
    BY <1>1
  <2> DEFINE a == [k \in 0 .. 0 |-> t]
  <2>1. a = [k \in 0 .. 0 |-> IF k = 0 THEN t ELSE EraseRow(a[k-1], k-1)]
    OBVIOUS
  <2> QED BY <2>1
<1>3. m \in Nat /\ m - 1 \in Nat /\ m - 1 \notin Bad
  <2>1. m \in Nat
    OBVIOUS
  <2> HIDE DEF Bad
  <2>2. m - 1 \notin Bad
    BY <1>1, <2>1
  <2> QED BY <2>1, <2>2, <1>2
<1>4. PICK a : a = [k \in 0 .. m-1 |-> IF k = 0 THEN t ELSE EraseRow(a[k-1], k-1)]
  BY <1>3
<1> DEFINE e == [k \in 0 .. m |-> IF k = m THEN EraseRow(a[m-1], m-1) ELSE a[k]]
<1>5. ASSUME NEW k \in 0 .. m PROVE e[k] = IF k = 0 THEN t ELSE EraseRow(e[k-1], k-1)
  <2>1. CASE k = m
    BY <2>1, <1>2
  <2>2. CASE k # m /\ k # 0
    <3>1. k \in 0 .. m-1 /\ k-1 \in 0 .. m-1 /\ k - 1 # m
      BY <2>2
    <3>2. a[k] = EraseRow(a[k-1], k-1)
      BY <1>4, <3>1, <2>2
    <3>3. e[k] = a[k] /\ e[k-1] = a[k-1]
      BY <3>1, <2>2
    <3> QED BY <3>2, <3>3, <2>2
  <2>3. CASE k = 0
    <3>1. a[0] = t
      BY <1>4, <1>3
    <3> QED BY <2>3, <3>1, <1>2
  <2> QED BY <2>1, <2>2, <2>3
<1>6. e = [k \in 0 .. m |-> IF k = 0 THEN t ELSE EraseRow(e[k-1], k-1)]
  BY <1>5
<1> QED BY <1>6

LEMMA ErasedAboveFacts ==
  ASSUME NEW t, Good(t), NEW n \in Nat, n <= t.height
  PROVE  Stays(t, ErasedAbove(t, n)[n])
<1> DEFINE E == ErasedAbove(t, n)
           Bad == {m \in 0 .. n : ~Stays(t, E[m])}
<1>n. t.height \in Nat
  BY ScreenFacts DEF Good
<1>0. \A m \in 0 .. n : E[m] = IF m = 0 THEN t ELSE EraseRow(E[m-1], m-1)
  <2>1. \E e : Erasing(t, n, e)
    BY ErasedExists
  <2>2. E = [k \in 0 .. n |-> IF k = 0 THEN t ELSE EraseRow(E[k-1], k-1)]
    BY <2>1 DEF ErasedAbove, Erasing
  <2> HIDE DEF E
  <2> QED BY <2>2
<1> HIDE DEF E
<1> SUFFICES ASSUME Bad # {} PROVE FALSE
  <2>1. n \in 0 .. n
    OBVIOUS
  <2> QED BY <2>1 DEF E
<1>a. Bad \subseteq Nat
  OBVIOUS
<1>1. PICK m \in Bad : \A y \in Bad : m <= y
  <2> HIDE DEF Bad
  <2> QED BY <1>a, Least
<1>b. m \in 0 .. n /\ ~Stays(t, E[m])
  OBVIOUS
<1>2. m # 0
  <2>1. E[0] = t
    BY <1>0
  <2> QED BY <2>1, <1>b, StaysSelf
<1>3. m - 1 \in 0 .. n /\ m - 1 \notin Bad
  <2>0. m \in Nat /\ m <= n
    BY <1>b
  <2>1. m - 1 \in 0 .. n /\ m - 1 \in Nat /\ ~(m <= m - 1)
    BY <1>2, <2>0
  <2> QED BY <1>1, <2>1
<1>4. Stays(t, E[m-1])
  BY <1>3
<1> HIDE DEF Bad
<1>5. Good(E[m-1]) /\ m - 1 \in 0 .. E[m-1].height - 1
  BY <1>n, <1>b, <1>3, <1>4 DEF Stays, Leads
<1>6. Stays(E[m-1], EraseRow(E[m-1], m - 1))
  BY <1>5, EraseRowFacts
<1>7. E[m] = EraseRow(E[m-1], m-1)
  BY <1>0, <1>b, <1>2
<1> QED BY <1>b, <1>4, <1>6, <1>7, StaysTrans

LEMMA NoNextFacts ==
  ASSUME NEW t, Good(t),
         (t.row # Dangling /\ CursorRow(t) + 1 < Cur(t).size) => ~Row(Cur(t), CursorRow(t) + 1).cont
  PROVE  Stays(t, [t EXCEPT !.next = None])
<1> DEFINE u == [t EXCEPT !.next = None]
<1>1. Poised(t) /\ Pointed(t) /\ t \in Terminals
  BY ScreenFacts DEF Good
<1>2. /\ u \in Terminals /\ u.buf = t.buf /\ u.height = t.height /\ u.cur = t.cur /\ u.offset = t.offset
      /\ u.y = t.y /\ u.stay = t.stay /\ u.top = t.top /\ u.bottom = t.bottom /\ u.row = t.row
      /\ u.next = None
  BY <1>1 DEF Terminals, Pointers
<1> HIDE DEF u
<1>3. Cur(u) = Cur(t) /\ CursorRow(u) = CursorRow(t) /\ \A j : At(u, j) = At(t, j)
  BY <1>2 DEF Cur, CursorRow, At
<1>4. Poised(u) /\ (u.stay => InMargins(u))
  BY <1>1, <1>2, <1>3 DEF Poised, Framed, Good, InMargins
<1>5. Pointed(u)
  BY <1>1, <1>2, <1>3 DEF Pointed
<1> QED BY <1>2, <1>3, <1>4, <1>5 DEF Stays, Leads, Good, u

LEMMA WriteCellFacts ==
  ASSUME NEW t, Good(t), NEW text, text \in Nat
  PROVE  Leads(t, WriteCell(t, text))
<1> DEFINE i == CursorRow(t)
           b == Cur(t)
           touched == IF t.next = None THEN {i} ELSE {i, i + 1}
           ended == IF t.next \in {None, Dangling} THEN t
                    ELSE [t EXCEPT !.buf[t.next[1]].rows[t.next[2]].cont = FALSE]
           written == IF t.row = Dangling THEN ended
                      ELSE [ended EXCEPT !.buf[t.row[1]].rows[t.row[2]].text = text]
           final == [written EXCEPT !.next = None, !.buf[t.cur].changed = @ \cup touched]
           Clear2(u) == (u.row # Dangling /\ i + 1 < b.size) => ~Row(Cur(u), i + 1).cont
<1>0. WriteCell(t, text) = final
  BY DEF WriteCell
<1>1. Poised(t) /\ t \in Terminals /\ Sound(b) /\ b.size \in Nat /\ t.cur \in 0 .. 1 /\ b = t.buf[t.cur]
  BY ScreenFacts DEF Good
<1>2. i \in 0 .. b.size - 1 /\ Held(b, i) /\ i \in Nat /\ i + 1 \in Nat
  BY <1>1, CursorsRow
<1>3. /\ t.row = At(t, i) \/ (t.row = Dangling /\ t.cur = 1)
      /\ t.next = None \/ (t.next \in {Dangling, At(t, i + 1)} /\ i + 1 < b.size)
      /\ (t.row # Dangling /\ i + 1 < b.size /\ Row(b, i + 1).cont) => t.next = At(t, i + 1)
  BY DEF Good, Pointed
<1>4. /\ At(t, i) # Dangling /\ At(t, i)[1] = t.cur /\ At(t, i)[2] = Slot(b, i)
      /\ At(t, i + 1) # None /\ At(t, i + 1) # Dangling /\ At(t, i + 1)[1] = t.cur
      /\ At(t, i + 1)[2] = Slot(b, i + 1)
  BY <1>1, <1>2, Pointing
<1>5. touched \subseteq Nat
  BY <1>2
<1> HIDE DEF i, b, touched
<1>6. Stays(t, ended) /\ Clear2(ended) /\ ended.row = t.row
  <2>1. CASE t.next \in {None, Dangling}
    <3>1. ended = t /\ t.next # At(t, i + 1)
      BY <2>1, <1>4
    <3>2. Cur(ended) = b
      BY <3>1 DEF b
    <3> QED BY <3>1, <3>2, <1>3, StaysSelf
  <2>2. CASE t.next \notin {None, Dangling}
    <3> DEFINE e == WithCont(b, i + 1, FALSE)
    <3>1. t.next = At(t, i + 1) /\ i + 1 < b.size
      BY <2>2, <1>3
    <3>2. i + 1 \in 0 .. b.size - 1
      BY <3>1, <1>1, <1>2
    <3>3. Held(b, i + 1)
      BY <3>2, <1>1, InSize
    <3>4. Alike(b, e) /\ NoNewCont(b, e) /\ Row(e, i + 1).cont = FALSE
      BY <3>3, <1>1, WithContFacts
    <3>5. ended = WithCur(t, e)
      BY <2>2, <3>1, <1>1, <1>4 DEF WithCur, WithCont
    <3> HIDE DEF e
    <3>6. Stays(t, WithCur(t, e)) /\ Cur(WithCur(t, e)) = e
      BY <3>4, CurStays DEF b
    <3>7. WithCur(t, e).row = t.row
      BY <1>1 DEF WithCur, Terminals
    <3> QED BY <3>4, <3>5, <3>6, <3>7
  <2> QED BY <2>1, <2>2
<1> HIDE DEF ended
<1>7. /\ Good(ended) /\ Poised(ended) /\ ended \in Terminals /\ Sound(Cur(ended))
      /\ Cur(ended).size = b.size /\ Cur(ended).cap = b.cap /\ ended.cur = t.cur
      /\ CursorRow(ended) = i /\ Cur(ended) = ended.buf[t.cur]
  <2>1. Good(ended) /\ Poised(ended) /\ ended.cur = t.cur
        /\ Cur(ended).size = b.size /\ Cur(ended).cap = b.cap /\ CursorRow(ended) = i
    BY <1>6 DEF Stays, Leads, Good, CursorRow, i, b
  <2> QED BY <2>1, ScreenFacts
<1>8. Stays(t, written) /\ Clear2(written) /\ written.row = t.row
  <2>1. CASE t.row = Dangling
    BY <2>1, <1>6
  <2>2. CASE t.row # Dangling
    <3> DEFINE e == Cur(ended)
               w == WithText(e, i, text)
    <3>1. t.row = At(t, i)
      BY <2>2, <1>3
    <3>2. Slot(e, i) = Slot(b, i) /\ Held(e, i)
      <4>1. Held(ended.buf[t.cur], CursorRow(ended))
        BY <1>7, CursorsRow
      <4> QED BY <4>1, <1>7 DEF Slot
    <3>3. written = WithCur(ended, w)
      <4>1. t.row # Dangling /\ t.row[1] = t.cur /\ t.row[2] = Slot(e, i)
        BY <2>2, <3>1, <3>2, <1>4
      <4> QED BY <4>1, <1>7 DEF WithCur, WithText
    <3>4. Sound(e)
      BY <1>7
    <3> HIDE DEF e
    <3>5. Alike(e, w) /\ NoNewCont(e, w)
      BY <3>2, <3>4, WithTextFacts
    <3> HIDE DEF w
    <3>6. Stays(ended, WithCur(ended, w)) /\ Cur(WithCur(ended, w)) = w
      BY <3>5, <1>7, CurStays DEF e
    <3>a. Stays(ended, written)
      BY <3>3, <3>6, Zenon
    <3>7. Stays(t, written)
      BY <3>a, <1>6, StaysTrans, Zenon
    <3>8. WithCur(ended, w).row = t.row
      BY <1>6, <1>7 DEF WithCur, Terminals
    <3>9. ASSUME i + 1 < b.size PROVE ~Row(w, i + 1).cont
      <4>1. i + 1 \in 0 .. e.size - 1
        BY <3>9, <1>1, <1>2, <1>7 DEF e
      <4>2. ~Row(e, i + 1).cont
        BY <1>6, <3>9, <2>2 DEF e
      <4> QED BY <4>1, <4>2, <3>5 DEF NoNewCont
    <3> QED BY <3>3, <3>6, <3>7, <3>8, <3>9
  <2> QED BY <2>1, <2>2
<1> HIDE DEF written
<1> DEFINE w == Cur(written)
           d == WithChanged(w, w.changed \cup touched)
           v == WithCur(written, d)
<1>9. /\ Good(written) /\ Poised(written) /\ written \in Terminals /\ Sound(w)
      /\ w.size = b.size /\ w.cap = b.cap /\ written.cur = t.cur /\ CursorRow(written) = i
      /\ w = written.buf[t.cur] /\ w \in BufferTypes /\ written.height = t.height
  <2>1. Good(written) /\ Poised(written) /\ written.cur = t.cur /\ written.height = t.height
        /\ w.size = b.size /\ w.cap = b.cap /\ CursorRow(written) = i
    BY <1>8 DEF Stays, Leads, Good, CursorRow, i, b
  <2> QED BY <2>1, ScreenFacts DEF Sound
<1>10. final = [v EXCEPT !.next = None]
  BY <1>9 DEF WithCur, WithChanged, Terminals
<1>11. Alike(w, d) /\ NoNewCont(w, d) /\ d.rows = w.rows
  <2>1. w.changed \cup touched \subseteq Nat
    BY <1>5, <1>9 DEF BufferTypes
  <2> HIDE DEF w
  <2> QED BY <2>1, <1>9, ChangedFacts
<1> HIDE DEF d
<1>12. Stays(written, v) /\ Cur(v) = d
  BY <1>9, <1>11, CurStays
<1>13. v.row = t.row
  BY <1>8, <1>9 DEF WithCur, Terminals
<1> HIDE DEF v, w
<1>14. CursorRow(v) = i /\ Cur(v).size = b.size /\ Good(v) /\ Leads(t, v)
  BY <1>8, <1>9, <1>12 DEF Stays, Leads, CursorRow, w
<1>15. (v.row # Dangling /\ i + 1 < b.size) => ~Row(Cur(v), i + 1).cont
  <2>1. Row(d, i + 1) = Row(w, i + 1)
    BY <1>11 DEF Row, Slot, Alike
  <2> QED BY <2>1, <1>8, <1>12, <1>13 DEF w
<1>16. Stays(v, [v EXCEPT !.next = None])
  BY <1>14, <1>15, NoNextFacts
<1> QED BY <1>0, <1>10, <1>14, <1>16, LeadsTrans DEF Stays

\* A line that wraps: the next row is marked as the continuation.
LEMMA MarkedFacts ==
  ASSUME NEW t, Good(t)
  PROVE  LET taken == TakeRow(Cur(t), CursorRow(t))
         IN Leads(t, WithCur(t, WithCont(taken, CursorRow(t), TRUE)))
<1> DEFINE i == CursorRow(t)
           b == Cur(t)
           c == TakeRow(b, i)
           d == WithCont(c, i, TRUE)
           u == WithCur(t, d)
<1>1. /\ Poised(t) /\ Sound(b) /\ b.size \in Nat /\ b.height = t.height
      /\ t.height \in Nat /\ t.offset + t.height = b.size /\ t.y \in Nat /\ t.offset \in Nat
  BY ScreenFacts DEF Good
<1>2. i \in 0 .. b.size - 1 /\ i \in Nat /\ i = t.offset + t.y
  BY <1>1, CursorsRow DEF CursorRow
<1> HIDE DEF i, b
<1>3. /\ Alike(b, c) /\ NoNewCont(b, c) /\ Sound(c) /\ c.size = b.size /\ c.cap = b.cap
      /\ (i + 1 < b.size => ~Row(c, i + 1).cont)
  BY <1>1, <1>2, TakeRowFacts DEF Alike
<1> HIDE DEF c
<1>4. Held(c, i)
  BY <1>2, <1>3, InSize
<1>5. Alike(c, d) /\ \A s : s # Slot(c, i) => d.rows[s] = c.rows[s]
  <2> DEFINE on == TRUE
  <2>1. on \in BOOLEAN /\ d = WithCont(c, i, on)
    OBVIOUS
  <2> HIDE DEF on, d
  <2>2. /\ Alike(c, WithCont(c, i, on))
        /\ \A s : s # Slot(c, i) => WithCont(c, i, on).rows[s] = c.rows[s]
    BY <2>1, <1>3, <1>4, WithContFacts
  <2> QED BY <2>1, <2>2
<1> HIDE DEF d
<1>6. ASSUME i + 1 < b.size PROVE ~Row(d, i + 1).cont
  <2>1. c.cap \in Nat \ {0} /\ b.height <= b.cap /\ b.height \in Nat
    BY <1>1, <1>3 DEF Sound, BufferTypes
  <2>2. i + 1 \in Nat /\ i < i + 1 /\ (i + 1) - i < c.cap
    BY <1>1, <1>2, <1>3, <1>6, <2>1
  <2>3. Slot(c, i) # Slot(c, i + 1)
    BY <1>2, <1>3, <2>2, SlotsApart, Zenon
  <2>4. Slot(d, i + 1) = Slot(c, i + 1)
    BY <1>5 DEF Alike, Slot
  <2>5. Row(d, i + 1) = Row(c, i + 1)
    BY <1>5, <2>3, <2>4 DEF Row
  <2> QED BY <1>3, <1>6, <2>5
<1>7. Alike(b, d)
  BY <1>3, <1>5, AlikeTrans
<1>8. /\ Poised(u) /\ u.height = t.height /\ u.cur = t.cur /\ u.offset = t.offset
      /\ u.y = t.y /\ u.stay = t.stay /\ u.top = t.top /\ u.bottom = t.bottom
      /\ u.row = t.row /\ u.next = t.next /\ Cur(u) = d
  BY <1>1, <1>7, CurPoised DEF b
<1> HIDE DEF u
<1>9. CursorRow(u) = i /\ d.size = b.size /\ \A j : At(u, j) = At(t, j)
  BY <1>7, <1>8 DEF CursorRow, At, Slot, Alike, i, b
<1>10. /\ t.row = At(t, i) \/ (t.row = Dangling /\ t.cur = 1)
       /\ t.next = None \/ (t.next \in {Dangling, At(t, i + 1)} /\ i + 1 < b.size)
  BY DEF Good, Pointed, i, b
<1>11. Pointed(u)
  BY <1>6, <1>8, <1>9, <1>10 DEF Pointed
<1>12. u.stay => InMargins(u)
  BY <1>8 DEF Good, InMargins
<1> QED BY <1>8, <1>11, <1>12 DEF Leads, Good, u, d, c, b, i

\* The alternate buffer's rows are thrown away.
LEMMA ClearAlternateFacts ==
  ASSUME NEW t, Good(t)
  PROVE  Leads(t, ClearAlternate(t))
<1> DEFINE Lost(p) == IF p[1] = 1 THEN Dangling ELSE p
           b == Clear(t.buf[1])
           B == [t.buf EXCEPT ![1] = b]
           v == WithBuffers(t, B)
           u == WithPointers(v, Lost(t.row), Lost(t.next))
           i == CursorRow(t)
<1>1. /\ Poised(t) /\ t \in Terminals /\ t.cur \in 0 .. 1 /\ Sound(t.buf[1]) /\ t.buf[1].noScroll
      /\ t.buf \in [0 .. 1 -> BufferTypes]
  BY ScreenFacts DEF Good, Poised, Framed, Terminals
<1>2. i \in Nat /\ i + 1 \in Nat
  BY <1>1, CursorsRow
<1>3. Alike(t.buf[1], b) /\ NoNewCont(t.buf[1], b)
  BY <1>1, ClearFacts
<1>4. /\ B \in [0 .. 1 -> BufferTypes]
      /\ \A j \in 0 .. 1 : Alike(t.buf[j], B[j]) /\ NoNewCont(t.buf[j], B[j])
  <2>1. 1 \in 0 .. 1
    OBVIOUS
  <2> HIDE DEF b
  <2> QED BY <1>1, <1>3, <2>1, OneBuffer
<1>5. ClearAlternate(t) = u
  BY <1>1 DEF ClearAlternate, WithBuffers, WithPointers, Terminals
<1> HIDE DEF b, B
<1>6. Stays(t, v)
  BY <1>4, BuffersStay
<1>7. /\ Poised(v) /\ v \in Terminals /\ v.row = t.row /\ v.next = t.next /\ v.cur = t.cur
      /\ v.stay = t.stay
  <2>1. Poised(v) /\ v.row = t.row /\ v.next = t.next /\ v.cur = t.cur /\ v.stay = t.stay
    BY <1>1, <1>4, BuffersPoised
  <2> HIDE DEF v
  <2> QED BY <2>1, ScreenFacts
<1> HIDE DEF v
<1>8. /\ t.row = At(t, i) \/ (t.row = Dangling /\ t.cur = 1)
      /\ t.next = None \/ (t.next \in {Dangling, At(t, i + 1)} /\ i + 1 < Cur(t).size)
  BY DEF Good, Pointed
<1>9. /\ At(t, i)[1] = t.cur /\ At(t, i + 1)[1] = t.cur
  BY <1>1, <1>2, Pointing
<1>10. Dangling[1] = -2 /\ None[1] = -1
  BY DEF Dangling, None
<1> HIDE DEF i
<1>11. CASE t.cur = 0
  <2>1. Lost(t.row) = t.row /\ Lost(t.next) = t.next
    BY <1>8, <1>9, <1>10, <1>11
  <2> HIDE DEF Lost
  <2>2. u = v
    BY <1>7, <2>1 DEF WithPointers, Terminals
  <2> QED BY <1>5, <1>6, <2>2 DEF Stays
<1>12. CASE t.cur = 1
  <2>1. /\ Lost(t.row) = Dangling /\ Lost(t.next) \in {None, Dangling}
        /\ Lost(t.next) = None \/ i + 1 < Cur(t).size
    BY <1>8, <1>9, <1>10, <1>12
  <2>2. Dangling \in Pointers /\ None \in Pointers
    BY DEF Pointers
  <2> DEFINE next == Lost(t.next)
  <2>a. /\ u = WithPointers(v, Dangling, next) /\ next \in {None, Dangling}
        /\ next = None \/ i + 1 < Cur(t).size
    BY <2>1
  <2> HIDE DEF u, Lost, next
  <2>3. /\ u \in Terminals /\ u.buf = v.buf /\ u.height = v.height /\ u.cur = v.cur /\ u.offset = v.offset
        /\ u.y = v.y /\ u.stay = v.stay /\ u.top = v.top /\ u.bottom = v.bottom /\ u.row = Dangling
        /\ u.next \in {None, Dangling} /\ u.next = next
    BY <1>7, <2>a, <2>2 DEF Terminals, WithPointers
  <2>4. Poised(u) /\ (u.stay => InMargins(u))
    BY <1>6, <1>7, <2>3 DEF Poised, Framed, Cur, InMargins, Stays, Leads, Good
  <2>5. Pointed(u)
    <3>1. CursorRow(u) = i /\ Cur(u).size = Cur(t).size
      BY <1>6, <2>3 DEF Stays, CursorRow, Cur, i
    <3> QED BY <1>7, <1>12, <2>a, <2>3, <3>1 DEF Pointed
  <2> QED BY <1>5, <1>6, <2>3, <2>4, <2>5 DEF Leads, Good, Stays
<1> QED BY <1>1, <1>11, <1>12

LEMMA ResetEmulatorFacts ==
  ASSUME NEW t, Good(t)
  PROVE  Leads(t, ResetEmulator(t))
<1> DEFINE flagged == [t EXCEPT !.originMode = FALSE]
           plain == SetMargins(flagged, 0, t.height - 1)
           cleared == ClearAlternate(plain)
           main == SetBuffer(cleared, 0)
           saved == [y |-> 0, origin |-> FALSE]
           end == [main EXCEPT !.saved = saved]
<1>0. ResetEmulator(t) = end
  BY DEF ResetEmulator
<1>1. t.height \in Nat \ {0}
  BY ScreenFacts DEF Good
<1>2. saved \in [y : Nat, origin : BOOLEAN] /\ FALSE \in BOOLEAN
  OBVIOUS
<1>3. Leads(t, flagged)
  BY <1>2, ModeFacts
<1> HIDE DEF flagged
<1>4. 0 \in 0 .. flagged.height - 1 /\ t.height - 1 \in 0 .. flagged.height - 1 /\ 0 <= t.height - 1
      /\ Good(flagged)
  BY <1>1, <1>3 DEF Leads
<1>5. Leads(flagged, plain)
  BY <1>4, SetMarginsFacts
<1> HIDE DEF plain
<1>6. Leads(plain, cleared)
  BY <1>5, ClearAlternateFacts DEF Leads
<1> HIDE DEF cleared
<1>7. Leads(cleared, main)
  <2>1. 0 \in 0 .. 1
    OBVIOUS
  <2> QED BY <1>6, <2>1, SetBufferFacts DEF Leads
<1> HIDE DEF main, saved
<1>8. Leads(main, end)
  BY <1>2, <1>7, SavedFacts DEF Leads
<1> HIDE DEF end
<1>9. Leads(t, cleared)
  BY <1>3, <1>5, <1>6, LeadsTrans
<1> QED BY <1>0, <1>7, <1>8, <1>9, LeadsTrans

LEMMA ClearScreenFacts ==
  ASSUME NEW t, Good(t)
  PROVE  Leads(t, ClearScreen(t))
<1> DEFINE set == SetMargins(t, 0, t.height - 1)
           home == MoveTo(set, 0)
           ys == 0 .. t.height - 1
           end == EraseRows(home, ys)
<1>0. ClearScreen(t) = end
  BY DEF ClearScreen
<1>1. t.height \in Nat \ {0}
  BY ScreenFacts DEF Good
<1>2. 0 \in 0 .. t.height - 1 /\ t.height - 1 \in 0 .. t.height - 1 /\ 0 <= t.height - 1 /\ 0 \in Int
  BY <1>1
<1>3. Leads(t, set)
  BY <1>2, SetMarginsFacts
<1> HIDE DEF set
<1>4. Leads(set, home)
  BY <1>2, <1>3, MoveFacts DEF Leads
<1> HIDE DEF home
<1>5. ys \subseteq 0 .. home.height - 1 /\ Good(home)
  BY <1>3, <1>4 DEF Leads
<1> HIDE DEF ys
<1>6. Stays(home, end)
  BY <1>5, EraseRowsFacts
<1> HIDE DEF end
<1> QED BY <1>0, <1>3, <1>4, <1>6, LeadsTrans DEF Stays

LEMMA MainBufferFacts ==
  ASSUME NEW t, Good(t)
  PROVE  /\ Leads(t, ClearScrollbackNow(t))
         /\ \A cap \in Nat \ {0} : Leads(t, BufferResize(t, cap))
<1>1. Sound(t.buf[0]) /\ ~t.buf[0].noScroll /\ 0 \in 0 .. 1
  BY DEF Good, Poised, Framed
<1>2. Kindred(t.buf[0], ClearScrollback(t.buf[0]))
  BY <1>1, ClearScrollbackFacts
<1>3. Leads(t, RowUpdate(MoveToEnd([t EXCEPT !.buf[0] = ClearScrollback(t.buf[0])])))
  BY <1>1, <1>2, NewBufferLeads
<1>4. ASSUME NEW cap \in Nat \ {0} PROVE Leads(t, BufferResize(t, cap))
  <2>1. Kindred(t.buf[0], EnableScrollback(t.buf[0], cap))
    BY <1>1, EnableScrollbackFacts
  <2>2. Leads(t, RowUpdate(MoveToEnd([t EXCEPT !.buf[0] = EnableScrollback(t.buf[0], cap)])))
    BY <1>1, <2>1, NewBufferLeads
  <2> QED BY <2>2 DEF BufferResize
<1> QED BY <1>3, <1>4 DEF ClearScrollbackNow

LEMMA ResetEventsFacts ==
  ASSUME NEW t, Good(t)
  PROVE  Leads(t, ResetEvents(t))
<1> DEFINE B == [[t.buf EXCEPT ![0] = ResetEventState(t.buf[0])] EXCEPT ![1] = ResetEventState(t.buf[1])]
<1>1. /\ t \in Terminals /\ t.buf \in [0 .. 1 -> BufferTypes]
      /\ \A k \in 0 .. 1 : Sound(t.buf[k])
  BY ScreenFacts DEF Good, Poised, Framed, Terminals
<1>2. ResetEvents(t) = WithBuffers(t, B)
  BY <1>1 DEF ResetEvents, WithBuffers, Terminals
<1>3. ASSUME NEW k \in 0 .. 1
      PROVE  /\ B[k] = ResetEventState(t.buf[k]) /\ B[k] \in BufferTypes
             /\ Alike(t.buf[k], B[k]) /\ NoNewCont(t.buf[k], B[k])
  <2>1. B[k] = ResetEventState(t.buf[k])
    BY <1>1
  <2>2. Sound(t.buf[k])
    BY <1>1
  <2>3. Alike(t.buf[k], ResetEventState(t.buf[k])) /\ ResetEventState(t.buf[k]).rows = t.buf[k].rows
    BY <2>2, TellFacts
  <2>4. NoNewCont(t.buf[k], ResetEventState(t.buf[k]))
    BY <2>2, <2>3, FewerConts
  <2> HIDE DEF B
  <2> QED BY <2>1, <2>3, <2>4 DEF Alike, Sound
<1>4. B \in [0 .. 1 -> BufferTypes]
  BY <1>1, <1>3
<1> HIDE DEF B
<1>5. Stays(t, WithBuffers(t, B))
  BY <1>3, <1>4, BuffersStay
<1> QED BY <1>2, <1>5 DEF Stays

\* The screen gets another height.
LEMMA SetSizeFacts ==
  ASSUME NEW t, Good(t), NEW height, height \in Nat \ {0}
  PROVE  Good(SetSize(t, height))
<1> DEFINE maxChop == IF t.cur = 1 THEN 0 ELSE t.height - 1 - t.y
           main == SetScreenHeight(t.buf[0], height, maxChop)
           alt == SetScreenHeight(t.buf[1], height, 0)
<1>1. /\ Poised(t) /\ t \in Terminals /\ t.cur \in 0 .. 1 /\ t.buf \in [0 .. 1 -> BufferTypes]
      /\ t.height \in Nat \ {0} /\ t.y \in Nat /\ t.y < t.height /\ t.top \in Nat /\ t.bottom \in Nat
      /\ t.top <= t.bottom /\ t.bottom < t.height
      /\ \A k \in 0 .. 1 : Sound(t.buf[k]) /\ (t.buf[k].noScroll <=> k = 1) /\ t.buf[k].height = t.height
  BY ScreenFacts DEF Good, Poised, Framed, Terminals
<1>2. maxChop \in Nat /\ 0 \in Nat
  BY <1>1
<1> HIDE DEF maxChop
<1>a. Sound(t.buf[0]) /\ ~t.buf[0].noScroll /\ Sound(t.buf[1]) /\ t.buf[1].noScroll
  BY <1>1
<1>3. Sound(main) /\ main.height = height /\ ~main.noScroll
  <2>1. Fitted(t.buf[0], height, main)
    BY <1>a, <1>2, SetScreenHeightFacts
  <2> HIDE DEF main
  <2> QED BY <1>a, <2>1 DEF Fitted
<1>4. Sound(alt) /\ alt.height = height /\ alt.noScroll
  <2>1. Fitted(t.buf[1], height, alt)
    BY <1>a, <1>2, SetScreenHeightFacts
  <2> HIDE DEF alt
  <2> QED BY <1>a, <2>1 DEF Fitted
<1> HIDE DEF main, alt
<1> DEFINE fitted(k) == IF t.buf[k].cap < height
                        THEN SetCapacity(t.buf[k], CapacityFor(t.buf[k].cap, height)) ELSE t.buf[k]
           added == LinesAdded(fitted(t.cur), height)
           sized == [t EXCEPT !.buf[0] = main, !.buf[1] = alt]
           B == [[t.buf EXCEPT ![0] = main] EXCEPT ![1] = alt]
           below == t.height - 1 - t.bottom
           taller == height - t.height - added
           fits == t.top + below + 1 < height
           top == IF fits THEN t.top ELSE 0
           bottom == IF fits THEN height - 1 - below ELSE height - 1
           y == IF height > t.height THEN t.y + taller ELSE t.y
           z == Clamp(y, top, bottom)
           offset == B[t.cur].size - height
           tall == [sized EXCEPT !.y = y, !.height = height, !.top = top, !.bottom = bottom]
           u == [MoveToEnd(tall) EXCEPT !.y = z]
<1>5. /\ B \in [0 .. 1 -> BufferTypes]
      /\ \A k \in 0 .. 1 : Sound(B[k]) /\ B[k].height = height /\ (B[k].noScroll <=> k = 1)
  BY <1>1, <1>3, <1>4 DEF Sound
<1>6. sized = [t EXCEPT !.buf = B]
  BY <1>1 DEF Terminals
<1> HIDE DEF B, sized
<1>7. added \in Int
  <2> DEFINE c == t.buf[t.cur]
             n == CapacityFor(c.cap, height)
  <2>1. Sound(c) /\ c.cap \in Nat \ {0} /\ c.height \in Nat \ {0} /\ c.height <= c.cap
    BY <1>1 DEF Sound, BufferTypes
  <2>2. ASSUME c.cap < height PROVE SetCapacity(c, n).size \in Nat
    <3>1. n \in Nat \ {0} /\ n >= height
      BY <2>1, CapacityFits
    <3>2. n # c.cap /\ c.height <= n /\ c.cap < n
      BY <2>1, <2>2, <3>1
    <3> HIDE DEF n, c
    <3>3. Kindred(c, SetCapacity(c, n))
      BY <2>1, <3>1, <3>2, SetCapacityFacts
    <3> QED BY <3>3 DEF Kindred, Sound, BufferTypes
  <2>3. fitted(t.cur).size \in Nat
    <3>1. c.size \in Nat
      BY <2>1 DEF Sound, BufferTypes
    <3> QED BY <2>2, <3>1
  <2> HIDE DEF fitted
  <2> QED BY <2>3 DEF LinesAdded, LargerOf
<1>8. SetSize(t, height) = IF t.height = height THEN t ELSE SetHeight(sized, height, added)
  BY DEF SetSize, sized, main, alt, maxChop
<1> HIDE DEF added
<1>9. /\ sized \in Terminals /\ sized.buf = B /\ sized.cur = t.cur /\ sized.height = t.height
      /\ sized.top = t.top /\ sized.bottom = t.bottom /\ sized.y = t.y /\ sized.stay = t.stay
  BY <1>1, <1>5, <1>6 DEF Terminals
<1>10. SetHeight(sized, height, added) = RowUpdate(u)
  <2>1. tall.y = y /\ tall.top = top /\ tall.bottom = bottom /\ MoveToEnd(tall).y = y
    BY <1>9 DEF MoveToEnd, Terminals
  <2>2. SetHeight(sized, height, added)
          = RowUpdate([MoveToEnd(tall) EXCEPT !.y = Clamp(MoveToEnd(tall).y, tall.top, tall.bottom)])
    BY <1>9 DEF SetHeight
  <2> HIDE DEF tall, y, top, bottom
  <2> QED BY <2>1, <2>2
<1>11. /\ top \in Nat /\ bottom \in Nat /\ top <= bottom /\ bottom < height /\ y \in Int
  BY <1>1, <1>7
<1> HIDE DEF top, bottom, y
<1>12. z \in top .. bottom
  BY <1>11, ClampFacts
<1> HIDE DEF z
<1>13. z \in Nat /\ z < height
  BY <1>11, <1>12
<1>14. B[t.cur].size \in Nat /\ height <= B[t.cur].size /\ offset \in Nat
  <2>1. Sound(B[t.cur]) /\ B[t.cur].height = height
    BY <1>1, <1>5
  <2>2. B[t.cur].size \in Nat /\ height <= B[t.cur].size
    BY <2>1 DEF Sound, BufferTypes
  <2> QED BY <2>2
<1>15. u = [sized EXCEPT !.y = z, !.height = height, !.top = top, !.bottom = bottom, !.offset = offset]
  BY <1>9 DEF MoveToEnd, Cur, Terminals
<1> HIDE DEF offset, u
<1>16. /\ u \in Terminals /\ u.buf = B /\ u.cur = t.cur /\ u.height = height /\ u.offset = offset
       /\ u.y = z /\ u.top = top /\ u.bottom = bottom
  BY <1>9, <1>11, <1>13, <1>14, <1>15 DEF Terminals
<1>17. Poised(u) /\ InMargins(u)
  BY <1>5, <1>11, <1>12, <1>13, <1>16 DEF Poised, Framed, Cur, InMargins, offset
<1>18. Leads(u, RowUpdate(u))
  BY <1>17, RowUpdateFacts
<1> QED BY <1>8, <1>10, <1>18 DEF Leads
-----------------------------------------------------------------------------
(* The specification *)

\* t is a new terminal of height h with the buffers B.
Fresh(t, h, B) ==
  t = [buf |-> B, cur |-> 0, height |-> h, top |-> 0, bottom |-> h - 1,
       offset |-> 0, y |-> 0, stay |-> FALSE, origin |-> 0, originMode |-> FALSE,
       saved |-> [y |-> 0, origin |-> FALSE], row |-> <<0, 1>>, next |-> None]

LEMMA FreshFacts ==
  ASSUME NEW h, h \in Nat \ {0},
         NEW b0, Sound(b0), b0.height = h, ~b0.noScroll, b0.size = h, \A s \in 1 .. h : ~b0.rows[s].cont,
         NEW b1, Sound(b1), b1.height = h, b1.noScroll,
         NEW B, B = [k \in 0 .. 1 |-> IF k = 0 THEN b0 ELSE b1],
         NEW t, Fresh(t, h, B)
  PROVE  Good(t)
<1>0. t = [buf |-> B, cur |-> 0, height |-> h, top |-> 0, bottom |-> h - 1,
           offset |-> 0, y |-> 0, stay |-> FALSE, origin |-> 0, originMode |-> FALSE,
           saved |-> [y |-> 0, origin |-> FALSE], row |-> <<0, 1>>, next |-> None]
  BY DEF Fresh
<1>1. B \in [0 .. 1 -> BufferTypes] /\ B[0] = b0 /\ B[1] = b1
  BY DEF Sound
<1>2. /\ t.buf = B /\ t.cur = 0 /\ t.height = h /\ t.top = 0 /\ t.bottom = h - 1 /\ t.offset = 0
      /\ t.y = 0 /\ t.stay = FALSE /\ t.row = <<0, 1>> /\ t.next = None
  BY <1>0
<1>3. t \in Terminals
  <2>1. <<0, 1>> \in Pointers /\ None \in Pointers /\ [y |-> 0, origin |-> FALSE] \in [y : Nat, origin : BOOLEAN]
    BY DEF Pointers
  <2>2. h - 1 \in Nat /\ 0 \in 0 .. 1 /\ 0 \in Nat /\ FALSE \in BOOLEAN
    OBVIOUS
  <2> QED BY <1>0, <1>1, <2>1, <2>2 DEF Terminals
<1>4. Cur(t) = b0 /\ CursorRow(t) = 0
  BY <1>1, <1>2 DEF Cur, CursorRow
<1>5. Framed(t)
  <2>1. ASSUME NEW k \in 0 .. 1
        PROVE  Sound(t.buf[k]) /\ t.buf[k].height = t.height /\ (t.buf[k].noScroll <=> k = 1)
    <3>1. CASE k = 0
      BY <1>1, <1>2, <3>1
    <3>2. CASE k = 1
      BY <1>1, <1>2, <3>2
    <3> QED BY <3>1, <3>2
  <2>2. t.top <= t.bottom /\ t.bottom < t.height
    BY <1>2
  <2> QED BY <1>3, <2>1, <2>2 DEF Framed
<1>6. Poised(t)
  BY <1>2, <1>4, <1>5 DEF Poised
<1>7. b0.cap \in Nat \ {0} /\ h <= b0.cap
  BY DEF Sound, BufferTypes
<1>8. \A i \in Nat : i < b0.cap => Slot(b0, i) = i + 1
  BY <1>7, ModSlot, Zenon DEF Slot
<1>9. t.row = At(t, 0)
  <2>1. 0 \in Nat /\ 0 < b0.cap
    BY <1>7
  <2>2. Slot(b0, 0) = 1
    BY <1>8, <2>1
  <2> QED BY <1>2, <1>4, <2>2 DEF At
<1>10. ASSUME 0 + 1 < b0.size PROVE ~Row(b0, 0 + 1).cont
  <2>1. 1 < h /\ 1 < b0.cap
    BY <1>7, <1>10
  <2>2. Slot(b0, 1) = 2 /\ 2 \in 1 .. h
    BY <1>8, <2>1
  <2> QED BY <2>2 DEF Row
<1>11. Pointed(t)
  BY <1>2, <1>4, <1>9, <1>10 DEF Pointed
<1> QED BY <1>2, <1>6, <1>11 DEF Good

LEMMA Initially ==
  ASSUME Init
  PROVE  IInv
<1>1. PICK h \in Heights, cap \in Caps :
        term = [buf |-> [k \in 0 .. 1 |-> IF k = 0 THEN NewBuffer(h, LargerOf(cap, 2), FALSE)
                                          ELSE NewBuffer(h, 1, TRUE)],
                cur |-> 0, height |-> h, top |-> 0, bottom |-> h - 1,
                offset |-> 0, y |-> 0, stay |-> FALSE, origin |-> 0, originMode |-> FALSE,
                saved |-> [y |-> 0, origin |-> FALSE], row |-> <<0, 1>>, next |-> None]
  BY DEF Init
<1> DEFINE c0 == LargerOf(cap, 2)
<1>2. h \in Nat \ {0} /\ c0 \in Nat \ {0}
  BY ScreenAssumption DEF LargerOf, ScreenAssumption
<1> HIDE DEF c0
<1> DEFINE b0 == NewBuffer(h, c0, FALSE)
           b1 == NewBuffer(h, 1, TRUE)
           B == [k \in 0 .. 1 |-> IF k = 0 THEN b0 ELSE b1]
<1>3. Fresh(term, h, B)
  BY <1>1 DEF c0, Fresh
<1>4. /\ Sound(b0) /\ b0.height = h /\ ~b0.noScroll /\ b0.size = h
      /\ \A s \in 1 .. h : ~b0.rows[s].cont
  <2>1. FALSE \in BOOLEAN
    OBVIOUS
  <2> QED BY <1>2, <2>1, NewBufferFacts
<1>5. Sound(b1) /\ b1.height = h /\ b1.noScroll
  <2>1. TRUE \in BOOLEAN /\ 1 \in Nat \ {0}
    OBVIOUS
  <2> QED BY <1>2, <2>1, NewBufferFacts
<1> HIDE DEF b0, b1
<1>6. Good(term)
  <2>1. B = [k \in 0 .. 1 |-> IF k = 0 THEN b0 ELSE b1]
    OBVIOUS
  <2> HIDE DEF B
  <2> QED BY <1>2, <1>3, <1>4, <1>5, <2>1, FreshFacts
<1>7. left \in 0 .. MaxOps /\ arrived \in BOOLEAN /\ crowded \in BOOLEAN
  <2>1. left = MaxOps /\ arrived = TRUE /\ crowded = FALSE
    BY Zenon DEF Init
  <2>2. MaxOps \in Nat
    BY ScreenAssumption DEF ScreenAssumption
  <2>3. left \in 0 .. MaxOps
    BY <2>1, <2>2
  <2> QED BY <2>1, <2>3, Zenon
<1> QED BY <1>6, <1>7 DEF IInv

LEMMA BecomesFacts ==
  ASSUME IInv, NEW t, Good(t), Step(t) \/ Arrive(t)
  PROVE  IInv'
<1>1. Becomes(t) /\ arrived' \in BOOLEAN
  BY DEF Step, Arrive
<1>2. term' = t /\ left > 0 /\ left' = left - 1 /\ crowded' = (crowded \/ IsCrowded(t))
  BY <1>1 DEF Becomes
<1>3. left' \in 0 .. MaxOps
  BY <1>2, ScreenAssumption DEF IInv, ScreenAssumption
<1>4. crowded' \in BOOLEAN
  <2>1. IsCrowded(t) \in BOOLEAN
    BY DEF IsCrowded
  <2> QED BY <1>2, <2>1
<1>5. Good(term)'
  BY <1>2 
<1> QED BY <1>1, <1>3, <1>4, <1>5 DEF IInv

LEMMA Stepping ==
  ASSUME IInv, [Next]_vars
  PROVE  IInv'
<1>0. Good(term) /\ Leads(term, term) /\ Poised(term)
  BY StaysSelf DEF IInv, Good
<1>s. \A t : Leads(term, t) /\ (Step(t) \/ Arrive(t)) => IInv'
  BY BecomesFacts DEF Leads
<1>t. Texts \subseteq Nat
  BY ScreenAssumption DEF ScreenAssumption
<1>1. ASSUME NEW text \in Texts, Printable(text) PROVE IInv'
  <2>1. text \in Nat
    BY <1>t
  <2>2. CASE Step(WriteCell(term, text))
    BY <1>0, <1>s, <2>1, <2>2, WriteCellFacts
  <2>3. CASE Step(WriteCell(RowUpdate(term), text))
    <3>1. Leads(term, RowUpdate(term))
      BY <1>0, RowUpdateFacts DEF Good
    <3>2. Leads(RowUpdate(term), WriteCell(RowUpdate(term), text))
      BY <2>1, <3>1, WriteCellFacts DEF Leads
    <3> QED BY <1>s, <2>3, <3>1, <3>2, LeadsTrans
  <2> QED BY <1>1, <2>2, <2>3 DEF Printable
<1>2. ASSUME NEW text \in Texts, PrintWrapped(text) PROVE IInv'
  <2> DEFINE down == IF term.y = term.bottom THEN ScrollUp(term) ELSE MoveBy(term, 1)
             taken == TakeRow(Cur(down), CursorRow(down))
             marked == WithCur(down, WithCont(taken, CursorRow(down), TRUE))
  <2>1. text \in Nat
    BY <1>t
  <2>2. Leads(term, down)
    <3>1. 1 \in Int
      OBVIOUS
    <3> QED BY <1>0, <3>1, ScrollUpFacts, MoveFacts
  <2>3. Step(WriteCell(marked, text))
    BY <1>2 DEF PrintWrapped, WithCont
  <2> HIDE DEF down
  <2>4. Leads(down, marked)
    BY <2>2, MarkedFacts DEF Leads
  <2> HIDE DEF marked
  <2>5. Leads(marked, WriteCell(marked, text))
    BY <2>1, <2>4, WriteCellFacts DEF Leads
  <2>6. Leads(term, WriteCell(marked, text))
    BY <2>2, <2>4, <2>5, LeadsTrans
  <2> QED BY <1>s, <2>3, <2>6
<1>3. ASSUME Feed \/ ReverseFeed PROVE IInv'
  BY <1>0, <1>3, <1>s, FeedFacts DEF Feed, ReverseFeed
<1>4. ASSUME CursorUp \/ CursorDown PROVE IInv'
  <2>1. -1 \in Int /\ 1 \in Int
    OBVIOUS
  <2>2. Leads(term, MoveBy(term, -1)) /\ Leads(term, MoveBy(term, 1))
    BY <1>0, <2>1, MoveFacts
  <2> QED BY <1>4, <1>s, <2>2 DEF CursorUp, CursorDown
<1>5. ASSUME CursorPosition \/ CursorVerticalAbsolute PROVE IInv'
  <2>1. PICK y \in 0 .. term.height - 1 : Step(MoveTo(term, y)) \/ Step(MoveY(term, y + term.origin, TRUE))
    BY <1>5 DEF CursorPosition, CursorVerticalAbsolute
  <2>2. y \in Int
    OBVIOUS
  <2>3. Leads(term, MoveTo(term, y)) /\ Leads(term, MoveY(term, y + term.origin, TRUE))
    BY <1>0, <2>2, MoveFacts
  <2> QED BY <1>s, <2>1, <2>3
<1>6. ASSUME CmdSaveCursor \/ CmdRestoreCursor PROVE IInv'
  BY <1>0, <1>6, <1>s, SaveFacts, RestoreFacts DEF CmdSaveCursor, CmdRestoreCursor
<1>7. ASSUME InsertLines \/ DeleteLines \/ CmdScrollUp \/ CmdScrollDown PROVE IInv'
  BY <1>0, <1>7, <1>s, InsertDeleteFacts, ScrollUpFacts DEF InsertLines, DeleteLines, CmdScrollUp, CmdScrollDown
<1>8. ASSUME EraseInLine PROVE IInv'
  <2>1. CASE Step(EraseRow(term, term.y))
    <3>1. term.y \in 0 .. term.height - 1
      BY <1>0, ScreenFacts
    <3>2. Stays(term, EraseRow(term, term.y))
      BY <1>0, <3>1, EraseRowFacts
    <3> QED BY <1>s, <2>1, <3>2 DEF Stays
  <2>2. ASSUME NEW text \in Parts(term),
               Step(SetText(WithCur(term, TakeRow(Cur(term), CursorRow(term))), text))
        PROVE  IInv'
    <3> DEFINE u == WithCur(term, TakeRow(Cur(term), CursorRow(term)))
    <3>1. Stays(term, u) /\ text \in Nat
      BY <1>0, TakenFacts, PartsFacts
    <3>a. Step(SetText(u, text))
      BY <2>2
    <3> HIDE DEF u
    <3>2. Stays(u, SetText(u, text))
      BY <3>1, SetTextFacts DEF Stays, Leads
    <3>3. Leads(term, SetText(u, text))
      BY <3>1, <3>2, StaysTrans DEF Stays
    <3> QED BY <1>s, <3>a, <3>3
  <2> QED BY <1>8, <2>1, <2>2 DEF EraseInLine
<1>9. ASSUME EraseBelow PROVE IInv'
  <2> DEFINE ys == term.y + 1 .. term.height - 1
             below == EraseRows(term, ys)
             u == WithCur(below, TouchRow(Cur(below), CursorRow(below)))
  <2>1. term.y \in Nat /\ term.height \in Nat
    BY <1>0, ScreenFacts
  <2>2. ys \subseteq 0 .. term.height - 1
    BY <2>1
  <2>a. PICK text \in Parts(term) :
          Step(SetText(WithCur(below, TouchRow(Cur(below), CursorRow(term))), text))
    BY <1>9 DEF EraseBelow
  <2> HIDE DEF ys
  <2>3. Stays(term, below) /\ text \in Nat
    BY <1>0, <2>2, EraseRowsFacts, PartsFacts
  <2> HIDE DEF below
  <2>4. CursorRow(below) = CursorRow(term) /\ Good(below)
    BY <2>3 DEF CursorRow, Stays, Leads
  <2>5. Stays(below, u)
    BY <2>4, TakenFacts
  <2>6. Step(SetText(u, text))
    BY <2>a, <2>4
  <2> HIDE DEF u
  <2>7. Stays(u, SetText(u, text))
    BY <2>3, <2>5, SetTextFacts DEF Stays, Leads
  <2>8. Leads(term, SetText(u, text))
    BY <2>3, <2>5, <2>7, StaysTrans DEF Stays
  <2> QED BY <1>s, <2>6, <2>8
<1>10. ASSUME EraseAbove PROVE IInv'
  <2> DEFINE above == ErasedAbove(term, term.y)[term.y]
             u == WithCur(above, TakeRow(Cur(above), CursorRow(above)))
  <2>a. PICK text \in Parts(term) :
          Step(SetText(WithCur(above, TakeRow(Cur(above), CursorRow(term))), text))
    BY <1>10 DEF EraseAbove
  <2>1. term.y \in Nat /\ term.y <= term.height
    BY <1>0, ScreenFacts
  <2>3. Stays(term, above) /\ text \in Nat
    BY <1>0, <2>1, ErasedAboveFacts, PartsFacts
  <2> HIDE DEF above
  <2>4. CursorRow(above) = CursorRow(term) /\ Good(above)
    BY <2>3 DEF CursorRow, Stays, Leads
  <2>5. Stays(above, u)
    BY <2>4, TakenFacts
  <2>6. Step(SetText(u, text))
    BY <2>a, <2>4
  <2> HIDE DEF u
  <2>7. Stays(u, SetText(u, text))
    BY <2>3, <2>5, SetTextFacts DEF Stays, Leads
  <2>8. Leads(term, SetText(u, text))
    BY <2>3, <2>5, <2>7, StaysTrans DEF Stays
  <2> QED BY <1>s, <2>6, <2>8
<1>11. ASSUME EraseAll PROVE IInv'
  <2> DEFINE ys == 0 .. term.height - 1
  <2>1. ys \subseteq 0 .. term.height - 1
    OBVIOUS
  <2>2. Stays(term, EraseRows(term, ys))
    BY <1>0, <2>1, EraseRowsFacts
  <2> QED BY <1>11, <1>s, <2>2 DEF EraseAll, Stays
<1>12. ASSUME EraseScrollback PROVE IInv'
  BY <1>0, <1>12, <1>s, MainBufferFacts DEF EraseScrollback
<1>13. ASSUME SetTopBottomMargins PROVE IInv'
  <2>1. PICK top, bottom \in 0 .. term.height - 1 :
          top < bottom /\ Step(MoveTo(SetMargins(term, top, bottom), 0))
    BY <1>13 DEF SetTopBottomMargins
  <2> DEFINE u == SetMargins(term, top, bottom)
  <2>2. top <= bottom /\ 0 \in Int
    BY <2>1
  <2>3. Leads(term, u)
    BY <1>0, <2>2, SetMarginsFacts
  <2>4. Leads(u, MoveTo(u, 0))
    BY <2>2, <2>3, MoveFacts DEF Leads
  <2> QED BY <1>s, <2>1, <2>3, <2>4, LeadsTrans
<1>14. ASSUME NEW on \in BOOLEAN, SetOriginMode(on) PROVE IInv'
  <2> DEFINE u == [term EXCEPT !.originMode = on]
  <2>1. Leads(term, u)
    BY <1>0, ModeFacts
  <2>a. Step(SetStayWithinMargins(u, on))
    BY <1>14 DEF SetOriginMode
  <2> HIDE DEF u
  <2>2. Leads(u, SetStayWithinMargins(u, on))
    BY <2>1, SetStayFacts DEF Leads
  <2> QED BY <1>s, <2>a, <2>1, <2>2, LeadsTrans
<1>15. ASSUME NEW on \in BOOLEAN, AltScreen(on) PROVE IInv'
  <2> DEFINE k == IF on THEN 1 ELSE 0
  <2>1. k \in 0 .. 1
    OBVIOUS
  <2>2. Step(SetBuffer(term, k))
    BY <1>15 DEF AltScreen
  <2> HIDE DEF k
  <2>3. Leads(term, SetBuffer(term, k))
    BY <1>0, <2>1, SetBufferFacts
  <2> QED BY <1>s, <2>2, <2>3
<1>16. ASSUME AltScreenCleared PROVE IInv'
  <2> DEFINE u == IF term.cur = 1 THEN ClearAlternate(term) ELSE term
  <2>1. Leads(term, u)
    BY <1>0, ClearAlternateFacts
  <2>2. Step(SetBuffer(u, 0)) /\ 0 \in 0 .. 1
    BY <1>16 DEF AltScreenCleared
  <2> HIDE DEF u
  <2>3. Leads(u, SetBuffer(u, 0))
    BY <2>1, <2>2, SetBufferFacts DEF Leads
  <2> QED BY <1>s, <2>1, <2>2, <2>3, LeadsTrans
<1>17. ASSUME AltScreenSaved PROVE IInv'
  <2> DEFINE s == SaveCursor(term)
             u == ClearAlternate(s)
  <2>1. Leads(term, s)
    BY <1>0, SaveFacts
  <2>2. Step(SetBuffer(u, 1)) /\ 1 \in 0 .. 1
    BY <1>17 DEF AltScreenSaved
  <2> HIDE DEF s
  <2>3. Leads(s, u)
    BY <2>1, ClearAlternateFacts DEF Leads
  <2> HIDE DEF u
  <2>4. Leads(u, SetBuffer(u, 1))
    BY <2>2, <2>3, SetBufferFacts DEF Leads
  <2> QED BY <1>s, <2>1, <2>2, <2>3, <2>4, LeadsTrans
<1>18. ASSUME AltScreenRestored PROVE IInv'
  <2> DEFINE u == SetBuffer(term, 0)
  <2>1. Leads(term, u)
    <3>1. 0 \in 0 .. 1
      OBVIOUS
    <3> QED BY <1>0, <3>1, SetBufferFacts
  <2>2. Step(RestoreCursor(u))
    BY <1>18 DEF AltScreenRestored
  <2> HIDE DEF u
  <2>3. Leads(u, RestoreCursor(u))
    BY <2>1, RestoreFacts DEF Leads
  <2> QED BY <1>s, <2>1, <2>2, <2>3, LeadsTrans
<1>19. ASSUME CmdResetEmulator PROVE IInv'
  <2> DEFINE u == ResetEmulator(term)
  <2>1. Leads(term, u)
    BY <1>0, ResetEmulatorFacts
  <2>2. Step(ClearScreen(u))
    BY <1>19 DEF CmdResetEmulator
  <2> HIDE DEF u
  <2>3. Leads(u, ClearScreen(u))
    BY <2>1, ClearScreenFacts DEF Leads
  <2> QED BY <1>s, <2>1, <2>2, <2>3, LeadsTrans
<1> DEFINE fresh == ResetEvents(term)
<1>20. Leads(term, fresh)
  BY <1>0, ResetEventsFacts
<1>21. ASSUME TermEvent PROVE IInv'
  BY <1>20, <1>21, <1>s DEF TermEvent
<1>22. ASSUME NEW flags \in SUBSET {"emulator", "scrollback", "screen"}, TermReset(flags) PROVE IInv'
  <2> DEFINE plain == IF "emulator" \in flags THEN ResetEmulator(fresh) ELSE fresh
             cleared == IF "scrollback" \in flags THEN ClearScrollbackNow(plain) ELSE plain
             end == IF "screen" \in flags THEN ClearScreen(cleared) ELSE cleared
  <2>1. Arrive(end)
    BY <1>22 DEF TermReset
  <2> HIDE DEF fresh
  <2>2. Leads(fresh, plain)
    BY <1>20, ResetEmulatorFacts, StaysSelf DEF Leads
  <2> HIDE DEF plain
  <2>3. Leads(plain, cleared)
    BY <2>2, MainBufferFacts, StaysSelf DEF Leads
  <2> HIDE DEF cleared
  <2>4. Leads(cleared, end)
    BY <2>3, ClearScreenFacts, StaysSelf DEF Leads
  <2> HIDE DEF end
  <2>5. Leads(term, end)
    BY <1>20, <2>2, <2>3, <2>4, LeadsTrans
  <2> QED BY <1>s, <2>1, <2>5
<1>23. ASSUME NEW height \in Heights, TermResize(height) PROVE IInv'
  <2>1. height \in Nat \ {0}
    BY ScreenAssumption DEF ScreenAssumption
  <2>2. Arrive(SetSize(fresh, height))
    BY <1>23 DEF TermResize
  <2> HIDE DEF fresh
  <2>3. Good(SetSize(fresh, height))
    BY <1>20, <2>1, SetSizeFacts DEF Leads
  <2> QED BY <2>2, <2>3, BecomesFacts
<1>24. ASSUME NEW cap \in Caps, TermBufferResize(cap) PROVE IInv'
  <2>1. cap \in Nat \ {0}
    BY ScreenAssumption DEF ScreenAssumption
  <2>2. Arrive(BufferResize(fresh, cap))
    BY <1>24 DEF TermBufferResize
  <2> HIDE DEF fresh
  <2>3. Leads(fresh, BufferResize(fresh, cap))
    BY <1>20, <2>1, MainBufferFacts DEF Leads
  <2> QED BY <1>s, <1>20, <2>2, <2>3, LeadsTrans
<1>25. CASE UNCHANGED vars
  BY <1>25 DEF IInv, vars
<1> QED
  BY <1>1, <1>2, <1>3, <1>4, <1>5, <1>6, <1>7, <1>8, <1>9, <1>10, <1>11, <1>12, <1>13, <1>14, <1>15,
     <1>16, <1>17, <1>18, <1>19, <1>21, <1>22, <1>23, <1>24, <1>25 DEF Next

(* What every step keeps is true from the beginning on. *)
THEOREM Invariance == Spec => []IInv
<1>1. Init => IInv
  BY Initially
<1>2. IInv /\ [Next]_vars => IInv'
  BY Stepping
<1> QED BY <1>1, <1>2, PTL DEF Spec

(* The two buffers have the screen's height, and hold in their slots just  *)
(* the rows they count, whatever is written, scrolled, erased or resized   *)
(* (buffer.cpp:256, buffer.cpp:306).                                       *)
THEOREM BuffersSound == Spec => []TypeOK
<1>1. IInv => TypeOK
  <2> SUFFICES ASSUME IInv PROVE TypeOK
    OBVIOUS
  <2>1. ASSUME NEW k \in 0 .. 1
        PROVE  LET b == term.buf[k]
               IN /\ b.height = term.height /\ b.size >= b.height /\ b.realsize >= b.size
                  /\ Len(b.rows) = SmallerOf(b.realsize, b.cap)
                  /\ b.changed \subseteq Nat /\ b.told \subseteq {"length", "capacity"}
    <3> DEFINE b == term.buf[k]
    <3>1. Sound(b) /\ b.height = term.height
      BY DEF IInv, Good, Poised, Framed
    <3> HIDE DEF b
    <3>2. /\ b.size >= b.height /\ b.realsize >= b.size /\ Len(b.rows) = SmallerOf(b.realsize, b.cap)
          /\ b.changed \subseteq Nat /\ b.told \subseteq {"length", "capacity"}
      BY <3>1 DEF Sound, BufferTypes
    <3> QED BY <3>1, <3>2 DEF b
  <2> QED BY <2>1 DEF TypeOK, IInv
<1> QED BY <1>1, Invariance, PTL

(* The cursor is on the screen and inside the margins it is confined to,   *)
(* m_row is its row and m_nextRow the continuation of it, after any        *)
(* sequence of the emulator's operations, resets and resizes               *)
(* (screen.cpp:59, screen.cpp:361).                                        *)
THEOREM CursorIsSound == Spec => []CursorSound
<1>1. IInv => CursorSound
  <2> SUFFICES ASSUME IInv PROVE CursorSound
    OBVIOUS
  <2>1. Poised(term) /\ Pointed(term) /\ (term.stay => InMargins(term))
    BY DEF IInv, Good
  <2>2. CursorInScreen
    <3>1. term.y \in 0 .. term.height - 1 /\ 0 <= term.top
      BY <2>1, ScreenFacts
    <3> QED BY <2>1, <3>1 DEF CursorInScreen, Poised, Framed
  <2>3. RowIsCursors /\ ContinuationSeen
    BY <2>1 DEF Pointed, RowIsCursors, ContinuationSeen
  <2> QED BY <2>2, <2>3 DEF CursorSound
<1> QED BY <1>1, Invariance, PTL

-----------------------------------------------------------------------------
(* The rows noted as changed *)

(* What an event has noted so far is in the buffer. *)
Bounded(b) == b.changed \subseteq 0 .. b.size - 1

(* c is b after steps of one event: what differs on its screen is noted,   *)
(* and nothing that was to be told is forgotten.                           *)
Shown(b, c) ==
  \A i \in Screen(c) \ c.changed :
    i \in Screen(b) /\ i \notin b.changed /\ Row(c, i).text = Row(b, i).text
Tells(b, c) ==
  /\ b.told \subseteq c.told
  /\ c.size # b.size => "length" \in c.told
  /\ c.cap # b.cap => "capacity" \in c.told
Tracked(b, c) == Bounded(c) /\ Shown(b, c) /\ Tells(b, c)

LEMMA TrackedTrans ==
  ASSUME NEW a, NEW b, NEW c, Tracked(a, b), Tracked(b, c)
  PROVE  Tracked(a, c)
<1>1. Shown(a, c)
  BY DEF Tracked, Shown
<1>2. Tells(a, c)
  BY DEF Tracked, Tells
<1> QED BY <1>1, <1>2 DEF Tracked

LEMMA TrackedSelf ==
  ASSUME NEW b, Bounded(b)
  PROVE  Tracked(b, b)
  BY DEF Tracked, Bounded, Shown, Tells

\* The rows of D, which are on the screen, are noted, and no others written to.
Writes(b, c, D) ==
  /\ Alike(b, c) /\ b.told \subseteq c.told /\ c.changed = b.changed \cup D
  /\ \A s \in 1 .. Len(b.rows) :
       c.rows[s].text = b.rows[s].text \/ \E i \in D : Slot(b, i) = s

LEMMA ScreenRows ==
  ASSUME NEW b, Sound(b), NEW i \in Screen(b)
  PROVE  /\ i \in 0 .. b.size - 1 /\ i \in Nat /\ Slot(b, i) \in 1 .. Len(b.rows)
         /\ \A j \in Screen(b) : Slot(b, j) = Slot(b, i) => j = i
<1>1. b.size \in Nat /\ b.height \in Nat /\ b.height <= b.size /\ b.cap \in Nat /\ b.height <= b.cap
  BY DEF Sound, BufferTypes
<1>2. i \in 0 .. b.size - 1 /\ i \in Nat
  BY <1>1 DEF Screen
<1>3. Slot(b, i) \in 1 .. Len(b.rows)
  BY <1>2, InSize, SlotHeld
<1>4. ASSUME NEW j \in Screen(b), j # i PROVE Slot(b, j) # Slot(b, i)
  <2>1. j \in Nat /\ (i < j \/ j < i) /\ j - i < b.cap /\ i - j < b.cap
    BY <1>1, <1>2, <1>4 DEF Screen
  <2> QED BY <1>2, <2>1, SlotsApart
<1> QED BY <1>2, <1>3, <1>4

LEMMA WritesTracked ==
  ASSUME NEW b, Sound(b), Bounded(b), NEW c, NEW D, D \subseteq Screen(b), Writes(b, c, D)
  PROVE  Tracked(b, c)
<1>1. c.size = b.size /\ c.height = b.height /\ c.cap = b.cap
  BY DEF Writes, Alike
<1>2. Screen(c) = Screen(b)
  BY <1>1 DEF Screen
<1>3. Bounded(c)
  <2>1. D \subseteq 0 .. b.size - 1
    BY ScreenRows
  <2> QED BY <1>1, <2>1 DEF Bounded, Writes
<1>4. Shown(b, c)
  <2> SUFFICES ASSUME NEW i \in Screen(b), i \notin c.changed
               PROVE  i \notin b.changed /\ Row(c, i).text = Row(b, i).text
    BY <1>2 DEF Shown
  <2>1. i \notin b.changed /\ i \notin D
    BY DEF Writes
  <2>2. Slot(b, i) \in 1 .. Len(b.rows) /\ \A j \in D : Slot(b, j) # Slot(b, i)
    BY <2>1, ScreenRows
  <2>3. c.rows[Slot(b, i)].text = b.rows[Slot(b, i)].text
    BY <2>2 DEF Writes
  <2>4. Slot(c, i) = Slot(b, i)
    BY <1>1 DEF Slot
  <2> QED BY <2>1, <2>3, <2>4 DEF Row
<1> QED BY <1>1, <1>3, <1>4 DEF Tracked, Tells, Writes

\* Every row of the screen is noted.
LEMMA AllTracked ==
  ASSUME NEW b, NEW c, Sound(c), Screen(c) \subseteq c.changed, Bounded(c), Tells(b, c)
  PROVE  Tracked(b, c)
  BY DEF Tracked, Shown

LEMMA TouchTracked ==
  ASSUME NEW b, Sound(b), Bounded(b), NEW i \in Screen(b)
  PROVE  Tracked(b, TouchRow(b, i))
<1>1. i \in Nat
  BY ScreenRows
<1>2. Became(b, TouchRow(b, i), b.rows, b.changed \cup {i})
  BY <1>1, TouchRowFacts
<1>3. Writes(b, TouchRow(b, i), {i})
  BY <1>2 DEF Became, Writes
<1> QED BY <1>3, WritesTracked

LEMMA PutTracked ==
  ASSUME NEW b, Sound(b), Bounded(b), NEW i \in Screen(b), NEW row, row \in RowTypes
  PROVE  Tracked(b, PutRow(b, i, row))
<1>1. Held(b, i) /\ b.rows \in Seq(RowTypes)
  BY ScreenRows, InSize DEF Sound, BufferTypes
<1> DEFINE c == PutRow(b, i, row)
           R == [b.rows EXCEPT ![Slot(b, i)] = row]
<1>2. Became(b, c, R, b.changed \cup {i})
  BY <1>1, PutRowFacts, Zenon
<1>3. \A s \in 1 .. Len(b.rows) : R[s] = b.rows[s] \/ s = Slot(b, i)
  BY <1>1
<1> HIDE DEF c, R
<1>4. Writes(b, c, {i})
  BY <1>2, <1>3 DEF Became, Writes
<1> QED BY <1>4, WritesTracked DEF c

\* The flag of a row's continuation is nothing that is shown.
LEMMA WithContTracked ==
  ASSUME NEW b, Sound(b), Bounded(b), NEW i, Held(b, i), NEW cont, cont \in BOOLEAN
  PROVE  Tracked(b, WithCont(b, i, cont))
<1> DEFINE c == WithCont(b, i, cont)
<1>1. Alike(b, c) /\ \A s : s # Slot(b, i) => c.rows[s] = b.rows[s]
  BY WithContFacts
<1>2. Slot(b, i) \in 1 .. Len(b.rows) /\ b.rows \in Seq(RowTypes) /\ b.rows[Slot(b, i)] \in RowTypes
  BY SlotHeld, RowHeld DEF Row, Sound, BufferTypes
<1>3. c.told = b.told /\ c.changed = b.changed /\ c.rows[Slot(b, i)].text = b.rows[Slot(b, i)].text
  BY <1>2 DEF Sound, BufferTypes, WithCont, RowTypes
<1> HIDE DEF c
<1>4. Writes(b, c, {})
  BY <1>1, <1>3 DEF Writes
<1> QED BY <1>4, WritesTracked DEF c

\* Text is written to a row that is noted already.
LEMMA WithTextTracked ==
  ASSUME NEW b, Sound(b), Bounded(b), NEW i \in Screen(b), i \in b.changed, NEW text, text \in Nat
  PROVE  Tracked(b, WithText(b, i, text))
<1> DEFINE c == WithText(b, i, text)
<1>0. Held(b, i)
  BY ScreenRows, InSize
<1>1. Alike(b, c)
  BY <1>0, WithTextFacts
<1>2. Slot(b, i) \in 1 .. Len(b.rows) /\ b.rows \in Seq(RowTypes)
  BY <1>0, SlotHeld DEF Sound, BufferTypes
<1>3. /\ c.told = b.told /\ c.changed = b.changed
      /\ \A s \in 1 .. Len(b.rows) : s # Slot(b, i) => c.rows[s] = b.rows[s]
  BY <1>2 DEF Sound, BufferTypes, WithText
<1> HIDE DEF c
<1>4. b.changed = b.changed \cup {i}
  OBVIOUS
<1>5. Writes(b, c, {i})
  BY <1>1, <1>3, <1>4 DEF Writes
<1> QED BY <1>5, WritesTracked DEF c

LEMMA TakeTracked ==
  ASSUME NEW b, Sound(b), Bounded(b), NEW i \in Screen(b)
  PROVE  Tracked(b, TakeRow(b, i)) /\ i \in TakeRow(b, i).changed
<1>0. b.size \in Nat /\ b.changed \subseteq Nat /\ b.rows \in Seq(RowTypes) /\ b \in BufferTypes
      /\ i \in Nat /\ b.height \in Nat
  BY ScreenRows DEF Sound, BufferTypes
<1>1. CASE i < b.size - 1 /\ Row(b, i + 1).cont
  <2> DEFINE row == [Row(b, i + 1) EXCEPT !.cont = FALSE]
             C == b.changed \cup {i, i + 1}
             c == WithRow(b, i + 1, row, C)
             R == [b.rows EXCEPT ![Slot(b, i + 1)] = row]
  <2>1. {i, i + 1} \subseteq Screen(b)
    BY <1>0, <1>1 DEF Screen
  <2>a. Held(b, i + 1) /\ C \subseteq Nat
    BY <1>0, <2>1, ScreenRows, InSize
  <2>2. row \in RowTypes /\ row.text = Row(b, i + 1).text
    BY <2>a, RowHeld DEF RowTypes
  <2>3. TakeRow(b, i) = c
    BY <1>0, <1>1 DEF TakeRow, Row, WithRow
  <2>4. \A s \in 1 .. Len(b.rows) : R[s].text = b.rows[s].text
    BY <1>0, <2>2 DEF Row
  <2> HIDE DEF row, R, C
  <2>5. Became(b, WithRow(b, i + 1, row, C), [b.rows EXCEPT ![Slot(b, i + 1)] = row], C)
    BY <2>2, <2>a, SetRowFacts, Zenon
  <2>6. Became(b, c, R, C)
    BY <2>5 DEF R
  <2> HIDE DEF c
  <2>7. Writes(b, c, {i, i + 1}) /\ i \in c.changed
    BY <2>4, <2>6 DEF Became, Writes, C
  <2>8. Tracked(b, c)
    BY <2>1, <2>7, WritesTracked, Zenon
  <2> QED BY <2>3, <2>7, <2>8
<1>2. CASE ~(i < b.size - 1 /\ Row(b, i + 1).cont)
  <2>1. TakeRow(b, i) = TouchRow(b, i)
    BY <1>2 DEF TakeRow
  <2>2. i \in TouchRow(b, i).changed
    BY <1>0 DEF TouchRow, BufferTypes
  <2> QED BY <2>1, <2>2, TouchTracked
<1> QED BY <1>1, <1>2

\* Rows of the screen are replaced and noted.
LEMMA ReplaceTracked ==
  ASSUME NEW b, Sound(b), Bounded(b), NEW D, D \subseteq Screen(b), NEW f, f \in [D -> RowTypes]
  PROVE  Tracked(b, WithRows(b, Replaced(b, f), b.changed \cup D))
<1> DEFINE R == Replaced(b, f)
           C == b.changed \cup D
           c == WithRows(b, R, C)
<1>1. D \subseteq Nat /\ (\A i \in D : i <= b.size) /\ b.size \in Nat /\ b.rows \in Seq(RowTypes)
  <2>1. b.size \in Nat /\ b.rows \in Seq(RowTypes)
    BY DEF Sound, BufferTypes
  <2>2. D \subseteq 0 .. b.size - 1
    BY ScreenRows
  <2> QED BY <2>1, <2>2
<1>2. C \subseteq Nat
  BY <1>1 DEF Sound, BufferTypes
<1>3. Filled(b, D, f, R)
  BY <1>1, ReplacedFacts, Zenon
<1> HIDE DEF C
<1>4. Became(b, WithRows(b, Replaced(b, f), C), Replaced(b, f), C)
  BY <1>1, <1>2, ReplacingFacts, Zenon
<1> HIDE DEF R
<1>5. Became(b, c, R, C)
  BY <1>4 DEF R
<1> HIDE DEF c
<1>6. Writes(b, c, D)
  BY <1>3, <1>5 DEF Became, Filled, Writes, C
<1>7. Tracked(b, c)
  BY <1>6, WritesTracked, Zenon
<1> QED BY <1>7 DEF c, R, C

LEMMA MoveTracked ==
  ASSUME NEW b, Sound(b), Bounded(b), NEW from \in Screen(b), NEW to \in Screen(b),
         NEW row, row \in RowTypes
  PROVE  Tracked(b, MoveRow(b, from, to, row))
<1> DEFINE step == IF to < from THEN -1 ELSE 1
           span == SmallerOf(from, to) .. LargerOf(from, to)
           moved == [i \in span |-> IF i = to THEN row ELSE Row(b, i + step)]
<1>0. b.size \in Nat /\ b.height \in Nat /\ b.height <= b.size /\ from \in Nat /\ to \in Nat
  BY ScreenRows DEF Sound, BufferTypes
<1>1. span \subseteq Screen(b)
  BY <1>0 DEF LargerOf, SmallerOf, Screen
<1>4. ASSUME NEW i \in span, i # to PROVE Row(b, i + step) \in RowTypes
  <2>1. i + step \in span
    BY <1>0, <1>4 DEF LargerOf, SmallerOf
  <2>2. i + step \in Screen(b)
    BY <1>1, <2>1
  <2> HIDE DEF span, step
  <2>3. Held(b, i + step)
    BY <2>2, ScreenRows, InSize
  <2> QED BY <2>3, RowHeld
<1>5. moved \in [span -> RowTypes]
  <2> HIDE DEF span, step
  <2> QED BY <1>4
<1>6. MoveRow(b, from, to, row) = WithRows(b, Replaced(b, moved), b.changed \cup span)
  BY DEF MoveRow, WithRows
<1> HIDE DEF step, span, moved
<1>7. Tracked(b, WithRows(b, Replaced(b, moved), b.changed \cup span))
  BY <1>1, <1>5, ReplaceTracked, Zenon
<1> QED BY <1>6, <1>7

\* From a row of the screen on no more rows are noted than the screen is high.
LEMMA SomeScreen ==
  ASSUME NEW b, b \in BufferTypes, b.height <= b.size, Bounded(b), NEW C, C \subseteq b.changed,
         NEW i \in Screen(b), \A j \in C : i <= j
  PROVE  IsFiniteSet(C) /\ Cardinality(C) \in Nat /\ Cardinality(C) <= b.height
<1>1. b.size \in Nat /\ b.height \in Nat /\ i \in Int
  BY DEF BufferTypes, Screen
<1> DEFINE S == b.size - b.height .. b.size - 1
<1>2. C \in SUBSET S
  BY <1>1 DEF Bounded, Screen
<1>3. IsFiniteSet(S) /\ Cardinality(S) = b.height
  <2>1. b.size - b.height \in Int /\ b.size - 1 \in Int
    BY <1>1
  <2>2. IsFiniteSet(S) /\ Cardinality(S) = IF b.size - b.height > b.size - 1 THEN 0
                                           ELSE (b.size - 1) - (b.size - b.height) + 1
    BY <2>1, FS_Interval
  <2> QED BY <1>1, <2>2
<1> HIDE DEF S
<1>4. IsFiniteSet(C) /\ Cardinality(C) <= Cardinality(S)
  BY <1>2, <1>3, FS_Subset
<1>5. Cardinality(C) \in Nat
  BY <1>4, FS_CardinalityType
<1> QED BY <1>3, <1>4, <1>5

\* What is dropped from the notes is not on the screen.
LEMMA TrimTracked ==
  ASSUME NEW b, Sound(b), Bounded(b)
  PROVE  Tracked(b, TrimOne(b)) /\ Tracked(b, TrimAll(b))
<1> DEFINE C == b.changed \ {Min(b.changed)}
           above(i) == {j \in b.changed : j >= i}
           K == {i \in b.changed : Cardinality(above(i)) <= b.height}
<1>0. b \in BufferTypes /\ b.height <= b.size /\ b.changed \subseteq Nat /\ b.height \in Nat /\ b.size \in Nat
  BY DEF Sound, BufferTypes
<1>1. C \subseteq Nat /\ K \subseteq Nat
  BY <1>0
<1>2. TrimOne(b) = (IF Cardinality(b.changed) > b.height THEN WithChanged(b, C) ELSE b)
      /\ TrimAll(b) = WithChanged(b, K)
  BY DEF TrimOne, TrimAll, WithChanged
<1>3. ASSUME NEW D, D \subseteq b.changed, \A i \in Screen(b) : i \in b.changed => i \in D
      PROVE  Tracked(b, WithChanged(b, D))
  <2>1. D \subseteq Nat
    BY <1>0, <1>3
  <2>2. Became(b, WithChanged(b, D), b.rows, D)
    BY <2>1, NewChanged, Zenon
  <2> DEFINE c == WithChanged(b, D)
  <2> HIDE DEF c
  <2>3. /\ c.size = b.size /\ c.height = b.height /\ c.cap = b.cap /\ c.told = b.told
        /\ c.changed = D /\ c.rows = b.rows
    BY <2>2 DEF Became, Alike, c
  <2>4. Bounded(c) /\ Tells(b, c)
    BY <1>3, <2>3 DEF Bounded, Tells
  <2>5. Shown(b, c)
    BY <1>3, <2>3 DEF Shown, Screen, Row, Slot
  <2> QED BY <2>4, <2>5 DEF Tracked, c
<1>4. ASSUME Cardinality(b.changed) > b.height PROVE Tracked(b, WithChanged(b, C))
  <2>1. ASSUME NEW i \in Screen(b), i \in b.changed PROVE i # Min(b.changed)
    <3> SUFFICES ASSUME i = Min(b.changed) PROVE FALSE
      OBVIOUS
    <3>1. \E x \in b.changed : \A y \in b.changed : x <= y
      BY <1>0, <2>1, Least
    <3>2. \A y \in b.changed : i <= y
      BY <3>1 DEF Min
    <3>3. Cardinality(b.changed) \in Nat /\ Cardinality(b.changed) <= b.height
      BY <1>0, <3>2, SomeScreen
    <3> QED BY <1>0, <1>4, <3>3
  <2>2. C \subseteq b.changed /\ \A i \in Screen(b) : i \in b.changed => i \in C
    BY <2>1
  <2> HIDE DEF C
  <2> QED BY <1>3, <2>2, Zenon
<1>5. Tracked(b, WithChanged(b, K))
  <2>1. ASSUME NEW i \in Screen(b), i \in b.changed PROVE Cardinality(above(i)) <= b.height
    <3>1. above(i) \subseteq b.changed /\ \A j \in above(i) : i <= j
      BY <1>0, <2>1
    <3> HIDE DEF above
    <3> QED BY <1>0, <3>1, SomeScreen
  <2> HIDE DEF above
  <2>2. K \subseteq b.changed /\ \A i \in Screen(b) : i \in b.changed => i \in K
    BY <2>1
  <2> HIDE DEF K
  <2> QED BY <1>3, <2>2, Zenon
<1> HIDE DEF C, K
<1> QED BY <1>2, <1>4, <1>5, TrackedSelf

\* c has every row that b has where it has it but for those of span, which are noted.
Shifted(b, c, span) ==
  /\ Alike(b, c) /\ c.realsize = b.realsize /\ c.told = b.told /\ c.changed = b.changed \cup span
  /\ \A s \in 1 .. Len(b.rows) : c.rows[s] = b.rows[s] \/ \E i \in span : Slot(b, i) = s

LEMMA MoveRowShifts ==
  ASSUME NEW b, Sound(b), NEW from, NEW to, Held(b, from), Held(b, to),
         NEW row, row \in RowTypes
  PROVE  Shifted(b, MoveRow(b, from, to, row), SmallerOf(from, to) .. LargerOf(from, to))
<1> DEFINE step == IF to < from THEN -1 ELSE 1
           span == SmallerOf(from, to) .. LargerOf(from, to)
           moved == [i \in span |-> IF i = to THEN row ELSE Row(b, i + step)]
           C == b.changed \cup span
           R == Replaced(b, moved)
<1>1. /\ from \in Nat /\ to \in Nat /\ b.changed \subseteq Nat /\ b.realsize \in Nat /\ b.cap \in Nat
      /\ b.rows \in Seq(RowTypes)
  BY DEF Held, Sound, BufferTypes
<1>2. LargerOf(from, to) \in Nat /\ SmallerOf(from, to) \in Nat
  BY <1>1 DEF LargerOf, SmallerOf
<1>3. span \subseteq Nat /\ (\A i \in span : i <= LargerOf(from, to)) /\ C \subseteq Nat
  BY <1>1, <1>2
<1>4. ASSUME NEW i \in span, i # to PROVE Row(b, i + step) \in RowTypes
  <2>1. i \in Nat /\ i + step \in span
    BY <1>1, <1>4 DEF LargerOf, SmallerOf
  <2>2. \A j \in span : Held(b, j)
    BY <1>1 DEF LargerOf, SmallerOf, Held
  <2> HIDE DEF span, step
  <2> QED BY <2>1, <2>2, RowHeld
<1>5. moved \in [span -> RowTypes]
  <2> HIDE DEF span, step
  <2> QED BY <1>4
<1>6. MoveRow(b, from, to, row) = WithRows(b, R, C)
  BY DEF MoveRow, WithRows
<1> HIDE DEF step, span, moved, C
<1>7. Became(b, WithRows(b, Replaced(b, moved), C), Replaced(b, moved), C)
  BY <1>2, <1>3, <1>5, ReplacingFacts, Zenon
<1>8. Filled(b, span, moved, R)
  BY <1>1, <1>2, <1>3, <1>5, ReplacedFacts, Zenon
<1>9. Became(b, WithRows(b, R, C), R, C)
  BY <1>7
<1> HIDE DEF R
<1>10. Shifted(b, MoveRow(b, from, to, row), span)
  BY <1>6, <1>8, <1>9 DEF Became, Filled, Shifted, C
<1> QED BY <1>10 DEF span

\* A row more at the end; those that moved are noted.
LEMMA LongerTracked ==
  ASSUME NEW b, Sound(b), Bounded(b), NEW pos, pos \in b.size - b.height + 1 .. b.size,
         NEW a, a \in BufferTypes, ~a.noScroll, NEW real, real \in {0, 1},
         a.size = b.size, a.cap = b.cap, a.height = b.height, a.told = b.told,
         a.size + 1 <= a.realsize + real, Len(a.rows) = SmallerOf(a.realsize + real, a.cap),
         a.changed = b.changed \cup (pos .. b.size),
         \A i \in b.size - b.height + 1 .. pos - 1 : Row(a, i).text = Row(b, i).text
  PROVE  Tracked(b, TrimOne(TellLength(Longer(a, real))))
<1> DEFINE d == Longer(a, real)
           e == TellLength(d)
<1>0. a.size + 1 \in Nat /\ a.realsize + real \in Nat /\ b.size \in Nat /\ b.height \in Nat
      /\ b.height <= b.size /\ b.height <= b.cap /\ pos \in Int /\ b.height \in Nat \ {0}
  <2>1. /\ b.size \in Nat /\ b.height \in Nat \ {0} /\ b.height <= b.size /\ b.height <= b.cap
    BY DEF BufferTypes, Sound
  <2>2. a.size \in Nat /\ a.realsize \in Nat
    BY DEF BufferTypes
  <2> QED BY <2>1, <2>2
<1>1. /\ d \in BufferTypes /\ d.rows = a.rows /\ d.cap = a.cap /\ d.height = a.height
      /\ d.noScroll = a.noScroll /\ d.size = a.size + 1 /\ d.realsize = a.realsize + real
      /\ d.changed = a.changed /\ d.told = a.told
  BY <1>0 DEF BufferTypes, Longer
<1> HIDE DEF d
<1>2. Sound(d)
  BY <1>0, <1>1 DEF Sound
<1>3. Alike(d, e) /\ e.rows = d.rows /\ e.changed = d.changed /\ e.told = d.told \cup {"length"}
  <2>1. e.changed = d.changed /\ e.told = d.told \cup {"length"}
    BY <1>1 DEF TellLength, BufferTypes
  <2> QED BY <1>2, <2>1, TellFacts
<1> HIDE DEF e
<1>4. /\ Sound(e) /\ e.size = b.size + 1 /\ e.cap = b.cap /\ e.height = b.height /\ e.rows = a.rows
      /\ e.changed = b.changed \cup (pos .. b.size) /\ e.told = b.told \cup {"length"}
  BY <1>1, <1>3 DEF Alike
<1>5. Bounded(e)
  <2>1. b.changed \subseteq 0 .. b.size /\ pos .. b.size \subseteq 0 .. b.size
    <3>1. pos >= 0
      BY <1>0
    <3> QED BY <1>0, <3>1 DEF Bounded
  <2>2. e.changed \subseteq 0 .. b.size /\ e.size - 1 = b.size
    BY <1>0, <1>4, <2>1
  <2> QED BY <2>2 DEF Bounded
<1>6. Shown(b, e)
  <2> SUFFICES ASSUME NEW i \in Screen(e), i \notin e.changed
               PROVE  i \in Screen(b) /\ i \notin b.changed /\ Row(e, i).text = Row(b, i).text
    BY DEF Shown
  <2>1. i \in b.size + 1 - b.height .. b.size /\ i \notin b.changed /\ i \notin pos .. b.size
    BY <1>0, <1>4 DEF Screen
  <2>2. i \in b.size - b.height + 1 .. pos - 1
    <3>1. i \in Int /\ i >= b.size + 1 - b.height /\ i <= b.size /\ ~(pos <= i)
      BY <1>0, <2>1
    <3> QED BY <1>0, <3>1
  <2>a. i \in Screen(b)
    <3>1. i \in b.size - b.height .. b.size - 1
      BY <1>0, <2>2
    <3> QED BY <3>1 DEF Screen
  <2>3. Row(e, i) = Row(a, i)
    BY <1>4 DEF Row, Slot
  <2> QED BY <2>1, <2>2, <2>a, <2>3
<1>7. Tracked(b, e)
  BY <1>4, <1>5, <1>6 DEF Tracked, Tells
<1>8. Tracked(e, TrimOne(e))
  BY <1>4, <1>5, TrimTracked
<1> QED BY <1>7, <1>8, TrackedTrans DEF e, d

\* Rows above a place where one is inserted stay.
InsertedAt(S, s, i, e, p) ==
  /\ p \in Seq(S) /\ Len(p) = Len(s) + 1 /\ p[i] = e
  /\ \A j \in 1 .. Len(s) : IF j < i THEN p[j] = s[j] ELSE p[j + 1] = s[j]

LEMMA Inserting ==
  ASSUME NEW S, NEW s, s \in Seq(S), NEW e, e \in S, NEW i, i \in 1 .. Len(s) + 1
  PROVE  InsertedAt(S, s, i, e, InsertAt(s, i, e))
<1> DEFINE a == SubSeq(s, 1, i - 1)
           c == SubSeq(s, i, Len(s))
           d == a \o <<e>>
           p == d \o c
<1>1. Len(s) \in Int /\ i - 1 \in Int /\ 1 \in Int /\ 1 <= 1 /\ i - 1 <= Len(s)
  OBVIOUS
<1>2. i \in Int /\ 1 <= i /\ Len(s) <= Len(s) /\ i \in Nat /\ Len(s) \in Nat
  OBVIOUS
<1>3. Part(S, s, 1, i - 1, a)
  BY <1>1, SubSeqPart, Zenon
<1>4. Part(S, s, i, Len(s), c)
  BY <1>1, <1>2, SubSeqPart, Zenon
<1> HIDE DEF a, c
<1>5. a \in Seq(S) /\ c \in Seq(S) /\ Len(a) = i - 1 /\ Len(c) = Len(s) - i + 1
  BY <1>1, <1>2, <1>3, <1>4 DEF Part
<1>6. <<e>> \in Seq(S) /\ Len(<<e>>) = 1 /\ <<e>>[1] = e
  OBVIOUS
<1>7. Joined(S, a, <<e>>, d)
  BY <1>5, <1>6, Joining, Zenon
<1> HIDE DEF d
<1>8. d \in Seq(S) /\ Len(d) = i
  BY <1>1, <1>5, <1>6, <1>7 DEF Joined
<1>9. Joined(S, d, c, p)
  BY <1>5, <1>8, Joining, Zenon
<1> HIDE DEF p
<1>10. p \in Seq(S) /\ Len(p) = Len(s) + 1
  BY <1>1, <1>5, <1>8, <1>9 DEF Joined
<1>11. p[i] = e
  <2>1. d[i] = e
    <3>1. i \in 1 .. Len(a) + 1 /\ ~(i <= Len(a)) /\ i - Len(a) = 1
      BY <1>2, <1>5
    <3> QED BY <1>6, <1>7, <3>1 DEF Joined
  <2>2. i \in 1 .. Len(d) + Len(c) /\ i <= Len(d)
    BY <1>2, <1>5, <1>8
  <2> QED BY <1>9, <2>1, <2>2 DEF Joined
<1>12. ASSUME NEW j \in 1 .. Len(s), j < i PROVE p[j] = s[j]
  <2>1. j \in 1 .. Len(a) + 1 /\ j <= Len(a) /\ j \in 1 .. Len(d) + Len(c) /\ j <= Len(d)
        /\ j \in 1 .. (i - 1) - 1 + 1 /\ 1 + j - 1 = j
    BY <1>2, <1>5, <1>8, <1>12
  <2>2. p[j] = d[j]
    BY <1>9, <2>1 DEF Joined
  <2>3. d[j] = a[j]
    BY <1>6, <1>7, <2>1 DEF Joined
  <2>4. a[j] = s[j]
    BY <1>3, <2>1 DEF Part
  <2> QED BY <2>2, <2>3, <2>4
<1>13. ASSUME NEW j \in 1 .. Len(s), ~(j < i) PROVE p[j + 1] = s[j]
  <2> DEFINE k == j + 1 - i
  <2>1. k \in Nat /\ k \in 1 .. Len(s) - i + 1 /\ i + k - 1 = j /\ j + 1 \in 1 .. Len(d) + Len(c)
        /\ ~(j + 1 <= Len(d)) /\ (j + 1) - Len(d) = k
    BY <1>2, <1>5, <1>8, <1>13
  <2> HIDE DEF k
  <2>2. p[j + 1] = c[k]
    BY <1>9, <2>1 DEF Joined
  <2>3. c[k] = s[j]
    BY <1>4, <2>1 DEF Part
  <2> QED BY <2>2, <2>3
<1>14. InsertAt(s, i, e) = p
  BY DEF InsertAt, a, c, d, p
<1> QED BY <1>10, <1>11, <1>12, <1>13, <1>14 DEF InsertedAt

\* A row is moved to the place of a new one.
LEMMA ShiftedTracked ==
  ASSUME NEW b, Sound(b), Bounded(b), ~b.noScroll, NEW pos, pos \in b.size - b.height + 1 .. b.size,
         NEW m, Shifted(b, m, pos .. b.size), NEW real, real \in {0, 1},
         b.size + 1 <= b.realsize + real,
         Len(b.rows) = SmallerOf(b.realsize + real, b.cap)
  PROVE  Tracked(b, TrimOne(TellLength(Longer(m, real))))
<1>0. /\ b.size \in Nat /\ b.height \in Nat \ {0} /\ b.height <= b.size /\ b.height <= b.cap /\ pos \in Nat
      /\ b.cap \in Nat \ {0} /\ b.realsize \in Nat
  BY DEF Sound, BufferTypes
<1>1. /\ m \in BufferTypes /\ ~m.noScroll /\ m.size = b.size /\ m.cap = b.cap /\ m.height = b.height
      /\ m.told = b.told /\ m.realsize = b.realsize /\ m.changed = b.changed \cup (pos .. b.size)
      /\ Len(m.rows) = Len(b.rows)
  BY DEF Shifted, Alike, Sound
<1>2. ASSUME NEW i \in b.size - b.height + 1 .. pos - 1 PROVE Row(m, i).text = Row(b, i).text
  <2>1. i \in Nat /\ i \in Screen(b)
    BY <1>0 DEF Screen
  <2>2. Slot(b, i) \in 1 .. Len(b.rows)
    BY <2>1, ScreenRows
  <2>3. ASSUME NEW j \in pos .. b.size PROVE Slot(b, i) # Slot(b, j)
    <3>1. j \in Nat /\ i < j /\ j - i < b.cap
      BY <1>0, <2>1
    <3> QED BY <2>1, <3>1, SlotsApart
  <2>4. m.rows[Slot(b, i)] = b.rows[Slot(b, i)]
    BY <2>2, <2>3 DEF Shifted
  <2> QED BY <1>1, <2>4 DEF Row, Slot
<1>3. m.size + 1 <= m.realsize + real /\ Len(m.rows) = SmallerOf(m.realsize + real, m.cap)
  BY <1>1
<1> QED BY <1>1, <1>2, <1>3, LongerTracked, Zenon

\* insertRow notes the rows from the new one on.
LEMMA InsertRowTracked ==
  ASSUME NEW b, Sound(b), Bounded(b), NEW pos, pos \in b.size - b.height + 1 .. b.size
  PROVE  Tracked(b, InsertRow(b, pos))
<1>1. /\ b.size \in Nat /\ b.realsize \in Nat /\ b.cap \in Nat \ {0} /\ b.height \in Nat \ {0}
      /\ b.rows \in Seq(RowTypes) /\ b.changed \subseteq Nat /\ pos \in Nat /\ Len(b.rows) \in Nat
      /\ b.height <= b.size /\ b.size <= b.realsize /\ b.height <= b.cap
      /\ Len(b.rows) = (IF b.realsize < b.cap THEN b.realsize ELSE b.cap)
      /\ b.noScroll \in BOOLEAN /\ (b.noScroll => b.size = b.height /\ b.realsize <= b.cap)
  BY DEF Sound, BufferTypes, SmallerOf
<1> DEFINE J == InsertAt(b.rows, pos + 1, BlankRow)
<1>2. ASSUME pos <= Len(b.rows) PROVE InsertedAt(RowTypes, b.rows, pos + 1, BlankRow, J)
  <2>1. pos + 1 \in 1 .. Len(b.rows) + 1
    BY <1>1, <1>2
  <2>2. BlankRow \in RowTypes /\ b.rows \in Seq(RowTypes)
    BY <1>1, BlankFacts
  <2> QED BY <2>1, <2>2, Inserting, Zenon
<1>a. /\ SmallerOf(b.size, pos) = pos /\ LargerOf(b.size, pos) = b.size
  BY <1>1 DEF SmallerOf, LargerOf
<1>b. ASSUME NEW i \in Nat, i < b.cap PROVE Slot(b, i) = i + 1
  BY <1>1, <1>b, ModSlot, Zenon DEF Slot
<1>3. CASE b.noScroll
  <2> DEFINE D == 0 .. pos - 1
             C == b.changed \cup D
             R == Tail(J)
             c == WithRows(b, R, C)
  <2>1. InsertedAt(RowTypes, b.rows, pos + 1, BlankRow, J)
    BY <1>1, <1>2, <1>3
  <2> HIDE DEF J
  <2>2. J \in Seq(RowTypes) /\ Len(J) = Len(b.rows) + 1 /\ J # << >>
    BY <1>1, <2>1 DEF InsertedAt
  <2>3. R \in Seq(RowTypes) /\ Len(R) = Len(b.rows) /\ \A i \in 1 .. Len(b.rows) : R[i] = J[i + 1]
    <3>1. R \in Seq(RowTypes) /\ Len(R) = Len(J) - 1 /\ \A i \in 1 .. Len(R) : R[i] = J[i + 1]
      BY <2>2, HeadTailProperties, Zenon
    <3> QED BY <1>1, <2>2, <3>1
  <2>4. C \subseteq Nat /\ D \subseteq Screen(b)
    BY <1>1, <1>3 DEF Screen
  <2>5. InsertRow(b, pos) = c
    BY <1>3 DEF InsertRow, WithRows, J
  <2>6. ASSUME NEW s \in 1 .. Len(b.rows) PROVE R[s] = b.rows[s] \/ \E i \in D : Slot(b, i) = s
    <3>1. CASE s > pos
      <4>1. R[s] = J[s + 1] /\ ~(s < pos + 1)
        BY <1>1, <2>3, <3>1
      <4> QED BY <2>1, <4>1 DEF InsertedAt
    <3>2. CASE ~(s > pos)
      <4>1. s - 1 \in D /\ s - 1 \in Nat /\ s - 1 < b.cap /\ (s - 1) + 1 = s
        BY <1>1, <1>3, <3>2
      <4> QED BY <1>b, <4>1
    <3> QED BY <3>1, <3>2
  <2> HIDE DEF D
  <2>7. Became(b, WithRows(b, R, C), R, C)
    <3> HIDE DEF C, R
    <3> QED BY <2>3, <2>4, NewRows, Zenon
  <2> HIDE DEF R, c
  <2>8. Writes(b, c, D)
    BY <2>6, <2>7 DEF c, Became, Writes
  <2> QED BY <2>4, <2>5, <2>8, WritesTracked, Zenon
<1>4. CASE ~b.noScroll /\ b.size < b.realsize
  <2> DEFINE m == MoveRow(b, b.size, pos, Row(b, b.size))
  <2>1. Held(b, b.size) /\ Held(b, pos)
    BY <1>1, <1>4 DEF Held
  <2>2. Row(b, b.size) \in RowTypes
    BY <2>1, RowHeld
  <2>3. Shifted(b, m, SmallerOf(b.size, pos) .. LargerOf(b.size, pos))
    BY <2>1, <2>2, MoveRowShifts, Zenon
  <2>4. InsertRow(b, pos) = TrimOne(TellLength(Longer(m, 0)))
    BY <1>4 DEF InsertRow, Longer
  <2> HIDE DEF m
  <2>5. Shifted(b, m, pos .. b.size)
    BY <1>a, <2>3
  <2>6. b.size + 1 <= b.realsize + 0 /\ Len(b.rows) = SmallerOf(b.realsize + 0, b.cap) /\ 0 \in {0, 1}
    BY <1>1, <1>4 DEF SmallerOf
  <2>7. Tracked(b, TrimOne(TellLength(Longer(m, 0))))
    BY <1>4, <2>5, <2>6, ShiftedTracked, Zenon
  <2> QED BY <2>4, <2>7
<1>5. CASE ~b.noScroll /\ ~(b.size < b.realsize) /\ b.size < b.cap
  <2> DEFINE C == b.changed \cup (pos .. b.size)
             c == WithRows(b, J, C)
  <2>1. InsertedAt(RowTypes, b.rows, pos + 1, BlankRow, J)
    BY <1>1, <1>2, <1>5
  <2>2. C \subseteq Nat /\ J \in Seq(RowTypes) /\ Len(J) = Len(b.rows) + 1
    BY <1>1, <2>1 DEF InsertedAt
  <2>3. InsertRow(b, pos) = TrimOne(TellLength(Longer(c, 1)))
    BY <1>5 DEF InsertRow, Longer, WithRows
  <2> HIDE DEF J, C
  <2>4. /\ c \in BufferTypes /\ c.rows = J /\ c.noScroll = b.noScroll /\ c.height = b.height
        /\ c.size = b.size /\ c.cap = b.cap /\ c.realsize = b.realsize /\ c.told = b.told
        /\ c.changed = C
    BY <2>2 DEF WithRows, Sound, BufferTypes
  <2> HIDE DEF c
  <2>5. /\ ~c.noScroll /\ c.size + 1 <= c.realsize + 1 /\ 1 \in {0, 1}
        /\ Len(c.rows) = SmallerOf(c.realsize + 1, c.cap)
        /\ c.changed = b.changed \cup (pos .. b.size)
    BY <1>1, <1>5, <2>2, <2>4 DEF SmallerOf, C
  <2>6. ASSUME NEW i \in b.size - b.height + 1 .. pos - 1 PROVE Row(c, i).text = Row(b, i).text
    <3>1. i \in Nat /\ i < b.cap /\ i + 1 \in 1 .. Len(b.rows) /\ i + 1 < pos + 1
      BY <1>1, <1>5
    <3>2. J[i + 1] = b.rows[i + 1]
      BY <2>1, <3>1 DEF InsertedAt
    <3>3. Slot(b, i) = i + 1 /\ Slot(c, i) = i + 1
      BY <1>b, <2>4, <3>1 DEF Slot
    <3> QED BY <2>4, <3>2, <3>3 DEF Row
  <2>7. Tracked(b, TrimOne(TellLength(Longer(c, 1))))
    BY <2>4, <2>5, <2>6, LongerTracked, Zenon
  <2> QED BY <2>3, <2>7
<1>6. CASE ~b.noScroll /\ ~(b.size < b.realsize) /\ ~(b.size < b.cap)
  <2> DEFINE m == MoveRow(b, b.size, pos, BlankRow)
  <2>1. Held(b, b.size) /\ Held(b, pos)
    BY <1>1, <1>6 DEF Held
  <2>2. BlankRow \in RowTypes
    BY BlankFacts
  <2>3. Shifted(b, m, SmallerOf(b.size, pos) .. LargerOf(b.size, pos))
    BY <2>1, <2>2, MoveRowShifts, Zenon
  <2>4. InsertRow(b, pos) = TrimOne(TellLength(Longer(m, 1)))
    BY <1>6 DEF InsertRow, Longer
  <2> HIDE DEF m
  <2>5. Shifted(b, m, pos .. b.size)
    BY <1>a, <2>3
  <2>6. b.size + 1 <= b.realsize + 1 /\ Len(b.rows) = SmallerOf(b.realsize + 1, b.cap) /\ 1 \in {0, 1}
    BY <1>1, <1>6 DEF SmallerOf
  <2>7. Tracked(b, TrimOne(TellLength(Longer(m, 1))))
    BY <1>6, <2>5, <2>6, ShiftedTracked, Zenon
  <2> QED BY <2>4, <2>7
<1> QED BY <1>3, <1>4, <1>5, <1>6

\* All that is left of a buffer whose rows are numbered anew is noted, and told.
LEMMA RenumberedTracked ==
  ASSUME NEW b, Sound(b), NEW rows, rows \in Seq(RowTypes), NEW cap, cap \in Nat \ {0},
         b.height <= cap, Len(rows) <= cap, b.noScroll => Len(rows) <= b.height
  PROVE  /\ Tracked(b, TellCapacity(Renumbered(b, rows, cap)))
         /\ Renumbered(b, rows, cap).size = LargerOf(b.height, Len(rows))
<1> DEFINE missing == LargerOf(0, b.height - Len(rows))
           all == Blanks(missing) \o rows
           C == Len(all) - b.height .. Len(all) - 1
           lost == b.lost \/ missing > 0
           c == [b EXCEPT !.rows = all, !.size = Len(all), !.realsize = Len(all), !.cap = cap,
                          !.changed = C, !.lost = lost]
           d == TellCapacity(c)
<1>1. b.height \in Nat \ {0} /\ Len(rows) \in Nat /\ b.lost \in BOOLEAN /\ b \in BufferTypes
  BY DEF Sound, BufferTypes
<1>2. missing \in Nat /\ missing + Len(rows) = (IF b.height < Len(rows) THEN Len(rows) ELSE b.height)
  BY <1>1 DEF LargerOf
<1>3. c = Renumbered(b, rows, cap)
  BY DEF Renumbered
<1>4. Kindred(b, c)
  BY <1>3, RenumberedFacts
<1> HIDE DEF missing
<1>5. Blanks(missing) \in Seq(RowTypes) /\ Len(Blanks(missing)) = missing
  BY <1>2, BlanksFacts
<1>6. Joined(RowTypes, Blanks(missing), rows, all)
  BY <1>5, Joining, Zenon
<1>7. Len(all) = LargerOf(b.height, Len(rows)) /\ Len(all) \in Nat /\ b.height <= Len(all)
  BY <1>1, <1>2, <1>5, <1>6 DEF Joined, LargerOf
<1> HIDE DEF all
<1>8. C \subseteq 0 .. Len(all) - 1
  BY <1>1, <1>7
<1>9. c.size = Len(all) /\ c.changed = C /\ c.height = b.height /\ c.told = b.told /\ c \in BufferTypes
  <2>1. c.size = Len(all) /\ c.changed = C /\ c.height = b.height /\ c.told = b.told
    BY <1>1 DEF BufferTypes
  <2> HIDE DEF c
  <2> QED BY <1>4, <2>1 DEF Kindred, Sound
<1> HIDE DEF c
<1>10. Sound(c)
  BY <1>4 DEF Kindred
<1>11. Alike(c, d) /\ d.changed = c.changed /\ d.told = c.told \cup {"length", "capacity"}
  <2>1. d.changed = c.changed /\ d.told = c.told \cup {"length", "capacity"}
    BY <1>9 DEF TellCapacity, BufferTypes
  <2> QED BY <1>10, <2>1, TellFacts
<1> HIDE DEF d
<1>12. Sound(d) /\ d.size = Len(all) /\ d.height = b.height /\ d.changed = C
  BY <1>9, <1>11 DEF Alike
<1>13. Bounded(d) /\ Screen(d) \subseteq d.changed /\ Tells(b, d)
  BY <1>8, <1>9, <1>11, <1>12 DEF Bounded, Screen, Tells
<1> QED BY <1>3, <1>7, <1>9, <1>12, <1>13, AllTracked DEF d

LEMMA ClearScrollbackTracked ==
  ASSUME NEW b, Sound(b), Bounded(b)
  PROVE  Tracked(b, ClearScrollback(b))
<1> DEFINE rows == Unrolled(b, b.height)
<1>1. b.height \in Nat /\ b.height <= b.size /\ b.height <= b.cap /\ b.cap \in Nat \ {0}
  BY DEF Sound, BufferTypes
<1>2. rows \in Seq(RowTypes) /\ Len(rows) <= b.height /\ Len(rows) \in Nat
  BY <1>1, UnrolledFacts
<1>3. Len(rows) <= b.cap
  BY <1>1, <1>2
<1>4. ClearScrollback(b) = IF b.size = b.height THEN b ELSE TellCapacity(Renumbered(b, rows, b.cap))
  BY DEF ClearScrollback
<1> HIDE DEF rows
<1>5. Tracked(b, TellCapacity(Renumbered(b, rows, b.cap)))
  BY <1>1, <1>2, <1>3, RenumberedTracked
<1> QED BY <1>4, <1>5, TrackedSelf

LEMMA ClearTracked ==
  ASSUME NEW b, Sound(b), Bounded(b), b.noScroll
  PROVE  Tracked(b, Clear(b))
<1> DEFINE c == Clear(b)
<1>1. Alike(b, c) /\ b.size = b.height /\ b.size \in Nat /\ b \in BufferTypes
  BY ClearFacts DEF Sound, BufferTypes
<1>2. c.changed = b.changed \cup (0 .. b.size - 1) /\ c.told = b.told
  BY <1>1 DEF Clear, BufferTypes
<1> HIDE DEF c
<1>3. Sound(c) /\ c.size = b.size /\ c.height = b.height /\ c.cap = b.cap
  BY <1>1 DEF Alike
<1>4. Bounded(c) /\ Screen(c) \subseteq c.changed /\ Tells(b, c)
  BY <1>1, <1>2, <1>3 DEF Bounded, Screen, Tells
<1> QED BY <1>3, <1>4, AllTracked DEF c

\* What is left of a row of the screen that is neither added nor removed.
LEMMA SizedTracked ==
  ASSUME NEW d, Sound(d), Bounded(d), NEW height, height \in Nat \ {0}, height <= d.cap,
         NEW removed, Removable(d, height, removed), removed > 0 => d.changed = {},
         NEW c, Sized(d, height, removed, c)
  PROVE  Bounded(c) /\ (height - d.size <= d.height => Shown(d, c))
<1> DEFINE added == LinesAdded(d, height)
           shown == ShownFor(d, height)
           none == d.noScroll \/ added > d.height
<1>1. /\ d.size \in Nat /\ d.cap \in Nat \ {0} /\ d.height \in Nat \ {0}
      /\ d.height <= d.size /\ d.noScroll \in BOOLEAN /\ d.height <= d.cap
      /\ d.noScroll => d.size = d.height
  BY DEF Sound, BufferTypes
<1>2. added = IF d.size < height THEN height - d.size ELSE 0
  BY <1>1 DEF LinesAdded, LargerOf
<1>3. /\ removed \in Nat
      /\ d.noScroll => removed = IF height < d.size THEN d.size - height ELSE 0
      /\ ~d.noScroll => removed <= (IF height < d.height THEN d.height - height ELSE 0)
  BY <1>1 DEF Removable, LargerOf
<1>4. /\ c.height = height /\ c.cap = d.cap /\ c.size = d.size + added - removed
      /\ c.changed = (d.changed \cup (d.size .. d.size + added - 1)) \cup shown
      /\ added > 0 => removed = 0
  BY DEF Sized
<1>5. shown = IF none THEN {} ELSE {d.size + added - i : i \in d.height - added + 1 .. height}
  BY <1>1 DEF ShownFor, Revealed
<1>a. none \in BOOLEAN /\ (none <=> d.noScroll \/ added > d.height)
  BY <1>1
<1> HIDE DEF added, shown, none
<1>6. ~none => \A j \in Int : j \in shown <=> j \in d.size + added - height .. d.size + 2 * added - d.height - 1
  <2> SUFFICES ASSUME ~none, NEW j \in Int
               PROVE  j \in shown <=> j \in d.size + added - height .. d.size + 2 * added - d.height - 1
    OBVIOUS
  <2> DEFINE i == d.size + added - j
  <2>1. i \in Int /\ added \in Int /\ j = d.size + added - i
    BY <1>1, <1>2
  <2>2. (i \in d.height - added + 1 .. height)
          <=> j \in d.size + added - height .. d.size + 2 * added - d.height - 1
    BY <1>1, <2>1
  <2>3. ASSUME j \in shown PROVE i \in d.height - added + 1 .. height
    <3>1. PICK k \in d.height - added + 1 .. height : j = d.size + added - k
      BY <1>5, <2>3
    <3>2. k = i
      BY <1>1, <2>1, <3>1
    <3> QED BY <3>1, <3>2
  <2>4. ASSUME i \in d.height - added + 1 .. height PROVE j \in shown
    BY <1>5, <2>1, <2>4
  <2> HIDE DEF i
  <2> QED BY <2>2, <2>3, <2>4
<1>7. Bounded(c)
  <2>1. shown \subseteq 0 .. c.size - 1
    <3>1. CASE none
      BY <1>5, <3>1
    <3>2. CASE ~none
      <4>1. shown \subseteq Int
        BY <1>1, <1>2, <1>5, <3>2
      <4>2. ASSUME NEW j \in Int, j \in d.size + added - height .. d.size + 2 * added - d.height - 1
            PROVE  j \in 0 .. c.size - 1
        BY <1>1, <1>2, <1>3, <1>4, <1>a, <3>2, <4>2
      <4> QED BY <1>6, <3>2, <4>1, <4>2
    <3> QED BY <3>1, <3>2
  <2>2. d.changed \cup (d.size .. d.size + added - 1) \subseteq 0 .. c.size - 1
    <3>1. CASE removed > 0
      BY <1>1, <1>2, <1>3, <1>4, <3>1
    <3>2. CASE ~(removed > 0)
      BY <1>1, <1>2, <1>3, <1>4, <3>2 DEF Bounded
    <3> QED BY <3>1, <3>2
  <2> QED BY <1>4, <2>1, <2>2 DEF Bounded
<1>8. ASSUME height - d.size <= d.height PROVE Shown(d, c)
  <2>a. none <=> d.noScroll
    BY <1>1, <1>2, <1>8, <1>a
  <2> SUFFICES ASSUME NEW i \in Screen(c), i \notin c.changed
               PROVE  i \in Screen(d) /\ i \notin d.changed /\ Row(c, i).text = Row(d, i).text
    BY DEF Shown
  <2>1. /\ i \in Int /\ i \in c.size - height .. c.size - 1 /\ i \notin d.changed
        /\ i \notin d.size .. d.size + added - 1 /\ i \notin shown
    <3>1. c.size \in Int /\ Screen(c) = c.size - height .. c.size - 1
      BY <1>1, <1>2, <1>3, <1>4 DEF Screen
    <3> QED BY <1>4, <3>1
  <2>2. i \in d.size - d.height .. d.size - removed - 1
    <3>1. CASE d.noScroll
      BY <1>1, <1>2, <1>3, <1>4, <2>1, <3>1
    <3>2. CASE ~d.noScroll
      <4>1. i \notin d.size + added - height .. d.size + 2 * added - d.height - 1
        BY <1>6, <2>1, <2>a, <3>2
      <4>2. CASE added > 0
        <5>1. removed = 0 /\ added \in Nat /\ d.size + added = height
          BY <1>1, <1>2, <1>3, <1>4, <4>2
        <5> QED BY <1>1, <1>4, <2>1, <4>1, <5>1
      <4>3. CASE ~(added > 0)
        <5>1. added = 0
          BY <1>1, <1>2, <4>3
        <5>2. i <= d.size - removed - 1 /\ i >= d.size - removed - height
          BY <1>1, <1>3, <1>4, <2>1, <5>1
        <5>a. d.size + added - height = d.size - height
              /\ d.size + 2 * added - d.height - 1 = d.size - d.height - 1
          BY <1>1, <5>1
        <5>b. i \notin d.size - height .. d.size - d.height - 1
          BY <4>1, <5>a
        <5>3. ~(height < d.height) => removed = 0 /\ i >= d.size - d.height
          <6> SUFFICES ASSUME ~(height < d.height) PROVE removed = 0 /\ i >= d.size - d.height
            OBVIOUS
          <6>1. removed = 0
            BY <1>1, <1>3, <3>2
          <6> QED BY <1>1, <2>1, <5>2, <5>b, <6>1
        <5>4. height < d.height => removed + height <= d.height
          BY <1>1, <1>3, <3>2
        <5> QED BY <1>1, <1>3, <2>1, <5>2, <5>3, <5>4
      <4> QED BY <4>2, <4>3
    <3> QED BY <3>1, <3>2
  <2>3. i \in Screen(d) /\ i \in Nat
    BY <1>1, <1>3, <2>2 DEF Screen
  <2>4. Slot(d, i) \in 1 .. Len(d.rows)
    BY <2>3, ScreenRows
  <2>5. ASSUME NEW j \in d.size - removed .. d.size - 1 PROVE Slot(d, j) # Slot(d, i)
    <3>1. i < j /\ j - i < d.cap /\ j \in Nat
      BY <1>1, <1>3, <2>2, <2>3
    <3> QED BY <2>3, <3>1, SlotsApart
  <2>6. c.rows[Slot(d, i)] = d.rows[Slot(d, i)]
    BY <2>4, <2>5 DEF Sized
  <2>7. Slot(c, i) = Slot(d, i)
    BY <1>4 DEF Slot
  <2> QED BY <2>1, <2>3, <2>6, <2>7 DEF Row
<1> QED BY <1>7, <1>8

\* A capacity that is told of is followed by rows that are all noted.
LEMMA SetCapacityTracked ==
  ASSUME NEW b, Sound(b), NEW cap, cap \in Nat \ {0}, cap # b.cap, b.height <= cap,
         b.noScroll => b.cap < cap
  PROVE  /\ Tracked(b, TellCapacity(SetCapacity(b, cap)))
         /\ b.cap < cap => SetCapacity(b, cap).size = LargerOf(b.height, Cardinality(Kept(b)))
<1> DEFINE rows == CapacityRows(b, cap)
<1>1. rows \in Seq(RowTypes) /\ Len(rows) <= cap /\ (b.noScroll => Len(rows) <= b.height)
  BY CapacityRowsFacts
<1>2. SetCapacity(b, cap) = Renumbered(b, rows, cap)
  BY DEF SetCapacity, CapacityRows
<1>3. b.cap < cap => rows = Straightened(b)
  BY DEF CapacityRows
<1> HIDE DEF rows
<1>4. /\ Tracked(b, TellCapacity(Renumbered(b, rows, cap)))
      /\ Renumbered(b, rows, cap).size = LargerOf(b.height, Len(rows))
  BY <1>1, RenumberedTracked
<1>5. Len(Straightened(b)) = Cardinality(Kept(b))
  BY StraightenedFacts
<1> QED BY <1>2, <1>3, <1>4, <1>5

LEMMA EnableScrollbackTracked ==
  ASSUME NEW b, Sound(b), Bounded(b), ~b.noScroll, NEW cap, cap \in Nat \ {0}
  PROVE  Tracked(b, EnableScrollback(b, cap))
<1> DEFINE new == CapacityFor(cap, b.height)
           open == [b EXCEPT !.noScroll = FALSE]
<1>1. b.height \in Nat /\ open = b
  BY DEF Sound, BufferTypes
<1>2. new \in Nat \ {0} /\ b.height <= new
  BY <1>1, CapacityFits
<1>3. EnableScrollback(b, cap) = IF b.cap = new THEN b ELSE TellCapacity(SetCapacity(open, new))
  BY DEF EnableScrollback
<1> HIDE DEF new, open
<1>4. ASSUME b.cap # new PROVE Tracked(b, TellCapacity(SetCapacity(b, new)))
  BY <1>2, <1>4, SetCapacityTracked
<1> QED BY <1>1, <1>3, <1>4, TrackedSelf

\* setScreenHeight, in an event of its own, unless it forgets rows.
LEMMA SetScreenHeightTracked ==
  ASSUME NEW b, Sound(b), b.changed = {}, NEW height, height \in Nat \ {0},
         NEW maxChop, maxChop \in Nat
  PROVE  /\ Bounded(SetScreenHeight(b, height, maxChop))
         /\ ~Forgets(b, height) => Tracked(b, SetScreenHeight(b, height, maxChop))
<1> DEFINE d == FitFor(b, height)
           removed == RemovedFor(b, d, height, maxChop)
           done == SizedFor(d, height, removed)
           set == IF LinesAdded(d, height) + removed > 0 THEN TellLength(done) ELSE done
<1>0. /\ b.height \in Nat \ {0} /\ b.cap \in Nat \ {0} /\ b.height <= b.cap /\ b.size \in Nat
      /\ b.noScroll \in BOOLEAN
  BY DEF Sound, BufferTypes
<1>1. Kindred(b, d) /\ height <= d.cap
  BY FitFacts
<1>2. SetScreenHeight(b, height, maxChop) = TrimAll(set)
  BY SetScreenHeightFacts DEF SetHeightSteps
<1>3. Bounded(b)
  BY DEF Bounded
<1>4. /\ Tracked(b, d) /\ (~(b.cap < height) => d = b)
      /\ ~Forgets(b, height) => height - d.size <= b.height
  <2>1. CASE b.cap < height
    <3> DEFINE new == CapacityFor(b.cap, height)
    <3>1. new \in Nat \ {0} /\ height <= new
      BY <1>0, CapacityFits
    <3>2. new # b.cap /\ b.height <= new /\ b.cap < new
      BY <1>0, <2>1, <3>1
    <3>3. d = TellCapacity(SetCapacity(b, new))
      BY <2>1 DEF FitFor
    <3> HIDE DEF new, d
    <3>4. /\ Tracked(b, TellCapacity(SetCapacity(b, new)))
          /\ SetCapacity(b, new).size = LargerOf(b.height, Cardinality(Kept(b)))
      BY <3>1, <3>2, SetCapacityTracked
    <3>5. Kindred(b, SetCapacity(b, new))
      BY <3>1, <3>2, SetCapacityFacts
    <3>6. d.size = SetCapacity(b, new).size
      BY <3>3, <3>5, TellFacts DEF Kindred, Alike
    <3>7. ~Forgets(b, height) => ~(height - d.size > b.height)
      BY <2>1, <3>4, <3>6 DEF Forgets
    <3>8. d.size \in Nat
      BY <1>1 DEF Kindred, Sound, BufferTypes
    <3> QED BY <1>0, <2>1, <3>3, <3>4, <3>7, <3>8
  <2>2. CASE ~(b.cap < height)
    <3>1. d = b
      BY <2>2 DEF FitFor
    <3>2. ~Forgets(b, height) => ~(height - b.size > b.height)
      BY <2>2 DEF Forgets
    <3> QED BY <1>0, <1>3, <3>1, <3>2, TrackedSelf
  <2> QED BY <2>1, <2>2
<1> HIDE DEF d
<1>5. Removable(d, height, removed)
  BY <1>1, RemovedFacts
<1> HIDE DEF removed
<1>6. Sized(d, height, removed, done)
  BY <1>1, <1>5, SizedFacts DEF Kindred
<1> HIDE DEF done
<1>7. /\ Sound(d) /\ Bounded(d) /\ d.height = b.height /\ d.size \in Nat /\ d.cap = d.cap
      /\ d.noScroll = b.noScroll
  BY <1>1, <1>4 DEF Kindred, Tracked, Sound, BufferTypes
<1>8. removed > 0 => d.changed = {}
  <2> SUFFICES ASSUME removed > 0 PROVE ~(b.cap < height)
    BY <1>4
  <2>1. d.noScroll => removed = IF height < d.size THEN d.size - height ELSE 0
    BY <1>5, <1>7 DEF Removable, LargerOf
  <2>2. ~d.noScroll => removed <= (IF height < b.height THEN b.height - height ELSE 0)
    BY <1>0, <1>5, <1>7 DEF Removable, LargerOf
  <2>3. d.noScroll => d.size = b.height
    BY <1>7 DEF Sound
  <2> QED BY <1>0, <1>5, <1>7, <2>1, <2>2, <2>3 DEF Removable
<1>9. Bounded(done) /\ (~Forgets(b, height) => Shown(d, done))
  BY <1>1, <1>4, <1>5, <1>6, <1>7, <1>8, SizedTracked
<1>10. /\ Alike(done, set) /\ set.rows = done.rows /\ set.changed = done.changed
       /\ set.told = IF LinesAdded(d, height) + removed > 0 THEN done.told \cup {"length"} ELSE done.told
  <2>1. Sound(done) /\ done \in BufferTypes
    BY <1>6 DEF Sized, Sound
  <2>2. TellLength(done).changed = done.changed /\ TellLength(done).told = done.told \cup {"length"}
    BY <2>1 DEF TellLength, BufferTypes
  <2> QED BY <2>1, <2>2, TellFacts, AlikeSelf
<1> HIDE DEF set
<1>11. Bounded(set) /\ (~Forgets(b, height) => Tracked(d, set))
  <2>1. Bounded(set) /\ (~Forgets(b, height) => Shown(d, set))
    BY <1>9, <1>10 DEF Alike, Bounded, Shown, Screen, Row, Slot
  <2>2. LinesAdded(d, height) \in Nat
    BY <1>7 DEF LinesAdded, LargerOf
  <2>3. ~(LinesAdded(d, height) + removed > 0) => done.size = d.size
    <3>1. removed \in Nat /\ done.size = d.size + LinesAdded(d, height) - removed
      BY <1>5, <1>6 DEF Removable, Sized
    <3> QED BY <1>7, <2>2, <3>1
  <2>4. set.size = done.size /\ set.cap = d.cap /\ done.told = d.told
    BY <1>6, <1>10 DEF Alike, Sized
  <2>5. Tells(d, set)
    BY <1>10, <2>3, <2>4 DEF Tells
  <2> QED BY <2>1, <2>5 DEF Tracked
<1>12. Tracked(set, TrimAll(set))
  BY <1>10, <1>11, TrimTracked DEF Alike
<1>13. ~Forgets(b, height) => Tracked(b, TrimAll(set))
  BY <1>4, <1>11, <1>12, TrackedTrans
<1> QED BY <1>2, <1>12, <1>13 DEF Tracked

-----------------------------------------------------------------------------
(* Operations of the screen that leave the buffers alone *)

\* u is t with the buffers t has.
Quiet(t, u) == "buf" \in DOMAIN u /\ u.buf = t.buf

LEMMA QuietTrans ==
  ASSUME NEW t, NEW u, NEW v, Quiet(t, u), Quiet(u, v)
  PROVE  Quiet(t, v)
  BY DEF Quiet

LEMMA QuietFields ==
  ASSUME NEW t, "buf" \in DOMAIN t, NEW x, NEW z
  PROVE  /\ Quiet(t, t) /\ Quiet(t, [t EXCEPT !.y = x]) /\ Quiet(t, [t EXCEPT !.offset = x])
         /\ Quiet(t, [t EXCEPT !.cur = x]) /\ Quiet(t, [t EXCEPT !.next = x])
         /\ Quiet(t, [t EXCEPT !.saved = x]) /\ Quiet(t, [t EXCEPT !.originMode = x])
         /\ Quiet(t, [t EXCEPT !.origin = x]) /\ Quiet(t, [t EXCEPT !.row = x, !.next = z])
         /\ Quiet(t, [t EXCEPT !.top = x, !.bottom = z]) /\ Quiet(t, [t EXCEPT !.stay = x, !.origin = z])
  BY DEF Quiet

LEMMA QuietMoves ==
  ASSUME NEW t, "buf" \in DOMAIN t, NEW y, NEW within
  PROVE  /\ Quiet(t, RowUpdate(t)) /\ Quiet(t, MoveToEnd(t)) /\ Quiet(t, ConstrainToMargins(t))
         /\ Quiet(t, MoveY(t, y, within)) /\ Quiet(t, MoveBy(t, y)) /\ Quiet(t, MoveTo(t, y))
<1>1. ASSUME NEW u, "buf" \in DOMAIN u PROVE Quiet(u, RowUpdate(u))
  BY <1>1, QuietFields DEF RowUpdate
<1>2. ASSUME NEW z PROVE Quiet(t, RowUpdate([t EXCEPT !.y = z]))
  <2> DEFINE u == [t EXCEPT !.y = z]
  <2>1. Quiet(t, u)
    BY QuietFields
  <2> HIDE DEF u
  <2>2. Quiet(u, RowUpdate(u))
    BY <1>1, <2>1 DEF Quiet
  <2> QED BY <2>1, <2>2, QuietTrans DEF u
<1>3. \A z, w : Quiet(t, MoveY(t, z, w))
  BY <1>2 DEF MoveY
<1>4. Quiet(t, MoveToEnd(t)) /\ Quiet(t, t)
  BY QuietFields DEF MoveToEnd
<1> QED BY <1>1, <1>2, <1>3, <1>4 DEF ConstrainToMargins, MoveBy, MoveTo

LEMMA QuietModes ==
  ASSUME NEW t, "buf" \in DOMAIN t, NEW top, NEW bottom, NEW on
  PROVE  Quiet(t, SetMargins(t, top, bottom)) /\ Quiet(t, SetStayWithinMargins(t, on))
<1> DEFINE u == [t EXCEPT !.top = top, !.bottom = bottom]
           v == [u EXCEPT !.origin = top]
           w == [t EXCEPT !.stay = FALSE, !.origin = 0]
           x == [t EXCEPT !.stay = TRUE, !.origin = t.top]
<1>1. Quiet(t, u) /\ Quiet(t, w) /\ Quiet(t, x) /\ Quiet(t, t)
  BY QuietFields
<1>2. Quiet(u, v)
  <2> HIDE DEF u
  <2> QED BY <1>1, QuietFields DEF Quiet
<1>3. SetMargins(t, top, bottom) = IF t.stay THEN ConstrainToMargins(v) ELSE u
  BY DEF SetMargins
<1>4. SetStayWithinMargins(t, on) = IF t.stay = on THEN t ELSE IF on THEN ConstrainToMargins(x) ELSE w
  BY DEF SetStayWithinMargins
<1> HIDE DEF u, v, w, x
<1>5. Quiet(v, ConstrainToMargins(v)) /\ Quiet(x, ConstrainToMargins(x))
  BY <1>1, <1>2, QuietMoves DEF Quiet
<1> QED BY <1>1, <1>2, <1>3, <1>4, <1>5, QuietTrans DEF Quiet

LEMMA QuietSwitches ==
  ASSUME NEW t, "buf" \in DOMAIN t, NEW k
  PROVE  Quiet(t, SetBuffer(t, k)) /\ Quiet(t, SaveCursor(t)) /\ Quiet(t, RestoreCursor(t))
<1>1. Quiet(t, t) /\ Quiet(t, SaveCursor(t))
  BY QuietFields DEF SaveCursor
<1>2. Quiet(t, SetBuffer(t, k))
  <2> DEFINE u == [t EXCEPT !.cur = k]
             v == MoveToEnd(u)
  <2>1. SetBuffer(t, k) = IF t.cur = k THEN t ELSE RowUpdate(v)
    BY DEF SetBuffer
  <2>2. Quiet(t, u)
    BY QuietFields
  <2> HIDE DEF u
  <2>3. Quiet(u, v)
    BY <2>2, QuietMoves DEF Quiet
  <2> HIDE DEF v
  <2>4. Quiet(v, RowUpdate(v))
    BY <2>3, QuietMoves DEF Quiet
  <2> QED BY <1>1, <2>1, <2>2, <2>3, <2>4, QuietTrans
<1>3. Quiet(t, RestoreCursor(t))
  <2> DEFINE on == t.saved.origin
             y == t.saved.y
             u == [t EXCEPT !.originMode = on]
             v == SetStayWithinMargins(u, on)
  <2>1. RestoreCursor(t) = MoveTo(v, y)
    BY DEF RestoreCursor
  <2>2. Quiet(t, u)
    BY QuietFields
  <2> HIDE DEF u, on, y
  <2>3. Quiet(u, v)
    BY <2>2, QuietModes DEF Quiet
  <2> HIDE DEF v
  <2>4. Quiet(v, MoveTo(v, y))
    BY <2>3, QuietMoves DEF Quiet
  <2> QED BY <2>1, <2>2, <2>3, <2>4, QuietTrans
<1> QED BY <1>1, <1>2, <1>3
-----------------------------------------------------------------------------
(* What the operations of the screen note *)

Bounds(t) == \A k \in 0 .. 1 : Bounded(t.buf[k])
Notes(t, u) == \A k \in 0 .. 1 : Tracked(t.buf[k], u.buf[k])

LEMMA NotesTrans ==
  ASSUME NEW t, NEW u, NEW v, Notes(t, u), Notes(u, v)
  PROVE  Notes(t, v)
  BY TrackedTrans DEF Notes

LEMMA NotesBounds ==
  ASSUME NEW t, NEW u, Notes(t, u)
  PROVE  Bounds(u)
  BY DEF Notes, Bounds, Tracked

LEMMA QuietNotes ==
  ASSUME NEW t, Bounds(t), NEW u, Quiet(t, u)
  PROVE  Notes(t, u)
  BY TrackedSelf DEF Notes, Bounds, Quiet

\* One buffer becomes another.
LEMMA BufferNotes ==
  ASSUME NEW t, t \in Terminals, Bounds(t), NEW k, k \in 0 .. 1, NEW b, Tracked(t.buf[k], b)
  PROVE  /\ Notes(t, [t EXCEPT !.buf[k] = b]) /\ "buf" \in DOMAIN [t EXCEPT !.buf[k] = b]
         /\ Notes(t, [t EXCEPT !.buf = [t.buf EXCEPT ![k] = b]])
<1> DEFINE B == [t.buf EXCEPT ![k] = b]
           u == [t EXCEPT !.buf[k] = b]
<1>1. t.buf \in [0 .. 1 -> BufferTypes] /\ "buf" \in DOMAIN t
  BY DEF Terminals
<1>2. u.buf = B /\ "buf" \in DOMAIN u /\ u = [t EXCEPT !.buf = B]
  BY <1>1 DEF Terminals
<1>3. \A j \in 0 .. 1 : B[j] = IF j = k THEN b ELSE t.buf[j]
  BY <1>1
<1> HIDE DEF B, u
<1>4. Notes(t, u)
  BY <1>2, <1>3, TrackedSelf DEF Notes, Bounds
<1> QED BY <1>2, <1>4 DEF B, u

LEMMA CurNotes ==
  ASSUME NEW t, Poised(t), Bounds(t), NEW b, Tracked(Cur(t), b)
  PROVE  Notes(t, WithCur(t, b)) /\ "buf" \in DOMAIN WithCur(t, b)
<1>1. t \in Terminals /\ t.cur \in 0 .. 1 /\ Cur(t) = t.buf[t.cur]
  BY ScreenFacts
<1>2. Tracked(t.buf[t.cur], b)
  BY <1>1
<1> QED BY <1>1, <1>2, BufferNotes DEF WithCur

LEMMA CurBounded ==
  ASSUME NEW t, Poised(t), Bounds(t)
  PROVE  Bounded(Cur(t)) /\ Sound(Cur(t)) /\ "buf" \in DOMAIN t
  BY ScreenFacts DEF Bounds, Terminals

\* The rows of the screen are the last of the buffer.
LEMMA OnScreen ==
  ASSUME NEW t, Poised(t), NEW y \in 0 .. t.height - 1
  PROVE  t.offset + y \in Screen(Cur(t)) /\ CursorRow(t) \in Screen(Cur(t))
  BY ScreenFacts DEF Screen, CursorRow

\* u is a good terminal of t's height and has noted what it changed.
Marks(t, u) == Leads(t, u) /\ Notes(t, u)

LEMMA MarksTrans ==
  ASSUME NEW t, NEW u, NEW v, Marks(t, u), Marks(u, v)
  PROVE  Marks(t, v)
  BY LeadsTrans, NotesTrans DEF Marks

LEMMA MarksGood ==
  ASSUME NEW t, NEW u, Marks(t, u)
  PROVE  Good(u) /\ Poised(u) /\ Bounds(u) /\ u.height = t.height /\ "buf" \in DOMAIN u
         /\ u \in Terminals
<1>1. Good(u) /\ Poised(u) /\ u.height = t.height /\ Bounds(u)
  BY NotesBounds DEF Marks, Leads, Good
<1>2. u \in Terminals
  BY <1>1, ScreenFacts
<1> QED BY <1>1, <1>2 DEF Terminals

\* A buffer becomes another, and the pointers are put right.
LEMMA UpdatedNotes ==
  ASSUME NEW t, Poised(t), Bounds(t), NEW k, k \in 0 .. 1, NEW b, Tracked(t.buf[k], b)
  PROVE  /\ Notes(t, RowUpdate([t EXCEPT !.buf[k] = b]))
         /\ Notes(t, RowUpdate(MoveToEnd([t EXCEPT !.buf[k] = b])))
<1> DEFINE u == [t EXCEPT !.buf[k] = b]
           v == MoveToEnd(u)
<1>1. Notes(t, u) /\ "buf" \in DOMAIN u
  BY ScreenFacts, BufferNotes
<1> HIDE DEF u
<1>2. Quiet(u, v) /\ Quiet(u, RowUpdate(u))
  BY <1>1, QuietMoves
<1>3. Quiet(v, RowUpdate(v))
  <2> HIDE DEF v
  <2> QED BY <1>2, QuietMoves DEF Quiet
<1>4. Quiet(u, RowUpdate(v))
  BY <1>2, <1>3, QuietTrans
<1>5. Notes(u, RowUpdate(u)) /\ Notes(u, RowUpdate(v))
  BY <1>1, <1>2, <1>4, NotesBounds, QuietNotes
<1> QED BY <1>1, <1>5, NotesTrans DEF u, v

LEMMA MoveRowsNotes ==
  ASSUME NEW t, Poised(t), Bounds(t), NEW y \in 0 .. t.height - 1, NEW z \in 0 .. t.height - 1
  PROVE  Notes(t, RowUpdate(WithCur(t, MoveRow(Cur(t), t.offset + y, t.offset + z, BlankRow))))
<1> DEFINE b == MoveRow(Cur(t), t.offset + y, t.offset + z, BlankRow)
<1>1. t.offset + y \in Screen(Cur(t)) /\ t.offset + z \in Screen(Cur(t))
  BY OnScreen
<1>2. Sound(Cur(t)) /\ Bounded(Cur(t)) /\ Cur(t) = t.buf[t.cur] /\ t.cur \in 0 .. 1
  BY CurBounded, ScreenFacts
<1>3. BlankRow \in RowTypes
  BY BlankFacts
<1>4. Tracked(Cur(t), b)
  BY <1>1, <1>2, <1>3, MoveTracked
<1> HIDE DEF b
<1>5. Notes(t, RowUpdate([t EXCEPT !.buf[t.cur] = b]))
  BY <1>2, <1>4, UpdatedNotes
<1> QED BY <1>5 DEF WithCur, b

LEMMA InsertDeleteNotes ==
  ASSUME NEW t, Poised(t), Bounds(t)
  PROVE  Notes(t, InsertRowHere(t)) /\ Notes(t, DeleteRowHere(t)) /\ Notes(t, ScrollDown(t))
<1>1. t.y \in 0 .. t.height - 1 /\ t.bottom \in 0 .. t.height - 1 /\ t.top \in 0 .. t.height - 1
  BY ScreenFacts
<1>2. Notes(t, t)
  BY CurBounded, QuietFields, QuietNotes
<1>3. /\ Notes(t, RowUpdate(WithCur(t, MoveRow(Cur(t), t.offset + t.bottom, t.offset + t.y, BlankRow))))
      /\ Notes(t, RowUpdate(WithCur(t, MoveRow(Cur(t), t.offset + t.y, t.offset + t.bottom, BlankRow))))
      /\ Notes(t, RowUpdate(WithCur(t, MoveRow(Cur(t), t.offset + t.bottom, t.offset + t.top, BlankRow))))
  BY <1>1, MoveRowsNotes
<1> QED BY <1>2, <1>3 DEF InsertRowHere, DeleteRowHere, ScrollDown, DeleteRowAndInsertAbove,
                          DeleteRowAndInsertBelow, CursorRow

LEMMA ScrollUpNotes ==
  ASSUME NEW t, Poised(t), Bounds(t)
  PROVE  Notes(t, ScrollUp(t))
<1>1. CASE t.top = 0
  <2> DEFINE pos == t.offset + t.bottom + 1
             b == InsertRow(Cur(t), pos)
  <2>1. Sound(Cur(t)) /\ Bounded(Cur(t)) /\ Cur(t) = t.buf[t.cur] /\ t.cur \in 0 .. 1
    BY CurBounded, ScreenFacts
  <2>2. pos \in Cur(t).size - Cur(t).height + 1 .. Cur(t).size
    BY ScreenFacts
  <2>3. ScrollUp(t) = RowUpdate(MoveToEnd([t EXCEPT !.buf[t.cur] = b]))
    BY <1>1 DEF ScrollUp, WithCur
  <2> HIDE DEF pos
  <2>4. Tracked(Cur(t), b)
    BY <2>1, <2>2, InsertRowTracked
  <2> HIDE DEF b
  <2>5. Notes(t, RowUpdate(MoveToEnd([t EXCEPT !.buf[t.cur] = b])))
    BY <2>1, <2>4, UpdatedNotes
  <2> QED BY <2>3, <2>5
<1>2. CASE t.top # 0
  <2>1. t.bottom \in 0 .. t.height - 1 /\ t.top \in 0 .. t.height - 1
    BY ScreenFacts
  <2>2. Notes(t, RowUpdate(WithCur(t, MoveRow(Cur(t), t.offset + t.top, t.offset + t.bottom, BlankRow))))
    BY <2>1, MoveRowsNotes
  <2> QED BY <1>2, <2>2 DEF ScrollUp, DeleteRowAndInsertBelow
<1> QED BY <1>1, <1>2

LEMMA MoveDownMarks ==
  ASSUME NEW t, Good(t), Bounds(t)
  PROVE  Marks(t, CursorMoveDown(t))
<1> DEFINE u == MoveBy(t, 1)
           b == TouchRow(Cur(u), CursorRow(u))
<1>1. Leads(t, u)
  <2>1. 1 \in Int
    OBVIOUS
  <2> QED BY <2>1, MoveFacts
<1>2. CursorMoveDown(t) = WithCur(u, b)
  BY DEF CursorMoveDown
<1>3. Notes(t, u)
  BY CurBounded, QuietMoves, QuietNotes DEF Good
<1> HIDE DEF u
<1>4. Poised(u) /\ Bounds(u)
  BY <1>1, <1>3, MarksGood DEF Marks
<1>5. u.y \in 0 .. u.height - 1
  BY <1>4, ScreenFacts
<1>6. Tracked(Cur(u), b)
  BY <1>4, <1>5, CurBounded, OnScreen, TouchTracked
<1> HIDE DEF b
<1>7. Notes(u, WithCur(u, b))
  BY <1>4, <1>6, CurNotes
<1> QED BY <1>2, <1>3, <1>7, NotesTrans, MoveDownFacts DEF Marks

LEMMA ScrollMarks ==
  ASSUME NEW t, Good(t), Bounds(t)
  PROVE  /\ Marks(t, InsertRowHere(t)) /\ Marks(t, DeleteRowHere(t)) /\ Marks(t, ScrollDown(t))
         /\ Marks(t, ScrollUp(t)) /\ Marks(t, LineFeed(t)) /\ Marks(t, ReverseIndex(t))
         /\ Marks(t, MoveBy(t, 1)) /\ Marks(t, MoveBy(t, -1))
<1>1. /\ Marks(t, InsertRowHere(t)) /\ Marks(t, DeleteRowHere(t)) /\ Marks(t, ScrollDown(t))
      /\ Marks(t, ScrollUp(t))
  BY InsertDeleteFacts, InsertDeleteNotes, ScrollUpFacts, ScrollUpNotes DEF Marks, Good
<1>2. Marks(t, MoveBy(t, 1)) /\ Marks(t, MoveBy(t, -1))
  <2>1. 1 \in Int /\ -1 \in Int
    OBVIOUS
  <2> QED BY <2>1, MoveFacts, CurBounded, QuietMoves, QuietNotes DEF Marks, Good
<1> QED BY <1>1, <1>2, MoveDownMarks DEF LineFeed, ReverseIndex
-----------------------------------------------------------------------------
(* Erasing *)

\* What becomes of the buffer that is shown.
LEMMA CurMarks ==
  ASSUME NEW t, Good(t), Bounds(t), NEW b, Tracked(Cur(t), b), Leads(t, WithCur(t, b))
  PROVE  Marks(t, WithCur(t, b))
  BY CurNotes DEF Marks, Good

LEMMA CursorOnScreen ==
  ASSUME NEW t, Poised(t)
  PROVE  CursorRow(t) \in Screen(Cur(t))
<1>1. t.y \in 0 .. t.height - 1
  BY ScreenFacts
<1> QED BY <1>1, OnScreen

LEMMA EraseRowMarks ==
  ASSUME NEW t, Good(t), Bounds(t), NEW y, y \in 0 .. t.height - 1
  PROVE  Marks(t, EraseRow(t, y))
<1> DEFINE i == t.offset + y
           b == Cur(t)
           c == TakeRow(b, i)
           d == PutRow(c, i, BlankRow)
<1>1. Poised(t)
  BY DEF Good
<1>2. i \in Screen(b) /\ Sound(b) /\ Bounded(b) /\ i \in 0 .. b.size - 1
  BY <1>1, OnScreen, CurBounded, RowOfScreen
<1>3. EraseRow(t, y) = WithCur(t, d)
  BY DEF EraseRow
<1>4. Leads(t, EraseRow(t, y))
  BY EraseRowFacts DEF Stays
<1> HIDE DEF i, b
<1>5. Tracked(b, c) /\ Alike(b, c)
  BY <1>2, TakeTracked, TakeRowFacts
<1> HIDE DEF c
<1>6. Sound(c) /\ Bounded(c) /\ i \in Screen(c) /\ BlankRow \in RowTypes
  BY <1>2, <1>5, BlankFacts DEF Alike, Tracked, Screen
<1>7. Tracked(c, d)
  BY <1>6, PutTracked
<1> HIDE DEF d
<1>8. Tracked(Cur(t), d)
  BY <1>5, <1>7, TrackedTrans DEF b
<1> QED BY <1>3, <1>4, <1>8, CurMarks

LEMMA EraseRowsMarks ==
  ASSUME NEW t, Good(t), Bounds(t), NEW ys, ys \subseteq 0 .. t.height - 1
  PROVE  Marks(t, EraseRows(t, ys))
<1> DEFINE b == Cur(t)
           D == {t.offset + y : y \in ys}
           f == [i \in D |-> BlankRow]
           c == WithRows(b, Replaced(b, f), b.changed \cup D)
<1>1. Poised(t)
  BY DEF Good
<1>2. Sound(b) /\ Bounded(b)
  BY <1>1, CurBounded
<1>3. D \subseteq Screen(b)
  BY <1>1, OnScreen
<1>4. EraseRows(t, ys) = WithCur(t, c)
  BY DEF EraseRows, WithRows
<1> HIDE DEF D
<1>5. f \in [D -> RowTypes]
  BY BlankFacts
<1>6. Leads(t, EraseRows(t, ys))
  BY EraseRowsFacts DEF Stays
<1> HIDE DEF f, b
<1>7. Tracked(b, c)
  BY <1>2, <1>3, <1>5, ReplaceTracked
<1> HIDE DEF c
<1> QED BY <1>4, <1>6, <1>7, CurMarks DEF b

\* The cursor's row is noted before text is written to it.
LEMMA TakenMarks ==
  ASSUME NEW t, Good(t), Bounds(t), NEW b,
         b \in {TakeRow(Cur(t), CursorRow(t)), TouchRow(Cur(t), CursorRow(t))},
         NEW text, text \in Nat
  PROVE  Marks(t, SetText(WithCur(t, b), text))
<1> DEFINE i == CursorRow(t)
           u == WithCur(t, b)
           d == WithText(Cur(u), CursorRow(u), text)
<1>1. Poised(t) /\ Sound(Cur(t)) /\ Bounded(Cur(t)) /\ i \in Screen(Cur(t)) /\ i \in Nat
  BY CurBounded, CursorOnScreen, CursorsRow DEF Good
<1>2. Tracked(Cur(t), b) /\ i \in b.changed /\ Stays(t, u)
  <2>1. i \in TouchRow(Cur(t), i).changed
    BY <1>1, TouchRowFacts DEF Became
  <2> QED BY <1>1, <2>1, TakeTracked, TouchTracked, TakenFacts
<1>3. Alike(Cur(t), b)
  <2>1. i \in 0 .. Cur(t).size - 1
    BY <1>1, CursorsRow
  <2> QED BY <1>1, <2>1, TakeRowFacts, TouchRowFacts DEF Became
<1>4. Cur(u) = b /\ u.offset = t.offset /\ u.y = t.y
  BY <1>1, <1>3, CurPoised
<1>5. SetText(u, text) = WithCur(u, d)
  BY DEF SetText, WithText
<1> HIDE DEF u
<1>6. CursorRow(u) = i /\ Good(u) /\ Leads(t, u)
  BY <1>2, <1>4 DEF CursorRow, Stays, Leads
<1> HIDE DEF i
<1>7. Marks(t, u)
  BY <1>2, <1>6, CurMarks DEF u
<1>8. Poised(u) /\ Bounds(u) /\ Sound(Cur(u)) /\ Bounded(Cur(u)) /\ CursorRow(u) \in Screen(Cur(u))
  BY <1>7, MarksGood, CurBounded, CursorOnScreen
<1>9. CursorRow(u) \in Cur(u).changed
  BY <1>2, <1>4, <1>6
<1>10. Tracked(Cur(u), d)
  BY <1>8, <1>9, WithTextTracked
<1>11. Leads(u, SetText(u, text))
  BY <1>6, SetTextFacts DEF Stays
<1> HIDE DEF d
<1>12. Marks(u, WithCur(u, d))
  BY <1>5, <1>6, <1>8, <1>10, <1>11, CurMarks
<1> QED BY <1>5, <1>7, <1>12, MarksTrans DEF u

LEMMA ErasedAboveMarks ==
  ASSUME NEW t, Good(t), Bounds(t), NEW n \in Nat, n <= t.height
  PROVE  Stays(t, ErasedAbove(t, n)[n]) /\ Marks(t, ErasedAbove(t, n)[n])
<1> DEFINE E == ErasedAbove(t, n)
           Bad == {m \in 0 .. n : ~Marks(t, E[m])}
<1>n. t.height \in Nat
  BY ScreenFacts DEF Good
<1>0. \A m \in 0 .. n : E[m] = IF m = 0 THEN t ELSE EraseRow(E[m-1], m-1)
  <2>1. \E e : Erasing(t, n, e)
    BY ErasedExists
  <2>2. E = [k \in 0 .. n |-> IF k = 0 THEN t ELSE EraseRow(E[k-1], k-1)]
    BY <2>1 DEF ErasedAbove, Erasing
  <2> HIDE DEF E
  <2> QED BY <2>2
<1>s. Stays(t, E[n])
  BY ErasedAboveFacts
<1> HIDE DEF E
<1> SUFFICES ASSUME Bad # {} PROVE FALSE
  <2>1. n \in 0 .. n
    OBVIOUS
  <2> QED BY <1>s, <2>1 DEF E
<1>a. Bad \subseteq Nat
  OBVIOUS
<1>1. PICK m \in Bad : \A y \in Bad : m <= y
  <2> HIDE DEF Bad
  <2> QED BY <1>a, Least
<1>b. m \in 0 .. n /\ ~Marks(t, E[m])
  OBVIOUS
<1>2. m # 0
  <2>1. E[0] = t
    BY <1>0
  <2>2. Marks(t, t)
    BY StaysSelf, CurBounded, QuietFields, QuietNotes DEF Marks, Good
  <2> QED BY <2>1, <2>2, <1>b
<1>3. m - 1 \in 0 .. n /\ m - 1 \notin Bad
  <2>0. m \in Nat /\ m <= n
    BY <1>b
  <2>1. m - 1 \in 0 .. n /\ m - 1 \in Nat /\ ~(m <= m - 1)
    BY <1>2, <2>0
  <2> QED BY <1>1, <2>1
<1>4. Marks(t, E[m-1])
  BY <1>3
<1> HIDE DEF Bad
<1>5. Good(E[m-1]) /\ Bounds(E[m-1]) /\ m - 1 \in 0 .. E[m-1].height - 1
  BY <1>n, <1>b, <1>3, <1>4, MarksGood
<1>6. Marks(E[m-1], EraseRow(E[m-1], m - 1))
  BY <1>5, EraseRowMarks
<1>7. E[m] = EraseRow(E[m-1], m-1)
  BY <1>0, <1>b, <1>2
<1> QED BY <1>b, <1>4, <1>6, <1>7, MarksTrans

-----------------------------------------------------------------------------
(* Writing through the two pointers *)

(* What writeCell makes of the buffer that is shown. *)
Ended(t) ==
  IF t.next \in {None, Dangling} THEN Cur(t) ELSE WithCont(Cur(t), CursorRow(t) + 1, FALSE)
Texted(t, text) ==
  IF t.row = Dangling THEN Ended(t) ELSE WithText(Ended(t), CursorRow(t), text)
Touched(t) == IF t.next = None THEN {CursorRow(t)} ELSE {CursorRow(t), CursorRow(t) + 1}
Written(t, text) == WithChanged(Texted(t, text), Texted(t, text).changed \cup Touched(t))

LEMMA CurTwice ==
  ASSUME NEW t, t \in Terminals, NEW a, a \in BufferTypes, NEW b
  PROVE  /\ WithCur(WithCur(t, a), b) = WithCur(t, b) /\ Cur(WithCur(t, a)) = a
         /\ WithCur(t, a).cur = t.cur /\ WithCur(t, a) \in Terminals /\ WithCur(t, Cur(t)) = t
  BY DEF WithCur, Cur, Terminals

LEMMA WriteCellIs ==
  ASSUME NEW t, Good(t), NEW text, text \in Nat
  PROVE  /\ WriteCell(t, text) = [WithCur(t, Written(t, text)) EXCEPT !.next = None]
         /\ Alike(Cur(t), Ended(t)) /\ Alike(Ended(t), Texted(t, text))
<1> DEFINE i == CursorRow(t)
           b == Cur(t)
           touched == Touched(t)
           ended == IF t.next \in {None, Dangling} THEN t
                    ELSE [t EXCEPT !.buf[t.next[1]].rows[t.next[2]].cont = FALSE]
           written == IF t.row = Dangling THEN ended
                      ELSE [ended EXCEPT !.buf[t.row[1]].rows[t.row[2]].text = text]
           final == [written EXCEPT !.next = None, !.buf[t.cur].changed = @ \cup touched]
           e == Ended(t)
           w == Texted(t, text)
           d == Written(t, text)
<1>0. WriteCell(t, text) = final
  BY DEF WriteCell, Touched
<1>1. Poised(t) /\ t \in Terminals /\ Sound(b) /\ t.cur \in 0 .. 1 /\ b = t.buf[t.cur] /\ b.size \in Nat
  BY ScreenFacts DEF Good
<1>2. i \in 0 .. b.size - 1 /\ Held(b, i) /\ i \in Nat /\ i + 1 \in Nat
  BY <1>1, CursorsRow
<1>3. /\ t.row = At(t, i) \/ (t.row = Dangling /\ t.cur = 1)
      /\ t.next = None \/ (t.next \in {Dangling, At(t, i + 1)} /\ i + 1 < b.size)
  BY DEF Good, Pointed
<1>4. /\ At(t, i)[1] = t.cur /\ At(t, i)[2] = Slot(b, i)
      /\ At(t, i + 1)[1] = t.cur /\ At(t, i + 1)[2] = Slot(b, i + 1)
  BY <1>1, <1>2, Pointing
<1>5. touched \subseteq Nat
  BY <1>2 DEF Touched
<1>6. Ended(t) = (IF t.next \in {None, Dangling} THEN b ELSE WithCont(b, i + 1, FALSE))
      /\ Texted(t, text) = (IF t.row = Dangling THEN e ELSE WithText(e, i, text))
      /\ Written(t, text) = WithChanged(w, w.changed \cup touched)
  BY DEF Ended, Texted, Written
<1> HIDE DEF i, b, touched, e, w, d
<1>7. ended = WithCur(t, e) /\ Alike(b, e)
  <2>1. CASE t.next \in {None, Dangling}
    <3>1. e = b /\ b = Cur(t)
      BY <2>1, <1>6 DEF b, e
    <3> QED BY <2>1, <3>1, <1>1, CurTwice, AlikeSelf DEF Sound
  <2>2. CASE t.next \notin {None, Dangling}
    <3>1. t.next = At(t, i + 1) /\ i + 1 < b.size
      BY <2>2, <1>3
    <3>2. i + 1 \in 0 .. b.size - 1
      BY <3>1, <1>1, <1>2
    <3>3. Held(b, i + 1)
      BY <3>2, <1>1, InSize
    <3>4. e = WithCont(b, i + 1, FALSE)
      BY <2>2, <1>6 DEF e
    <3>5. ended = WithCur(t, e)
      BY <2>2, <3>1, <3>4, <1>1, <1>4 DEF WithCur, WithCont
    <3>6. Alike(b, e)
      BY <3>3, <3>4, <1>1, WithContFacts
    <3> QED BY <3>5, <3>6
  <2> QED BY <2>1, <2>2
<1> HIDE DEF ended
<1>8. /\ Sound(e) /\ e \in BufferTypes /\ Cur(ended) = e /\ ended.cur = t.cur /\ ended \in Terminals
      /\ Slot(e, i) = Slot(b, i) /\ e.size = b.size
  BY <1>1, <1>7, CurTwice DEF Alike, Sound, Slot
<1>9. written = WithCur(t, w) /\ Alike(e, w)
  <2>1. CASE t.row = Dangling
    <3>1. w = e
      BY <2>1, <1>6 DEF w, e
    <3> QED BY <2>1, <3>1, <1>7, <1>8, AlikeSelf
  <2>2. CASE t.row # Dangling
    <3>1. t.row = At(t, i) /\ t.row[1] = t.cur /\ t.row[2] = Slot(e, i)
      BY <2>2, <1>3, <1>4, <1>8
    <3>2. w = WithText(e, i, text)
      BY <2>2, <1>6 DEF w
    <3>3. written = WithCur(ended, w)
      BY <2>2, <3>1, <3>2, <1>8 DEF WithCur, WithText, Cur, Terminals
    <3>4. Held(e, i)
      BY <1>2, <1>8, InSize
    <3>5. Alike(e, w)
      BY <3>2, <3>4, <1>8, WithTextFacts
    <3>6. WithCur(WithCur(t, e), w) = WithCur(t, w)
      BY <1>1, <1>8, CurTwice
    <3> QED BY <3>3, <3>5, <3>6, <1>7
  <2> QED BY <2>1, <2>2
<1> HIDE DEF written
<1>10. w \in BufferTypes /\ Cur(written) = w /\ written.cur = t.cur /\ written \in Terminals
  BY <1>1, <1>9, CurTwice DEF Alike, Sound
<1>11. d = WithChanged(w, w.changed \cup touched)
  BY <1>6 DEF d
<1>12. final = [WithCur(written, d) EXCEPT !.next = None]
  BY <1>10, <1>11 DEF WithCur, WithChanged, Cur, Terminals
<1>13. WithCur(written, d) = WithCur(t, d)
  BY <1>1, <1>9, <1>10, CurTwice
<1> HIDE DEF final
<1> QED BY <1>0, <1>7, <1>9, <1>12, <1>13 DEF b, e, w, d

LEMMA WriteCellMarks ==
  ASSUME NEW t, Good(t), Bounds(t), NEW text, text \in Nat
  PROVE  Marks(t, WriteCell(t, text))
<1> DEFINE i == CursorRow(t)
           b == Cur(t)
           e == Ended(t)
           w == Texted(t, text)
           d == Written(t, text)
           D == Touched(t)
           u == WithCur(t, d)
<1>1. Poised(t) /\ Sound(b) /\ Bounded(b) /\ i \in Screen(b) /\ i \in Nat /\ b.size \in Nat
  BY CurBounded, CursorOnScreen, CursorsRow, ScreenFacts DEF Good
<1>2. Alike(b, e) /\ Alike(e, w) /\ WriteCell(t, text) = [u EXCEPT !.next = None]
  BY WriteCellIs
<1>3. t.next = None \/ i + 1 < b.size
  BY DEF Good, Pointed
<1>4. D \subseteq Screen(b) /\ i \in D
  <2>1. i + 1 < b.size => i + 1 \in Screen(b)
    <3>1. b.size \in Int /\ b.height \in Int
      BY <1>1 DEF Sound, BufferTypes
    <3> HIDE DEF i, b
    <3> QED BY <1>1, <3>1 DEF Screen
  <2> QED BY <1>1, <1>3, <2>1 DEF Touched
<1>5. /\ e.told = b.told /\ e.changed = b.changed
      /\ \A s \in 1 .. Len(b.rows) : e.rows[s].text = b.rows[s].text
  <2>1. CASE t.next \in {None, Dangling}
    BY <2>1 DEF Ended
  <2>2. CASE t.next \notin {None, Dangling}
    <3>1. e = WithCont(b, i + 1, FALSE) /\ i + 1 < b.size
      BY <2>2, <1>3 DEF Ended
    <3>2. Held(b, i + 1)
      BY <1>1, <3>1, InSize
    <3> HIDE DEF e, b, i
    <3>3. \A s : s # Slot(b, i + 1) => e.rows[s] = b.rows[s]
      <4> DEFINE off == FALSE
      <4>1. off \in BOOLEAN /\ e = WithCont(b, i + 1, off)
        BY <3>1
      <4> HIDE DEF off
      <4>2. \A s : s # Slot(b, i + 1) => WithCont(b, i + 1, off).rows[s] = b.rows[s]
        BY <1>1, <3>2, <4>1, WithContFacts
      <4> QED BY <4>1, <4>2
    <3>4. Slot(b, i + 1) \in 1 .. Len(b.rows) /\ b.rows \in Seq(RowTypes) /\ b.rows[Slot(b, i + 1)] \in RowTypes
      BY <1>1, <3>2, SlotHeld, RowHeld DEF Row, Sound, BufferTypes
    <3>5. e.told = b.told /\ e.changed = b.changed /\ e.rows[Slot(b, i + 1)].text = b.rows[Slot(b, i + 1)].text
      BY <1>1, <3>1, <3>4 DEF Sound, BufferTypes, WithCont, RowTypes
    <3> QED BY <3>3, <3>5
  <2> QED BY <2>1, <2>2
<1>6. /\ w.told = e.told /\ w.changed = e.changed
      /\ \A s \in 1 .. Len(e.rows) : s # Slot(e, i) => w.rows[s] = e.rows[s]
  <2>1. CASE t.row = Dangling
    BY <2>1 DEF Texted
  <2>2. CASE t.row # Dangling
    <3>1. w = WithText(e, i, text)
      BY <2>2 DEF Texted
    <3>2. Sound(e)
      BY <1>2 DEF Alike
    <3> HIDE DEF w, e, i
    <3> QED BY <3>1, <3>2 DEF Sound, BufferTypes, WithText
  <2> QED BY <2>1, <2>2
<1>7. Alike(b, w) /\ w \in BufferTypes /\ Sound(w) /\ Len(e.rows) = Len(b.rows) /\ e.cap = b.cap
  <2>1. Alike(b, w) /\ Sound(w) /\ w \in BufferTypes /\ e.cap = b.cap
    BY <1>2, AlikeTrans, Zenon DEF Alike, Sound
  <2>2. Len(e.rows) = Len(b.rows)
    <3>1. CASE t.next \in {None, Dangling}
      BY <3>1 DEF Ended
    <3>2. CASE t.next \notin {None, Dangling}
      <4>1. e = WithCont(b, i + 1, FALSE)
        BY <3>2 DEF Ended
      <4> HIDE DEF e, b, i
      <4> QED BY <1>1, <4>1 DEF Sound, BufferTypes, WithCont
    <3> QED BY <3>1, <3>2
  <2> QED BY <2>1, <2>2
<1>8. d = WithChanged(w, w.changed \cup D)
  BY DEF Written
<1>9. Leads(t, WriteCell(t, text))
  BY WriteCellFacts
<1> HIDE DEF e, w, d, D, i, b
<1>10. Alike(w, d) /\ d.rows = w.rows /\ d.changed = w.changed \cup D /\ d.told = w.told
  <2>1. w.changed \cup D \subseteq Nat
    BY <1>1, <1>4, <1>5, <1>6, ScreenRows DEF Sound, BufferTypes
  <2>2. Became(w, d, w.rows, w.changed \cup D)
    BY <1>7, <1>8, <2>1, NewChanged
  <2> QED BY <2>2 DEF Became
<1>11. Writes(b, d, D)
  <2>1. \A s \in 1 .. Len(b.rows) : d.rows[s].text = b.rows[s].text \/ \E j \in D : Slot(b, j) = s
    BY <1>4, <1>5, <1>6, <1>7, <1>10 DEF Slot
  <2>2. Alike(b, d)
    BY <1>7, <1>10, AlikeTrans
  <2> QED BY <1>5, <1>6, <1>10, <2>1, <2>2 DEF Writes
<1>12. Tracked(b, d)
  BY <1>1, <1>4, <1>11, WritesTracked
<1>13. Notes(t, u) /\ "buf" \in DOMAIN u
  BY <1>1, <1>12, CurNotes DEF b
<1> HIDE DEF u
<1>14. Notes(u, [u EXCEPT !.next = None])
  BY <1>13, QuietFields, QuietNotes, NotesBounds
<1> QED BY <1>2, <1>9, <1>13, <1>14, NotesTrans DEF Marks

LEMMA MarkedMarks ==
  ASSUME NEW t, Good(t), Bounds(t)
  PROVE  LET taken == TakeRow(Cur(t), CursorRow(t))
         IN Marks(t, WithCur(t, WithCont(taken, CursorRow(t), TRUE)))
<1> DEFINE i == CursorRow(t)
           b == Cur(t)
           c == TakeRow(b, i)
           d == WithCont(c, i, TRUE)
<1>1. Poised(t) /\ Sound(b) /\ Bounded(b) /\ i \in Screen(b) /\ i \in 0 .. b.size - 1
  BY CurBounded, CursorOnScreen, CursorsRow DEF Good
<1>2. Leads(t, WithCur(t, d))
  BY MarkedFacts
<1> HIDE DEF i, b
<1>3. Tracked(b, c) /\ Alike(b, c)
  BY <1>1, TakeTracked, TakeRowFacts
<1> HIDE DEF c
<1>4. Sound(c) /\ Bounded(c) /\ Held(c, i)
  BY <1>1, <1>3, InSize DEF Alike, Tracked
<1>5. Tracked(c, d)
  <2> DEFINE on == TRUE
  <2>1. on \in BOOLEAN /\ d = WithCont(c, i, on)
    OBVIOUS
  <2> HIDE DEF on, d
  <2> QED BY <1>4, <2>1, WithContTracked
<1> HIDE DEF d
<1>6. Tracked(Cur(t), d)
  BY <1>3, <1>5, TrackedTrans DEF b
<1>7. Marks(t, WithCur(t, d))
  BY <1>2, <1>6, CurMarks
<1> QED BY <1>7 DEF d, c, b, i

-----------------------------------------------------------------------------
(* The cursor, modes, resets and resizes *)

LEMMA QuietMarks ==
  ASSUME NEW t, Bounds(t), NEW u, Leads(t, u), Quiet(t, u)
  PROVE  Marks(t, u)
  BY QuietNotes DEF Marks

LEMMA MarksSelf ==
  ASSUME NEW t, Good(t), Bounds(t)
  PROVE  Marks(t, t) /\ "buf" \in DOMAIN t /\ t.height \in Nat \ {0}
<1>1. "buf" \in DOMAIN t /\ t.height \in Nat \ {0}
  BY ScreenFacts, CurBounded DEF Good
<1>2. Quiet(t, t) /\ Leads(t, t)
  BY <1>1 DEF Quiet, Leads
<1> QED BY <1>1, <1>2, QuietMarks

\* What leaves the buffers as they are.
LEMMA MoveMarks ==
  ASSUME NEW t, Good(t), Bounds(t), NEW y, y \in Int
  PROVE  /\ Marks(t, RowUpdate(t)) /\ Marks(t, MoveTo(t, y)) /\ Marks(t, MoveBy(t, y))
         /\ Marks(t, SaveCursor(t)) /\ Marks(t, RestoreCursor(t))
<1>1. "buf" \in DOMAIN t
  BY MarksSelf
<1>2. Leads(t, RowUpdate(t))
  BY RowUpdateFacts DEF Good
<1>3. Leads(t, MoveTo(t, y)) /\ Leads(t, MoveBy(t, y))
  BY MoveFacts
<1>4. Leads(t, SaveCursor(t)) /\ Leads(t, RestoreCursor(t))
  BY SaveFacts, RestoreFacts
<1> QED BY <1>1, <1>2, <1>3, <1>4, QuietMarks, QuietMoves, QuietSwitches

LEMMA VerticalMarks ==
  ASSUME NEW t, Good(t), Bounds(t), NEW y, y \in Int
  PROVE  Marks(t, MoveY(t, y + t.origin, TRUE))
<1>1. "buf" \in DOMAIN t
  BY MarksSelf
<1>2. Leads(t, MoveY(t, y + t.origin, TRUE))
  BY MoveFacts
<1>3. Quiet(t, MoveY(t, y + t.origin, TRUE))
  BY <1>1, QuietMoves
<1> QED BY <1>2, <1>3, QuietMarks

LEMMA MarginMarks ==
  ASSUME NEW t, Good(t), Bounds(t), NEW top, top \in 0 .. t.height - 1,
         NEW bottom, bottom \in 0 .. t.height - 1, top <= bottom
  PROVE  Marks(t, SetMargins(t, top, bottom))
<1>1. "buf" \in DOMAIN t
  BY MarksSelf
<1>2. Leads(t, SetMargins(t, top, bottom))
  BY SetMarginsFacts
<1> QED BY <1>1, <1>2, QuietMarks, QuietModes

LEMMA ModeMarks ==
  ASSUME NEW t, Good(t), Bounds(t), NEW on, on \in BOOLEAN
  PROVE  /\ Marks(t, [t EXCEPT !.originMode = on]) /\ Marks(t, SetStayWithinMargins(t, on))
<1>1. "buf" \in DOMAIN t
  BY MarksSelf
<1>2. Leads(t, [t EXCEPT !.originMode = on]) /\ Leads(t, SetStayWithinMargins(t, on))
  BY ModeFacts, SetStayFacts
<1>3. Quiet(t, [t EXCEPT !.originMode = on]) /\ Quiet(t, SetStayWithinMargins(t, on))
  BY <1>1, QuietFields, QuietModes
<1> QED BY <1>2, <1>3, QuietMarks

LEMMA SwitchMarks ==
  ASSUME NEW t, Good(t), Bounds(t), NEW k, k \in 0 .. 1
  PROVE  Marks(t, SetBuffer(t, k))
<1>1. "buf" \in DOMAIN t
  BY MarksSelf
<1>2. Leads(t, SetBuffer(t, k))
  BY SetBufferFacts
<1> QED BY <1>1, <1>2, QuietMarks, QuietSwitches

LEMMA ClearAlternateMarks ==
  ASSUME NEW t, Good(t), Bounds(t)
  PROVE  Marks(t, ClearAlternate(t))
<1> DEFINE Lost(p) == IF p[1] = 1 THEN Dangling ELSE p
           b == Clear(t.buf[1])
           v == [t EXCEPT !.buf = [t.buf EXCEPT ![1] = b]]
           row == Lost(t.row)
           next == Lost(t.next)
           u == [v EXCEPT !.row = row, !.next = next]
<1>1. t \in Terminals /\ 1 \in 0 .. 1 /\ Sound(t.buf[1]) /\ t.buf[1].noScroll
  BY ScreenFacts DEF Good, Poised, Framed
<1>2. Bounded(t.buf[1])
  BY <1>1 DEF Bounds
<1>3. Tracked(t.buf[1], b)
  BY <1>1, <1>2, ClearTracked
<1>4. ClearAlternate(t) = u
  BY <1>1 DEF ClearAlternate, Terminals
<1>5. Leads(t, ClearAlternate(t))
  BY ClearAlternateFacts
<1> HIDE DEF b
<1>6. Notes(t, v)
  BY <1>1, <1>3, BufferNotes, Zenon
<1>7. "buf" \in DOMAIN v
  BY <1>1 DEF Terminals
<1> HIDE DEF v, row, next
<1>8. Notes(v, u)
  <2>1. Quiet(v, u)
    BY <1>7, QuietFields
  <2> HIDE DEF u
  <2> QED BY <1>6, <2>1, NotesBounds, QuietNotes
<1> HIDE DEF u
<1> QED BY <1>4, <1>5, <1>6, <1>8, NotesTrans DEF Marks

LEMMA MainBufferMarks ==
  ASSUME NEW t, Good(t), Bounds(t)
  PROVE  /\ Marks(t, ClearScrollbackNow(t))
         /\ \A cap \in Nat \ {0} : Marks(t, BufferResize(t, cap))
<1>1. Poised(t) /\ Sound(t.buf[0]) /\ ~t.buf[0].noScroll /\ 0 \in 0 .. 1
  BY DEF Good, Poised, Framed
<1>2. Bounded(t.buf[0])
  BY <1>1 DEF Bounds
<1>3. Leads(t, ClearScrollbackNow(t)) /\ \A cap \in Nat \ {0} : Leads(t, BufferResize(t, cap))
  BY MainBufferFacts
<1>4. Notes(t, ClearScrollbackNow(t))
  <2>1. Tracked(t.buf[0], ClearScrollback(t.buf[0]))
    BY <1>1, <1>2, ClearScrollbackTracked
  <2>2. Notes(t, RowUpdate(MoveToEnd([t EXCEPT !.buf[0] = ClearScrollback(t.buf[0])])))
    BY <1>1, <2>1, UpdatedNotes
  <2> QED BY <2>2 DEF ClearScrollbackNow
<1>5. ASSUME NEW cap \in Nat \ {0} PROVE Notes(t, BufferResize(t, cap))
  <2>1. Tracked(t.buf[0], EnableScrollback(t.buf[0], cap))
    BY <1>1, <1>2, EnableScrollbackTracked
  <2>2. Notes(t, RowUpdate(MoveToEnd([t EXCEPT !.buf[0] = EnableScrollback(t.buf[0], cap)])))
    BY <1>1, <2>1, UpdatedNotes
  <2> QED BY <2>2 DEF BufferResize
<1> QED BY <1>3, <1>4, <1>5 DEF Marks

LEMMA ResetEmulatorMarks ==
  ASSUME NEW t, Good(t), Bounds(t)
  PROVE  Marks(t, ResetEmulator(t))
<1> DEFINE off == FALSE
           flagged == [t EXCEPT !.originMode = off]
           plain == SetMargins(flagged, 0, t.height - 1)
           cleared == ClearAlternate(plain)
           main == SetBuffer(cleared, 0)
           saved == [y |-> 0, origin |-> FALSE]
           end == [main EXCEPT !.saved = saved]
<1>0. ResetEmulator(t) = end
  BY DEF ResetEmulator
<1>1. t.height \in Nat \ {0} /\ 0 \in 0 .. 1
  BY MarksSelf
<1>2. off \in BOOLEAN
  OBVIOUS
<1> HIDE DEF off
<1>3. Marks(t, flagged)
  BY <1>2, ModeMarks
<1> HIDE DEF flagged
<1>4. Good(flagged) /\ Bounds(flagged) /\ flagged.height = t.height
  BY <1>3, MarksGood
<1>5. 0 \in 0 .. flagged.height - 1 /\ t.height - 1 \in 0 .. flagged.height - 1 /\ 0 <= t.height - 1
  BY <1>1, <1>4
<1>6. Marks(flagged, plain)
  BY <1>4, <1>5, MarginMarks
<1> HIDE DEF plain
<1>7. Marks(plain, cleared)
  BY <1>6, MarksGood, ClearAlternateMarks
<1> HIDE DEF cleared
<1>8. Marks(cleared, main)
  BY <1>1, <1>7, MarksGood, SwitchMarks
<1> HIDE DEF main
<1>9. Marks(t, main)
  BY <1>3, <1>6, <1>7, <1>8, MarksTrans
<1>10. Leads(t, end)
  BY <1>0, ResetEmulatorFacts
<1>11. Notes(main, end)
  <2>1. Quiet(main, end) /\ Bounds(main)
    BY <1>9, MarksGood, QuietFields
  <2> HIDE DEF end
  <2> QED BY <2>1, QuietNotes
<1> HIDE DEF end
<1> QED BY <1>0, <1>9, <1>10, <1>11, NotesTrans DEF Marks

LEMMA ClearScreenMarks ==
  ASSUME NEW t, Good(t), Bounds(t)
  PROVE  Marks(t, ClearScreen(t))
<1> DEFINE set == SetMargins(t, 0, t.height - 1)
           home == MoveTo(set, 0)
           ys == 0 .. t.height - 1
           end == EraseRows(home, ys)
<1>0. ClearScreen(t) = end
  BY DEF ClearScreen
<1>1. t.height \in Nat \ {0}
  BY MarksSelf
<1>2. 0 \in 0 .. t.height - 1 /\ t.height - 1 \in 0 .. t.height - 1 /\ 0 <= t.height - 1 /\ 0 \in Int
  BY <1>1
<1>3. Marks(t, set)
  BY <1>2, MarginMarks
<1> HIDE DEF set
<1>4. Marks(set, home)
  BY <1>2, <1>3, MarksGood, MoveMarks
<1> HIDE DEF home
<1>5. Good(home) /\ Bounds(home) /\ home.height = t.height
  BY <1>3, <1>4, MarksGood
<1>6. ys \subseteq 0 .. home.height - 1
  BY <1>5
<1> HIDE DEF ys
<1>7. Marks(home, end)
  BY <1>5, <1>6, EraseRowsMarks
<1> HIDE DEF end
<1> QED BY <1>0, <1>3, <1>4, <1>7, MarksTrans

\* An event begins with nothing noted.
LEMMA ResetEventsNotes ==
  ASSUME NEW t, Good(t)
  PROVE  /\ Bounds(ResetEvents(t)) /\ Good(ResetEvents(t)) /\ ResetEvents(t).height = t.height
         /\ \A k \in 0 .. 1 : /\ ResetEvents(t).buf[k] = ResetEventState(t.buf[k])
                              /\ ResetEvents(t).buf[k].changed = {}
<1>1. t \in Terminals /\ t.buf \in [0 .. 1 -> BufferTypes] /\ Leads(t, ResetEvents(t))
  BY ScreenFacts, ResetEventsFacts DEF Good, Terminals
<1>2. ASSUME NEW k \in 0 .. 1
      PROVE  ResetEvents(t).buf[k] = ResetEventState(t.buf[k]) /\ ResetEvents(t).buf[k].changed = {}
  <2>1. ResetEvents(t).buf[k] = ResetEventState(t.buf[k])
    BY <1>1 DEF ResetEvents, Terminals
  <2>2. t.buf[k] \in BufferTypes
    BY <1>1
  <2>3. ResetEventState(t.buf[k]).changed = {}
    BY <2>2 DEF ResetEventState, BufferTypes
  <2> QED BY <2>1, <2>3
<1> QED BY <1>1, <1>2 DEF Leads, Bounds, Bounded

\* The terminal's own fields change when it gets another height, its buffers do not.
LEMMA SetHeightQuiet ==
  ASSUME NEW s, "buf" \in DOMAIN s, "height" \in DOMAIN s, NEW height, NEW added
  PROVE  SetHeight(s, height, added).buf = s.buf /\ SetHeight(s, height, added).height = height
<1> DEFINE below == s.height - 1 - s.bottom
           fits == s.top + below + 1 < height
           sized == [s EXCEPT !.y = IF height > s.height THEN @ + (height - s.height - added) ELSE @,
                              !.height = height,
                              !.top = IF fits THEN @ ELSE 0,
                              !.bottom = IF fits THEN height - 1 - below ELSE height - 1]
           u == [MoveToEnd(sized) EXCEPT !.y = Clamp(@, sized.top, sized.bottom)]
<1>1. SetHeight(s, height, added) = RowUpdate(u)
  BY DEF SetHeight
<1> HIDE DEF below, fits
<1>2. "buf" \in DOMAIN sized /\ "height" \in DOMAIN sized /\ sized.buf = s.buf /\ sized.height = height
  OBVIOUS
<1> HIDE DEF sized
<1>3. "buf" \in DOMAIN u /\ "height" \in DOMAIN u /\ u.buf = s.buf /\ u.height = height
  BY <1>2 DEF MoveToEnd
<1> HIDE DEF u
<1>4. RowUpdate(u).buf = u.buf /\ RowUpdate(u).height = u.height
  BY <1>3 DEF RowUpdate
<1> QED BY <1>1, <1>3, <1>4

LEMMA SetSizeNotes ==
  ASSUME NEW t, Good(t), \A k \in 0 .. 1 : t.buf[k].changed = {}, NEW height, height \in Nat \ {0}
  PROVE  LET u == SetSize(t, height)
         IN /\ Bounds(u) /\ u.height = height
            /\ \A k \in 0 .. 1 : Tracked(t.buf[k], u.buf[k]) \/ Forgets(t.buf[k], height)
<1> DEFINE maxChop == IF t.cur = 1 THEN 0 ELSE t.height - 1 - t.y
           main == SetScreenHeight(t.buf[0], height, maxChop)
           alt == SetScreenHeight(t.buf[1], height, 0)
           fitted(k) == IF t.buf[k].cap < height
                        THEN SetCapacity(t.buf[k], CapacityFor(t.buf[k].cap, height)) ELSE t.buf[k]
           added == LinesAdded(fitted(t.cur), height)
           sized == [t EXCEPT !.buf[0] = main, !.buf[1] = alt]
           u == SetSize(t, height)
<1>1. /\ t \in Terminals /\ t.height \in Nat \ {0} /\ t.y \in Nat /\ t.y < t.height
      /\ \A k \in 0 .. 1 : Sound(t.buf[k])
  BY ScreenFacts DEF Good, Poised, Framed
<1>2. Bounds(t)
  BY DEF Bounds, Bounded
<1>3. CASE t.height = height
  <2>1. u = t
    BY <1>3 DEF SetSize
  <2> QED BY <1>2, <1>3, <2>1, TrackedSelf DEF Bounds
<1>4. CASE t.height # height
  <2>1. u = SetHeight(sized, height, added)
    BY <1>4 DEF SetSize
  <2>2. maxChop \in Nat /\ 0 \in Nat
    BY <1>1
  <2> HIDE DEF maxChop, added, u
  <2>3. /\ Bounded(main) /\ Bounded(alt)
        /\ ~Forgets(t.buf[0], height) => Tracked(t.buf[0], main)
        /\ ~Forgets(t.buf[1], height) => Tracked(t.buf[1], alt)
    BY <1>1, <2>2, SetScreenHeightTracked
  <2> HIDE DEF main, alt
  <2>4. /\ "buf" \in DOMAIN sized /\ "height" \in DOMAIN sized
        /\ sized.buf[0] = main /\ sized.buf[1] = alt
    BY <1>1 DEF Terminals
  <2> HIDE DEF sized
  <2>5. u.buf = sized.buf /\ u.height = height
    BY <2>1, <2>4, SetHeightQuiet
  <2>6. \A k \in 0 .. 1 : Bounded(u.buf[k]) /\ (Tracked(t.buf[k], u.buf[k]) \/ Forgets(t.buf[k], height))
    BY <2>3, <2>4, <2>5
  <2> QED BY <2>5, <2>6 DEF Bounds, u
<1> QED BY <1>3, <1>4

-----------------------------------------------------------------------------
(* The specification *)

(* What a step does to the buffers is noted. *)
Telling ==
  \A k \in 0 .. 1 :
    LET b == IF arrived' THEN ResetEventState(term.buf[k]) ELSE term.buf[k]
    IN Noted(b, term.buf[k]') \/ Forgets(b, term.height')
Told == Bounds(term)' /\ Telling

LEMMA TrackedNoted ==
  ASSUME NEW b, NEW c, Tracked(b, c)
  PROVE  Noted(b, c)
  BY DEF Tracked, Shown, Tells, Noted

LEMMA StepTold ==
  ASSUME NEW t, Marks(term, t), Step(t)
  PROVE  Told
<1>1. term' = t /\ arrived' = FALSE
  BY DEF Step, Becomes
<1>2. \A k \in 0 .. 1 : Noted(term.buf[k], t.buf[k])
  BY TrackedNoted DEF Marks, Notes
<1>3. Bounds(t)
  BY MarksGood
<1>4. Bounds(term)'
  BY <1>1, <1>3
<1> QED BY <1>1, <1>2, <1>4 DEF Told, Telling

LEMMA ArriveTold ==
  ASSUME Good(term), NEW t, Marks(ResetEvents(term), t), Arrive(t)
  PROVE  Told
<1>1. term' = t /\ arrived' = TRUE
  BY DEF Arrive, Becomes
<1>2. \A k \in 0 .. 1 : Noted(ResetEventState(term.buf[k]), t.buf[k])
  BY ResetEventsNotes, TrackedNoted DEF Marks, Notes
<1>3. Bounds(t)
  BY MarksGood
<1>4. Bounds(term)'
  BY <1>1, <1>3
<1> QED BY <1>1, <1>2, <1>4 DEF Told, Telling

LEMMA InitiallyBounded ==
  ASSUME Init
  PROVE  Bounds(term)
<1>1. PICK h \in Heights, cap \in Caps :
        term = [buf |-> [k \in 0 .. 1 |-> IF k = 0 THEN NewBuffer(h, LargerOf(cap, 2), FALSE)
                                          ELSE NewBuffer(h, 1, TRUE)],
                cur |-> 0, height |-> h, top |-> 0, bottom |-> h - 1,
                offset |-> 0, y |-> 0, stay |-> FALSE, origin |-> 0, originMode |-> FALSE,
                saved |-> [y |-> 0, origin |-> FALSE], row |-> <<0, 1>>, next |-> None]
  BY DEF Init
<1>2. \A n, cap1, b : NewBuffer(n, cap1, b).changed = {}
  BY DEF NewBuffer
<1>3. \A k \in 0 .. 1 : term.buf[k].changed = {}
  BY <1>1, <1>2
<1> QED BY <1>3 DEF Bounds, Bounded

LEMMA NextTold ==
  ASSUME IInv, Bounds(term), Next
  PROVE  Told
<1>0. Good(term) /\ Poised(term) /\ Marks(term, term)
  BY MarksSelf DEF IInv, Good
<1>s. \A t : Marks(term, t) /\ Step(t) => Told
  BY StepTold
<1>t. Texts \subseteq Nat
  BY ScreenAssumption DEF ScreenAssumption
<1>1. ASSUME NEW text \in Texts, Printable(text) PROVE Told
  <2>1. text \in Nat
    BY <1>t
  <2>2. CASE Step(WriteCell(term, text))
    BY <1>0, <1>s, <2>1, <2>2, WriteCellMarks
  <2>3. CASE Step(WriteCell(RowUpdate(term), text))
    <3>1. 0 \in Int
      OBVIOUS
    <3>2. Marks(term, RowUpdate(term))
      BY <1>0, <3>1, MoveMarks
    <3>3. Marks(RowUpdate(term), WriteCell(RowUpdate(term), text))
      BY <2>1, <3>2, MarksGood, WriteCellMarks
    <3> QED BY <1>s, <2>3, <3>2, <3>3, MarksTrans
  <2> QED BY <1>1, <2>2, <2>3 DEF Printable
<1>2. ASSUME NEW text \in Texts, PrintWrapped(text) PROVE Told
  <2> DEFINE down == IF term.y = term.bottom THEN ScrollUp(term) ELSE MoveBy(term, 1)
             taken == TakeRow(Cur(down), CursorRow(down))
             marked == WithCur(down, WithCont(taken, CursorRow(down), TRUE))
  <2>1. text \in Nat
    BY <1>t
  <2>2. Marks(term, down)
    BY <1>0, ScrollMarks
  <2>3. Step(WriteCell(marked, text))
    BY <1>2 DEF PrintWrapped, WithCont
  <2> HIDE DEF down
  <2>4. Marks(down, marked)
    BY <2>2, MarksGood, MarkedMarks
  <2> HIDE DEF marked
  <2>5. Marks(marked, WriteCell(marked, text))
    BY <2>1, <2>4, MarksGood, WriteCellMarks
  <2>6. Marks(term, WriteCell(marked, text))
    BY <2>2, <2>4, <2>5, MarksTrans
  <2> QED BY <1>s, <2>3, <2>6
<1>3. ASSUME Feed \/ ReverseFeed PROVE Told
  BY <1>0, <1>3, <1>s, ScrollMarks DEF Feed, ReverseFeed
<1>4. ASSUME CursorUp \/ CursorDown PROVE Told
  BY <1>0, <1>4, <1>s, ScrollMarks DEF CursorUp, CursorDown
<1>5. ASSUME CursorPosition \/ CursorVerticalAbsolute PROVE Told
  <2>1. PICK y \in 0 .. term.height - 1 : Step(MoveTo(term, y)) \/ Step(MoveY(term, y + term.origin, TRUE))
    BY <1>5 DEF CursorPosition, CursorVerticalAbsolute
  <2>2. y \in Int
    OBVIOUS
  <2>3. Marks(term, MoveTo(term, y)) /\ Marks(term, MoveY(term, y + term.origin, TRUE))
    BY <1>0, <2>2, MoveMarks, VerticalMarks
  <2> QED BY <1>s, <2>1, <2>3
<1>6. ASSUME CmdSaveCursor \/ CmdRestoreCursor PROVE Told
  <2>1. 0 \in Int
    OBVIOUS
  <2>2. Marks(term, SaveCursor(term)) /\ Marks(term, RestoreCursor(term))
    BY <1>0, <2>1, MoveMarks
  <2> QED BY <1>6, <1>s, <2>2 DEF CmdSaveCursor, CmdRestoreCursor
<1>7. ASSUME InsertLines \/ DeleteLines \/ CmdScrollUp \/ CmdScrollDown PROVE Told
  BY <1>0, <1>7, <1>s, ScrollMarks DEF InsertLines, DeleteLines, CmdScrollUp, CmdScrollDown
<1>8. ASSUME EraseInLine PROVE Told
  <2>1. CASE Step(EraseRow(term, term.y))
    <3>1. term.y \in 0 .. term.height - 1
      BY <1>0, ScreenFacts
    <3> QED BY <1>0, <1>s, <2>1, <3>1, EraseRowMarks
  <2>2. ASSUME NEW text \in Parts(term),
               Step(SetText(WithCur(term, TakeRow(Cur(term), CursorRow(term))), text))
        PROVE  Told
    <3> DEFINE b == TakeRow(Cur(term), CursorRow(term))
    <3>1. text \in Nat
      BY <1>0, PartsFacts
    <3>2. b \in {TakeRow(Cur(term), CursorRow(term)), TouchRow(Cur(term), CursorRow(term))}
      OBVIOUS
    <3>3. Marks(term, SetText(WithCur(term, b), text))
      BY <1>0, <3>1, <3>2, TakenMarks, Zenon
    <3> QED BY <1>s, <2>2, <3>3
  <2> QED BY <1>8, <2>1, <2>2 DEF EraseInLine
<1>9. ASSUME EraseBelow PROVE Told
  <2> DEFINE ys == term.y + 1 .. term.height - 1
             below == EraseRows(term, ys)
             b == TouchRow(Cur(below), CursorRow(below))
  <2>1. term.y \in Nat /\ term.height \in Nat
    BY <1>0, ScreenFacts
  <2>2. ys \subseteq 0 .. term.height - 1
    BY <2>1
  <2>3. PICK text \in Parts(term) :
          Step(SetText(WithCur(below, TouchRow(Cur(below), CursorRow(term))), text))
    BY <1>9 DEF EraseBelow
  <2> HIDE DEF ys
  <2>4. Stays(term, below) /\ Marks(term, below) /\ text \in Nat
    BY <1>0, <2>2, EraseRowsFacts, EraseRowsMarks, PartsFacts
  <2> HIDE DEF below
  <2>5. CursorRow(below) = CursorRow(term) /\ Good(below) /\ Bounds(below)
    BY <2>4, MarksGood DEF CursorRow, Stays
  <2>6. b \in {TakeRow(Cur(below), CursorRow(below)), TouchRow(Cur(below), CursorRow(below))}
    OBVIOUS
  <2>7. Step(SetText(WithCur(below, b), text))
    BY <2>3, <2>5
  <2>8. Marks(below, SetText(WithCur(below, b), text))
    BY <2>4, <2>5, <2>6, TakenMarks, Zenon
  <2> QED BY <1>s, <2>4, <2>7, <2>8, MarksTrans
<1>10. ASSUME EraseAbove PROVE Told
  <2> DEFINE above == ErasedAbove(term, term.y)[term.y]
             b == TakeRow(Cur(above), CursorRow(above))
  <2>1. term.y \in Nat /\ term.y <= term.height
    BY <1>0, ScreenFacts
  <2>3. PICK text \in Parts(term) :
          Step(SetText(WithCur(above, TakeRow(Cur(above), CursorRow(term))), text))
    BY <1>10 DEF EraseAbove
  <2>4. Stays(term, above) /\ Marks(term, above) /\ text \in Nat
    BY <1>0, <2>1, ErasedAboveMarks, PartsFacts
  <2> HIDE DEF above
  <2>5. CursorRow(above) = CursorRow(term) /\ Good(above) /\ Bounds(above)
    BY <2>4, MarksGood DEF CursorRow, Stays
  <2>6. b \in {TakeRow(Cur(above), CursorRow(above)), TouchRow(Cur(above), CursorRow(above))}
    OBVIOUS
  <2>7. Step(SetText(WithCur(above, b), text))
    BY <2>3, <2>5
  <2>8. Marks(above, SetText(WithCur(above, b), text))
    BY <2>4, <2>5, <2>6, TakenMarks, Zenon
  <2> QED BY <1>s, <2>4, <2>7, <2>8, MarksTrans
<1>11. ASSUME EraseAll PROVE Told
  <2> DEFINE ys == 0 .. term.height - 1
  <2>1. ys \subseteq 0 .. term.height - 1
    OBVIOUS
  <2>2. Marks(term, EraseRows(term, ys))
    BY <1>0, <2>1, EraseRowsMarks
  <2> QED BY <1>11, <1>s, <2>2 DEF EraseAll
<1>12. ASSUME EraseScrollback PROVE Told
  BY <1>0, <1>12, <1>s, MainBufferMarks DEF EraseScrollback
<1>13. ASSUME SetTopBottomMargins PROVE Told
  <2>1. PICK top, bottom \in 0 .. term.height - 1 :
          top < bottom /\ Step(MoveTo(SetMargins(term, top, bottom), 0))
    BY <1>13 DEF SetTopBottomMargins
  <2> DEFINE u == SetMargins(term, top, bottom)
  <2>2. top <= bottom /\ 0 \in Int
    BY <2>1
  <2>3. Marks(term, u)
    BY <1>0, <2>2, MarginMarks
  <2>4. Marks(u, MoveTo(u, 0))
    BY <2>2, <2>3, MarksGood, MoveMarks
  <2> QED BY <1>s, <2>1, <2>3, <2>4, MarksTrans
<1>14. ASSUME NEW on \in BOOLEAN, SetOriginMode(on) PROVE Told
  <2> DEFINE u == [term EXCEPT !.originMode = on]
  <2>1. Marks(term, u)
    BY <1>0, ModeMarks
  <2>2. Step(SetStayWithinMargins(u, on))
    BY <1>14 DEF SetOriginMode
  <2> HIDE DEF u
  <2>3. Marks(u, SetStayWithinMargins(u, on))
    BY <2>1, MarksGood, ModeMarks
  <2> QED BY <1>s, <2>1, <2>2, <2>3, MarksTrans
<1>15. ASSUME NEW on \in BOOLEAN, AltScreen(on) PROVE Told
  <2> DEFINE k == IF on THEN 1 ELSE 0
  <2>1. k \in 0 .. 1
    OBVIOUS
  <2>2. Step(SetBuffer(term, k))
    BY <1>15 DEF AltScreen
  <2> HIDE DEF k
  <2> QED BY <1>0, <1>s, <2>1, <2>2, SwitchMarks
<1>16. ASSUME AltScreenCleared PROVE Told
  <2> DEFINE u == IF term.cur = 1 THEN ClearAlternate(term) ELSE term
  <2>1. Marks(term, u)
    BY <1>0, ClearAlternateMarks
  <2>2. Step(SetBuffer(u, 0)) /\ 0 \in 0 .. 1
    BY <1>16 DEF AltScreenCleared
  <2> HIDE DEF u
  <2>3. Marks(u, SetBuffer(u, 0))
    BY <2>1, <2>2, MarksGood, SwitchMarks
  <2> QED BY <1>s, <2>1, <2>2, <2>3, MarksTrans
<1>17. ASSUME AltScreenSaved PROVE Told
  <2> DEFINE s == SaveCursor(term)
             u == ClearAlternate(s)
  <2>1. Marks(term, s)
    <3>1. 0 \in Int
      OBVIOUS
    <3> QED BY <1>0, <3>1, MoveMarks
  <2>2. Step(SetBuffer(u, 1)) /\ 1 \in 0 .. 1
    BY <1>17 DEF AltScreenSaved
  <2> HIDE DEF s
  <2>3. Marks(s, u)
    BY <2>1, MarksGood, ClearAlternateMarks
  <2> HIDE DEF u
  <2>4. Marks(u, SetBuffer(u, 1))
    BY <2>2, <2>3, MarksGood, SwitchMarks
  <2> QED BY <1>s, <2>1, <2>2, <2>3, <2>4, MarksTrans
<1>18. ASSUME AltScreenRestored PROVE Told
  <2> DEFINE u == SetBuffer(term, 0)
  <2>1. 0 \in 0 .. 1 /\ 0 \in Int
    OBVIOUS
  <2>2. Marks(term, u)
    BY <1>0, <2>1, SwitchMarks
  <2>3. Step(RestoreCursor(u))
    BY <1>18 DEF AltScreenRestored
  <2> HIDE DEF u
  <2>4. Marks(u, RestoreCursor(u))
    BY <2>1, <2>2, MarksGood, MoveMarks
  <2> QED BY <1>s, <2>2, <2>3, <2>4, MarksTrans
<1>19. ASSUME CmdResetEmulator PROVE Told
  <2> DEFINE u == ResetEmulator(term)
  <2>1. Marks(term, u)
    BY <1>0, ResetEmulatorMarks
  <2>2. Step(ClearScreen(u))
    BY <1>19 DEF CmdResetEmulator
  <2> HIDE DEF u
  <2>3. Marks(u, ClearScreen(u))
    BY <2>1, MarksGood, ClearScreenMarks
  <2> QED BY <1>s, <2>1, <2>2, <2>3, MarksTrans
<1> DEFINE fresh == ResetEvents(term)
<1>20. Good(fresh) /\ Bounds(fresh) /\ \A t : Marks(fresh, t) /\ Arrive(t) => Told
  BY <1>0, ResetEventsNotes, ArriveTold
<1>a. Marks(fresh, fresh)
  BY <1>20, MarksSelf
<1>21. ASSUME TermEvent PROVE Told
  BY <1>20, <1>21, <1>a DEF TermEvent
<1>22. ASSUME NEW flags \in SUBSET {"emulator", "scrollback", "screen"}, TermReset(flags) PROVE Told
  <2> DEFINE plain == IF "emulator" \in flags THEN ResetEmulator(fresh) ELSE fresh
             cleared == IF "scrollback" \in flags THEN ClearScrollbackNow(plain) ELSE plain
             end == IF "screen" \in flags THEN ClearScreen(cleared) ELSE cleared
  <2>1. Arrive(end)
    BY <1>22 DEF TermReset
  <2> HIDE DEF fresh
  <2>2. Marks(fresh, plain)
    BY <1>20, <1>a, ResetEmulatorMarks
  <2> HIDE DEF plain
  <2>3. Marks(plain, cleared)
    BY <2>2, MarksGood, MainBufferMarks, MarksSelf
  <2> HIDE DEF cleared
  <2>4. Marks(cleared, end)
    BY <2>3, MarksGood, ClearScreenMarks, MarksSelf
  <2> HIDE DEF end
  <2>5. Marks(fresh, end)
    BY <2>2, <2>3, <2>4, MarksTrans
  <2> QED BY <1>20, <2>1, <2>5
<1>23. ASSUME NEW height \in Heights, TermResize(height) PROVE Told
  <2> DEFINE u == SetSize(fresh, height)
  <2>1. height \in Nat \ {0}
    BY ScreenAssumption DEF ScreenAssumption
  <2>2. term' = u /\ arrived' = TRUE
    BY <1>23 DEF TermResize, Arrive, Becomes
  <2>3. \A k \in 0 .. 1 : fresh.buf[k] = ResetEventState(term.buf[k]) /\ fresh.buf[k].changed = {}
    BY <1>0, ResetEventsNotes
  <2> HIDE DEF fresh
  <2>4. /\ Bounds(u) /\ u.height = height
        /\ \A k \in 0 .. 1 : Tracked(fresh.buf[k], u.buf[k]) \/ Forgets(fresh.buf[k], height)
    BY <1>20, <2>1, <2>3, SetSizeNotes
  <2> HIDE DEF u
  <2>5. \A k \in 0 .. 1 : \/ Noted(ResetEventState(term.buf[k]), u.buf[k])
                          \/ Forgets(ResetEventState(term.buf[k]), u.height)
    BY <2>3, <2>4, TrackedNoted
  <2>6. Bounds(term)'
    BY <2>2, <2>4
  <2> QED BY <2>2, <2>5, <2>6 DEF Told, Telling
<1>24. ASSUME NEW cap \in Caps, TermBufferResize(cap) PROVE Told
  <2>1. cap \in Nat \ {0}
    BY ScreenAssumption DEF ScreenAssumption
  <2>2. Arrive(BufferResize(fresh, cap))
    BY <1>24 DEF TermBufferResize
  <2> HIDE DEF fresh
  <2> QED BY <1>20, <2>1, <2>2, MainBufferMarks
<1> QED
  BY <1>1, <1>2, <1>3, <1>4, <1>5, <1>6, <1>7, <1>8, <1>9, <1>10, <1>11, <1>12, <1>13, <1>14, <1>15,
     <1>16, <1>17, <1>18, <1>19, <1>21, <1>22, <1>23, <1>24 DEF Next

(* A row of the screen that is written, moved or revealed is among the     *)
(* rows to send, and a new length or capacity is reported, in every event  *)
(* of every behaviour, except for the rows a much taller screen reveals    *)
(* (buffer.cpp:345).                                                       *)
THEOREM ChangesAreNoted == Spec => ChangesNoted
<1>1. Init => Bounds(term)
  BY InitiallyBounded
<1>2. IInv /\ Bounds(term) /\ [Next]_vars => Bounds(term)'
  <2>1. IInv /\ Bounds(term) /\ Next => Bounds(term)'
    BY NextTold DEF Told
  <2>2. Bounds(term) /\ UNCHANGED vars => Bounds(term)'
    BY DEF vars
  <2> QED BY <2>1, <2>2
<1>3. IInv /\ Bounds(term) /\ [Next]_vars =>
        [\A k \in 0 .. 1 :
           LET b == IF arrived' THEN ResetEventState(term.buf[k]) ELSE term.buf[k]
           IN Noted(b, term.buf[k]') \/ Forgets(b, term.height')]_vars
  BY NextTold DEF Told, Telling
<1> QED BY <1>1, <1>2, <1>3, Invariance, PTL DEF Spec, ChangesNoted
=============================================================================
