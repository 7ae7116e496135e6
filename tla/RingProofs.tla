----------------------------- MODULE RingProofs -----------------------------
(***************************************************************************)
(* Proofs that the main buffer's ring of rows is a list of lines, for any  *)
(* heights, capacities and sequences of operations (Screen's RingIsList).  *)
(* Ring(b) says that b's ring can be read as a list, Lines(b); Wiped,      *)
(* Edited, Scrolled, Shuffled and Cut say what an operation has done to    *)
(* it, and compose.  First a lemma for each operation of a buffer and what *)
(* it is in the list, then one for each operation of the screen, and then  *)
(* one case for each handler.  The second half proves that the regions     *)
(* kept beside those rows are sound (MCMarks' RegionsTrue).                *)
(***************************************************************************)
EXTENDS ScreenProofs, MCMarks

(* The ring as a list *)

Text(b, i) == Row(b, i).text

(* The rows that have a place in the ring, the chopped ones included. *)
Live(b) == First(b) .. b.realsize - 1

(* The ring keeps its screen. *)
Full(b) == First(b) <= b.size - b.height

(* The rows that were chopped are empty. *)
Bare(b) == \A i \in b.size .. b.realsize - 1 : Text(b, i) = 0
Ring(b) == Sound(b) /\ ~b.noScroll /\ Full(b) /\ Bare(b)

Lines(b) == [i \in 1 .. Cardinality(Kept(b)) |-> Text(b, First(b) + i - 1)]

LEMMA Measures ==
  ASSUME NEW b, Sound(b)
  PROVE  /\ b.size \in Nat /\ b.realsize \in Nat /\ b.cap \in Nat \ {0} /\ b.height \in Nat \ {0}
         /\ b.rows \in Seq(RowTypes) /\ Len(b.rows) \in Nat
         /\ b.height <= b.size /\ b.size <= b.realsize /\ b.height <= b.cap
         /\ Len(b.rows) = (IF b.realsize < b.cap THEN b.realsize ELSE b.cap)
         /\ First(b) = (IF b.realsize > b.cap THEN b.realsize - b.cap ELSE 0)
         /\ First(b) \in Nat /\ First(b) <= b.realsize
<1>1. /\ b.size \in Nat /\ b.realsize \in Nat /\ b.cap \in Nat \ {0} /\ b.height \in Nat \ {0}
      /\ b.rows \in Seq(RowTypes) /\ Len(b.rows) \in Nat
      /\ b.height <= b.size /\ b.size <= b.realsize /\ b.height <= b.cap
      /\ Len(b.rows) = (IF b.realsize < b.cap THEN b.realsize ELSE b.cap)
  BY DEF Sound, BufferTypes, SmallerOf
<1>2. First(b) = IF b.realsize > b.cap THEN b.realsize - b.cap ELSE 0
  BY <1>1 DEF First, LargerOf
<1> QED BY <1>1, <1>2

\* Every row from the first one on has a place of its own.
LEMMA Places ==
  ASSUME NEW b, Sound(b), NEW i, i \in Live(b)
  PROVE  /\ i \in Nat /\ Held(b, i) /\ Slot(b, i) \in 1 .. Len(b.rows) /\ Text(b, i) \in Nat
         /\ \A j \in Live(b) : Slot(b, j) = Slot(b, i) => j = i
<1>1. i \in Nat /\ Held(b, i)
  BY Measures DEF Live, Held
<1>2. Slot(b, i) \in 1 .. Len(b.rows) /\ Text(b, i) \in Nat
  BY <1>1, SlotHeld, RowHeld DEF Text
<1>3. ASSUME NEW j \in Live(b), j # i PROVE Slot(b, j) # Slot(b, i)
  <2>1. j \in Nat /\ (i < j \/ j < i) /\ j - i < b.cap /\ i - j < b.cap
    BY <1>1, <1>3, Measures DEF Live
  <2> QED BY <1>1, <2>1, SlotsApart
<1> QED BY <1>1, <1>2, <1>3

LEMMA ScreenLive ==
  ASSUME NEW b, Sound(b), Full(b)
  PROVE  Screen(b) \subseteq Live(b)
  BY Measures DEF Screen, Live, Full

\* c is b with other texts in the rows of D.
Only(b, c, D) == Moved(b, c) /\ \A i \in Live(b) \ D : Text(c, i) = Text(b, i)

\* c is b with rows of the screen emptied.
Wiped(b, c) ==
  /\ Moved(b, c)
  /\ \A i \in Live(b) : Text(c, i) = Text(b, i) \/ (Text(c, i) = 0 /\ i \in Screen(b))

LEMMA MovedSame ==
  ASSUME NEW b, NEW c, Moved(b, c)
  PROVE  /\ Sound(c) /\ c.size = b.size /\ c.realsize = b.realsize /\ c.cap = b.cap
         /\ c.height = b.height /\ c.noScroll = b.noScroll /\ c.lost = b.lost
         /\ First(c) = First(b) /\ Live(c) = Live(b) /\ Screen(c) = Screen(b)
         /\ (Full(c) <=> Full(b)) /\ \A i : Slot(c, i) = Slot(b, i)
  BY DEF Moved, Alike, First, Live, Screen, Full, Slot

LEMMA OnlyTrans ==
  ASSUME NEW a, NEW b, NEW c, NEW D, NEW E, Only(a, b, D), Only(b, c, E)
  PROVE  Only(a, c, D \cup E)
<1>1. Live(b) = Live(a) /\ Moved(a, c)
  BY MovedSame, AlikeTrans DEF Only, Moved
<1> QED BY <1>1 DEF Only

LEMMA WipedTrans ==
  ASSUME NEW a, NEW b, NEW c, Wiped(a, b), Wiped(b, c)
  PROVE  Wiped(a, c)
<1>1. Live(b) = Live(a) /\ Screen(b) = Screen(a) /\ Moved(a, c)
  BY MovedSame, AlikeTrans DEF Wiped, Moved
<1> QED BY <1>1 DEF Wiped

LEMMA WipedOnly ==
  ASSUME NEW b, NEW c, NEW D, Only(b, c, D), D \subseteq Screen(b), \A i \in D : Text(c, i) = 0
  PROVE  Wiped(b, c)
  BY DEF Only, Wiped

LEMMA WipedSelf ==
  ASSUME NEW b, Sound(b)
  PROVE  Wiped(b, b) /\ Only(b, b, {}) /\ Moved(b, b)
  BY AlikeSelf DEF Wiped, Only, Moved

LEMMA OnlyRing ==
  ASSUME NEW b, Ring(b), NEW c, NEW D, Only(b, c, D), D \subseteq Screen(b)
  PROVE  Ring(c)
<1>1. /\ Sound(c) /\ c.size = b.size /\ c.realsize = b.realsize /\ ~c.noScroll /\ Full(c)
  BY MovedSame DEF Only, Ring
<1>2. ASSUME NEW i \in b.size .. b.realsize - 1 PROVE i \in Live(b) \ D
  BY Measures DEF Ring, Live, Screen, Full
<1>3. Bare(c)
  BY <1>1, <1>2 DEF Bare, Ring, Only
<1> QED BY <1>1, <1>3 DEF Ring

LEMMA WipedRing ==
  ASSUME NEW b, Ring(b), NEW c, Wiped(b, c)
  PROVE  Ring(c)
<1>1. /\ Sound(c) /\ c.size = b.size /\ c.realsize = b.realsize /\ ~c.noScroll /\ Full(c)
  BY MovedSame DEF Wiped, Ring
<1>2. ASSUME NEW i \in b.size .. b.realsize - 1 PROVE i \in Live(b)
  BY Measures DEF Ring, Live, Screen, Full
<1>3. Bare(c)
  BY <1>1, <1>2 DEF Bare, Ring, Wiped
<1> QED BY <1>1, <1>3 DEF Ring

\* One row is given what it held before its screen was wiped, or nothing.
LEMMA WipedText ==
  ASSUME NEW a, NEW b, NEW c, NEW i, Wiped(a, b), Only(b, c, {i}), i \in Screen(a),
         Text(c, i) \in {0, Text(a, i)}
  PROVE  Wiped(a, c)
<1>1. Live(b) = Live(a) /\ Moved(a, c)
  BY MovedSame, AlikeTrans DEF Wiped, Only, Moved
<1> QED BY <1>1 DEF Wiped, Only

\* What is written goes to the places of D.
LEMMA OnlySlots ==
  ASSUME NEW b, Sound(b), NEW c, Moved(b, c), NEW D, D \subseteq Live(b),
         \A s \in 1 .. Len(b.rows) :
           c.rows[s].text = b.rows[s].text \/ \E i \in D : Slot(b, i) = s
  PROVE  Only(b, c, D)
<1> SUFFICES ASSUME NEW i \in Live(b), i \notin D PROVE Text(c, i) = Text(b, i)
  BY DEF Only
<1>1. Slot(b, i) \in 1 .. Len(b.rows) /\ \A j \in D : Slot(b, j) # Slot(b, i)
  BY Places
<1>2. c.rows[Slot(b, i)].text = b.rows[Slot(b, i)].text
  BY <1>1
<1> QED BY <1>2, MovedSame DEF Text, Row
-----------------------------------------------------------------------------
(* The lines of a ring *)

LEMMA LinesFacts ==
  ASSUME NEW b, Sound(b), Full(b)
  PROVE  /\ Lines(b) \in Seq(Nat) /\ Len(Lines(b)) = b.size - First(b)
         /\ b.height <= Len(Lines(b)) /\ Len(Lines(b)) <= b.cap
         /\ \A j \in 1 .. b.size - First(b) :
              First(b) + j - 1 \in Live(b) /\ Lines(b)[j] = Text(b, First(b) + j - 1)
<1>1. /\ b.size \in Nat /\ b.realsize \in Nat /\ b.cap \in Nat \ {0} /\ b.height \in Nat \ {0}
      /\ b.height <= b.size /\ b.size <= b.realsize
      /\ First(b) = (IF b.realsize > b.cap THEN b.realsize - b.cap ELSE 0)
      /\ First(b) \in Nat /\ First(b) <= b.size - b.height
  BY Measures DEF Full
<1>2. Cardinality(Kept(b)) = b.size - First(b)
  <2>1. First(b) \in Int /\ b.size - 1 \in Int
    BY <1>1
  <2>2. Cardinality(Kept(b)) = IF First(b) > b.size - 1 THEN 0 ELSE (b.size - 1) - First(b) + 1
    BY <2>1, FS_Interval DEF Kept
  <2> QED BY <1>1, <2>2
<1> DEFINE n == b.size - First(b)
<1>3. n \in Nat /\ b.height <= n /\ n <= b.cap
  BY <1>1
<1>4. Lines(b) = [j \in 1 .. n |-> Text(b, First(b) + j - 1)]
  BY <1>2 DEF Lines
<1>5. ASSUME NEW j \in 1 .. n PROVE First(b) + j - 1 \in Live(b) /\ Text(b, First(b) + j - 1) \in Nat
  <2>1. First(b) + j - 1 \in Live(b)
    BY <1>1, <1>5 DEF Live
  <2> QED BY <2>1, Places
<1>6. Lines(b) \in Seq(Nat) /\ Len(Lines(b)) = n
  <2> HIDE DEF n
  <2> QED BY <1>3, <1>4, <1>5
<1> QED BY <1>3, <1>4, <1>5, <1>6

\* What LineList says, with the height and the capacity of the ring.
Recast(h, l, m) ==
  /\ Len(m) = Len(l)
  /\ \E k \in Len(l) - h + 1 .. Len(l) :
       \A i \in DOMAIN l : i # k => m[i] = l[i] \/ (m[i] = 0 /\ i \in Len(l) - h + 1 .. Len(l))
Scroll(h, cap, l, k) ==
  LET longer == InsertAt(l, Len(l) - h + k + 1, 0)
  IN IF Len(longer) > cap THEN Tail(longer) ELSE longer

\* c is d with a row of the screen rewritten and others emptied.
Edited(d, c) ==
  /\ Moved(d, c)
  /\ \E k \in Screen(d) :
       \A i \in Live(d) \ {k} : Text(c, i) = Text(d, i) \/ (Text(c, i) = 0 /\ i \in Screen(d))

LEMMA EditedLines ==
  ASSUME NEW d, Sound(d), Full(d), NEW c, Edited(d, c)
  PROVE  Recast(d.height, Lines(d), Lines(c))
<1>1. /\ Sound(c) /\ Full(c) /\ c.size = d.size /\ First(c) = First(d)
  BY MovedSame DEF Edited
<1>2. /\ d.size \in Nat /\ d.height \in Nat \ {0} /\ d.height <= d.size /\ First(d) \in Nat
      /\ First(d) <= d.size - d.height
  BY Measures DEF Full
<1> DEFINE n == d.size - First(d)
           l == Lines(d)
           m == Lines(c)
<1>3. /\ l \in Seq(Nat) /\ m \in Seq(Nat) /\ Len(l) = n /\ Len(m) = n /\ DOMAIN l = 1 .. n
      /\ \A j \in 1 .. n : /\ First(d) + j - 1 \in Live(d)
                           /\ l[j] = Text(d, First(d) + j - 1) /\ m[j] = Text(c, First(d) + j - 1)
  BY <1>1, LinesFacts
<1>4. PICK k \in Screen(d) : \A i \in Live(d) \ {k} :
        Text(c, i) = Text(d, i) \/ (Text(c, i) = 0 /\ i \in Screen(d))
  BY DEF Edited
<1> DEFINE q == k - First(d) + 1
<1>5. q \in n - d.height + 1 .. n
  BY <1>2 DEF Screen
<1>6. ASSUME NEW j \in 1 .. n, j # q
      PROVE  m[j] = l[j] \/ (m[j] = 0 /\ j \in n - d.height + 1 .. n)
  <2> DEFINE i == First(d) + j - 1
  <2>1. i \in Live(d) /\ i # k /\ l[j] = Text(d, i) /\ m[j] = Text(c, i)
    BY <1>2, <1>3, <1>6 DEF Screen
  <2>2. i \in Screen(d) => j \in n - d.height + 1 .. n
    BY <1>2 DEF Screen
  <2> HIDE DEF i
  <2> QED BY <1>4, <2>1, <2>2
<1> HIDE DEF n, q, l, m
<1> QED BY <1>3, <1>5, <1>6 DEF Recast, l, m

LEMMA WipedEdited ==
  ASSUME NEW d, Sound(d), NEW c, Wiped(d, c)
  PROVE  Edited(d, c)
<1>1. d.size - 1 \in Screen(d)
  BY Measures DEF Screen
<1> QED BY <1>1 DEF Wiped, Edited

LEMMA OnlyEdited ==
  ASSUME NEW d, NEW c, NEW k \in Screen(d), Only(d, c, {k})
  PROVE  Edited(d, c)
  BY DEF Only, Edited

\* d is b with an empty row at p and the rows from there on below it.
Scrolled(b, d, p) ==
  /\ Ring(d) /\ d.size = b.size + 1 /\ d.cap = b.cap /\ d.height = b.height /\ d.lost = b.lost
  /\ First(d) = IF b.size + 1 - First(b) > b.cap THEN First(b) + 1 ELSE First(b)
  /\ \A i \in First(d) .. b.size :
       Text(d, i) = IF i < p THEN Text(b, i) ELSE IF i = p THEN 0 ELSE Text(b, i - 1)

LEMMA ScrolledLines ==
  ASSUME NEW b, Ring(b), NEW p, p \in b.size - b.height + 1 .. b.size, NEW d, Scrolled(b, d, p)
  PROVE  LET k == p - (b.size - b.height)
         IN k \in 1 .. b.height /\ Lines(d) = Scroll(b.height, b.cap, Lines(b), k)
<1> DEFINE k == p - (b.size - b.height)
           n == b.size - First(b)
           l == Lines(b)
           at == n - b.height + k + 1
           longer == InsertAt(l, at, 0)
           m == Lines(d)
           F == First(b)
<1>1. /\ b.size \in Nat /\ b.height \in Nat \ {0} /\ b.height <= b.size /\ F \in Nat
      /\ F <= b.size - b.height /\ b.cap \in Nat \ {0} /\ p \in Int
  BY Measures DEF Ring, Full
<1>2. k \in 1 .. b.height /\ at \in 1 .. n + 1 /\ at = p - F + 1 /\ n \in Nat
  BY <1>1
<1>3. l \in Seq(Nat) /\ Len(l) = n /\ \A j \in 1 .. n : l[j] = Text(b, F + j - 1)
  BY LinesFacts DEF Ring
<1>d. Sound(d) /\ Full(d) /\ d.size = b.size + 1
  BY DEF Ring, Scrolled
<1>4. /\ m \in Seq(Nat) /\ Len(m) = d.size - First(d)
      /\ \A j \in 1 .. d.size - First(d) : m[j] = Text(d, First(d) + j - 1)
  BY <1>d, LinesFacts
<1> HIDE DEF l, m, k
<1>5. InsertedAt(Nat, l, at, 0, longer)
  <2>1. at \in 1 .. Len(l) + 1 /\ 0 \in Nat
    BY <1>2, <1>3
  <2> HIDE DEF at
  <2> QED BY <1>3, <2>1, Inserting, Zenon
<1> HIDE DEF longer
<1>6. longer \in Seq(Nat) /\ Len(longer) = n + 1 /\ longer # << >>
  BY <1>2, <1>3, <1>5 DEF InsertedAt
<1>7. ASSUME NEW j \in 1 .. n + 1
      PROVE  longer[j] = LET i == F + j - 1
                         IN IF i < p THEN Text(b, i) ELSE IF i = p THEN 0 ELSE Text(b, i - 1)
  <2> DEFINE i == F + j - 1
  <2>1. CASE j < at
    <3>1. j \in 1 .. n /\ i < p
      BY <1>1, <1>2, <2>1
    <3>2. longer[j] = l[j]
      BY <1>3, <1>5, <2>1, <3>1 DEF InsertedAt
    <3> QED BY <1>3, <3>1, <3>2
  <2>2. CASE j = at
    <3>1. i = p
      BY <1>1, <1>2, <2>2
    <3> QED BY <1>5, <2>2, <3>1 DEF InsertedAt
  <2>3. CASE j > at
    <3>1. j - 1 \in 1 .. n /\ ~(j - 1 < at) /\ (j - 1) + 1 = j /\ ~(i < p) /\ i # p /\ F + (j - 1) - 1 = i - 1
      BY <1>1, <1>2, <2>3
    <3>2. longer[j] = l[j - 1]
      BY <1>3, <1>5, <3>1 DEF InsertedAt
    <3> QED BY <1>3, <3>1, <3>2
  <2> QED BY <1>2, <2>1, <2>2, <2>3
<1>8. CASE n + 1 > b.cap
  <2>1. First(d) = F + 1
    BY <1>1, <1>8 DEF Scrolled
  <2>2. Tail(longer) \in Seq(Nat) /\ Len(Tail(longer)) = n /\ \A j \in 1 .. n : Tail(longer)[j] = longer[j + 1]
    <3>1. /\ Tail(longer) \in Seq(Nat) /\ Len(Tail(longer)) = Len(longer) - 1
          /\ \A j \in 1 .. Len(Tail(longer)) : Tail(longer)[j] = longer[j + 1]
      BY <1>6, HeadTailProperties, Zenon
    <3> QED BY <1>2, <1>6, <3>1
  <2>3. ASSUME NEW j \in 1 .. n PROVE m[j] = Tail(longer)[j]
    <3>1. m[j] = Text(d, F + j)
      BY <1>1, <1>d, <1>4, <2>1
    <3>2. F + j \in First(d) .. b.size /\ j + 1 \in 1 .. n + 1 /\ F + (j + 1) - 1 = F + j
      BY <1>1, <2>1
    <3> QED BY <1>7, <2>2, <3>1, <3>2 DEF Scrolled
  <2>4. Len(m) = n
    BY <1>1, <1>d, <1>4, <2>1
  <2>5. m = Tail(longer)
    BY <1>4, <2>2, <2>3, <2>4, SeqEqual
  <2>6. m = Scroll(b.height, b.cap, l, k)
    BY <1>3, <1>6, <1>8, <2>5 DEF Scroll, longer
  <2> QED BY <1>2, <2>6 DEF k, l, m
<1>9. CASE ~(n + 1 > b.cap)
  <2>1. First(d) = F
    BY <1>1, <1>9 DEF Scrolled
  <2>3. ASSUME NEW j \in 1 .. n + 1 PROVE m[j] = longer[j]
    <3>1. m[j] = Text(d, F + j - 1)
      BY <1>1, <1>d, <1>4, <2>1
    <3>2. F + j - 1 \in First(d) .. b.size
      BY <1>1, <2>1
    <3> QED BY <1>7, <3>1, <3>2 DEF Scrolled
  <2>4. Len(m) = n + 1
    <3>1. Len(m) = d.size - F
      BY <1>4, <2>1
    <3>2. d.size - F = n + 1
      BY <1>1, <1>d
    <3> QED BY <3>1, <3>2
  <2>5. m = longer
    BY <1>4, <1>6, <2>3, <2>4, SeqEqual
  <2>6. m = Scroll(b.height, b.cap, l, k)
    BY <1>3, <1>6, <1>9, <2>5 DEF Scroll, longer
  <2> QED BY <1>2, <2>6 DEF k, l, m
<1> QED BY <1>8, <1>9

(* Rows are moved *)

\* p is s without its element at i.
RemovedAt(S, s, i, p) ==
  /\ p \in Seq(S) /\ Len(p) = Len(s) - 1
  /\ \A j \in 1 .. Len(s) - 1 : p[j] = IF j < i THEN s[j] ELSE s[j + 1]

LEMMA Removing ==
  ASSUME NEW S, NEW s, s \in Seq(S), NEW i, i \in 1 .. Len(s)
  PROVE  RemovedAt(S, s, i, RemoveAt(s, i))
<1> DEFINE a == SubSeq(s, 1, i - 1)
           c == SubSeq(s, i + 1, Len(s))
           p == a \o c
<1>1. Len(s) \in Nat /\ i \in Nat /\ i - 1 \in Int /\ 1 \in Int /\ 1 <= 1 /\ i - 1 <= Len(s)
      /\ i + 1 \in Int /\ 1 <= i + 1 /\ Len(s) \in Int /\ Len(s) <= Len(s) /\ 1 <= i /\ i <= Len(s)
  OBVIOUS
<1>2. Part(S, s, 1, i - 1, a)
  BY <1>1, SubSeqPart, Zenon
<1>3. Part(S, s, i + 1, Len(s), c)
  BY <1>1, SubSeqPart, Zenon
<1> HIDE DEF a, c
<1>4. a \in Seq(S) /\ c \in Seq(S) /\ Len(a) = i - 1 /\ Len(c) = Len(s) - i
  BY <1>1, <1>2, <1>3 DEF Part
<1>5. Joined(S, a, c, p)
  BY <1>4, Joining, Zenon
<1> HIDE DEF p
<1>6. p \in Seq(S) /\ Len(p) = Len(s) - 1
  BY <1>1, <1>4, <1>5 DEF Joined
<1>7. ASSUME NEW j \in 1 .. Len(s) - 1 PROVE p[j] = IF j < i THEN s[j] ELSE s[j + 1]
  <2>1. j \in 1 .. Len(a) + Len(c) /\ j \in Nat
    BY <1>1, <1>4
  <2>2. CASE j < i
    <3>1. j <= Len(a) /\ j \in 1 .. (i - 1) - 1 + 1 /\ 1 + j - 1 = j
      BY <1>1, <1>4, <2>1, <2>2
    <3>2. p[j] = a[j]
      BY <1>5, <2>1, <3>1 DEF Joined
    <3>3. a[j] = s[j]
      BY <1>2, <3>1 DEF Part
    <3> QED BY <2>2, <3>2, <3>3
  <2>3. CASE ~(j < i)
    <3> DEFINE k == j - (i - 1)
    <3>1. ~(j <= Len(a)) /\ j - Len(a) = k /\ k \in 1 .. Len(s) - (i + 1) + 1 /\ (i + 1) + k - 1 = j + 1
      BY <1>1, <1>4, <2>1, <2>3
    <3> HIDE DEF k
    <3>2. p[j] = c[k]
      BY <1>5, <2>1, <3>1 DEF Joined
    <3>3. c[k] = s[j + 1]
      BY <1>3, <3>1 DEF Part
    <3> QED BY <2>3, <3>2, <3>3
  <2> QED BY <2>2, <2>3
<1>8. RemoveAt(s, i) = p
  BY DEF RemoveAt, a, c, p
<1> QED BY <1>6, <1>7, <1>8 DEF RemovedAt

\* Where the text comes from that a row shows when row i has gone to j.
Source(i, j, x) ==
  IF j < x /\ x <= i THEN x - 1 ELSE IF i <= x /\ x < j THEN x + 1 ELSE x

\* c is b without row i and with another row at j.
Shuffled(b, c, i, j) ==
  /\ Moved(b, c) /\ i \in Screen(b) /\ j \in Screen(b)
  /\ \A x \in Live(b) \ {j} : Text(c, x) = Text(b, Source(i, j, x))

LEMMA ShuffledOnly ==
  ASSUME NEW a, NEW b, NEW c, NEW i, NEW j, Shuffled(a, b, i, j), NEW D, Only(b, c, D), D \subseteq {j}
  PROVE  Shuffled(a, c, i, j)
<1>1. Live(b) = Live(a) /\ Moved(a, c)
  BY MovedSame, AlikeTrans DEF Shuffled, Only, Moved
<1> QED BY <1>1 DEF Shuffled, Only

LEMMA ShuffledRing ==
  ASSUME NEW b, Ring(b), NEW c, NEW i, NEW j, Shuffled(b, c, i, j)
  PROVE  Ring(c)
<1>1. /\ Sound(c) /\ c.size = b.size /\ c.realsize = b.realsize /\ ~c.noScroll /\ Full(c)
  BY MovedSame DEF Shuffled, Ring
<1>2. ASSUME NEW x \in b.size .. b.realsize - 1 PROVE x \in Live(b) \ {j} /\ Source(i, j, x) = x
  BY Measures DEF Ring, Live, Screen, Full, Shuffled, Source
<1>3. Bare(c)
  BY <1>1, <1>2 DEF Bare, Ring, Shuffled
<1> QED BY <1>1, <1>3 DEF Ring

LEMMA ShuffledLines ==
  ASSUME NEW b, Sound(b), Full(b), NEW c, NEW i, NEW j, Shuffled(b, c, i, j)
  PROVE  LET l == Lines(b)
             m == Lines(c)
         IN /\ Len(m) = Len(l)
            /\ \E p, q \in Len(l) - b.height + 1 .. Len(l) : m = InsertAt(RemoveAt(l, p), q, m[q])
<1> DEFINE F == First(b)
           n == b.size - F
           l == Lines(b)
           m == Lines(c)
           p == i - F + 1
           q == j - F + 1
           r == RemoveAt(l, p)
           e == m[q]
           s == InsertAt(r, q, e)
<1>1. /\ b.size \in Nat /\ b.height \in Nat \ {0} /\ b.height <= b.size /\ F \in Nat
      /\ F <= b.size - b.height /\ i \in Int /\ j \in Int
      /\ b.size - b.height <= i /\ i < b.size /\ b.size - b.height <= j /\ j < b.size
  BY Measures DEF Full, Shuffled, Screen
<1>2. Sound(c) /\ Full(c) /\ First(c) = F /\ c.size = b.size
  BY MovedSame DEF Shuffled
<1>3. /\ l \in Seq(Nat) /\ Len(l) = n
      /\ \A x \in 1 .. n : F + x - 1 \in Live(b) /\ l[x] = Text(b, F + x - 1)
  BY LinesFacts
<1>4. /\ m \in Seq(Nat) /\ Len(m) = n /\ \A x \in 1 .. n : m[x] = Text(c, F + x - 1)
  BY <1>2, LinesFacts
<1>5. /\ n \in Nat /\ p \in n - b.height + 1 .. n /\ q \in n - b.height + 1 .. n
      /\ p \in 1 .. n /\ q \in 1 .. n
  BY <1>1
<1>6. e \in Nat
  BY <1>4, <1>5
<1> HIDE DEF l, m
<1>7. RemovedAt(Nat, l, p, r)
  <2> HIDE DEF p, n
  <2> QED BY <1>3, <1>5, Removing, Zenon
<1> HIDE DEF r
<1>8. r \in Seq(Nat) /\ Len(r) = n - 1 /\ \A y \in 1 .. n - 1 : r[y] = IF y < p THEN l[y] ELSE l[y + 1]
  BY <1>3, <1>7 DEF RemovedAt
<1>9. InsertedAt(Nat, r, q, e, s)
  <2>1. q \in 1 .. Len(r) + 1
    BY <1>5, <1>8
  <2> HIDE DEF q, e
  <2> QED BY <1>6, <1>8, <2>1, Inserting, Zenon
<1> HIDE DEF s, e
<1>10. /\ s \in Seq(Nat) /\ Len(s) = n /\ s[q] = e
       /\ \A y \in 1 .. n - 1 : IF y < q THEN s[y] = r[y] ELSE s[y + 1] = r[y]
  <2>1. Len(r) + 1 = n
    BY <1>5, <1>8
  <2> HIDE DEF n, q
  <2> QED BY <1>8, <1>9, <2>1 DEF InsertedAt
<1>11. ASSUME NEW x \in 1 .. n PROVE m[x] = s[x]
  <2> DEFINE z == F + x - 1
  <2>0. m[x] = Text(c, z) /\ z \in Live(b) /\ x \in Int
    BY <1>3, <1>4
  <2>1. CASE x = q
    BY <1>10, <2>1 DEF e
  <2>2. CASE x < q
    <3>1. x \in 1 .. n - 1 /\ z < j
      BY <1>1, <1>5, <2>2
    <3>2. s[x] = r[x] /\ r[x] = (IF x < p THEN l[x] ELSE l[x + 1])
      BY <1>8, <1>10, <2>2, <3>1
    <3>3. m[x] = Text(b, Source(i, j, z))
      BY <1>1, <2>0, <3>1 DEF Shuffled
    <3>4. CASE x < p
      <4>1. z < i
        BY <1>1, <3>4
      <4>2. Source(i, j, z) = z
        BY <1>1, <3>1, <4>1 DEF Source
      <4> QED BY <1>3, <3>2, <3>3, <3>4, <4>2
    <3>5. CASE ~(x < p)
      <4>1. i <= z /\ x + 1 \in 1 .. n /\ F + (x + 1) - 1 = z + 1
        BY <1>1, <3>1, <3>5
      <4>2. Source(i, j, z) = z + 1
        BY <1>1, <3>1, <4>1 DEF Source
      <4> QED BY <1>3, <3>2, <3>3, <3>5, <4>1, <4>2
    <3> QED BY <3>4, <3>5
  <2>3. CASE x > q
    <3>1. x - 1 \in 1 .. n - 1 /\ (x - 1) + 1 = x /\ ~(x - 1 < q) /\ j < z
      BY <1>1, <1>5, <2>3
    <3>2. s[x] = r[x - 1] /\ r[x - 1] = (IF x - 1 < p THEN l[x - 1] ELSE l[x])
      BY <1>8, <1>10, <3>1
    <3>3. m[x] = Text(b, Source(i, j, z))
      BY <1>1, <2>0, <3>1 DEF Shuffled
    <3>4. CASE x - 1 < p
      <4>1. z <= i /\ x - 1 \in 1 .. n /\ F + (x - 1) - 1 = z - 1
        BY <1>1, <1>5, <3>1, <3>4
      <4>2. Source(i, j, z) = z - 1
        BY <1>1, <3>1, <4>1 DEF Source
      <4> QED BY <1>3, <3>2, <3>3, <3>4, <4>1, <4>2
    <3>5. CASE ~(x - 1 < p)
      <4>1. ~(z <= i) /\ ~(z < j)
        BY <1>1, <3>1, <3>5
      <4>2. Source(i, j, z) = z
        BY <1>1, <3>1, <4>1 DEF Source
      <4> QED BY <1>3, <3>2, <3>3, <3>5, <4>2
    <3> QED BY <3>4, <3>5
  <2> QED BY <1>5, <2>0, <2>1, <2>2, <2>3
<1>12. m = s
  BY <1>4, <1>10, <1>11, SeqEqual
<1> QED BY <1>3, <1>4, <1>5, <1>12 DEF s, r, e, l, m
-----------------------------------------------------------------------------
(* What the operations of a buffer do to its lines *)

\* As many rows as there are places, from one on.
Window(b, lo) == lo .. lo + (b.cap - 1)

\* Rows whose indexes differ by less than the capacity have places of their own.
LEMMA FilledIn ==
  ASSUME NEW b, Sound(b), NEW lo, lo \in Nat, NEW D, D \subseteq Window(b, lo),
         NEW f, NEW R, Filled(b, D, f, R),
         NEW i, i \in Window(b, lo), Held(b, i)
  PROVE  R[Slot(b, i)] = IF i \in D THEN f[i] ELSE b.rows[Slot(b, i)]
<1>1. b.cap \in Nat \ {0} /\ Slot(b, i) \in 1 .. Len(b.rows)
  BY Measures, SlotHeld
<1>2. ASSUME NEW j \in D, j # i PROVE Slot(b, j) # Slot(b, i)
  <2>0. j \in Window(b, lo)
    OBVIOUS
  <2>1. j \in Nat /\ i \in Nat /\ (i < j \/ j < i) /\ j - i < b.cap /\ i - j < b.cap
    BY <1>1, <1>2, <2>0 DEF Window
  <2> QED BY <2>1, SlotsApart
<1>3. \/ R[Slot(b, i)] = b.rows[Slot(b, i)] /\ \A j \in D : Slot(b, j) # Slot(b, i)
      \/ \E j \in D : Slot(b, j) = Slot(b, i) /\ R[Slot(b, i)] = f[j]
  BY <1>1 DEF Filled
<1> QED BY <1>2, <1>3

LEMMA MoveRowTexts ==
  ASSUME NEW b, Sound(b), NEW from, NEW to, Held(b, from), Held(b, to),
         NEW row, row \in RowTypes, NEW lo, lo \in Nat,
         SmallerOf(from, to) .. LargerOf(from, to) \subseteq Window(b, lo)
  PROVE  LET c == MoveRow(b, from, to, row)
             span == SmallerOf(from, to) .. LargerOf(from, to)
             step == IF to < from THEN -1 ELSE 1
         IN \A i \in Window(b, lo) :
              Held(b, i) => Row(c, i) = IF i \notin span THEN Row(b, i)
                                        ELSE IF i = to THEN row ELSE Row(b, i + step)
<1> DEFINE step == IF to < from THEN -1 ELSE 1
           span == SmallerOf(from, to) .. LargerOf(from, to)
           moved == [i \in span |-> IF i = to THEN row ELSE Row(b, i + step)]
           C == b.changed \cup span
           R == Replaced(b, moved)
           c == MoveRow(b, from, to, row)
<1>1. /\ from \in Nat /\ to \in Nat /\ b.changed \subseteq Nat /\ b.realsize \in Nat /\ b.cap \in Nat
      /\ b.rows \in Seq(RowTypes)
  BY DEF Held, Sound, BufferTypes
<1>2. LargerOf(from, to) \in Nat /\ SmallerOf(from, to) \in Nat
  BY <1>1 DEF LargerOf, SmallerOf
<1>3. span \subseteq Nat /\ (\A i \in span : i <= LargerOf(from, to)) /\ C \subseteq Nat
  BY <1>1, <1>2
<1>4. ASSUME NEW i \in span, i # to PROVE Row(b, i + step) \in RowTypes
  <2>1. i \in Nat /\ i + step \in span
    BY <1>1, <1>4 DEF LargerOf, SmallerOf
  <2>2. \A j \in span : Held(b, j)
    BY <1>1 DEF LargerOf, SmallerOf, Held
  <2> HIDE DEF span, step
  <2> QED BY <2>1, <2>2, RowHeld
<1>5. moved \in [span -> RowTypes]
  <2> HIDE DEF span, step
  <2> QED BY <1>4
<1>6. c.rows = R /\ c.cap = b.cap
  BY DEF MoveRow, Sound, BufferTypes
<1>7. \A i \in span : moved[i] = IF i = to THEN row ELSE Row(b, i + step)
  BY DEF moved
<1> HIDE DEF step, moved, C
<1>8. Filled(b, span, moved, R)
  <2> HIDE DEF span
  <2> QED BY <1>1, <1>2, <1>3, <1>5, ReplacedFacts, Zenon
<1>a. span \subseteq Window(b, lo)
  OBVIOUS
<1> HIDE DEF R, c, span
<1>9. ASSUME NEW i \in Window(b, lo), Held(b, i)
      PROVE  Row(c, i) = IF i \notin span THEN Row(b, i)
                         ELSE IF i = to THEN row ELSE Row(b, i + step)
  <2>1. R[Slot(b, i)] = IF i \in span THEN moved[i] ELSE b.rows[Slot(b, i)]
    <3>1. Sound(b) /\ lo \in Nat /\ span \subseteq Window(b, lo) /\ Filled(b, span, moved, R)
          /\ i \in Window(b, lo) /\ Held(b, i)
      BY <1>a, <1>8, <1>9
    <3> QED BY <3>1, FilledIn
  <2>2. Row(c, i) = R[Slot(b, i)]
    BY <1>6 DEF Row, Slot
  <2> QED BY <1>7, <2>1, <2>2 DEF Row
<1> QED BY <1>9 DEF c, span, step

LEMMA MoveRowShuffles ==
  ASSUME NEW b, Sound(b), Full(b), NEW from, from \in Screen(b), NEW to, to \in Screen(b)
  PROVE  LET c == MoveRow(b, from, to, BlankRow)
         IN Shuffled(b, c, from, to) /\ Text(c, to) = 0
<1> DEFINE c == MoveRow(b, from, to, BlankRow)
           span == SmallerOf(from, to) .. LargerOf(from, to)
           step == IF to < from THEN -1 ELSE 1
           lo == First(b)
<1>1. /\ b.size \in Nat /\ b.realsize \in Nat /\ b.cap \in Nat \ {0} /\ lo \in Nat
      /\ b.realsize <= lo + b.cap /\ b.size <= b.realsize /\ b.height \in Nat
  BY Measures
<1>2. from \in Live(b) /\ to \in Live(b) /\ Held(b, from) /\ Held(b, to) /\ from \in Nat /\ to \in Nat
  BY ScreenLive, Places
<1>3. BlankRow \in RowTypes /\ BlankRow.text = 0
  BY BlankFacts
<1>4. span \subseteq Window(b, lo)
  BY <1>1, <1>2 DEF Window, LargerOf, SmallerOf, Live
<1>5. \A i \in Window(b, lo) :
        Held(b, i) => Row(c, i) = IF i \notin span THEN Row(b, i)
                                  ELSE IF i = to THEN BlankRow ELSE Row(b, i + step)
  <2> HIDE DEF lo
  <2> QED BY <1>1, <1>2, <1>3, <1>4, MoveRowTexts
<1>6. Moved(b, c)
  BY <1>2, <1>3, MoveRowFacts
<1> HIDE DEF c
<1>7. \A i \in Live(b) : i \in Window(b, lo) /\ Held(b, i) /\ i \in Nat
  <2>1. \A i \in Live(b) : i \in Window(b, lo)
    BY <1>1 DEF Window, Live
  <2> QED BY <2>1, Places
<1>8. Text(c, to) = 0
  <2>1. to \in span
    BY <1>2 DEF LargerOf, SmallerOf
  <2> HIDE DEF span, step
  <2> QED BY <1>2, <1>3, <1>5, <1>7, <2>1 DEF Text
<1>9. ASSUME NEW x \in Live(b), x # to PROVE Text(c, x) = Text(b, Source(from, to, x))
  <2>1. x \in Nat
    BY <1>7
  <2>2. (x \notin span => Source(from, to, x) = x) /\ (x \in span => Source(from, to, x) = x + step)
    BY <1>2, <1>9, <2>1 DEF Source, SmallerOf, LargerOf
  <2> HIDE DEF span, step
  <2> QED BY <1>5, <1>7, <1>9, <2>2 DEF Text
<1> QED BY <1>6, <1>8, <1>9 DEF Shuffled, c

\* What a row more leaves as it was.
LEMMA LongerIs ==
  ASSUME NEW c, c \in BufferTypes, NEW real, real \in {0, 1}
  PROVE  LET d == TrimOne(TellLength(Longer(c, real)))
         IN /\ d.rows = c.rows /\ d.size = c.size + 1 /\ d.realsize = c.realsize + real
            /\ d.cap = c.cap /\ d.height = c.height /\ d.lost = c.lost
<1> DEFINE a == Longer(c, real)
           e == TellLength(a)
           C == e.changed \ {Min(e.changed)}
<1>1. /\ a \in BufferTypes /\ a.rows = c.rows /\ a.size = c.size + 1 /\ a.realsize = c.realsize + real
      /\ a.cap = c.cap /\ a.height = c.height /\ a.lost = c.lost
  <2>1. c.size \in Nat /\ c.realsize \in Nat
    BY DEF BufferTypes
  <2>2. c.size + 1 \in Nat /\ c.realsize + real \in Nat
    BY <2>1
  <2> QED BY <2>2 DEF Longer, BufferTypes
<1> HIDE DEF a
<1>2. /\ e \in BufferTypes /\ e.rows = a.rows /\ e.size = a.size /\ e.realsize = a.realsize
      /\ e.cap = a.cap /\ e.height = a.height /\ e.lost = a.lost
  BY <1>1 DEF TellLength, BufferTypes
<1> HIDE DEF e
<1>3. TrimOne(e) = IF Cardinality(e.changed) > e.height THEN [e EXCEPT !.changed = C] ELSE e
  BY DEF TrimOne
<1> DEFINE f == [e EXCEPT !.changed = C]
<1> HIDE DEF C
<1>4. /\ f.rows = e.rows /\ f.size = e.size /\ f.realsize = e.realsize
      /\ f.cap = e.cap /\ f.height = e.height /\ f.lost = e.lost
  BY <1>2 DEF BufferTypes
<1> HIDE DEF f
<1> QED BY <1>1, <1>2, <1>3, <1>4 DEF a, e, f

\* insertRow lets the lines scroll.
LEMMA InsertRowScrolls ==
  ASSUME NEW b, Ring(b), NEW pos, pos \in b.size - b.height + 1 .. b.size
  PROVE  Scrolled(b, InsertRow(b, pos), pos)
<1> DEFINE F == First(b)
           d == InsertRow(b, pos)
<1>1. /\ b.size \in Nat /\ b.realsize \in Nat /\ b.cap \in Nat \ {0} /\ b.height \in Nat \ {0}
      /\ b.rows \in Seq(RowTypes) /\ pos \in Nat /\ Len(b.rows) \in Nat
      /\ b.height <= b.size /\ b.size <= b.realsize /\ b.height <= b.cap
      /\ Len(b.rows) = (IF b.realsize < b.cap THEN b.realsize ELSE b.cap)
      /\ F = (IF b.realsize > b.cap THEN b.realsize - b.cap ELSE 0)
      /\ F \in Nat /\ F <= b.size - b.height
      /\ b.size - b.height + 1 <= pos /\ pos <= b.size
  BY Measures DEF Ring, Full
<1>2. Sound(b) /\ ~b.noScroll /\ Full(b) /\ Bare(b)
  BY DEF Ring
<1>3. Sound(d) /\ d.height = b.height /\ ~d.noScroll
  <2>1. pos \in 0 .. b.size
    BY <1>1
  <2> QED BY <1>2, <2>1, InsertRowFacts DEF Kindred
<1> DEFINE span == pos .. b.size
           step == IF pos < b.size THEN -1 ELSE 1
<1>a. /\ SmallerOf(b.size, pos) = pos /\ LargerOf(b.size, pos) = b.size
  BY <1>1 DEF SmallerOf, LargerOf
<1>b. ASSUME NEW m, NEW row, row \in RowTypes, row.text = 0, NEW real, real \in {0, 1},
             Held(b, b.size), Held(b, pos), m = MoveRow(b, b.size, pos, row),
             d = TrimOne(TellLength(Longer(m, real))), NEW lo, lo \in Nat, lo <= pos, b.size < lo + b.cap
      PROVE  /\ d.size = b.size + 1 /\ d.realsize = b.realsize + real /\ d.cap = b.cap /\ d.lost = b.lost
             /\ \A i \in Window(b, lo) :
                  Held(b, i) => Text(d, i) = IF i < pos \/ i > b.size THEN Text(b, i)
                                             ELSE IF i = pos THEN 0 ELSE Text(b, i - 1)
  <2>1. Moved(b, m)
    BY <1>2, <1>b, MoveRowFacts
  <2>2. m \in BufferTypes /\ m.size = b.size /\ m.realsize = b.realsize /\ m.cap = b.cap /\ m.lost = b.lost
    BY <2>1, MovedSame DEF Sound
  <2>3. d.rows = m.rows /\ d.size = m.size + 1 /\ d.realsize = m.realsize + real /\ d.cap = m.cap /\ d.lost = m.lost
    BY <1>b, <2>2, LongerIs
  <2> HIDE DEF d
  <2>4. span \subseteq Window(b, lo)
    <3>1. lo \in Nat /\ lo <= pos /\ b.size < lo + b.cap
      BY <1>b
    <3>2. b.size \in Nat /\ pos \in Nat /\ b.cap \in Nat
      BY <1>1
    <3> QED BY <3>1, <3>2 DEF Window
  <2>5. \A i \in Window(b, lo) :
          Held(b, i) => Row(m, i) = IF i \notin span THEN Row(b, i)
                                    ELSE IF i = pos THEN row ELSE Row(b, i + step)
    <3>1. SmallerOf(b.size, pos) .. LargerOf(b.size, pos) \subseteq Window(b, lo)
      BY <1>a, <2>4
    <3>2. LET c == MoveRow(b, b.size, pos, row)
              s == SmallerOf(b.size, pos) .. LargerOf(b.size, pos)
              t == IF pos < b.size THEN -1 ELSE 1
          IN \A i \in Window(b, lo) :
               Held(b, i) => Row(c, i) = IF i \notin s THEN Row(b, i)
                                         ELSE IF i = pos THEN row ELSE Row(b, i + t)
      <4> DEFINE from == b.size
      <4>1. Held(b, from) /\ Held(b, pos) /\ row \in RowTypes /\ lo \in Nat /\ Sound(b)
        BY <1>2, <1>b
      <4>2. SmallerOf(from, pos) .. LargerOf(from, pos) \subseteq Window(b, lo)
        BY <3>1
      <4> HIDE DEF from
      <4>3. LET c == MoveRow(b, from, pos, row)
                s == SmallerOf(from, pos) .. LargerOf(from, pos)
                t == IF pos < from THEN -1 ELSE 1
            IN \A i \in Window(b, lo) :
                 Held(b, i) => Row(c, i) = IF i \notin s THEN Row(b, i)
                                           ELSE IF i = pos THEN row ELSE Row(b, i + t)
        BY <4>1, <4>2, MoveRowTexts
      <4> QED BY <4>3 DEF from
    <3> QED BY <1>a, <1>b, <3>2
  <2>6. \A i : Row(d, i) = Row(m, i)
    BY <2>3 DEF Row, Slot
  <2>7. ASSUME NEW i \in Window(b, lo), Held(b, i)
        PROVE  Text(d, i) = IF i < pos \/ i > b.size THEN Text(b, i)
                            ELSE IF i = pos THEN 0 ELSE Text(b, i - 1)
    <3>0. i \in Int
      BY <1>b, <2>7 DEF Window
    <3>1. CASE i < pos \/ i > b.size
      <4>1. i \notin span
        BY <1>1, <3>0, <3>1
      <4> HIDE DEF span, step
      <4> QED BY <2>5, <2>6, <2>7, <3>1, <4>1 DEF Text
    <3>2. CASE i = pos
      <4>1. i \in span /\ ~(i < pos \/ i > b.size)
        BY <1>1, <3>0, <3>2
      <4> HIDE DEF span, step
      <4> QED BY <1>b, <2>5, <2>6, <2>7, <3>2, <4>1 DEF Text
    <3>3. CASE ~(i < pos \/ i > b.size) /\ i # pos
      <4>1. i \in span /\ step = -1 /\ i + step = i - 1
        BY <1>1, <3>0, <3>3
      <4> HIDE DEF span, step
      <4> QED BY <2>5, <2>6, <2>7, <3>3, <4>1 DEF Text
    <3> QED BY <3>1, <3>2, <3>3
  <2> QED BY <2>2, <2>3, <2>7
<1>4. CASE b.size < b.realsize
  <2> DEFINE row == Row(b, b.size)
             m == MoveRow(b, b.size, pos, row)
  <2>1. Held(b, b.size) /\ Held(b, pos)
    BY <1>1, <1>4 DEF Held
  <2>2. row \in RowTypes
    BY <1>2, <2>1, RowHeld
  <2>3. row.text = 0
    <3>1. b.size \in b.size .. b.realsize - 1
      BY <1>1, <1>4
    <3> QED BY <1>2, <3>1 DEF Bare, Text
  <2>4. d = TrimOne(TellLength(Longer(m, 0)))
    BY <1>2, <1>4 DEF InsertRow, Longer
  <2>5. F <= pos /\ b.size < F + b.cap
    BY <1>1, <1>4
  <2> HIDE DEF d, F, row, m
  <2>6. 0 \in {0, 1} /\ m = MoveRow(b, b.size, pos, row)
    BY DEF m
  <2>7. /\ d.size = b.size + 1 /\ d.realsize = b.realsize + 0 /\ d.cap = b.cap /\ d.lost = b.lost
        /\ \A i \in Window(b, F) :
             Held(b, i) => Text(d, i) = IF i < pos \/ i > b.size THEN Text(b, i)
                                        ELSE IF i = pos THEN 0 ELSE Text(b, i - 1)
    BY <1>1, <1>b, <2>1, <2>2, <2>3, <2>4, <2>5, <2>6
  <2>8. First(d) = F
    BY <1>1, <2>7, <1>3, Measures
  <2>9. \A i \in F .. b.realsize - 1 : i \in Window(b, F) /\ Held(b, i)
    BY <1>1 DEF Held, Window
  <2>10. Bare(d)
    <3> SUFFICES ASSUME NEW i \in d.size .. d.realsize - 1 PROVE Text(d, i) = 0
      BY DEF Bare
    <3>0. d.size = b.size + 1 /\ d.realsize = b.realsize
      BY <1>1, <2>7
    <3>1. i \in F .. b.realsize - 1 /\ i > b.size /\ i \in b.size .. b.realsize - 1
      BY <1>1, <3>0
    <3> QED BY <1>2, <2>7, <2>9, <3>1 DEF Bare
  <2>11. Full(d)
    BY <1>1, <1>3, <2>7, <2>8 DEF Full
  <2>12. ASSUME NEW i \in F .. b.size
         PROVE  Text(d, i) = IF i < pos THEN Text(b, i) ELSE IF i = pos THEN 0 ELSE Text(b, i - 1)
    <3>1. i \in F .. b.realsize - 1 /\ ~(i > b.size)
      BY <1>1, <1>4
    <3> QED BY <2>7, <2>9, <3>1
  <2>13. ~(b.size + 1 - F > b.cap)
    BY <1>1, <1>4
  <2> QED BY <1>3, <2>7, <2>8, <2>10, <2>11, <2>12, <2>13 DEF Scrolled, Ring, d, F
<1>5. CASE ~(b.size < b.realsize) /\ b.size < b.cap
  <2> DEFINE J == InsertAt(b.rows, pos + 1, BlankRow)
             C == b.changed \cup (pos .. b.size)
             c == WithRows(b, J, C)
  <2>1. InsertedAt(RowTypes, b.rows, pos + 1, BlankRow, J)
    <3>1. pos + 1 \in 1 .. Len(b.rows) + 1
      BY <1>1, <1>5
    <3>2. BlankRow \in RowTypes /\ b.rows \in Seq(RowTypes)
      BY <1>1, BlankFacts
    <3> QED BY <3>1, <3>2, Inserting, Zenon
  <2>2. C \subseteq Nat /\ J \in Seq(RowTypes)
    BY <1>1, <1>2, <2>1 DEF InsertedAt, Sound, BufferTypes
  <2>3. d = TrimOne(TellLength(Longer(c, 1)))
    BY <1>2, <1>5 DEF InsertRow, Longer, WithRows
  <2> HIDE DEF J, C, d
  <2>4. /\ c \in BufferTypes /\ c.rows = J /\ c.size = b.size /\ c.cap = b.cap
        /\ c.realsize = b.realsize /\ c.lost = b.lost
    BY <1>2, <2>2 DEF WithRows, Sound, BufferTypes
  <2> HIDE DEF c
  <2>5. d.rows = J /\ d.size = b.size + 1 /\ d.realsize = b.realsize + 1 /\ d.cap = b.cap /\ d.lost = b.lost
    <3>1. 1 \in {0, 1}
      OBVIOUS
    <3> QED BY <2>3, <2>4, <3>1, LongerIs
  <2>6. F = 0 /\ First(d) = 0
    <3>1. F = 0
      BY <1>1, <1>5
    <3>2. First(d) = (IF d.realsize > d.cap THEN d.realsize - d.cap ELSE 0)
      BY <1>3, Measures
    <3> QED BY <1>1, <1>5, <2>5, <3>1, <3>2
  <2>7. Bare(d)
    <3>1. d.size .. d.realsize - 1 = {}
      BY <1>1, <1>5, <2>5
    <3> QED BY <3>1 DEF Bare
  <2>8. Full(d)
    BY <1>1, <1>3, <2>5, <2>6 DEF Full
  <2>9. ASSUME NEW i \in 0 .. b.size
        PROVE  Text(d, i) = IF i < pos THEN Text(b, i) ELSE IF i = pos THEN 0 ELSE Text(b, i - 1)
    <3>a. ASSUME NEW j \in Nat, j < b.cap PROVE Slot(b, j) = j + 1 /\ Slot(d, j) = j + 1
      BY <1>1, <2>5, <3>a, ModSlot, Zenon DEF Slot
    <3>1. i \in Nat /\ i < b.cap
      BY <1>1, <1>5
    <3>2. Text(d, i) = J[i + 1].text
      BY <2>5, <3>1, <3>a DEF Text, Row
    <3>3. CASE i < pos
      <4>1. i + 1 \in 1 .. Len(b.rows) /\ i + 1 < pos + 1
        BY <1>1, <1>5, <3>1, <3>3
      <4>2. J[i + 1] = b.rows[i + 1]
        BY <2>1, <4>1 DEF InsertedAt
      <4>3. Text(b, i) = b.rows[i + 1].text
        BY <3>1, <3>a DEF Text, Row
      <4> QED BY <3>2, <3>3, <4>2, <4>3
    <3>4. CASE i = pos
      <4>1. J[i + 1] = BlankRow
        BY <2>1, <3>4 DEF InsertedAt
      <4> QED BY <1>1, <3>2, <3>4, <4>1, BlankFacts
    <3>5. CASE i > pos
      <4>1. i \in 1 .. Len(b.rows) /\ ~(i < pos + 1) /\ i - 1 \in Nat /\ i - 1 < b.cap /\ (i - 1) + 1 = i
        BY <1>1, <1>5, <3>1, <3>5
      <4>2. J[i + 1] = b.rows[i]
        BY <2>1, <4>1 DEF InsertedAt
      <4>3. Text(b, i - 1) = b.rows[i].text
        BY <3>a, <4>1 DEF Text, Row
      <4> QED BY <1>1, <3>1, <3>2, <3>5, <4>2, <4>3
    <3> QED BY <1>1, <3>1, <3>3, <3>4, <3>5
  <2>10. ~(b.size + 1 - F > b.cap)
    BY <1>1, <1>5, <2>6
  <2> QED BY <1>3, <2>5, <2>6, <2>7, <2>8, <2>9, <2>10 DEF Scrolled, Ring, d
<1>6. CASE ~(b.size < b.realsize) /\ ~(b.size < b.cap)
  <2> DEFINE row == BlankRow
             m == MoveRow(b, b.size, pos, row)
             lo == F + 1
  <2>1. Held(b, b.size) /\ Held(b, pos)
    BY <1>1, <1>6 DEF Held
  <2>2. row \in RowTypes /\ row.text = 0
    BY BlankFacts
  <2>4. d = TrimOne(TellLength(Longer(m, 1)))
    BY <1>2, <1>6 DEF InsertRow, Longer
  <2>a. b.realsize = b.size /\ F = b.size - b.cap
    BY <1>1, <1>6
  <2>5. /\ lo \in Nat /\ lo <= pos /\ b.size < lo + b.cap /\ lo + (b.cap - 1) = b.size
        /\ lo <= b.size - b.height + 1
    <3> DEFINE z == b.size
               h == b.height
               p == b.cap
    <3>1. /\ z \in Nat /\ h \in Nat \ {0} /\ p \in Nat \ {0} /\ F = z - p /\ F \in Nat /\ h <= p
          /\ pos \in Nat /\ z - h + 1 <= pos
      BY <1>1, <2>a
    <3> HIDE DEF F, z, h, p
    <3>2. /\ F + 1 \in Nat /\ F + 1 <= pos /\ z < (F + 1) + p /\ (F + 1) + (p - 1) = z
          /\ F + 1 <= z - h + 1
      BY <3>1
    <3> QED BY <3>2 DEF z, h, p
  <2> HIDE DEF d, F, row, m, lo
  <2>6. 1 \in {0, 1} /\ m = MoveRow(b, b.size, pos, row)
    BY DEF m
  <2>7. /\ d.size = b.size + 1 /\ d.realsize = b.realsize + 1 /\ d.cap = b.cap /\ d.lost = b.lost
        /\ \A i \in Window(b, lo) :
             Held(b, i) => Text(d, i) = IF i < pos \/ i > b.size THEN Text(b, i)
                                        ELSE IF i = pos THEN 0 ELSE Text(b, i - 1)
    BY <1>b, <2>1, <2>2, <2>4, <2>5, <2>6
  <2>8. First(d) = lo
    <3>1. First(d) = (IF d.realsize > d.cap THEN d.realsize - d.cap ELSE 0)
      BY <1>3, Measures
    <3> QED BY <1>1, <1>6, <2>7, <3>1 DEF lo
  <2>10. Bare(d)
    <3>1. d.size .. d.realsize - 1 = {}
      BY <1>1, <1>6, <2>7
    <3> QED BY <3>1 DEF Bare
  <2>11. Full(d)
    BY <1>1, <1>3, <2>5, <2>7, <2>8 DEF Full
  <2>12. ASSUME NEW i \in lo .. b.size
         PROVE  Text(d, i) = IF i < pos THEN Text(b, i) ELSE IF i = pos THEN 0 ELSE Text(b, i - 1)
    <3>1. i \in Window(b, lo) /\ ~(i > b.size) /\ i \in Nat
      <4>1. Window(b, lo) = lo .. b.size
        BY <2>5 DEF Window
      <4> QED BY <1>1, <2>5, <4>1
    <3>2. Held(b, i)
      BY <1>1, <1>6, <3>1 DEF Held
    <3> QED BY <2>7, <3>1, <3>2
  <2>13. b.size + 1 - F > b.cap
    BY <1>1, <1>6
  <2> QED BY <1>3, <2>7, <2>8, <2>10, <2>11, <2>12, <2>13 DEF Scrolled, Ring, d, F, lo
<1> QED BY <1>4, <1>5, <1>6

\* c has the rows of b.
Twin(b, c) == Moved(b, c) /\ c.rows = b.rows

LEMMA TwinFacts ==
  ASSUME NEW b, Sound(b), NEW c, Twin(b, c)
  PROVE  /\ Only(b, c, {}) /\ Wiped(b, c) /\ (Ring(b) => Ring(c)) /\ Lines(c) = Lines(b)
         /\ \A i : Text(c, i) = Text(b, i)
<1>1. /\ Sound(c) /\ c.size = b.size /\ c.realsize = b.realsize /\ c.noScroll = b.noScroll
      /\ First(c) = First(b) /\ (Full(c) <=> Full(b)) /\ \A i : Slot(c, i) = Slot(b, i)
  BY MovedSame DEF Twin
<1>2. \A i : Text(c, i) = Text(b, i)
  BY <1>1 DEF Twin, Text, Row
<1>3. Lines(c) = Lines(b)
  BY <1>1, <1>2, Zenon DEF Lines, Kept
<1> QED BY <1>1, <1>2, <1>3 DEF Only, Wiped, Twin, Ring, Bare

LEMMA TwinTrans ==
  ASSUME NEW a, NEW b, NEW c, Twin(a, b), Twin(b, c)
  PROVE  Twin(a, c)
  BY AlikeTrans DEF Twin, Moved

LEMMA TwinOps ==
  ASSUME NEW b, Sound(b)
  PROVE  /\ Twin(b, b) /\ Twin(b, TellLength(b)) /\ Twin(b, TellCapacity(b)) /\ Twin(b, ResetEventState(b))
         /\ Twin(b, TrimAll(b)) /\ \A i \in Nat : Twin(b, TouchRow(b, i))
<1>1. Twin(b, b)
  BY AlikeSelf DEF Twin, Moved
<1>2. /\ TellLength(b).realsize = b.realsize /\ TellCapacity(b).realsize = b.realsize
      /\ ResetEventState(b).realsize = b.realsize /\ TrimAll(b).realsize = b.realsize
  BY DEF TellLength, TellCapacity, ResetEventState, TrimAll, Sound, BufferTypes
<1>3. \A i \in Nat : Twin(b, TouchRow(b, i))
  BY TouchRowFacts DEF Became, Twin, Moved
<1> QED BY <1>1, <1>2, <1>3, TellFacts, TrimFacts DEF Twin, Moved

\* A row is taken, and marked as a continuation or not.
LEMMA TakeOnly ==
  ASSUME NEW b, Sound(b), Full(b), NEW i \in Screen(b)
  PROVE  Only(b, TakeRow(b, i), {})
<1>0. b.size \in Nat /\ b.changed \subseteq Nat /\ b.rows \in Seq(RowTypes) /\ b \in BufferTypes
      /\ i \in Nat /\ b.height \in Nat
  BY ScreenRows DEF Sound, BufferTypes
<1>1. CASE i < b.size - 1 /\ Row(b, i + 1).cont
  <2> DEFINE row == [Row(b, i + 1) EXCEPT !.cont = FALSE]
             C == b.changed \cup {i, i + 1}
             c == WithRow(b, i + 1, row, C)
             R == [b.rows EXCEPT ![Slot(b, i + 1)] = row]
  <2>1. i + 1 \in Screen(b)
    BY <1>0, <1>1 DEF Screen
  <2>a. Held(b, i + 1) /\ C \subseteq Nat
    BY <1>0, <2>1, ScreenRows, InSize
  <2>2. row \in RowTypes /\ row.text = Row(b, i + 1).text
    BY <2>a, RowHeld DEF RowTypes
  <2>3. TakeRow(b, i) = c
    BY <1>0, <1>1 DEF TakeRow, Row, WithRow
  <2>4. \A s \in 1 .. Len(b.rows) : R[s].text = b.rows[s].text
    BY <1>0, <2>2 DEF Row
  <2> HIDE DEF row, R, C
  <2>5. Became(b, WithRow(b, i + 1, row, C), [b.rows EXCEPT ![Slot(b, i + 1)] = row], C)
    BY <2>2, <2>a, SetRowFacts, Zenon
  <2>6. Became(b, c, R, C)
    BY <2>5 DEF R
  <2> HIDE DEF c
  <2>7. Moved(b, c) /\ {} \subseteq Live(b) /\ \A s \in 1 .. Len(b.rows) : c.rows[s].text = b.rows[s].text
    BY <2>4, <2>6 DEF Became, Moved
  <2>8. Only(b, c, {})
    BY <2>7, OnlySlots
  <2> QED BY <2>3, <2>8
<1>2. CASE ~(i < b.size - 1 /\ Row(b, i + 1).cont)
  <2>1. TakeRow(b, i) = TouchRow(b, i)
    BY <1>2 DEF TakeRow
  <2> QED BY <1>0, <2>1, TwinOps, TwinFacts
<1> QED BY <1>1, <1>2

LEMMA WithContOnly ==
  ASSUME NEW b, Sound(b), NEW i, Held(b, i), NEW cont, cont \in BOOLEAN
  PROVE  Only(b, WithCont(b, i, cont), {})
<1> DEFINE c == WithCont(b, i, cont)
<1>1. Alike(b, c) /\ \A s : s # Slot(b, i) => c.rows[s] = b.rows[s]
  BY WithContFacts
<1>2. Slot(b, i) \in 1 .. Len(b.rows) /\ b.rows \in Seq(RowTypes) /\ b.rows[Slot(b, i)] \in RowTypes
  BY SlotHeld, RowHeld DEF Row, Sound, BufferTypes
<1>3. c.realsize = b.realsize /\ c.rows[Slot(b, i)].text = b.rows[Slot(b, i)].text
  BY <1>2 DEF Sound, BufferTypes, WithCont, RowTypes
<1> HIDE DEF c
<1>4. Moved(b, c) /\ {} \subseteq Live(b) /\ \A s \in 1 .. Len(b.rows) : c.rows[s].text = b.rows[s].text
  BY <1>1, <1>3 DEF Moved
<1>5. Only(b, c, {})
  BY <1>4, OnlySlots
<1> QED BY <1>5 DEF c

LEMMA WithTextOnly ==
  ASSUME NEW b, Sound(b), NEW i \in Live(b), NEW text, text \in Nat
  PROVE  Only(b, WithText(b, i, text), {i}) /\ Text(WithText(b, i, text), i) = text
<1> DEFINE c == WithText(b, i, text)
<1>0. Held(b, i) /\ Slot(b, i) \in 1 .. Len(b.rows)
  BY Places
<1>1. Alike(b, c)
  BY <1>0, WithTextFacts
<1>2. b.rows \in Seq(RowTypes) /\ b.rows[Slot(b, i)] \in RowTypes
  BY <1>0, RowHeld DEF Row, Sound, BufferTypes
<1>3. /\ c.realsize = b.realsize /\ c.rows[Slot(b, i)].text = text
      /\ \A s \in 1 .. Len(b.rows) : s # Slot(b, i) => c.rows[s] = b.rows[s]
  BY <1>0, <1>2 DEF Sound, BufferTypes, WithText, RowTypes
<1> HIDE DEF c
<1>4. /\ Moved(b, c) /\ {i} \subseteq Live(b)
      /\ \A s \in 1 .. Len(b.rows) : c.rows[s].text = b.rows[s].text \/ \E j \in {i} : Slot(b, j) = s
  BY <1>1, <1>3 DEF Moved
<1>5. Only(b, c, {i})
  BY <1>4, OnlySlots
<1>6. Text(c, i) = text
  BY <1>3, <1>4, MovedSame DEF Text, Row
<1> QED BY <1>5, <1>6 DEF c

\* Rows of the screen are blanked.
LEMMA BlankedWiped ==
  ASSUME NEW b, Sound(b), Full(b), NEW D, D \subseteq Screen(b), NEW C, C \subseteq Nat
  PROVE  Wiped(b, WithRows(b, Replaced(b, [i \in D |-> BlankRow]), C))
<1> DEFINE f == [i \in D |-> BlankRow]
           R == Replaced(b, f)
           c == WithRows(b, R, C)
<1>1. D \subseteq Nat /\ (\A i \in D : i <= b.size) /\ b.size \in Nat /\ b.rows \in Seq(RowTypes)
  <2>1. b.size \in Nat /\ b.rows \in Seq(RowTypes)
    BY DEF Sound, BufferTypes
  <2>2. D \subseteq 0 .. b.size - 1
    BY ScreenRows
  <2> QED BY <2>1, <2>2
<1>2. f \in [D -> RowTypes] /\ \A i \in D : f[i] = BlankRow
  BY BlankFacts
<1> HIDE DEF f
<1>3. Filled(b, D, f, R)
  BY <1>1, <1>2, ReplacedFacts, Zenon
<1>4. Became(b, WithRows(b, Replaced(b, f), C), Replaced(b, f), C)
  BY <1>1, <1>2, ReplacingFacts, Zenon
<1> HIDE DEF R
<1>5. Became(b, c, R, C)
  BY <1>4 DEF R
<1> HIDE DEF c
<1>6. Moved(b, c) /\ c.rows = R
  BY <1>5 DEF Became, Moved
<1>7. ASSUME NEW i \in Live(b) PROVE Text(c, i) = Text(b, i) \/ (Text(c, i) = 0 /\ i \in Screen(b))
  <2>1. Slot(b, i) \in 1 .. Len(b.rows) /\ \A j \in Live(b) : Slot(b, j) = Slot(b, i) => j = i
    BY Places
  <2>2. D \subseteq Live(b)
    BY ScreenLive
  <2>3. \/ R[Slot(b, i)] = b.rows[Slot(b, i)]
        \/ \E j \in D : Slot(b, j) = Slot(b, i) /\ R[Slot(b, i)] = f[j]
    BY <1>3, <2>1 DEF Filled
  <2>4. R[Slot(b, i)] = b.rows[Slot(b, i)] \/ (i \in D /\ R[Slot(b, i)] = BlankRow)
    BY <1>2, <2>1, <2>2, <2>3
  <2>5. Text(c, i) = R[Slot(b, i)].text
    BY <1>6, MovedSame DEF Text, Row
  <2> QED BY <2>4, <2>5, BlankFacts DEF Text, Row
<1> QED BY <1>6, <1>7 DEF Wiped, c, R, f

LEMMA PutBlankWiped ==
  ASSUME NEW b, Sound(b), Full(b), NEW i \in Screen(b)
  PROVE  Wiped(b, PutRow(b, i, BlankRow))
<1> DEFINE c == PutRow(b, i, BlankRow)
           R == [b.rows EXCEPT ![Slot(b, i)] = BlankRow]
<1>1. Held(b, i) /\ b.rows \in Seq(RowTypes) /\ i \in Live(b) /\ Slot(b, i) \in 1 .. Len(b.rows)
  BY ScreenRows, InSize, ScreenLive DEF Sound, BufferTypes
<1>2. Became(b, c, R, b.changed \cup {i})
  BY <1>1, PutRowFacts, BlankFacts, Zenon
<1>3. R[Slot(b, i)] = BlankRow /\ \A s \in 1 .. Len(b.rows) : R[s] = b.rows[s] \/ s = Slot(b, i)
  BY <1>1
<1> HIDE DEF c, R
<1>4. /\ Moved(b, c) /\ {i} \subseteq Live(b) /\ c.rows = R
      /\ \A s \in 1 .. Len(b.rows) : c.rows[s].text = b.rows[s].text \/ \E j \in {i} : Slot(b, j) = s
  BY <1>1, <1>2, <1>3 DEF Became, Moved
<1>5. Only(b, c, {i})
  BY <1>4, OnlySlots
<1>6. Text(c, i) = 0
  BY <1>3, <1>4, MovedSame, BlankFacts DEF Text, Row
<1>7. {i} \subseteq Screen(b) /\ \A j \in {i} : Text(c, j) = 0
  BY <1>6
<1> QED BY <1>5, <1>7, WipedOnly DEF c

\* The places of a row and of the rows below it.
LEMMA SlotFrom ==
  ASSUME NEW b, b.cap \in Nat \ {0}, NEW i \in Nat, NEW k \in 0 .. b.cap - 1
  PROVE  LET r == i % b.cap
         IN /\ r \in 0 .. b.cap - 1
            /\ Slot(b, i + k) = IF r + k < b.cap THEN r + k + 1 ELSE r + k - b.cap + 1
<1> DEFINE c == b.cap
           r == i % c
           q == i \div c
<1>1. q \in Int /\ r \in 0 .. c - 1 /\ i = c * q + r /\ c \in Nat \ {0}
  <2>1. c \in Nat \ {0} /\ i \in Int
    OBVIOUS
  <2> QED BY <2>1, DivMod, Zenon
<1>2. Slot(b, i + k) = ((i + k) % c) + 1
  BY DEF Slot
<1>k. k \in 0 .. c - 1
  OBVIOUS
<1> HIDE DEF c, r, q
<1>3. CASE r + k < c
  <2>1. i + k = c * q + (r + k) /\ r + k \in 0 .. c - 1 /\ i + k \in Int
    BY <1>1, <1>3, <1>k
  <2>2. (i + k) % c = r + k
    BY <1>1, <2>1, ModIs
  <2> QED BY <1>1, <1>2, <1>3, <2>2 DEF c, r
<1>4. CASE ~(r + k < c)
  <2>1. i + k = c * (q + 1) + (r + k - c) /\ r + k - c \in 0 .. c - 1 /\ i + k \in Int /\ q + 1 \in Int
    BY <1>1, <1>4, <1>k
  <2>2. (i + k) % c = r + k - c
    BY <1>1, <2>1, ModIs
  <2> QED BY <1>1, <1>2, <1>4, <2>2 DEF c, r
<1> QED BY <1>3, <1>4

\* The rows that are cut out of the ring are the last n.
LEMMA UnrolledTexts ==
  ASSUME NEW b, Sound(b), NEW n, n \in Nat \ {0}, n <= b.size, n <= b.cap
  PROVE  /\ n = b.cap => Len(Unrolled(b, n)) = 0
         /\ n < b.cap => /\ Len(Unrolled(b, n)) = n
                         /\ \A j \in 1 .. n : Unrolled(b, n)[j] = Row(b, b.size - n + (j - 1))
<1> DEFINE end == b.size % b.cap
           start == (end - n) % b.cap
           whole == SubSeq(b.rows, start + 1, end)
           front == SubSeq(b.rows, start + 1, Len(b.rows))
           back == SubSeq(b.rows, 1, end)
           q == b.size \div b.cap
           z == b.size - n
           c == b.cap
<1>1. /\ b.size \in Nat /\ b.realsize \in Nat /\ c \in Nat \ {0}
      /\ b.rows \in Seq(RowTypes) /\ Len(b.rows) \in Nat /\ b.size <= b.realsize
      /\ Len(b.rows) = (IF b.realsize < c THEN b.realsize ELSE c)
      /\ z \in Nat
  BY DEF Sound, BufferTypes, SmallerOf
<1>2. end \in 0 .. c - 1 /\ (b.size < c => end = b.size) /\ q \in Int /\ b.size = c * q + end
  <2>1. (b.size % b.cap) + 1 \in 1 .. b.cap /\ (b.size < b.cap => (b.size % b.cap) + 1 = b.size + 1)
    BY <1>1, ModSlot, Zenon
  <2>2. b.size \in Int /\ c \in Nat \ {0}
    BY <1>1
  <2>3. q \in Int /\ end \in 0 .. c - 1 /\ b.size = c * q + end
    BY <2>2, DivMod
  <2> HIDE DEF end, q
  <2>4. end \in Int
    BY <1>1, <2>3
  <2>5. b.size < c => end + 1 = b.size + 1
    BY <2>1 DEF end
  <2> QED BY <1>1, <2>3, <2>4, <2>5
<1>3. Unrolled(b, n) = IF end >= start THEN whole ELSE front \o back
  BY DEF Unrolled
<1> HIDE DEF end, q
<1>4. start = IF n <= end THEN end - n ELSE end - n + c
  <2>1. end \in 0 .. b.cap - 1
    BY <1>2
  <2>2. n \in 0 .. b.cap
    BY <1>1
  <2>3. b.cap \in Nat \ {0}
    BY <1>1
  <2>4. (end - n) % b.cap = IF n <= end THEN end - n ELSE end - n + b.cap
    BY <2>1, <2>2, <2>3, ModBack, Zenon
  <2> QED BY <2>4 DEF start
<1> HIDE DEF start
<1>n. n \in Nat \ {0} /\ n <= c /\ n <= b.size
  OBVIOUS
<1> HIDE DEF c
<1>5. start \in Nat /\ end \in Nat /\ end <= Len(b.rows) /\ start < c
  <2>1. end \in Nat /\ end <= c - 1 /\ c \in Nat
    BY <1>1, <1>2
  <2>2. start \in Nat /\ start < c
    BY <1>4, <1>n, <2>1
  <2>3. end <= Len(b.rows)
    BY <1>1, <1>2, <2>1
  <2> QED BY <2>1, <2>2, <2>3
<1>6. z % c = start
  <2>1. start \in 0 .. c - 1 /\ z \in Int
    BY <1>1, <1>5
  <2>2. CASE n <= end
    <3>1. z = c * q + start
      BY <1>1, <1>2, <1>4, <1>n, <2>2
    <3> QED BY <1>1, <1>2, <2>1, <3>1, ModIs
  <2>3. CASE ~(n <= end)
    <3>1. z = c * (q - 1) + start /\ q - 1 \in Int
      BY <1>1, <1>2, <1>4, <1>n, <2>3
    <3> QED BY <1>1, <2>1, <3>1, ModIs
  <2> QED BY <2>2, <2>3
<1>7. ASSUME NEW k \in 0 .. c - 1
      PROVE  Slot(b, z + k) = IF start + k < c THEN start + k + 1 ELSE start + k - c + 1
  <2>1. b.cap \in Nat \ {0} /\ z \in Nat /\ k \in 0 .. b.cap - 1
    BY <1>1 DEF c
  <2> HIDE DEF z
  <2>2. Slot(b, z + k) = LET r == z % b.cap IN IF r + k < b.cap THEN r + k + 1 ELSE r + k - b.cap + 1
    BY <2>1, SlotFrom
  <2> QED BY <1>6, <2>2 DEF c
<1> HIDE DEF z
<1>8. CASE end >= start
  <2>1. start + 1 \in Int /\ 1 <= start + 1 /\ end \in Int /\ end <= Len(b.rows)
    BY <1>5
  <2>2. Part(RowTypes, b.rows, start + 1, end, whole)
    BY <1>1, <2>1, SubSeqPart, Zenon
  <2> HIDE DEF whole
  <2>3. CASE n = c
    <3>1. start = end
      BY <1>1, <1>2, <1>4, <2>3
    <3>2. Len(whole) = 0
      BY <1>5, <2>2, <3>1 DEF Part
    <3> QED BY <1>3, <1>8, <1>n, <2>3, <3>2 DEF c
  <2>4. CASE n # c
    <3>1. n <= end /\ start + n = end
      BY <1>1, <1>2, <1>4, <1>5, <1>8, <1>n, <2>4
    <3>2. Len(whole) = n
      BY <1>5, <1>n, <2>2, <3>1 DEF Part
    <3>3. ASSUME NEW j \in 1 .. n PROVE whole[j] = Row(b, z + (j - 1))
      <4>1. j \in 1 .. end - (start + 1) + 1 /\ (start + 1) + j - 1 = start + j
        BY <1>5, <1>n, <3>1
      <4>2. whole[j] = b.rows[start + j]
        BY <2>2, <4>1 DEF Part
      <4>3. j - 1 \in 0 .. c - 1 /\ start + (j - 1) < c /\ start + (j - 1) + 1 = start + j
        BY <1>1, <1>2, <1>5, <1>n, <3>1
      <4>4. Slot(b, z + (j - 1)) = start + j
        BY <1>7, <4>3
      <4> QED BY <4>2, <4>4 DEF Row
    <3> QED BY <1>3, <1>8, <2>4, <3>2, <3>3 DEF c, z
  <2> QED BY <2>3, <2>4
<1>9. CASE ~(end >= start)
  <2>1. start + 1 \in Int /\ 1 <= start + 1 /\ Len(b.rows) \in Int /\ Len(b.rows) <= Len(b.rows)
        /\ 1 \in Int /\ 1 <= 1 /\ end \in Int /\ end <= Len(b.rows)
    BY <1>1, <1>5
  <2>2. Part(RowTypes, b.rows, start + 1, Len(b.rows), front)
    BY <1>1, <2>1, SubSeqPart, Zenon
  <2>3. Part(RowTypes, b.rows, 1, end, back)
    BY <1>1, <2>1, SubSeqPart, Zenon
  <2> HIDE DEF front, back
  <2>4. Len(b.rows) = c /\ start = end - n + c /\ n > end /\ n < c
    BY <1>1, <1>2, <1>4, <1>5, <1>9, <1>n
  <2>5. front \in Seq(RowTypes) /\ back \in Seq(RowTypes) /\ Len(back) = end
        /\ Len(front) = c - start
    BY <1>1, <1>5, <2>2, <2>3, <2>4 DEF Part
  <2>6. Joined(RowTypes, front, back, front \o back)
    BY <2>5, Joining, Zenon
  <2>7. Len(front \o back) = n
    BY <1>1, <1>5, <2>4, <2>5, <2>6 DEF Joined
  <2>8. ASSUME NEW j \in 1 .. n PROVE (front \o back)[j] = Row(b, z + (j - 1))
    <3>1. j \in 1 .. Len(front) + Len(back) /\ j \in Int /\ j - 1 \in 0 .. c - 1
      BY <1>1, <1>5, <1>n, <2>4, <2>5
    <3>2. CASE j <= c - start
      <4>1. j \in 1 .. Len(b.rows) - (start + 1) + 1 /\ (start + 1) + j - 1 = start + j
        BY <1>1, <1>5, <1>n, <2>4, <3>1, <3>2
      <4>2. (front \o back)[j] = front[j] /\ front[j] = b.rows[start + j]
        BY <2>2, <2>5, <2>6, <3>1, <3>2, <4>1 DEF Joined, Part
      <4>3. start + (j - 1) < c /\ start + (j - 1) + 1 = start + j
        BY <1>1, <1>5, <1>n, <3>1, <3>2
      <4>4. Slot(b, z + (j - 1)) = start + j
        BY <1>7, <3>1, <4>3
      <4> QED BY <4>2, <4>4 DEF Row
    <3>3. CASE ~(j <= c - start)
      <4> DEFINE x == j - (c - start)
      <4>1. x \in 1 .. end - 1 + 1 /\ 1 + x - 1 = x
        BY <1>1, <1>5, <1>n, <2>4, <3>1, <3>3
      <4>a. x = j - Len(front)
        BY <2>5
      <4> HIDE DEF x
      <4>2. (front \o back)[j] = back[x] /\ back[x] = b.rows[x]
        BY <2>3, <2>5, <2>6, <3>1, <3>3, <4>1, <4>a DEF Joined, Part
      <4>3. ~(start + (j - 1) < c) /\ start + (j - 1) - c + 1 = x
        BY <1>1, <1>5, <1>n, <3>1, <3>3 DEF x
      <4>4. Slot(b, z + (j - 1)) = x
        BY <1>7, <3>1, <4>3
      <4> QED BY <4>2, <4>4 DEF Row
    <3> QED BY <3>2, <3>3
  <2> QED BY <1>3, <1>9, <1>n, <2>4, <2>7, <2>8 DEF c, z
<1> QED BY <1>8, <1>9

\* The ring turned round starts with its first row.
LEMMA StraightenedTexts ==
  ASSUME NEW b, Sound(b), First(b) < b.size
  PROVE  LET n == b.size - First(b)
         IN /\ n \in Nat \ {0} /\ Len(Straightened(b)) = n
            /\ \A j \in 1 .. n : Straightened(b)[j] = Row(b, First(b) + (j - 1))
<1> DEFINE pos == b.realsize % b.cap
           front == SubSeq(b.rows, pos + 1, Len(b.rows))
           back == SubSeq(b.rows, 1, pos)
           turned == IF pos < Len(b.rows) THEN front \o back ELSE b.rows
           most == Len(turned) - (b.realsize - b.size)
           n == b.size - First(b)
           F == First(b)
           c == b.cap
<1>1. /\ b.size \in Nat /\ b.realsize \in Nat /\ c \in Nat \ {0} /\ F \in Nat
      /\ b.rows \in Seq(RowTypes) /\ Len(b.rows) \in Nat /\ b.size <= b.realsize
      /\ Len(b.rows) = (IF b.realsize < c THEN b.realsize ELSE c)
      /\ F = (IF b.realsize > c THEN b.realsize - c ELSE 0) /\ F < b.size
  BY Measures
<1>2. pos \in 0 .. c - 1 /\ (b.realsize < c => pos = b.realsize)
  <2>1. (b.realsize % b.cap) + 1 \in 1 .. b.cap
        /\ (b.realsize < b.cap => (b.realsize % b.cap) + 1 = b.realsize + 1)
    BY <1>1, ModSlot, Zenon
  <2>2. b.realsize \in Int /\ c \in Nat \ {0}
    BY <1>1
  <2>3. pos \in 0 .. c - 1
    BY <2>2, DivMod
  <2> HIDE DEF pos
  <2>4. pos \in Int
    BY <1>1, <2>3
  <2>5. b.realsize < c => pos + 1 = b.realsize + 1
    BY <2>1 DEF pos
  <2> QED BY <1>1, <2>3, <2>4, <2>5
<1>3. Straightened(b) = SubSeq(turned, 1, most)
  BY DEF Straightened
<1>4. b.realsize >= c => F % c = pos
  <2>1. CASE b.realsize >= c
    <3>1. F + c = b.realsize /\ F \in Int
      BY <1>1, <2>1
    <3>2. (F + c) % c = F % c
      BY <1>1, <3>1, ModShift
    <3> QED BY <3>1, <3>2
  <2> QED BY <2>1
<1> HIDE DEF pos, F, c
<1>5. ASSUME b.realsize >= c, NEW k \in 0 .. c - 1
      PROVE  Slot(b, F + k) = IF pos + k < c THEN pos + k + 1 ELSE pos + k - c + 1
  <2>1. b.cap \in Nat \ {0} /\ F \in Nat /\ k \in 0 .. b.cap - 1
    BY <1>1, <1>5 DEF c
  <2>2. Slot(b, F + k) = LET r == F % b.cap IN IF r + k < b.cap THEN r + k + 1 ELSE r + k - b.cap + 1
    BY <2>1, SlotFrom
  <2> QED BY <1>4, <1>5, <2>2 DEF c
<1>6. /\ turned \in Seq(RowTypes) /\ Len(turned) = Len(b.rows)
      /\ \A j \in 1 .. Len(b.rows) : turned[j] = Row(b, F + (j - 1))
  <2>1. CASE b.realsize < c
    <3>1. turned = b.rows
      BY <1>1, <1>2, <2>1
    <3>2. ASSUME NEW j \in 1 .. Len(b.rows) PROVE b.rows[j] = Row(b, F + (j - 1))
      <4>1. F + (j - 1) = j - 1 /\ j - 1 \in Nat /\ j - 1 < b.cap /\ b.cap \in Nat \ {0} /\ (j - 1) + 1 = j
        BY <1>1, <2>1 DEF c
      <4>2. Slot(b, j - 1) = (j - 1) + 1
        BY <4>1, ModSlot, Zenon DEF Slot
      <4> QED BY <4>1, <4>2 DEF Row
    <3> HIDE DEF turned
    <3> QED BY <1>1, <3>1, <3>2
  <2>2. CASE ~(b.realsize < c)
    <3>0. Len(b.rows) = c /\ pos < c /\ pos \in Nat
      BY <1>1, <1>2, <2>2
    <3>1. pos + 1 \in Int /\ 1 <= pos + 1 /\ Len(b.rows) \in Int /\ Len(b.rows) <= Len(b.rows)
          /\ 1 \in Int /\ 1 <= 1 /\ pos \in Int /\ pos <= Len(b.rows)
      BY <1>1, <3>0
    <3>2. Part(RowTypes, b.rows, pos + 1, Len(b.rows), front)
      BY <1>1, <3>1, SubSeqPart, Zenon
    <3>3. Part(RowTypes, b.rows, 1, pos, back)
      BY <1>1, <3>1, SubSeqPart, Zenon
    <3>a. turned = front \o back
      BY <3>0
    <3> HIDE DEF front, back, turned
    <3>4. front \in Seq(RowTypes) /\ back \in Seq(RowTypes) /\ Len(back) = pos
          /\ Len(front) = c - pos
      BY <1>1, <3>0, <3>2, <3>3 DEF Part
    <3>5. Joined(RowTypes, front, back, turned)
      BY <3>4, <3>a, Joining, Zenon
    <3>6. turned \in Seq(RowTypes) /\ Len(turned) = c
      BY <1>1, <3>0, <3>4, <3>5 DEF Joined
    <3>7. ASSUME NEW j \in 1 .. c PROVE turned[j] = Row(b, F + (j - 1))
      <4>1. j \in 1 .. Len(front) + Len(back) /\ j \in Int /\ j - 1 \in 0 .. c - 1
        BY <1>1, <3>0, <3>4
      <4>2. CASE j <= c - pos
        <5>1. j \in 1 .. Len(b.rows) - (pos + 1) + 1 /\ (pos + 1) + j - 1 = pos + j
          BY <1>1, <3>0, <4>1, <4>2
        <5>2. turned[j] = front[j] /\ front[j] = b.rows[pos + j]
          BY <3>2, <3>4, <3>5, <4>1, <4>2, <5>1 DEF Joined, Part
        <5>3. pos + (j - 1) < c /\ pos + (j - 1) + 1 = pos + j
          BY <1>1, <3>0, <4>1, <4>2
        <5>4. Slot(b, F + (j - 1)) = pos + j
          BY <1>1, <1>5, <2>2, <4>1, <5>3
        <5> QED BY <5>2, <5>4 DEF Row
      <4>3. CASE ~(j <= c - pos)
        <5> DEFINE x == j - (c - pos)
        <5>1. x \in 1 .. pos - 1 + 1 /\ 1 + x - 1 = x
          BY <1>1, <3>0, <4>1, <4>3
        <5>a. x = j - Len(front)
          BY <3>4
        <5> HIDE DEF x
        <5>2. turned[j] = back[x] /\ back[x] = b.rows[x]
          BY <3>3, <3>4, <3>5, <4>1, <4>3, <5>1, <5>a DEF Joined, Part
        <5>3. ~(pos + (j - 1) < c) /\ pos + (j - 1) - c + 1 = x
          BY <1>1, <3>0, <4>1, <4>3 DEF x
        <5>4. Slot(b, F + (j - 1)) = x
          BY <1>1, <1>5, <2>2, <4>1, <5>3
        <5> QED BY <5>2, <5>4 DEF Row
      <4> QED BY <4>2, <4>3
    <3> QED BY <3>0, <3>6, <3>7
  <2> QED BY <2>1, <2>2
<1> HIDE DEF turned
<1>7. most = n /\ n \in Nat \ {0} /\ n <= Len(b.rows)
  <2> DEFINE z == b.size
             y == b.realsize
             l == Len(b.rows)
  <2>1. n = z - F /\ most = l - (y - z)
    BY <1>6 DEF F
  <2>2. /\ z \in Nat /\ y \in Nat /\ c \in Nat \ {0} /\ F \in Nat /\ l \in Nat /\ z <= y
        /\ l = (IF y < c THEN y ELSE c) /\ F = (IF y > c THEN y - c ELSE 0) /\ F < z
    BY <1>1
  <2> HIDE DEF n, most, z, y, l
  <2>3. most = n /\ n \in Nat \ {0} /\ n <= l
    BY <2>1, <2>2
  <2> QED BY <2>3 DEF l
<1>8. most \in Int /\ 1 \in Int /\ 1 <= 1 /\ most <= Len(turned)
  BY <1>1, <1>6, <1>7
<1> DEFINE p == SubSeq(turned, 1, most)
<1>9. Part(RowTypes, turned, 1, most, p)
  BY <1>6, <1>8, SubSeqPart, Zenon
<1> HIDE DEF most, p, n
<1>10. Len(p) = n /\ \A j \in 1 .. n : p[j] = turned[j]
  <2>1. Len(p) = n - 1 + 1 /\ \A j \in 1 .. n - 1 + 1 : p[j] = turned[1 + j - 1]
    BY <1>7, <1>9 DEF Part
  <2> QED BY <1>7, <2>1
<1>11. \A j \in 1 .. n : p[j] = Row(b, F + (j - 1))
  <2> TAKE j \in 1 .. n
  <2>1. j \in 1 .. Len(b.rows)
    BY <1>1, <1>7
  <2>2. turned[j] = Row(b, F + (j - 1))
    BY <1>6, <2>1, Zenon
  <2> QED BY <1>10, <2>2
<1> QED BY <1>3, <1>7, <1>10, <1>11 DEF n, p, F

\* A buffer of the given rows, numbered from zero.
LEMMA RenumberedRing ==
  ASSUME NEW b, Sound(b), ~b.noScroll, NEW rows, rows \in Seq(RowTypes), NEW cap, cap \in Nat \ {0},
         b.height <= cap, Len(rows) <= cap
  PROVE  LET c == Renumbered(b, rows, cap)
         IN /\ c.cap = cap /\ c.height = b.height
            /\ c.lost = (b.lost \/ Len(rows) < b.height)
            /\ b.height <= Len(rows) =>
                 /\ Ring(c) /\ First(c) = 0 /\ c.size = Len(rows)
                 /\ \A i \in 0 .. Len(rows) - 1 : Text(c, i) = rows[i + 1].text
<1> DEFINE missing == LargerOf(0, b.height - Len(rows))
           all == Blanks(missing) \o rows
           C == Len(all) - b.height .. Len(all) - 1
           lost == b.lost \/ missing > 0
           c == [b EXCEPT !.rows = all, !.size = Len(all), !.realsize = Len(all), !.cap = cap,
                          !.changed = C, !.lost = lost]
<1>1. b.height \in Nat \ {0} /\ Len(rows) \in Nat /\ b.lost \in BOOLEAN /\ b.noScroll \in BOOLEAN
  BY DEF Sound, BufferTypes
<1>2. missing = IF Len(rows) < b.height THEN b.height - Len(rows) ELSE 0
  BY <1>1 DEF LargerOf
<1>3. c = Renumbered(b, rows, cap)
  BY DEF Renumbered
<1>4. Kindred(b, c) /\ c.cap = cap
  BY <1>3, RenumberedFacts
<1> HIDE DEF missing
<1>5. c.lost = lost /\ c.rows = all /\ c.size = Len(all) /\ c.realsize = Len(all)
  BY DEF Sound, BufferTypes
<1>6. lost = (b.lost \/ Len(rows) < b.height)
  BY <1>1, <1>2
<1> HIDE DEF c, lost
<1>7. ASSUME b.height <= Len(rows)
      PROVE  /\ Ring(c) /\ First(c) = 0 /\ c.size = Len(rows)
             /\ \A i \in 0 .. Len(rows) - 1 : Text(c, i) = rows[i + 1].text
  <2>1. missing = 0
    BY <1>1, <1>2, <1>7
  <2>2. Blanks(0) \in Seq(RowTypes) /\ Len(Blanks(0)) = 0
    BY BlanksFacts
  <2>3. all = rows
    BY <2>1, <2>2
  <2>4. c.size = Len(rows) /\ c.realsize = Len(rows) /\ c.rows = rows
    BY <1>5, <2>3
  <2>5. Sound(c) /\ c.height = b.height /\ c.noScroll = b.noScroll
    BY <1>4 DEF Kindred
  <2>6. First(c) = 0
    BY <1>1, <1>4, <2>4, <2>5, Measures
  <2>7. Ring(c)
    <3>1. c.size .. c.realsize - 1 = {}
      BY <1>1, <2>4
    <3>2. Full(c)
      BY <1>1, <1>7, <2>4, <2>5, <2>6 DEF Full
    <3> QED BY <2>5, <3>1, <3>2 DEF Ring, Bare
  <2>8. ASSUME NEW i \in 0 .. Len(rows) - 1 PROVE Text(c, i) = rows[i + 1].text
    <3>1. i \in Nat /\ i < c.cap /\ c.cap \in Nat \ {0}
      BY <1>1, <1>4
    <3>2. Slot(c, i) = i + 1
      BY <3>1, ModSlot, Zenon DEF Slot
    <3> QED BY <2>4, <3>2 DEF Text, Row
  <2> QED BY <2>4, <2>6, <2>7, <2>8
<1> QED BY <1>3, <1>4, <1>5, <1>6, <1>7 DEF Kindred

LEMMA LastsFacts ==
  ASSUME NEW l, l \in Seq(Nat), NEW n, n \in 0 .. Len(l)
  PROVE  /\ List!Lasts(l, n) \in Seq(Nat) /\ Len(List!Lasts(l, n)) = n
         /\ \A j \in 1 .. n : List!Lasts(l, n)[j] = l[Len(l) - n + j]
<1> DEFINE p == SubSeq(l, Len(l) - n + 1, Len(l))
<1>1. /\ Len(l) - n + 1 \in Int /\ 1 <= Len(l) - n + 1 /\ Len(l) \in Int /\ Len(l) <= Len(l)
      /\ Len(l) \in Nat /\ n \in Nat
  OBVIOUS
<1>2. Part(Nat, l, Len(l) - n + 1, Len(l), p)
  BY <1>1, SubSeqPart, Zenon
<1>3. List!Lasts(l, n) = p
  BY DEF List!Lasts
<1> HIDE DEF p
<1>4. /\ p \in Seq(Nat)
      /\ Len(p) = IF Len(l) - n + 1 <= Len(l) THEN Len(l) - (Len(l) - n + 1) + 1 ELSE 0
      /\ \A j \in 1 .. Len(l) - (Len(l) - n + 1) + 1 : p[j] = l[(Len(l) - n + 1) + j - 1]
  BY <1>2 DEF Part
<1>5. Len(p) = n
  BY <1>1, <1>4
<1>6. ASSUME NEW j \in 1 .. n PROVE p[j] = l[Len(l) - n + j]
  <2>1. j \in 1 .. Len(l) - (Len(l) - n + 1) + 1 /\ (Len(l) - n + 1) + j - 1 = Len(l) - n + j
    BY <1>1
  <2> QED BY <1>4, <2>1
<1> QED BY <1>3, <1>4, <1>5, <1>6

(* The rows above the screen are cut off *)

\* c has just the lines of b's screen, or empty ones for them.
Cut(b, c) ==
  /\ Ring(c) /\ c.cap = b.cap /\ c.height = b.height /\ c.lost = b.lost
  /\ c.size - First(c) = c.height
  /\ \A k \in 1 .. b.height : Text(c, c.size - k) \in {0, Text(b, b.size - k)}

LEMMA ScreenIndex ==
  ASSUME NEW b, Ring(b), NEW k \in 1 .. b.height
  PROVE  b.size - k \in Screen(b) /\ b.size - k \in Live(b)
<1>1. b.size - k \in Screen(b)
  BY Measures DEF Ring, Screen
<1> QED BY <1>1, ScreenLive DEF Ring

LEMMA CutWiped ==
  ASSUME NEW a, Ring(a), NEW b, Cut(a, b), NEW c, Wiped(b, c)
  PROVE  Cut(a, c)
<1>1. Ring(b) /\ a.height = b.height
  BY DEF Cut
<1>2. /\ Ring(c) /\ c.cap = b.cap /\ c.height = b.height /\ c.lost = b.lost /\ c.size = b.size
      /\ First(c) = First(b)
  BY <1>1, WipedRing, MovedSame DEF Wiped
<1>3. \A k \in 1 .. a.height : Text(c, c.size - k) \in {0, Text(a, a.size - k)}
  BY <1>1, <1>2, ScreenIndex DEF Cut, Wiped
<1> QED BY <1>2, <1>3 DEF Cut

LEMMA WipedCut ==
  ASSUME NEW a, Ring(a), NEW b, Wiped(a, b), NEW c, Cut(b, c)
  PROVE  Cut(a, c)
<1>1. b.cap = a.cap /\ b.height = a.height /\ b.lost = a.lost /\ b.size = a.size
  BY MovedSame DEF Wiped
<1>2. \A k \in 1 .. a.height : Text(c, c.size - k) \in {0, Text(a, a.size - k)}
  BY <1>1, ScreenIndex DEF Cut, Wiped
<1> QED BY <1>1, <1>2 DEF Cut

LEMMA ClearScrollbackCuts ==
  ASSUME NEW b, Ring(b), ~ClearScrollback(b).lost
  PROVE  Cut(b, ClearScrollback(b))
<1> DEFINE h == b.height
           rows == Unrolled(b, h)
           r == Renumbered(b, rows, b.cap)
           c == ClearScrollback(b)
<1>1. /\ b.size \in Nat /\ b.realsize \in Nat /\ b.cap \in Nat \ {0} /\ h \in Nat \ {0}
      /\ h <= b.size /\ h <= b.cap /\ First(b) \in Nat /\ First(b) <= b.size - h
      /\ Sound(b) /\ ~b.noScroll
  BY Measures DEF Ring, Full
<1>2. CASE b.size = h
  <2>1. c = b
    BY <1>2 DEF ClearScrollback
  <2>2. b.size - First(b) = b.height
    BY <1>1, <1>2
  <2> QED BY <2>1, <2>2 DEF Cut
<1>3. CASE b.size # h
  <2>1. c = TellCapacity(r)
    BY <1>3 DEF ClearScrollback
  <2>2. rows \in Seq(RowTypes) /\ Len(rows) <= h
    BY <1>1, UnrolledFacts
  <2>3. /\ h = b.cap => Len(rows) = 0
        /\ h < b.cap => /\ Len(rows) = h
                        /\ \A j \in 1 .. h : rows[j] = Row(b, b.size - h + (j - 1))
    BY <1>1, UnrolledTexts
  <2>4. Len(rows) <= b.cap
    <3> HIDE DEF rows
    <3>1. Len(rows) \in Nat
      BY <2>2
    <3> QED BY <1>1, <2>2, <3>1
  <2> HIDE DEF rows, c
  <2>5. /\ r.cap = b.cap /\ r.height = h /\ r.lost = (b.lost \/ Len(rows) < h)
        /\ h <= Len(rows) => /\ Ring(r) /\ First(r) = 0 /\ r.size = Len(rows)
                             /\ \A i \in 0 .. Len(rows) - 1 : Text(r, i) = rows[i + 1].text
    BY <1>1, <2>2, <2>4, RenumberedRing
  <2>a. Sound(r)
    BY <1>1, <2>2, <2>4, RenumberedFacts DEF Kindred
  <2> HIDE DEF r
  <2>6. Twin(r, c)
    BY <2>1, <2>a, TwinOps
  <2>7. r.lost = FALSE /\ b.lost = FALSE /\ ~(Len(rows) < h)
    <3>1. ~r.lost
      BY <2>6, MovedSame DEF Twin, c
    <3>2. b.lost \in BOOLEAN
      BY <1>1 DEF Sound, BufferTypes
    <3> QED BY <2>5, <3>1, <3>2
  <2>8. Len(rows) = h /\ h < b.cap
    BY <1>1, <2>2, <2>3, <2>7
  <2>9. Ring(r) /\ First(r) = 0 /\ r.size = h /\ \A i \in 0 .. h - 1 : Text(r, i) = rows[i + 1].text
    BY <1>1, <2>5, <2>8
  <2>10. ASSUME NEW k \in 1 .. h PROVE Text(r, r.size - k) = Text(b, b.size - k)
    <3>1. h - k \in 0 .. h - 1 /\ (h - k) + 1 \in 1 .. h /\ b.size - h + (((h - k) + 1) - 1) = b.size - k
      BY <1>1
    <3>2. Text(r, r.size - k) = rows[(h - k) + 1].text
      BY <2>9, <3>1
    <3>3. rows[(h - k) + 1] = Row(b, b.size - h + (((h - k) + 1) - 1))
      BY <2>3, <2>8, <3>1
    <3> QED BY <3>1, <3>2, <3>3 DEF Text
  <2>11. Cut(b, r)
    <3>1. r.size - First(r) = r.height
      BY <1>1, <2>5, <2>9
    <3>2. \A k \in 1 .. b.height : Text(r, r.size - k) \in {0, Text(b, b.size - k)}
      BY <2>10
    <3> QED BY <2>5, <2>7, <2>9, <3>1, <3>2 DEF Cut
  <2>12. Wiped(r, c)
    BY <2>6, <2>a, TwinFacts
  <2> QED BY <2>11, <2>12, CutWiped DEF c
<1> QED BY <1>2, <1>3

LEMMA CutLines ==
  ASSUME NEW b, Ring(b), NEW c, Cut(b, c)
  PROVE  /\ b.height \in b.height .. Len(Lines(b))
         /\ Recast(b.height, List!Lasts(Lines(b), b.height), Lines(c))
<1> DEFINE h == b.height
           l == Lines(b)
           m == Lines(c)
           e == List!Lasts(l, h)
<1>1. /\ b.size \in Nat /\ h \in Nat \ {0} /\ h <= b.size /\ First(b) \in Nat
  BY Measures DEF Ring
<1>2. /\ l \in Seq(Nat) /\ Len(l) = b.size - First(b) /\ h <= Len(l)
      /\ \A j \in 1 .. b.size - First(b) : l[j] = Text(b, First(b) + j - 1)
  BY LinesFacts DEF Ring
<1>3. c.size \in Nat /\ First(c) \in Nat /\ c.size - First(c) = h /\ Sound(c) /\ Full(c)
  BY Measures DEF Ring, Cut
<1>4. /\ Len(m) = h /\ \A j \in 1 .. h : m[j] = Text(c, First(c) + j - 1)
  BY <1>3, LinesFacts
<1> HIDE DEF l, m
<1>5. Len(e) = h /\ \A j \in 1 .. h : e[j] = l[Len(l) - h + j]
  <2>1. h \in 0 .. Len(l)
    BY <1>1, <1>2
  <2> QED BY <1>2, <2>1, LastsFacts
<1>6. e \in Seq(Nat)
  <2>1. h \in 0 .. Len(l)
    BY <1>1, <1>2
  <2> QED BY <1>2, <2>1, LastsFacts
<1> HIDE DEF e
<1>7. ASSUME NEW j \in 1 .. h PROVE m[j] = e[j] \/ m[j] = 0
  <2> DEFINE k == h - j + 1
  <2>1. /\ k \in 1 .. h /\ First(c) + j - 1 = c.size - k
        /\ Len(l) - h + j \in 1 .. b.size - First(b) /\ First(b) + (Len(l) - h + j) - 1 = b.size - k
    <3> DEFINE z == b.size
               f == First(b)
               g == First(c)
               n == Len(l)
    <3>1. /\ z \in Nat /\ h \in Nat \ {0} /\ f \in Nat /\ n = z - f /\ h <= n /\ g \in Nat
          /\ c.size = g + h
      BY <1>1, <1>2, <1>3
    <3> HIDE DEF z, f, g, n, h
    <3>2. /\ k \in 1 .. h /\ g + j - 1 = (g + h) - k
          /\ n - h + j \in 1 .. z - f /\ f + (n - h + j) - 1 = z - k
      BY <3>1
    <3> QED BY <3>1, <3>2 DEF z, f, g, n
  <2> HIDE DEF k
  <2>2. Text(c, c.size - k) = 0 \/ Text(c, c.size - k) = Text(b, b.size - k)
    BY <2>1 DEF Cut
  <2>3. m[j] = Text(c, c.size - k)
    BY <1>4, <2>1
  <2>4. e[j] = Text(b, b.size - k)
    BY <1>2, <1>5, <2>1
  <2> QED BY <2>2, <2>3, <2>4
<1>8. h \in Len(e) - h + 1 .. Len(e) /\ Len(e) - h + 1 .. Len(e) = 1 .. h /\ DOMAIN e = 1 .. h
  BY <1>1, <1>5, <1>6
<1>9. Recast(h, e, m)
  <2> HIDE DEF h
  <2> QED BY <1>4, <1>5, <1>7, <1>8 DEF Recast
<1> QED BY <1>1, <1>2, <1>9 DEF e, l, m

(* The ring gets another capacity *)

Empties(k) == [i \in 1 .. k |-> 0]

LEMMA EmptiesFacts ==
  ASSUME NEW k \in Nat
  PROVE  Empties(k) \in Seq(Nat) /\ Len(Empties(k)) = k /\ \A i \in 1 .. k : Empties(k)[i] = 0
<1>1. Empties(k) \in [1 .. k -> Nat] /\ \A i \in 1 .. k : Empties(k)[i] = 0
  BY DEF Empties
<1> QED BY <1>1

\* m is what is left of l, after k empty lines, when the capacity p becomes q.
Recap(p, q, l, m) ==
  \E k \in 0 .. q :
    LET n == IF q < Len(l) THEN q ELSE Len(l)
    IN m = Empties(k) \o List!Lasts(l, n) /\ (k > 0 => k + n <= q /\ q < p)

LEMMA RecapIs ==
  ASSUME NEW l, l \in Seq(Nat), NEW m, m \in Seq(Nat), NEW p \in Nat, NEW q \in Nat, NEW k \in 0 .. q,
         NEW n, n = (IF q < Len(l) THEN q ELSE Len(l)), Len(m) = k + n,
         \A j \in 1 .. k : m[j] = 0, \A j \in 1 .. n : m[k + j] = l[Len(l) - n + j],
         k > 0 => k + n <= q /\ q < p
  PROVE  Recap(p, q, l, m)
<1> DEFINE s == Empties(k)
           e == List!Lasts(l, n)
           j == s \o e
<1>1. n \in 0 .. Len(l) /\ n \in Nat /\ k \in Nat
  OBVIOUS
<1>2. s \in Seq(Nat) /\ Len(s) = k /\ \A i \in 1 .. k : s[i] = 0
  BY <1>1, EmptiesFacts
<1>3. e \in Seq(Nat) /\ Len(e) = n /\ \A i \in 1 .. n : e[i] = l[Len(l) - n + i]
  <2> HIDE DEF s, j
  <2>1. l \in Seq(Nat) /\ n \in 0 .. Len(l)
    BY <1>1
  <2>2. /\ List!Lasts(l, n) \in Seq(Nat) /\ Len(List!Lasts(l, n)) = n
        /\ \A i \in 1 .. n : List!Lasts(l, n)[i] = l[Len(l) - n + i]
    BY ONLY <2>1, LastsFacts
  <2> QED BY <2>2
<1> HIDE DEF s, e
<1>4. Joined(Nat, s, e, j)
  BY <1>2, <1>3, Joining, Zenon
<1> HIDE DEF j
<1>5. /\ j \in Seq(Nat) /\ Len(j) = k + n
      /\ \A i \in 1 .. k + n : j[i] = IF i <= k THEN s[i] ELSE e[i - k]
  BY <1>2, <1>3, <1>4 DEF Joined
<1>6. ASSUME NEW i \in 1 .. k + n PROVE m[i] = j[i]
  <2>1. CASE i <= k
    <3>1. i \in 1 .. k
      BY <1>1, <2>1
    <3> QED BY <1>2, <1>5, <2>1, <3>1
  <2>2. CASE ~(i <= k)
    <3> DEFINE x == i - k
    <3>1. x \in 1 .. n /\ k + x = i
      BY <1>1, <2>2
    <3>2. j[i] = e[x]
      BY <1>5, <2>2
    <3> HIDE DEF x
    <3>3. e[x] = l[Len(l) - n + x] /\ m[k + x] = l[Len(l) - n + x]
      BY <1>3, <3>1
    <3> QED BY <3>1, <3>2, <3>3
  <2> QED BY <2>1, <2>2
<1>7. m = j
  BY <1>5, <1>6, SeqEqual
<1> QED BY <1>7 DEF Recap, j, s, e

\* The lines of rows numbered from zero.
LEMMA RenumberedLines ==
  ASSUME NEW c, Ring(c), First(c) = 0, NEW rows, rows \in Seq(RowTypes), c.size = Len(rows),
         \A i \in 0 .. Len(rows) - 1 : Text(c, i) = rows[i + 1].text
  PROVE  /\ Lines(c) \in Seq(Nat) /\ Len(Lines(c)) = Len(rows)
         /\ \A j \in 1 .. Len(rows) : Lines(c)[j] = rows[j].text
<1>1. /\ Lines(c) \in Seq(Nat) /\ Len(Lines(c)) = Len(rows)
      /\ \A j \in 1 .. Len(rows) : Lines(c)[j] = Text(c, j - 1)
  <2>1. /\ Lines(c) \in Seq(Nat) /\ Len(Lines(c)) = c.size - First(c)
        /\ \A j \in 1 .. c.size - First(c) : Lines(c)[j] = Text(c, First(c) + j - 1)
    BY LinesFacts DEF Ring
  <2>2. c.size - First(c) = Len(rows)
    BY Measures DEF Ring
  <2>3. \A j \in 1 .. Len(rows) : First(c) + j - 1 = j - 1
    OBVIOUS
  <2> QED BY <2>1, <2>2, <2>3
<1>2. \A j \in 1 .. Len(rows) : j - 1 \in 0 .. Len(rows) - 1 /\ (j - 1) + 1 = j
  OBVIOUS
<1> QED BY <1>1, <1>2

\* A row that has lost its place to one below the screen is empty there.
LEMMA ChoppedText ==
  ASSUME NEW b, Ring(b), NEW i, i \in Nat, i < First(b), b.size <= i + b.cap
  PROVE  Held(b, i) /\ Text(b, i) = 0
<1>1. /\ b.size \in Nat /\ b.realsize \in Nat /\ b.cap \in Nat \ {0}
      /\ First(b) = (IF b.realsize > b.cap THEN b.realsize - b.cap ELSE 0)
  BY Measures DEF Ring
<1>2. i + b.cap \in b.size .. b.realsize - 1 /\ b.realsize >= b.cap
  BY <1>1
<1>3. (i + b.cap) % b.cap = i % b.cap
  <2>1. i \in Int /\ b.cap \in Nat \ {0}
    BY <1>1
  <2> QED BY <2>1, ModShift, Zenon
<1>4. Text(b, i) = Text(b, i + b.cap)
  BY <1>3 DEF Text, Row, Slot
<1> QED BY <1>2, <1>4 DEF Ring, Bare, Held

LEMMA CapacityGrown ==
  ASSUME NEW b, Ring(b), NEW cap, cap \in Nat \ {0}, b.cap < cap
  PROVE  LET c == SetCapacity(b, cap)
         IN Ring(c) /\ First(c) = 0 /\ c.cap = cap /\ c.height = b.height /\ c.lost = b.lost /\ Lines(c) = Lines(b)
<1> DEFINE rows == Straightened(b)
           c == Renumbered(b, rows, cap)
           n == b.size - First(b)
           F == First(b)
<1>1. /\ b.size \in Nat /\ b.cap \in Nat \ {0} /\ b.height \in Nat \ {0} /\ F \in Nat /\ Sound(b)
      /\ F <= b.size - b.height /\ b.height <= b.cap /\ ~b.noScroll /\ b.lost \in BOOLEAN
  BY Measures DEF Ring, Full, Sound, BufferTypes
<1>2. rows \in Seq(RowTypes) /\ Len(rows) <= b.cap
  BY <1>1, StraightenedFacts
<1>3. n \in Nat \ {0} /\ Len(rows) = n /\ \A j \in 1 .. n : rows[j] = Row(b, F + (j - 1))
  <2>1. First(b) < b.size
    BY <1>1
  <2> QED BY <1>1, <2>1, StraightenedTexts
<1>4. b.height <= Len(rows)
  BY <1>1, <1>3
<1>5. SetCapacity(b, cap) = c
  BY DEF SetCapacity
<1> HIDE DEF rows
<1>6. b.height <= cap /\ Len(rows) <= cap
  <2>1. Len(rows) \in Nat
    BY <1>2
  <2> QED BY <1>1, <1>2, <2>1
<1>7. /\ c.cap = cap /\ c.height = b.height /\ c.lost = (b.lost \/ Len(rows) < b.height)
      /\ Ring(c) /\ First(c) = 0 /\ c.size = Len(rows)
      /\ \A i \in 0 .. Len(rows) - 1 : Text(c, i) = rows[i + 1].text
  BY <1>1, <1>2, <1>4, <1>6, RenumberedRing
<1> HIDE DEF c
<1>8. c.lost = b.lost
  BY <1>1, <1>3, <1>4, <1>7
<1>9. /\ Lines(c) \in Seq(Nat) /\ Len(Lines(c)) = n /\ \A j \in 1 .. n : Lines(c)[j] = rows[j].text
  BY <1>2, <1>3, <1>7, RenumberedLines
<1>10. /\ Lines(b) \in Seq(Nat) /\ Len(Lines(b)) = n
       /\ \A j \in 1 .. n : Lines(b)[j] = Text(b, F + j - 1)
  BY LinesFacts DEF Ring
<1>11. ASSUME NEW j \in 1 .. n PROVE Lines(c)[j] = Lines(b)[j]
  <2>1. F + (j - 1) = F + j - 1
    BY <1>1
  <2> QED BY <1>3, <1>9, <1>10, <2>1 DEF Text
<1>12. Lines(c) = Lines(b)
  BY <1>9, <1>10, <1>11, SeqEqual
<1> QED BY <1>5, <1>7, <1>8, <1>12

LEMMA CapacityShrunk ==
  ASSUME NEW b, Ring(b), NEW cap, cap \in Nat \ {0}, cap < b.cap, b.height <= cap
  PROVE  LET c == SetCapacity(b, cap)
         IN Ring(c) /\ c.cap = cap /\ c.height = b.height /\ Recap(b.cap, cap, Lines(b), Lines(c))
<1> DEFINE rows == CapacityRows(b, cap)
           c == Renumbered(b, rows, cap)
           len == b.size - First(b)
           F == First(b)
           l == Lines(b)
           m == Lines(c)
           N == IF b.size > cap THEN cap ELSE b.size
           n == IF cap < len THEN cap ELSE len
           k == N - n
<1>1. /\ b.size \in Nat /\ b.realsize \in Nat /\ b.cap \in Nat \ {0} /\ b.height \in Nat \ {0} /\ F \in Nat
      /\ F <= b.size - b.height /\ b.height <= b.size /\ b.size <= b.realsize
      /\ b.rows \in Seq(RowTypes) /\ Len(b.rows) = (IF b.realsize < b.cap THEN b.realsize ELSE b.cap)
      /\ Sound(b) /\ ~b.noScroll
      /\ F = (IF b.realsize > b.cap THEN b.realsize - b.cap ELSE 0)
  BY Measures DEF Ring, Full
<1>2. rows \in Seq(RowTypes) /\ Len(rows) <= cap
  BY <1>1, CapacityRowsFacts
<1>3. Len(rows) = N /\ \A j \in 1 .. N : rows[j] = Row(b, b.size - N + (j - 1))
  <2>1. CASE b.size > cap
    <3>1. rows = Unrolled(b, cap) /\ N = cap
      BY <1>1, <2>1 DEF CapacityRows
    <3>2. cap <= b.size /\ cap <= b.cap
      BY <1>1, <2>1
    <3> HIDE DEF rows, N
    <3> QED BY <1>1, <3>1, <3>2, UnrolledTexts
  <2>2. CASE ~(b.size > cap)
    <3> DEFINE end == b.size % b.cap
    <3>1. end = b.size
      <4>1. (b.size % b.cap) + 1 \in 1 .. b.cap /\ (b.size < b.cap => (b.size % b.cap) + 1 = b.size + 1)
        BY <1>1, ModSlot, Zenon
      <4>2. end \in Int
        BY <1>1
      <4> QED BY <1>1, <2>2, <4>1, <4>2
    <3>2. rows = SubSeq(b.rows, 1, end) /\ N = b.size
      BY <1>1, <2>2 DEF CapacityRows
    <3> HIDE DEF end, rows, N
    <3>3. 1 \in Int /\ 1 <= 1 /\ end \in Int /\ end <= Len(b.rows)
      BY <1>1, <2>2, <3>1
    <3>4. Part(RowTypes, b.rows, 1, end, rows)
      BY <1>1, <3>2, <3>3, SubSeqPart, Zenon
    <3>5. Len(rows) = N /\ \A j \in 1 .. N : rows[j] = b.rows[j]
      BY <1>1, <3>1, <3>2, <3>4 DEF Part
    <3>6. ASSUME NEW j \in 1 .. N PROVE b.rows[j] = Row(b, b.size - N + (j - 1))
      <4>1. /\ b.size - N + (j - 1) = j - 1 /\ j - 1 \in Nat /\ j - 1 < b.cap /\ b.cap \in Nat \ {0}
            /\ (j - 1) + 1 = j
        BY <1>1, <2>2, <3>2
      <4>2. Slot(b, j - 1) = (j - 1) + 1
        BY <4>1, ModSlot, Zenon DEF Slot
      <4> QED BY <4>1, <4>2 DEF Row
    <3> QED BY <3>5, <3>6
  <2> QED BY <2>1, <2>2
<1>4. SetCapacity(b, cap) = c
  BY DEF SetCapacity, CapacityRows
<1> HIDE DEF rows
<1> DEFINE z == b.size
           h == b.height
           p == b.cap
           y == b.realsize
<1>0. /\ z \in Nat /\ h \in Nat \ {0} /\ F \in Nat /\ F <= z - h /\ p \in Nat \ {0} /\ y \in Nat /\ z <= y
      /\ cap < p /\ h <= cap
      /\ F = (IF y > p THEN y - p ELSE 0)
      /\ len = z - F /\ N = (IF z > cap THEN cap ELSE z) /\ n = (IF cap < len THEN cap ELSE len) /\ k = N - n
  BY <1>1
<1> HIDE DEF F, N, n, k, len, z, h, p, y
<1>5. /\ N \in Nat /\ len \in Nat /\ n \in Nat /\ k \in Nat /\ k + n = N /\ N <= cap /\ N <= z
      /\ h <= N /\ k <= cap
  BY <1>0
<1>6. b.height <= Len(rows)
  BY <1>3, <1>5 DEF h
<1>7. /\ c.cap = cap /\ c.height = b.height /\ Ring(c) /\ First(c) = 0 /\ c.size = Len(rows)
      /\ \A i \in 0 .. Len(rows) - 1 : Text(c, i) = rows[i + 1].text
  BY <1>1, <1>2, <1>6, RenumberedRing
<1> HIDE DEF c
<1>8. m \in Seq(Nat) /\ Len(m) = N /\ \A j \in 1 .. N : m[j] = rows[j].text
  BY <1>2, <1>3, <1>7, RenumberedLines
<1>9. l \in Seq(Nat) /\ Len(l) = len /\ \A j \in 1 .. len : l[j] = Text(b, F + j - 1)
  BY LinesFacts DEF Ring, len, F
<1> HIDE DEF l, m
<1>10. ASSUME NEW j \in 1 .. N PROVE m[j] = Text(b, b.size - N + (j - 1))
  BY <1>3, <1>8 DEF Text
<1>11. ASSUME NEW j \in 1 .. k PROVE m[j] = 0
  <2> DEFINE i == b.size - N + (j - 1)
  <2>1. j \in 1 .. N /\ i \in Nat /\ i < First(b) /\ b.size <= i + b.cap
    <3>1. i = z - N + (j - 1)
      BY DEF z
    <3> HIDE DEF i
    <3>2. j \in 1 .. N /\ i \in Nat /\ i < F /\ z <= i + p
      BY <1>0, <1>5, <3>1
    <3> QED BY <3>2 DEF z, p, F
  <2> HIDE DEF i
  <2>2. Text(b, i) = 0
    BY <2>1, ChoppedText
  <2> QED BY <1>10, <2>1, <2>2 DEF i
<1>12. ASSUME NEW j \in 1 .. n PROVE m[k + j] = l[Len(l) - n + j]
  <2> DEFINE x == len - n + j
  <2>1. /\ k + j \in 1 .. N /\ x \in 1 .. len
        /\ b.size - N + ((k + j) - 1) = F + x - 1
    <3>1. x = len - n + j
      OBVIOUS
    <3> HIDE DEF x
    <3>2. k + j \in 1 .. N /\ x \in 1 .. len /\ z - N + ((k + j) - 1) = F + x - 1
      BY <1>0, <1>5, <3>1
    <3> QED BY <3>2 DEF z
  <2>2. m[k + j] = Text(b, b.size - N + ((k + j) - 1))
    BY <1>10, <2>1
  <2>3. l[x] = Text(b, F + x - 1)
    BY <1>9, <2>1
  <2> QED BY <1>9, <2>1, <2>2, <2>3
<1>13. Recap(b.cap, cap, l, m)
  <2>1. k \in 0 .. cap /\ n = (IF cap < Len(l) THEN cap ELSE Len(l)) /\ Len(m) = k + n
        /\ (k > 0 => k + n <= cap /\ cap < p) /\ p \in Nat /\ cap \in Nat
    BY <1>0, <1>5, <1>8, <1>9
  <2>2. Recap(p, cap, l, m)
    BY <1>8, <1>9, <1>11, <1>12, <2>1, RecapIs
  <2> QED BY <2>2 DEF p
<1> QED BY <1>4, <1>7, <1>13 DEF l, m

LEMMA EnableScrollbackLines ==
  ASSUME NEW b, Ring(b), NEW cap, cap \in Nat \ {0}
  PROVE  LET c == EnableScrollback(b, cap)
         IN /\ Ring(c) /\ c.height = b.height
            /\ c = b \/ Recap(b.cap, c.cap, Lines(b), Lines(c))
<1> DEFINE new == CapacityFor(cap, b.height)
           open == [b EXCEPT !.noScroll = FALSE]
           d == SetCapacity(b, new)
           c == EnableScrollback(b, cap)
<1>1. b.height \in Nat /\ Sound(b) /\ ~b.noScroll /\ b.cap \in Nat
  BY Measures DEF Ring
<1>2. new \in Nat \ {0} /\ b.height <= new
  BY <1>1, CapacityFits
<1>3. open = b
  BY <1>1 DEF Sound, BufferTypes
<1>4. c = IF b.cap = new THEN b ELSE TellCapacity(d)
  BY <1>1, <1>3 DEF EnableScrollback
<1> HIDE DEF new, c, d
<1>5. CASE b.cap = new
  BY <1>4, <1>5 DEF c
<1>6. CASE b.cap # new
  <2>1. CASE b.cap < new
    <3>1. Ring(d) /\ d.cap = new /\ d.height = b.height /\ Lines(d) = Lines(b)
      BY <1>2, <2>1, CapacityGrown DEF d
    <3>2. /\ Lines(b) \in Seq(Nat) /\ Len(Lines(b)) \in Nat /\ Len(Lines(b)) <= new
      <4>1. Lines(b) \in Seq(Nat) /\ Len(Lines(b)) <= b.cap
        BY LinesFacts DEF Ring
      <4>2. Len(Lines(b)) \in Nat
        BY <4>1
      <4> QED BY <1>1, <1>2, <2>1, <4>1, <4>2
    <3>3. Recap(b.cap, new, Lines(b), Lines(d))
      <4> DEFINE l == Lines(b)
                 n == Len(l)
                 p == b.cap
      <4>1. /\ n = (IF new < Len(l) THEN new ELSE Len(l)) /\ Len(l) = 0 + n /\ 0 \in 0 .. new /\ l \in Seq(Nat)
            /\ (\A j \in 1 .. 0 : l[j] = 0) /\ new \in Nat /\ p \in Nat
            /\ (0 > 0 => 0 + n <= new /\ new < p)
        BY <1>1, <1>2, <3>2
      <4>2. \A j \in 1 .. n : l[0 + j] = l[Len(l) - n + j]
        <5>1. \A j \in 1 .. n : 0 + j = j /\ Len(l) - n + j = j
          BY <3>2
        <5> QED BY <5>1
      <4> HIDE DEF l, n, p
      <4>3. Recap(p, new, l, l)
        BY <4>1, <4>2, RecapIs
      <4> QED BY <3>1, <4>3 DEF l, p
    <3>4. Twin(d, c)
      BY <1>4, <1>6, <3>1, TwinOps DEF Ring
    <3>5. Ring(c) /\ Lines(c) = Lines(d) /\ c.cap = d.cap /\ c.height = d.height
      BY <3>1, <3>4, TwinFacts, MovedSame DEF Ring, Twin
    <3> QED BY <3>1, <3>3, <3>5 DEF c
  <2>2. CASE ~(b.cap < new)
    <3>0. new < b.cap
      BY <1>1, <1>2, <1>6, <2>2
    <3>1. Ring(d) /\ d.cap = new /\ d.height = b.height /\ Recap(b.cap, new, Lines(b), Lines(d))
      BY <1>2, <3>0, CapacityShrunk DEF d
    <3>4. Twin(d, c)
      BY <1>4, <1>6, <3>1, TwinOps DEF Ring
    <3>5. Ring(c) /\ Lines(c) = Lines(d) /\ c.cap = d.cap /\ c.height = d.height
      BY <3>1, <3>4, TwinFacts, MovedSame DEF Ring, Twin
    <3> QED BY <3>1, <3>5 DEF c
  <2> QED BY <2>1, <2>2
<1> QED BY <1>5, <1>6

(* The screen gets another height *)

LEMMA FitForRing ==
  ASSUME NEW b, Ring(b), NEW height, height \in Nat \ {0}
  PROVE  LET d == FitFor(b, height)
         IN /\ Ring(d) /\ d.height = b.height /\ d.lost = b.lost /\ Lines(d) = Lines(b)
            /\ b.cap <= d.cap /\ height <= d.cap
<1> DEFINE new == CapacityFor(b.cap, height)
           e == SetCapacity(b, new)
           d == FitFor(b, height)
<1>1. b.cap \in Nat \ {0} /\ Sound(b)
  BY Measures DEF Ring
<1>2. CASE b.cap < height
  <2>1. new \in Nat \ {0} /\ height <= new
    BY <1>1, CapacityFits
  <2>2. b.cap < new
    BY <1>1, <1>2, <2>1
  <2>3. d = TellCapacity(e)
    BY <1>2 DEF FitFor
  <2> HIDE DEF new, d
  <2>4. Ring(e) /\ e.cap = new /\ e.height = b.height /\ e.lost = b.lost /\ Lines(e) = Lines(b)
    BY <2>1, <2>2, CapacityGrown
  <2> HIDE DEF e
  <2>5. Twin(e, d)
    BY <2>3, <2>4, TwinOps DEF Ring
  <2>6. Ring(d) /\ Lines(d) = Lines(e) /\ d.cap = e.cap /\ d.height = e.height /\ d.lost = e.lost
    BY <2>4, <2>5, TwinFacts, MovedSame DEF Ring, Twin
  <2> QED BY <1>1, <2>1, <2>2, <2>4, <2>6 DEF d
<1>3. CASE ~(b.cap < height)
  <2>1. d = b
    BY <1>3 DEF FitFor
  <2> QED BY <1>1, <1>3, <2>1
<1> QED BY <1>2, <1>3

\* What of the rows that have been added or removed is left.
LEMMA SizedTexts ==
  ASSUME NEW d, Ring(d), NEW height, height \in Nat \ {0}, height <= d.cap,
         NEW removed, Removable(d, height, removed), NEW c, Sized(d, height, removed, c), Full(c)
  PROVE  /\ First(c) = First(d) /\ c.size = d.size + LinesAdded(d, height) - removed
         /\ \A i \in Live(c) : Text(c, i) = IF i < d.size - removed THEN Text(d, i) ELSE 0
         /\ removed \in Nat /\ LinesAdded(d, height) \in Nat
         /\ d.size < height => First(d) = 0 /\ removed = 0 /\ LinesAdded(d, height) = height - d.size
         /\ height <= d.size => LinesAdded(d, height) = 0 /\ removed <= d.size - First(d) - height
<1> DEFINE F == First(d)
           z == d.size
           y == d.realsize
           p == d.cap
           a == LinesAdded(d, height)
           x == c.size
           w == c.realsize
           G == First(c)
<1>1. /\ z \in Nat /\ y \in Nat /\ p \in Nat \ {0} /\ F \in Nat /\ F <= z /\ z <= y
      /\ Len(d.rows) = (IF y < p THEN y ELSE p)
      /\ F = (IF y > p THEN y - p ELSE 0)
      /\ Sound(d) /\ ~d.noScroll
  BY Measures DEF Ring, Full
<1>2. /\ a = (IF z < height THEN height - z ELSE 0) /\ w = (IF y < height THEN height ELSE y)
      /\ x = z + a - removed /\ c.cap = p /\ c.height = height /\ Sound(c)
      /\ a > 0 => removed = 0
  BY <1>1 DEF Sized, LinesAdded, LargerOf
<1>3. removed \in Nat
  BY DEF Removable
<1>4. G = (IF w > p THEN w - p ELSE 0) /\ G <= x - height /\ Len(c.rows) = (IF w < p THEN w ELSE p)
  BY <1>2, Measures DEF Full
<1>10. Live(d) = F .. y - 1 /\ Live(c) = G .. w - 1
  BY DEF Live
<1>11. \A i : Slot(c, i) = Slot(d, i)
  BY <1>2 DEF Slot
<1>12. d.cap = p
  OBVIOUS
<1> HIDE DEF F, z, y, p, a, x, w, G
<1>5. /\ a \in Nat /\ G = F
      /\ z < height => F = 0 /\ removed = 0 /\ a = height - z
      /\ height <= z => a = 0 /\ removed <= z - F - height
  <2>1. CASE z < height
    BY <1>1, <1>2, <1>3, <1>4, <2>1
  <2>2. CASE ~(z < height)
    BY <1>1, <1>2, <1>3, <1>4, <2>2
  <2> QED BY <2>1, <2>2
<1>6. ASSUME NEW i \in Live(c) PROVE Text(c, i) = IF i < z - removed THEN Text(d, i) ELSE 0
  <2>1. Slot(c, i) \in 1 .. Len(c.rows) /\ i \in Nat
    BY <1>2, Places
  <2>2. CASE i < y
    <3>1. i \in Live(d)
      BY <1>1, <1>2, <1>3, <1>5, <1>10, <2>1, <2>2
    <3>2. Slot(d, i) \in 1 .. Len(d.rows) /\ \A j \in Live(d) : Slot(d, j) = Slot(d, i) => j = i
      BY <1>1, <3>1, Places
    <3>3. \A j \in z - removed .. z - 1 : j \in Live(d)
      BY <1>1, <1>2, <1>3, <1>5, <1>10
    <3>4. c.rows[Slot(d, i)] = d.rows[Slot(d, i)] \/ i \in z - removed .. z - 1
      BY <3>2, <3>3 DEF Sized, z
    <3>5. i \in z - removed .. z - 1 => c.rows[Slot(d, i)] = BlankRow
      BY <1>11, <2>1, <3>1 DEF Sized, z
    <3>6. i >= z => Text(d, i) = 0
      BY <1>1, <2>1, <2>2 DEF Ring, Bare, z, y
    <3>7. /\ Text(c, i) = c.rows[Slot(d, i)].text /\ Text(d, i) = d.rows[Slot(d, i)].text
          /\ BlankRow.text = 0
      BY <1>11, BlankFacts DEF Text, Row
    <3>8. i \in z - removed .. z - 1 \/ i >= z \/ i < z - removed
      BY <1>1, <1>3, <2>1
    <3>9. i < z - removed => ~(i \in z - removed .. z - 1)
      BY <1>1, <1>3, <2>1
    <3>a. i >= z => ~(i < z - removed)
      BY <1>1, <1>3, <2>1
    <3> QED BY <3>4, <3>5, <3>6, <3>7, <3>8, <3>9, <3>a
  <2>3. CASE ~(i < y)
    <3>1. i \in Nat /\ i < p /\ p \in Nat \ {0} /\ i + 1 > Len(d.rows) /\ ~(i < z - removed)
      BY <1>1, <1>2, <1>3, <1>4, <1>10, <2>1, <2>3
    <3>2. Slot(d, i) = i + 1
      BY <1>12, <3>1, ModSlot, Zenon DEF Slot
    <3>3. c.rows[Slot(c, i)] = BlankRow
      BY <1>11, <2>1, <3>1, <3>2 DEF Sized
    <3> QED BY <3>1, <3>3, BlankFacts DEF Text, Row
  <2> QED BY <2>2, <2>3
<1> QED BY <1>2, <1>3, <1>5, <1>6 DEF F, z, a, x, G

\* What a new height makes of the lines.
Refit(l, m, height) ==
  \/ /\ Len(l) >= height
     /\ \E n \in 0 .. Len(l) - height :
          m = SubSeq(l, 1, Len(l) - n) /\ \A i \in Len(l) - n + 1 .. Len(l) : l[i] = 0
  \/ Len(l) < height /\ m = l \o Empties(height - Len(l))

LEMMA SizedLines ==
  ASSUME NEW d, Ring(d), NEW height, height \in Nat \ {0}, height <= d.cap,
         NEW removed, Removable(d, height, removed), \A i \in d.size - removed .. d.size - 1 : Text(d, i) = 0,
         NEW c, Sized(d, height, removed, c), Full(c)
  PROVE  Ring(c) /\ c.cap = d.cap /\ c.height = height /\ c.lost = d.lost /\ Refit(Lines(d), Lines(c), height)
<1> DEFINE F == First(d)
           z == d.size
           a == LinesAdded(d, height)
           l == Lines(d)
           m == Lines(c)
           x == c.size
<1>1. z \in Nat /\ F \in Nat /\ F <= z - d.height /\ d.height \in Nat /\ Sound(d) /\ ~d.noScroll
  BY Measures DEF Ring, Full
<1>2. Sound(c) /\ ~c.noScroll /\ c.cap = d.cap /\ c.height = height /\ c.lost = d.lost
  BY <1>1 DEF Sized
<1>3. /\ First(c) = F /\ x = z + a - removed /\ removed \in Nat /\ a \in Nat
      /\ \A i \in Live(c) : Text(c, i) = IF i < z - removed THEN Text(d, i) ELSE 0
      /\ z < height => F = 0 /\ removed = 0 /\ a = height - z
      /\ height <= z => a = 0 /\ removed <= z - F - height
  BY SizedTexts
<1>4. Ring(c)
  <2>1. ASSUME NEW i \in c.size .. c.realsize - 1 PROVE Text(c, i) = 0
    <3>1. First(c) <= c.size /\ c.size \in Nat /\ c.realsize \in Nat /\ height <= c.size
      BY <1>2, Measures DEF Full
    <3>2. i \in Live(c)
      BY <1>1, <1>3, <3>1 DEF Live
    <3>3. ~(i < z - removed)
      BY <1>1, <1>3, <3>1
    <3> QED BY <1>3, <3>2, <3>3
  <2> QED BY <1>2, <2>1 DEF Ring, Bare
<1>5. l \in Seq(Nat) /\ Len(l) = z - F /\ \A j \in 1 .. z - F : F + j - 1 \in Live(d) /\ l[j] = Text(d, F + j - 1)
  BY LinesFacts DEF Ring
<1>6. m \in Seq(Nat) /\ Len(m) = x - F /\ \A j \in 1 .. x - F : F + j - 1 \in Live(c) /\ m[j] = Text(c, F + j - 1)
  BY <1>2, <1>3, LinesFacts
<1>7. \A j \in 1 .. x - F : m[j] = IF F + j - 1 < z - removed THEN Text(d, F + j - 1) ELSE 0
  BY <1>3, <1>6
<1>8. \A i \in z - removed .. z - 1 : Text(d, i) = 0
  OBVIOUS
<1> HIDE DEF F, z, a, l, m, x
<1>9. CASE height <= z
  <2> DEFINE n == removed
             r == Len(l) - n
             q == SubSeq(l, 1, r)
  <2>1. a = 0 /\ n \in 0 .. Len(l) - height /\ Len(l) >= height /\ Len(l) - n = x - F /\ x = z - n
    BY <1>1, <1>3, <1>5, <1>9
  <2>2. 1 \in Int /\ 1 <= 1 /\ r \in Int /\ r <= Len(l) /\ 1 <= r /\ r = x - F
    BY <1>5, <2>1
  <2> HIDE DEF r
  <2>3. Part(Nat, l, 1, r, q)
    BY <1>5, <2>2, SubSeqPart, Zenon
  <2>4. q \in Seq(Nat) /\ Len(q) = x - F /\ \A j \in 1 .. x - F : q[j] = l[j]
    <3>1. q \in Seq(Nat) /\ Len(q) = r - 1 + 1 /\ \A j \in 1 .. r - 1 + 1 : q[j] = l[1 + j - 1]
      <4> HIDE DEF q
      <4> QED BY <2>2, <2>3 DEF Part
    <3>2. r - 1 + 1 = r /\ \A j \in 1 .. r : 1 + j - 1 = j
      BY <2>2
    <3> HIDE DEF q, n
    <3> QED BY <2>2, <3>1, <3>2
  <2> HIDE DEF q
  <2>5. ASSUME NEW j \in 1 .. x - F PROVE m[j] = q[j]
    <3>1. j \in 1 .. z - F /\ F + j - 1 < z - removed
      BY <1>1, <1>3, <1>5, <2>1
    <3> QED BY <1>5, <1>7, <2>4, <3>1
  <2>6. m = q
    BY <1>6, <2>4, <2>5, SeqEqual
  <2>7. ASSUME NEW i \in Len(l) - n + 1 .. Len(l) PROVE l[i] = 0
    <3>1. i \in 1 .. z - F /\ F + i - 1 \in z - removed .. z - 1
      BY <1>1, <1>3, <1>5, <2>1
    <3> QED BY <1>5, <1>8, <3>1
  <2>8. Refit(l, m, height)
    BY <2>1, <2>6, <2>7 DEF Refit, q, r
  <2> QED BY <1>2, <1>4, <2>8 DEF l, m
<1>10. CASE ~(height <= z)
  <2> DEFINE k == height - z
             e == Empties(k)
             q == l \o e
  <2>1. k \in Nat /\ F = 0 /\ removed = 0 /\ a = k /\ Len(l) = z /\ x = z + k /\ z < height
    BY <1>1, <1>3, <1>5, <1>10
  <2>2. e \in Seq(Nat) /\ Len(e) = k /\ \A i \in 1 .. k : e[i] = 0
    BY <2>1, EmptiesFacts
  <2> HIDE DEF e
  <2>3. Joined(Nat, l, e, q)
    BY <1>5, <2>2, Joining, Zenon
  <2> HIDE DEF q
  <2>4. /\ q \in Seq(Nat) /\ Len(q) = z + k
        /\ \A i \in 1 .. z + k : q[i] = IF i <= z THEN l[i] ELSE e[i - z]
    BY <2>1, <2>2, <2>3 DEF Joined
  <2>5. ASSUME NEW j \in 1 .. z + k PROVE m[j] = q[j]
    <3>1. j \in 1 .. x - F /\ (F + j - 1 < z - removed <=> j <= z) /\ (~(j <= z) => j - z \in 1 .. k)
      BY <1>1, <2>1
    <3>2. j <= z => j \in 1 .. z - F
      BY <1>1, <2>1
    <3> QED BY <1>5, <1>7, <2>2, <2>4, <3>1, <3>2
  <2>6. Len(m) = z + k
    BY <1>1, <1>6, <2>1
  <2>7. m = q
    BY <1>6, <2>4, <2>5, <2>6, SeqEqual
  <2>8. Refit(l, m, height)
    BY <2>1, <2>7 DEF Refit, q, e, k
  <2> QED BY <1>2, <1>4, <2>8 DEF l, m
<1> QED BY <1>9, <1>10

\* setScreenHeight, while the ring holds the screen.
LEMMA SetScreenHeightLines ==
  ASSUME NEW b, Ring(b), NEW height, height \in Nat \ {0}, NEW maxChop, maxChop \in Nat,
         Full(SetScreenHeight(b, height, maxChop))
  PROVE  LET c == SetScreenHeight(b, height, maxChop)
         IN Ring(c) /\ b.cap <= c.cap /\ c.height = height /\ Refit(Lines(b), Lines(c), height)
<1> DEFINE d == FitFor(b, height)
           removed == RemovedFor(b, d, height, maxChop)
           done == SizedFor(d, height, removed)
           set == SetHeightSteps(b, height, maxChop)
           c == SetScreenHeight(b, height, maxChop)
<1>1. Sound(b) /\ ~b.noScroll /\ b.height \in Nat
  BY Measures DEF Ring
<1>2. c = TrimAll(set)
  BY <1>1, SetScreenHeightFacts
<1>3. /\ Ring(d) /\ d.height = b.height /\ Lines(d) = Lines(b) /\ b.cap <= d.cap /\ height <= d.cap
  BY FitForRing
<1>4. Kindred(b, d)
  BY <1>1, FitFacts
<1>5. removed = EmptyRows(d, SmallerOf(maxChop, LargerOf(0, b.height - height)))
  BY <1>1 DEF RemovedFor
<1>6. set = (IF LinesAdded(d, height) + removed > 0 THEN TellLength(done) ELSE done)
  BY DEF SetHeightSteps
<1> HIDE DEF d, c, set
<1>7. Removable(d, height, removed)
  BY <1>1, <1>4, RemovedFacts
<1>8. \A i \in d.size - removed .. d.size - 1 : Text(d, i) = 0
  <2>1. SmallerOf(maxChop, LargerOf(0, b.height - height)) \in Nat /\ d.size \in Nat
    BY <1>1, <1>3, Measures DEF SmallerOf, LargerOf, Ring
  <2> QED BY <1>5, <2>1, EmptyRowsFacts DEF Text
<1> HIDE DEF removed
<1>9. Sized(d, height, removed, done)
  BY <1>3, <1>7, SizedFacts DEF Ring
<1> HIDE DEF done
<1>10. Twin(done, c)
  <2>1. Sound(done)
    BY <1>9 DEF Sized
  <2>2. Twin(done, set)
    BY <1>6, <2>1, TwinOps
  <2>3. Sound(set)
    BY <2>2, MovedSame DEF Twin
  <2> QED BY <1>2, <2>2, <2>3, TwinOps, TwinTrans
<1>11. Full(done) /\ c.cap = done.cap /\ c.height = done.height
  BY <1>10, MovedSame DEF Twin, c
<1>12. /\ Ring(done) /\ done.cap = d.cap /\ done.height = height
       /\ Refit(Lines(d), Lines(done), height)
  BY <1>3, <1>7, <1>8, <1>9, <1>11, SizedLines
<1>13. Ring(c) /\ Lines(c) = Lines(done)
  BY <1>10, <1>12, TwinFacts DEF Ring
<1> QED BY <1>3, <1>11, <1>12, <1>13 DEF c

(* What the operations of the screen do to the main buffer *)

Fine(t) == Good(t) /\ Bounds(t) /\ Ring(t.buf[0])

LEMMA FineFacts ==
  ASSUME NEW t, Fine(t)
  PROVE  /\ Good(t) /\ Poised(t) /\ Bounds(t) /\ t \in Terminals /\ "buf" \in DOMAIN t
         /\ Sound(t.buf[0]) /\ Full(t.buf[0]) /\ Ring(t.buf[0]) /\ t.buf[0].height = t.height
         /\ t.cur \in 0 .. 1 /\ (t.cur = 0 => Cur(t) = t.buf[0]) /\ CursorRow(t) \in Screen(Cur(t))
         /\ t.height \in Nat \ {0} /\ t.y \in 0 .. t.height - 1
<1>1. Good(t) /\ Poised(t) /\ Bounds(t) /\ Ring(t.buf[0]) /\ Sound(t.buf[0]) /\ Full(t.buf[0])
  BY DEF Fine, Good, Ring
<1>2. /\ t \in Terminals /\ t.cur \in 0 .. 1 /\ (t.cur = 0 => Cur(t) = t.buf[0])
      /\ t.height \in Nat \ {0} /\ t.y \in 0 .. t.height - 1
  BY <1>1, ScreenFacts
<1>3. "buf" \in DOMAIN t /\ t.buf[0].height = t.height
  BY <1>1, <1>2 DEF Terminals, Poised, Framed
<1> QED BY <1>1, <1>2, <1>3, CursorOnScreen

LEMMA WithCurMain ==
  ASSUME NEW t, t \in Terminals, NEW b
  PROVE  WithCur(t, b).buf[0] = IF t.cur = 0 THEN b ELSE t.buf[0]
  BY DEF WithCur, Terminals

\* u's main buffer has t's rows, but for those of the screen that are erased.
Wipes(t, u) == Marks(t, u) /\ Wiped(t.buf[0], u.buf[0])

LEMMA WipesTrans ==
  ASSUME NEW t, NEW u, NEW v, Wipes(t, u), Wipes(u, v)
  PROVE  Wipes(t, v)
  BY MarksTrans, WipedTrans DEF Wipes

LEMMA WipesFine ==
  ASSUME NEW t, Fine(t), NEW u, Wipes(t, u)
  PROVE  Fine(u) /\ u.height = t.height
  BY MarksGood, WipedRing DEF Fine, Wipes

LEMMA SameWipes ==
  ASSUME NEW t, Fine(t), NEW u, Marks(t, u), u.buf[0] = t.buf[0]
  PROVE  Wipes(t, u)
  BY FineFacts, WipedSelf DEF Wipes

LEMMA QuietWipes ==
  ASSUME NEW t, Fine(t), NEW u, Marks(t, u), Quiet(t, u)
  PROVE  Wipes(t, u)
  BY SameWipes DEF Quiet

LEMMA WipesSelf ==
  ASSUME NEW t, Fine(t)
  PROVE  Wipes(t, t)
  BY FineFacts, MarksSelf, SameWipes

LEMMA CurWipes ==
  ASSUME NEW t, Fine(t), NEW b, Marks(t, WithCur(t, b)), t.cur = 0 => Wiped(t.buf[0], b)
  PROVE  Wipes(t, WithCur(t, b))
<1>1. t \in Terminals
  BY FineFacts
<1>2. WithCur(t, b).buf[0] = IF t.cur = 0 THEN b ELSE t.buf[0]
  BY <1>1, WithCurMain
<1>3. CASE t.cur = 0
  BY <1>2, <1>3 DEF Wipes
<1>4. CASE t.cur # 0
  BY <1>2, <1>4, SameWipes
<1> QED BY <1>3, <1>4

LEMMA EraseRowWipes ==
  ASSUME NEW t, Fine(t), NEW y, y \in 0 .. t.height - 1
  PROVE  Wipes(t, EraseRow(t, y))
<1> DEFINE i == t.offset + y
           b == Cur(t)
           c == TakeRow(b, i)
           d == PutRow(c, i, BlankRow)
<1>1. EraseRow(t, y) = WithCur(t, d)
  BY DEF EraseRow
<1>2. Marks(t, EraseRow(t, y))
  BY FineFacts, EraseRowMarks
<1>3. ASSUME t.cur = 0 PROVE Wiped(t.buf[0], d)
  <2>1. b = t.buf[0] /\ Sound(b) /\ Full(b) /\ i \in Screen(b)
    BY <1>3, FineFacts, OnScreen
  <2> HIDE DEF i, b
  <2>2. Only(b, c, {})
    BY <2>1, TakeOnly
  <2>3. Wiped(b, c)
    BY <2>2, WipedOnly
  <2> HIDE DEF c
  <2>4. Sound(c) /\ Full(c) /\ i \in Screen(c)
    BY <2>1, <2>3, MovedSame DEF Wiped
  <2>5. Wiped(c, d)
    BY <2>4, PutBlankWiped
  <2> HIDE DEF d
  <2> QED BY <2>1, <2>3, <2>5, WipedTrans
<1> QED BY <1>1, <1>2, <1>3, CurWipes

LEMMA EraseRowsWipes ==
  ASSUME NEW t, Fine(t), NEW ys, ys \subseteq 0 .. t.height - 1
  PROVE  Wipes(t, EraseRows(t, ys))
<1> DEFINE b == Cur(t)
           D == {t.offset + y : y \in ys}
           C == b.changed \cup D
           c == WithRows(b, Replaced(b, [i \in D |-> BlankRow]), C)
<1>1. EraseRows(t, ys) = WithCur(t, c)
  BY DEF EraseRows, WithRows
<1>2. Marks(t, EraseRows(t, ys))
  BY FineFacts, EraseRowsMarks
<1>3. ASSUME t.cur = 0 PROVE Wiped(t.buf[0], c)
  <2>1. b = t.buf[0] /\ Sound(b) /\ Full(b) /\ D \subseteq Screen(b)
    BY <1>3, FineFacts, OnScreen
  <2> HIDE DEF D, b
  <2>2. C \subseteq Nat
    <3>1. Screen(b) \subseteq Nat
      <4>1. \A i \in Screen(b) : i \in Nat
        BY <2>1, ScreenRows
      <4> QED BY <4>1
    <3>2. b.changed \subseteq Nat
      BY <2>1 DEF Sound, BufferTypes
    <3> QED BY <2>1, <3>1, <3>2
  <2> HIDE DEF C
  <2>3. Wiped(b, c)
    BY <2>1, <2>2, BlankedWiped
  <2> QED BY <2>1, <2>3
<1> QED BY <1>1, <1>2, <1>3, CurWipes

LEMMA ErasedAboveWipes ==
  ASSUME NEW t, Fine(t), NEW n \in Nat, n <= t.height
  PROVE  Wipes(t, ErasedAbove(t, n)[n])
<1> DEFINE E == ErasedAbove(t, n)
           Bad == {m \in 0 .. n : ~Wipes(t, E[m])}
<1>n. t.height \in Nat
  BY FineFacts
<1>0. \A m \in 0 .. n : E[m] = IF m = 0 THEN t ELSE EraseRow(E[m-1], m-1)
  <2>1. \E e : Erasing(t, n, e)
    BY ErasedExists
  <2>2. E = [k \in 0 .. n |-> IF k = 0 THEN t ELSE EraseRow(E[k-1], k-1)]
    BY <2>1 DEF ErasedAbove, Erasing
  <2> HIDE DEF E
  <2> QED BY <2>2
<1> HIDE DEF E
<1> SUFFICES ASSUME Bad # {} PROVE FALSE
  <2>1. n \in 0 .. n
    OBVIOUS
  <2> QED BY <2>1 DEF E
<1>a. Bad \subseteq Nat
  OBVIOUS
<1>1. PICK m \in Bad : \A y \in Bad : m <= y
  <2> HIDE DEF Bad
  <2> QED BY <1>a, Least
<1>b. m \in 0 .. n /\ ~Wipes(t, E[m])
  OBVIOUS
<1>2. m # 0
  <2>1. E[0] = t
    BY <1>0
  <2> QED BY <2>1, <1>b, WipesSelf
<1>3. m - 1 \in 0 .. n /\ m - 1 \notin Bad
  <2>0. m \in Nat /\ m <= n
    BY <1>b
  <2>1. m - 1 \in 0 .. n /\ m - 1 \in Nat /\ ~(m <= m - 1)
    BY <1>2, <2>0
  <2> QED BY <1>1, <2>1
<1>4. Wipes(t, E[m-1])
  BY <1>3
<1> HIDE DEF Bad
<1>5. Fine(E[m-1]) /\ m - 1 \in 0 .. E[m-1].height - 1
  BY <1>n, <1>b, <1>3, <1>4, WipesFine
<1>6. Wipes(E[m-1], EraseRow(E[m-1], m - 1))
  BY <1>5, EraseRowWipes
<1>7. E[m] = EraseRow(E[m-1], m-1)
  BY <1>0, <1>b, <1>2
<1> QED BY <1>b, <1>4, <1>6, <1>7, WipesTrans

\* What leaves the buffers as they are.
LEMMA CursorWipes ==
  ASSUME NEW t, Fine(t), NEW y, y \in Int
  PROVE  /\ Wipes(t, RowUpdate(t)) /\ Wipes(t, MoveTo(t, y)) /\ Wipes(t, MoveBy(t, y))
         /\ Wipes(t, MoveY(t, y + t.origin, TRUE)) /\ Wipes(t, SaveCursor(t)) /\ Wipes(t, RestoreCursor(t))
<1>1. Good(t) /\ Bounds(t) /\ "buf" \in DOMAIN t
  BY FineFacts
<1>2. /\ Marks(t, RowUpdate(t)) /\ Marks(t, MoveTo(t, y)) /\ Marks(t, MoveBy(t, y))
      /\ Marks(t, MoveY(t, y + t.origin, TRUE)) /\ Marks(t, SaveCursor(t)) /\ Marks(t, RestoreCursor(t))
  BY <1>1, MoveMarks, VerticalMarks
<1>3. /\ Quiet(t, RowUpdate(t)) /\ Quiet(t, MoveTo(t, y)) /\ Quiet(t, MoveBy(t, y))
      /\ Quiet(t, MoveY(t, y + t.origin, TRUE)) /\ Quiet(t, SaveCursor(t)) /\ Quiet(t, RestoreCursor(t))
  BY <1>1, QuietMoves, QuietSwitches
<1> QED BY <1>2, <1>3, QuietWipes

LEMMA MarginWipes ==
  ASSUME NEW t, Fine(t), NEW top, top \in 0 .. t.height - 1,
         NEW bottom, bottom \in 0 .. t.height - 1, top <= bottom
  PROVE  Wipes(t, SetMargins(t, top, bottom))
  BY FineFacts, MarginMarks, QuietModes, QuietWipes

LEMMA ModeWipes ==
  ASSUME NEW t, Fine(t), NEW on, on \in BOOLEAN
  PROVE  /\ Wipes(t, [t EXCEPT !.originMode = on]) /\ Wipes(t, SetStayWithinMargins(t, on))
<1>1. Good(t) /\ Bounds(t) /\ "buf" \in DOMAIN t
  BY FineFacts
<1>2. Marks(t, [t EXCEPT !.originMode = on]) /\ Marks(t, SetStayWithinMargins(t, on))
  BY <1>1, ModeMarks
<1>3. Quiet(t, [t EXCEPT !.originMode = on]) /\ Quiet(t, SetStayWithinMargins(t, on))
  BY <1>1, QuietFields, QuietModes
<1> QED BY <1>2, <1>3, QuietWipes

LEMMA SwitchWipes ==
  ASSUME NEW t, Fine(t), NEW k, k \in 0 .. 1
  PROVE  Wipes(t, SetBuffer(t, k))
  BY FineFacts, SwitchMarks, QuietSwitches, QuietWipes

LEMMA ClearAlternateWipes ==
  ASSUME NEW t, Fine(t)
  PROVE  Wipes(t, ClearAlternate(t))
<1>1. Marks(t, ClearAlternate(t)) /\ t \in Terminals
  BY FineFacts, ClearAlternateMarks
<1>2. ClearAlternate(t).buf[0] = t.buf[0]
  BY <1>1 DEF ClearAlternate, Terminals
<1> QED BY <1>1, <1>2, SameWipes

LEMMA MoveDownWipes ==
  ASSUME NEW t, Fine(t)
  PROVE  Wipes(t, CursorMoveDown(t))
<1> DEFINE u == MoveBy(t, 1)
           b == TouchRow(Cur(u), CursorRow(u))
<1>1. CursorMoveDown(t) = WithCur(u, b)
  BY DEF CursorMoveDown
<1>2. Wipes(t, u)
  <2>1. 1 \in Int
    OBVIOUS
  <2> QED BY <2>1, CursorWipes
<1>3. Marks(t, CursorMoveDown(t))
  BY FineFacts, MoveDownMarks
<1> HIDE DEF u
<1>4. Fine(u) /\ u \in Terminals
  BY <1>2, WipesFine, FineFacts
<1>5. ASSUME u.cur = 0 PROVE Wiped(u.buf[0], b)
  <2>1. Cur(u) = u.buf[0] /\ Sound(Cur(u)) /\ CursorRow(u) \in Nat
    BY <1>4, <1>5, FineFacts, CursorsRow
  <2>2. Twin(Cur(u), b)
    BY <2>1, TwinOps
  <2> QED BY <2>1, <2>2, TwinFacts
<1> HIDE DEF b
<1>6. Wiped(u.buf[0], WithCur(u, b).buf[0])
  BY <1>4, <1>5, WithCurMain, WipedSelf, FineFacts
<1>7. Wiped(t.buf[0], WithCur(u, b).buf[0])
  BY <1>2, <1>6, WipedTrans DEF Wipes
<1> QED BY <1>1, <1>3, <1>7 DEF Wipes

LEMMA ResetEmulatorWipes ==
  ASSUME NEW t, Fine(t)
  PROVE  Wipes(t, ResetEmulator(t))
<1> DEFINE off == FALSE
           flagged == [t EXCEPT !.originMode = off]
           plain == SetMargins(flagged, 0, t.height - 1)
           cleared == ClearAlternate(plain)
           whole == SetBuffer(cleared, 0)
           saved == [y |-> 0, origin |-> FALSE]
           end == [whole EXCEPT !.saved = saved]
<1>0. ResetEmulator(t) = end
  BY DEF ResetEmulator
<1>1. t.height \in Nat \ {0} /\ 0 \in 0 .. 1 /\ off \in BOOLEAN
  BY FineFacts
<1> HIDE DEF off
<1>3. Wipes(t, flagged)
  BY <1>1, ModeWipes
<1> HIDE DEF flagged
<1>4. Fine(flagged) /\ flagged.height = t.height
  BY <1>3, WipesFine
<1>5. 0 \in 0 .. flagged.height - 1 /\ t.height - 1 \in 0 .. flagged.height - 1 /\ 0 <= t.height - 1
  BY <1>1, <1>4
<1>6. Wipes(flagged, plain)
  BY <1>4, <1>5, MarginWipes
<1> HIDE DEF plain
<1>7. Wipes(plain, cleared)
  BY <1>4, <1>6, WipesFine, ClearAlternateWipes
<1> HIDE DEF cleared
<1>8. Fine(cleared)
  BY <1>4, <1>6, <1>7, WipesFine
<1>9. Wipes(cleared, whole)
  BY <1>1, <1>8, SwitchWipes
<1> HIDE DEF whole
<1>10. Wipes(t, whole)
  BY <1>3, <1>6, <1>7, <1>9, WipesTrans
<1>11. Marks(t, ResetEmulator(t))
  BY FineFacts, ResetEmulatorMarks
<1>12. end.buf = whole.buf
  <2>1. "buf" \in DOMAIN whole
    BY <1>10, MarksGood DEF Wipes
  <2> QED BY <2>1
<1> HIDE DEF end
<1> QED BY <1>0, <1>10, <1>11, <1>12 DEF Wipes

\* The screen is cleared; what is lost stays lost.
LEMMA ClearScreenWipes ==
  ASSUME NEW t, Fine(t)
  PROVE  Wipes(t, ClearScreen(t))
<1> DEFINE set == SetMargins(t, 0, t.height - 1)
           home == MoveTo(set, 0)
           ys == 0 .. t.height - 1
           end == EraseRows(home, ys)
<1>0. ClearScreen(t) = end
  BY DEF ClearScreen
<1>1. t.height \in Nat \ {0}
  BY FineFacts
<1>2. 0 \in 0 .. t.height - 1 /\ t.height - 1 \in 0 .. t.height - 1 /\ 0 <= t.height - 1 /\ 0 \in Int
  BY <1>1
<1>3. Wipes(t, set)
  BY <1>2, MarginWipes
<1> HIDE DEF set
<1>4. Fine(set) /\ set.height = t.height
  BY <1>3, WipesFine
<1>5. Wipes(set, home)
  BY <1>2, <1>4, CursorWipes
<1> HIDE DEF home
<1>6. Fine(home) /\ home.height = t.height
  BY <1>4, <1>5, WipesFine
<1>7. ys \subseteq 0 .. home.height - 1
  BY <1>6
<1> HIDE DEF ys
<1>8. Wipes(home, end)
  BY <1>6, <1>7, EraseRowsWipes
<1> HIDE DEF end
<1> QED BY <1>0, <1>3, <1>5, <1>8, WipesTrans

LEMMA ClearScreenLost ==
  ASSUME NEW t, Good(t), Bounds(t)
  PROVE  ClearScreen(t).buf[0].lost = t.buf[0].lost
<1> DEFINE set == SetMargins(t, 0, t.height - 1)
           home == MoveTo(set, 0)
           D == {home.offset + y : y \in 0 .. t.height - 1}
           rows == Replaced(Cur(home), [i \in D |-> BlankRow])
           b == [Cur(home) EXCEPT !.rows = rows, !.changed = @ \cup D]
<1>1. ClearScreen(t) = WithCur(home, b)
  BY DEF ClearScreen, EraseRows
<1>2. t \in Terminals /\ "buf" \in DOMAIN t /\ t.height \in Nat \ {0}
  BY ScreenFacts, CurBounded DEF Good
<1>3. 0 \in 0 .. t.height - 1 /\ t.height - 1 \in 0 .. t.height - 1 /\ 0 <= t.height - 1 /\ 0 \in Int
  BY <1>2
<1>4. Quiet(t, set) /\ Marks(t, set)
  BY <1>2, <1>3, QuietModes, MarginMarks
<1> HIDE DEF set
<1>5. Good(set) /\ Bounds(set) /\ "buf" \in DOMAIN set
  BY <1>4, MarksGood
<1>6. Quiet(set, home) /\ Marks(set, home)
  BY <1>3, <1>5, QuietMoves, MoveMarks
<1> HIDE DEF home
<1>7. home \in Terminals /\ home.buf = t.buf
  BY <1>4, <1>6, MarksGood DEF Quiet
<1>8. home.cur = 0 => b.lost = home.buf[0].lost
  <2> HIDE DEF rows, D
  <2> QED BY <1>7 DEF Cur, Terminals, BufferTypes
<1> HIDE DEF b
<1> QED BY <1>1, <1>7, <1>8, WithCurMain

(* One row of the main buffer's screen is written to *)

PenRow(t) == IF t.cur = 0 THEN {CursorRow(t)} ELSE {}
Pens(t, u) == Marks(t, u) /\ Only(t.buf[0], u.buf[0], PenRow(t))

LEMMA OnlyMore ==
  ASSUME NEW b, NEW c, NEW D, Only(b, c, D), NEW E, D \subseteq E
  PROVE  Only(b, c, E)
  BY DEF Only

LEMMA CurPens ==
  ASSUME NEW t, Fine(t), NEW b, Marks(t, WithCur(t, b)), t.cur = 0 => Only(t.buf[0], b, {CursorRow(t)})
  PROVE  Pens(t, WithCur(t, b))
<1>1. t \in Terminals /\ Sound(t.buf[0])
  BY FineFacts
<1>2. WithCur(t, b).buf[0] = IF t.cur = 0 THEN b ELSE t.buf[0]
  BY <1>1, WithCurMain
<1>3. CASE t.cur = 0
  BY <1>2, <1>3 DEF Pens, PenRow
<1>4. CASE t.cur # 0
  BY <1>1, <1>2, <1>4, WipedSelf DEF Pens, PenRow
<1> QED BY <1>3, <1>4

LEMMA PensFine ==
  ASSUME NEW t, Fine(t), NEW u, Pens(t, u)
  PROVE  Fine(u) /\ u.height = t.height /\ PenRow(t) \subseteq Screen(t.buf[0])
<1>1. PenRow(t) \subseteq Screen(t.buf[0])
  BY FineFacts DEF PenRow
<1>2. Ring(u.buf[0])
  BY <1>1, OnlyRing DEF Fine, Pens
<1> QED BY <1>1, <1>2, MarksGood DEF Fine, Pens

\* writeCell, through the two pointers.
LEMMA WriteCellPens ==
  ASSUME NEW t, Fine(t), NEW text, text \in Nat
  PROVE  Pens(t, WriteCell(t, text))
<1> DEFINE i == CursorRow(t)
           b == Cur(t)
           e == Ended(t)
           w == Texted(t, text)
           d == Written(t, text)
           u == WithCur(t, d)
           v == [u EXCEPT !.next = None]
<1>1. WriteCell(t, text) = v /\ Alike(b, e) /\ Alike(e, w)
  BY FineFacts, WriteCellIs
<1>2. Marks(t, WriteCell(t, text))
  BY FineFacts, WriteCellMarks
<1>3. ASSUME t.cur = 0 PROVE Only(t.buf[0], d, {i})
  <2>1. /\ b = t.buf[0] /\ Sound(b) /\ Full(b) /\ i \in Screen(b) /\ i \in Live(b) /\ i \in Nat
        /\ b.size \in Nat /\ i + 1 \in Nat
    BY <1>3, FineFacts, ScreenLive, CursorsRow, ScreenFacts
  <2>2. t.next = None \/ i + 1 < b.size
    BY FineFacts DEF Good, Pointed
  <2>3. Only(b, e, {})
    <3>1. CASE t.next \in {None, Dangling}
      <4>1. e = b
        BY <3>1 DEF Ended
      <4> QED BY <2>1, <4>1, WipedSelf
    <3>2. CASE t.next \notin {None, Dangling}
      <4> DEFINE off == FALSE
      <4>1. e = WithCont(b, i + 1, off) /\ i + 1 < b.size /\ off \in BOOLEAN
        BY <2>2, <3>2 DEF Ended
      <4> HIDE DEF off, e, b, i
      <4>2. Held(b, i + 1)
        BY <2>1, <4>1, InSize
      <4> QED BY <2>1, <4>1, <4>2, WithContOnly
    <3> QED BY <3>1, <3>2
  <2> HIDE DEF e, b
  <2>4. Sound(e) /\ i \in Live(e)
    BY <2>1, <2>3, MovedSame DEF Only
  <2>5. Only(e, w, {i})
    <3>1. CASE t.row = Dangling
      <4>1. w = e
        BY <3>1 DEF Texted, e
      <4> QED BY <2>4, <4>1, WipedSelf, OnlyMore
    <3>2. CASE t.row # Dangling
      <4>1. w = WithText(e, i, text)
        BY <3>2 DEF Texted, e
      <4> QED BY <2>4, <4>1, WithTextOnly
    <3> QED BY <3>1, <3>2
  <2>6. Sound(w)
    BY <2>5, MovedSame DEF Only
  <2> HIDE DEF w, i
  <2> DEFINE C == w.changed \cup Touched(t)
  <2>7. C \subseteq Nat /\ d = WithChanged(w, C)
    BY <2>1, <2>6 DEF Touched, Sound, BufferTypes, Written, w, i
  <2> HIDE DEF C, d
  <2>8. Became(w, d, w.rows, C)
    BY <2>6, <2>7, NewChanged
  <2>9. Twin(w, d)
    BY <2>8 DEF Twin, Moved, Became
  <2>10. Only(w, d, {})
    BY <2>6, <2>9, TwinFacts
  <2>11. Only(b, d, ({} \cup {i}) \cup {})
    BY <2>3, <2>5, <2>10, OnlyTrans
  <2> QED BY <2>1, <2>11, OnlyMore
<1> HIDE DEF d
<1>4. u.buf[0] = (IF t.cur = 0 THEN d ELSE t.buf[0]) /\ "buf" \in DOMAIN u
  BY FineFacts, WithCurMain DEF WithCur, Terminals
<1> HIDE DEF u
<1>5. v.buf = u.buf
  BY <1>4
<1> HIDE DEF v
<1>6. Only(t.buf[0], v.buf[0], PenRow(t))
  <2>1. CASE t.cur = 0
    BY <1>3, <1>4, <1>5, <2>1 DEF PenRow
  <2>2. CASE t.cur # 0
    BY <1>4, <1>5, <2>2, FineFacts, WipedSelf DEF PenRow
  <2> QED BY <2>1, <2>2
<1> QED BY <1>1, <1>2, <1>6 DEF Pens

\* The row is taken or noted first, and nothing else of it is changed.
LEMMA TakenPens ==
  ASSUME NEW t, Fine(t), NEW b,
         b \in {TakeRow(Cur(t), CursorRow(t)), TouchRow(Cur(t), CursorRow(t))},
         NEW text, text \in Nat
  PROVE  Pens(t, SetText(WithCur(t, b), text))
<1> DEFINE i == CursorRow(t)
           u == WithCur(t, b)
           d == WithText(b, i, text)
<1>1. /\ Poised(t) /\ t \in Terminals /\ Sound(Cur(t)) /\ i \in Nat /\ i \in 0 .. Cur(t).size - 1
      /\ i \in Screen(Cur(t))
  BY FineFacts, ScreenFacts, CursorsRow
<1>2. Marks(t, SetText(u, text))
  BY FineFacts, TakenMarks
<1>3. Alike(Cur(t), b) /\ b \in BufferTypes
  <2>1. Alike(Cur(t), b)
    BY <1>1, TakeRowFacts, TouchRowFacts DEF Became
  <2> QED BY <2>1 DEF Alike, Sound
<1>4. Cur(u) = b /\ CursorRow(u) = i /\ WithCur(u, d) = WithCur(t, d)
  <2>1. Cur(u) = b /\ u.offset = t.offset /\ u.y = t.y
    BY <1>1, <1>3, CurPoised
  <2>2. WithCur(u, d) = WithCur(t, d)
    BY <1>1, <1>3, CurTwice
  <2> QED BY <2>1, <2>2 DEF CursorRow
<1>5. SetText(u, text) = WithCur(t, d)
  BY <1>4 DEF SetText, WithText
<1>6. ASSUME t.cur = 0 PROVE Only(t.buf[0], d, {i})
  <2>1. Cur(t) = t.buf[0] /\ Full(Cur(t)) /\ i \in Live(Cur(t))
    BY <1>6, <1>1, FineFacts, ScreenLive
  <2>2. Only(Cur(t), b, {})
    <3>1. Only(Cur(t), TakeRow(Cur(t), i), {})
      BY <1>1, <2>1, TakeOnly
    <3>2. Only(Cur(t), TouchRow(Cur(t), i), {})
      BY <1>1, TwinOps, TwinFacts
    <3> QED BY <3>1, <3>2
  <2>3. Sound(b) /\ i \in Live(b)
    BY <2>1, <2>2, MovedSame DEF Only
  <2> HIDE DEF i
  <2>4. Only(b, d, {i})
    BY <2>3, WithTextOnly
  <2> HIDE DEF d
  <2>5. Only(Cur(t), d, {} \cup {i})
    BY <2>2, <2>4, OnlyTrans
  <2> QED BY <2>1, <2>5, OnlyMore
<1> HIDE DEF d, u
<1> QED BY <1>2, <1>5, <1>6, CurPens DEF u

\* The row is marked as a continuation.
LEMMA MarkedPens ==
  ASSUME NEW t, Fine(t)
  PROVE  LET u == WithCur(t, WithCont(TakeRow(Cur(t), CursorRow(t)), CursorRow(t), TRUE))
         IN /\ Marks(t, u) /\ Only(t.buf[0], u.buf[0], {})
            /\ u.cur = t.cur /\ CursorRow(u) = CursorRow(t)
<1> DEFINE i == CursorRow(t)
           b == Cur(t)
           c == TakeRow(b, i)
           on == TRUE
           d == WithCont(c, i, on)
           u == WithCur(t, d)
<1>1. Poised(t) /\ t \in Terminals /\ Sound(b) /\ i \in 0 .. b.size - 1 /\ i \in Nat /\ i \in Screen(b)
  BY FineFacts, ScreenFacts, CursorsRow
<1>2. Marks(t, u)
  BY FineFacts, MarkedMarks
<1>3. on \in BOOLEAN
  OBVIOUS
<1> HIDE DEF on
<1>4. Alike(b, d)
  <2> HIDE DEF b, i
  <2>1. Alike(b, c)
    BY <1>1, TakeRowFacts
  <2> HIDE DEF c
  <2>2. Held(c, i) /\ Sound(c)
    BY <1>1, <2>1, InSize DEF Alike
  <2>3. Alike(c, d)
    BY <1>3, <2>2, WithContFacts
  <2> QED BY <2>1, <2>3, AlikeTrans
<1>5. ASSUME t.cur = 0 PROVE Only(t.buf[0], d, {})
  <2>1. b = t.buf[0] /\ Full(b) /\ i \in Live(b)
    BY <1>5, <1>1, FineFacts, ScreenLive
  <2> HIDE DEF b, i
  <2>2. Only(b, c, {})
    BY <1>1, <2>1, TakeOnly
  <2> HIDE DEF c
  <2>3. Sound(c) /\ i \in Live(c)
    BY <2>1, <2>2, MovedSame DEF Only
  <2>4. Held(c, i)
    BY <2>3, Places
  <2>5. Only(c, d, {})
    BY <1>3, <2>3, <2>4, WithContOnly
  <2> HIDE DEF d
  <2>6. Only(b, d, {} \cup {})
    BY <2>2, <2>5, OnlyTrans
  <2> QED BY <2>1, <2>6, OnlyMore
<1> HIDE DEF d
<1>6. Only(t.buf[0], u.buf[0], {})
  BY <1>1, <1>5, WithCurMain, FineFacts, WipedSelf
<1>7. u.cur = t.cur /\ u.offset = t.offset /\ u.y = t.y
  BY <1>1 DEF WithCur, Terminals
<1>8. CursorRow(u) = CursorRow(t)
  BY <1>7 DEF CursorRow
<1> HIDE DEF u
<1>9. Marks(t, u) /\ Only(t.buf[0], u.buf[0], {}) /\ u.cur = t.cur /\ CursorRow(u) = CursorRow(t)
  BY <1>2, <1>6, <1>7, <1>8
<1> QED BY <1>9 DEF u, d, on

\* The pointers are put right.
LEMMA SettleSame ==
  ASSUME NEW t, "buf" \in DOMAIN t
  PROVE  /\ RowUpdate(t).buf = t.buf /\ RowUpdate(MoveToEnd(t)).buf = t.buf
<1>1. MoveToEnd(t).buf = t.buf /\ "buf" \in DOMAIN MoveToEnd(t)
  BY DEF MoveToEnd
<1> HIDE DEF MoveToEnd
<1> QED BY <1>1 DEF RowUpdate

(* Steps of the list *)

(* What an event does to the ring, other than giving it new measures. *)
Turns(b, c) ==
  \/ Edited(b, c)
  \/ \E p \in b.size - b.height + 1 .. b.size : \E d : Scrolled(b, d, p) /\ Edited(d, c)
  \/ \E i, j : Shuffled(b, c, i, j)
  \/ Cut(b, c)

(* What the list of b's lines may become. *)
Recasts(b, c) ==
  LET l == Lines(b)
      m == Lines(c)
  IN \/ Recast(b.height, l, m)
     \/ \E k \in 1 .. b.height : Recast(b.height, Scroll(b.height, b.cap, l, k), m)
     \/ \E n \in b.height .. Len(l) : Recast(b.height, List!Lasts(l, n), m)
Moves(b, c) ==
  LET l == Lines(b)
      m == Lines(c)
  IN /\ Len(m) = Len(l)
     /\ \E p, q \in Len(l) - b.height + 1 .. Len(l) : m = InsertAt(RemoveAt(l, p), q, m[q])
Listed(b, c) ==
  \/ c.cap = b.cap /\ c.height = b.height /\ (Recasts(b, c) \/ Moves(b, c))
  \/ c.height = b.height /\ Recap(b.cap, c.cap, Lines(b), Lines(c))
  \/ b.cap <= c.cap /\ Refit(Lines(b), Lines(c), c.height)

LEMMA EditedRing ==
  ASSUME NEW b, Ring(b), NEW c, Edited(b, c)
  PROVE  Ring(c)
<1>1. Sound(b) /\ b.size \in Nat /\ b.height \in Nat /\ First(b) \in Nat /\ First(b) <= b.size /\ b.realsize \in Nat
  BY Measures DEF Ring, Full
<1>2. /\ Sound(c) /\ c.size = b.size /\ c.realsize = b.realsize /\ ~c.noScroll /\ Full(c)
  BY MovedSame DEF Edited, Ring
<1>3. PICK k \in Screen(b) :
        \A i \in Live(b) \ {k} : Text(c, i) = Text(b, i) \/ (Text(c, i) = 0 /\ i \in Screen(b))
  BY DEF Edited
<1>4. ASSUME NEW i \in b.size .. b.realsize - 1 PROVE Text(c, i) = 0
  <2>1. i \in Live(b) /\ i \notin Screen(b)
    BY <1>1 DEF Live, Screen
  <2> QED BY <1>3, <2>1 DEF Ring, Bare
<1> QED BY <1>2, <1>4 DEF Ring, Bare

\* Rows are erased, and then one is written.
LEMMA WipedPenned ==
  ASSUME NEW a, Ring(a), NEW b, Wiped(a, b), NEW c, NEW D, Only(b, c, D), NEW k \in Screen(a), D \subseteq {k}
  PROVE  Edited(a, c)
<1>1. Moved(a, c)
  BY AlikeTrans DEF Wiped, Only, Moved
<1>2. Live(b) = Live(a)
  BY MovedSame DEF Wiped
<1>3. \A i \in Live(a) \ {k} : Text(c, i) = Text(a, i) \/ (Text(c, i) = 0 /\ i \in Screen(a))
  BY <1>2 DEF Wiped, Only
<1> QED BY <1>1, <1>3 DEF Edited

LEMMA TurnsListed ==
  ASSUME NEW b, Ring(b), NEW c, Turns(b, c)
  PROVE  Ring(c) /\ Listed(b, c)
<1>1. Sound(b) /\ Full(b)
  BY DEF Ring
<1>2. CASE Edited(b, c)
  <2>1. Ring(c) /\ Recast(b.height, Lines(b), Lines(c))
    BY <1>1, <1>2, EditedRing, EditedLines
  <2>2. c.cap = b.cap /\ c.height = b.height
    BY <1>2, MovedSame DEF Edited
  <2> QED BY <2>1, <2>2 DEF Listed, Recasts
<1>3. ASSUME NEW p \in b.size - b.height + 1 .. b.size, NEW d, Scrolled(b, d, p), Edited(d, c)
      PROVE  Ring(c) /\ Listed(b, c)
  <2>1. Ring(d) /\ Sound(d) /\ Full(d) /\ d.cap = b.cap /\ d.height = b.height
    BY <1>3 DEF Scrolled, Ring
  <2>2. Ring(c) /\ Recast(b.height, Lines(d), Lines(c)) /\ c.cap = b.cap /\ c.height = b.height
    <3>1. Ring(c) /\ Recast(d.height, Lines(d), Lines(c))
      BY <1>3, <2>1, EditedRing, EditedLines
    <3>2. c.cap = d.cap /\ c.height = d.height
      BY <1>3, MovedSame DEF Edited
    <3> QED BY <2>1, <3>1, <3>2
  <2> DEFINE k == p - (b.size - b.height)
  <2>3. k \in 1 .. b.height /\ Lines(d) = Scroll(b.height, b.cap, Lines(b), k)
    BY <1>3, ScrolledLines
  <2> HIDE DEF k
  <2> QED BY <2>2, <2>3 DEF Listed, Recasts
<1>4. ASSUME NEW i, NEW j, Shuffled(b, c, i, j) PROVE Ring(c) /\ Listed(b, c)
  <2>1. Ring(c)
    BY <1>4, ShuffledRing
  <2>2. c.cap = b.cap /\ c.height = b.height
    BY <1>4, MovedSame DEF Shuffled
  <2>3. Moves(b, c)
    BY <1>1, <1>4, ShuffledLines DEF Moves
  <2> QED BY <2>1, <2>2, <2>3 DEF Listed
<1>5. CASE Cut(b, c)
  <2>1. Ring(c) /\ c.cap = b.cap /\ c.height = b.height
    BY <1>5 DEF Cut
  <2>2. /\ b.height \in b.height .. Len(Lines(b))
        /\ Recast(b.height, List!Lasts(Lines(b), b.height), Lines(c))
    BY <1>5, CutLines
  <2> QED BY <2>1, <2>2 DEF Listed, Recasts
<1> QED BY <1>2, <1>3, <1>4, <1>5 DEF Turns

\* The same rows have the same lines.
LEMMA TwinListed ==
  ASSUME NEW a, Sound(a), NEW b, Twin(a, b), NEW c, Listed(b, c)
  PROVE  Listed(a, c)
<1>1. Lines(b) = Lines(a) /\ b.cap = a.cap /\ b.height = a.height
  BY TwinFacts, MovedSame DEF Twin
<1> QED BY <1>1 DEF Listed, Recasts, Moves

-----------------------------------------------------------------------------
(* Scrolling *)

LEMMA MovedRowsShuffle ==
  ASSUME NEW t, Fine(t), t.cur = 0, NEW y \in 0 .. t.height - 1, NEW z \in 0 .. t.height - 1
  PROVE  LET u == RowUpdate(WithCur(t, MoveRow(Cur(t), t.offset + y, t.offset + z, BlankRow)))
         IN /\ Shuffled(t.buf[0], u.buf[0], t.offset + y, t.offset + z)
            /\ u.cur = t.cur /\ CursorRow(u) = CursorRow(t)
<1> DEFINE from == t.offset + y
           to == t.offset + z
           b == MoveRow(Cur(t), from, to, BlankRow)
           u == WithCur(t, b)
           v == RowUpdate(u)
<1>1. /\ Cur(t) = t.buf[0] /\ Sound(Cur(t)) /\ Full(Cur(t)) /\ t \in Terminals
      /\ from \in Screen(Cur(t)) /\ to \in Screen(Cur(t))
  BY FineFacts, OnScreen
<1> HIDE DEF from, to
<1>2. Shuffled(Cur(t), b, from, to)
  BY <1>1, MoveRowShuffles
<1> HIDE DEF b
<1>3. u.buf[0] = b /\ "buf" \in DOMAIN u /\ u.cur = t.cur /\ u.offset = t.offset /\ u.y = t.y
      /\ "cur" \in DOMAIN u
  BY <1>1, WithCurMain DEF WithCur, Terminals
<1> HIDE DEF u
<1>4. v.buf = u.buf /\ v.cur = u.cur /\ v.offset = u.offset /\ v.y = u.y
  BY <1>3 DEF RowUpdate
<1> HIDE DEF v
<1>5. Shuffled(t.buf[0], v.buf[0], from, to) /\ v.cur = t.cur /\ CursorRow(v) = CursorRow(t)
  BY <1>1, <1>2, <1>3, <1>4 DEF CursorRow
<1> QED BY <1>5 DEF v, u, b, from, to

\* Another buffer than the main one is shown.
LEMMA OtherSame ==
  ASSUME NEW t, t \in Terminals, t.cur # 0, NEW b
  PROVE  /\ RowUpdate(WithCur(t, b)).buf[0] = t.buf[0]
         /\ RowUpdate(MoveToEnd(WithCur(t, b))).buf[0] = t.buf[0]
         /\ RowUpdate(WithCur(t, b)).cur = t.cur
         /\ RowUpdate(MoveToEnd(WithCur(t, b))).cur = t.cur
<1> DEFINE u == WithCur(t, b)
<1>1. u.buf[0] = t.buf[0] /\ "buf" \in DOMAIN u /\ u.cur = t.cur
  BY WithCurMain DEF WithCur, Terminals
<1> HIDE DEF u
<1>2. RowUpdate(u).buf = u.buf /\ RowUpdate(MoveToEnd(u)).buf = u.buf
  BY <1>1, SettleSame
<1>3. RowUpdate(u).cur = u.cur /\ RowUpdate(MoveToEnd(u)).cur = u.cur
  BY DEF RowUpdate, MoveToEnd
<1> QED BY <1>1, <1>2, <1>3 DEF u

LEMMA ScrollUpTurns ==
  ASSUME NEW t, Fine(t)
  PROVE  LET u == ScrollUp(t)
         IN /\ Marks(t, u) /\ u.cur = t.cur
            /\ t.cur # 0 => u.buf[0] = t.buf[0]
            /\ t.cur = 0 =>
                 \/ \E p \in t.buf[0].size - t.buf[0].height + 1 .. t.buf[0].size :
                      Scrolled(t.buf[0], u.buf[0], p)
                 \/ /\ Shuffled(t.buf[0], u.buf[0], t.offset + t.top, t.offset + t.bottom)
                    /\ CursorRow(u) = CursorRow(t)
<1>1. Marks(t, ScrollUp(t)) /\ t \in Terminals /\ Poised(t)
  BY FineFacts, ScrollMarks
<1>2. CASE t.top = 0
  <2> DEFINE pos == t.offset + t.bottom + 1
             b == InsertRow(Cur(t), pos)
             u == WithCur(t, b)
  <2>1. ScrollUp(t) = RowUpdate(MoveToEnd(u))
    BY <1>2 DEF ScrollUp
  <2>2. CASE t.cur # 0
    BY <1>1, <2>1, <2>2, OtherSame
  <2>3. CASE t.cur = 0
    <3>1. Cur(t) = t.buf[0] /\ Ring(t.buf[0])
      BY <2>3, FineFacts
    <3>2. pos \in t.buf[0].size - t.buf[0].height + 1 .. t.buf[0].size
      BY <1>1, <3>1, ScreenFacts
    <3> HIDE DEF pos
    <3>3. Scrolled(t.buf[0], b, pos)
      BY <3>1, <3>2, InsertRowScrolls
    <3> HIDE DEF b
    <3>4. u.buf[0] = b /\ "buf" \in DOMAIN u /\ u.cur = t.cur
      BY <1>1, <2>3, WithCurMain DEF WithCur, Terminals
    <3> HIDE DEF u
    <3>5. RowUpdate(MoveToEnd(u)).buf = u.buf
      BY <3>4, SettleSame
    <3>6. RowUpdate(MoveToEnd(u)).cur = u.cur
      BY DEF RowUpdate, MoveToEnd
    <3> QED BY <1>1, <2>1, <2>3, <3>2, <3>3, <3>4, <3>5, <3>6
  <2> QED BY <2>2, <2>3
<1>3. CASE t.top # 0
  <2> DEFINE b == MoveRow(Cur(t), t.offset + t.top, t.offset + t.bottom, BlankRow)
             u == RowUpdate(WithCur(t, b))
  <2>1. ScrollUp(t) = u
    BY <1>3 DEF ScrollUp, DeleteRowAndInsertBelow
  <2>2. t.top \in 0 .. t.height - 1 /\ t.bottom \in 0 .. t.height - 1
    BY <1>1, ScreenFacts
  <2>3. CASE t.cur # 0
    BY <1>1, <2>1, <2>3, OtherSame
  <2>4. CASE t.cur = 0
    <3>1. /\ Shuffled(t.buf[0], u.buf[0], t.offset + t.top, t.offset + t.bottom)
          /\ u.cur = t.cur /\ CursorRow(u) = CursorRow(t)
      BY <2>2, <2>4, MovedRowsShuffle
    <3> QED BY <1>1, <2>1, <2>4, <3>1
  <2> QED BY <2>3, <2>4
<1> QED BY <1>2, <1>3

\* u's main buffer is t's after a turn of the list.
Rolls(t, u) == Marks(t, u) /\ Turns(t.buf[0], u.buf[0])

LEMMA WipesRolls ==
  ASSUME NEW t, Fine(t), NEW u, Wipes(t, u)
  PROVE  Rolls(t, u)
  BY FineFacts, WipedEdited DEF Wipes, Rolls, Turns

LEMMA PensRolls ==
  ASSUME NEW t, Fine(t), NEW u, Wipes(t, u), NEW v, Pens(u, v)
  PROVE  Rolls(t, v)
<1> DEFINE a == t.buf[0]
           D == PenRow(u)
<1>1. Ring(a) /\ Fine(u) /\ Wiped(a, u.buf[0]) /\ Only(u.buf[0], v.buf[0], D) /\ Screen(u.buf[0]) = Screen(a)
  BY FineFacts, WipesFine, MovedSame DEF Wipes, Pens, Wiped
<1>2. \E k \in Screen(a) : D \subseteq {k}
  <2>1. D \subseteq Screen(a)
    BY <1>1, FineFacts DEF PenRow
  <2>2. a.size - 1 \in Screen(a)
    BY <1>1, Measures DEF Ring, Screen
  <2>3. \A x, y \in D : x = y
    BY DEF PenRow
  <2> QED BY <2>1, <2>2, <2>3
<1> HIDE DEF a, D
<1>3. Edited(a, v.buf[0])
  BY <1>1, <1>2, WipedPenned
<1> QED BY <1>3, MarksTrans DEF Rolls, Wipes, Pens, Turns, a

LEMMA ScrollRolls ==
  ASSUME NEW t, Fine(t)
  PROVE  Rolls(t, ScrollUp(t))
<1> DEFINE u == ScrollUp(t)
           a == t.buf[0]
           c == u.buf[0]
<1>1. Marks(t, u)
  BY ScrollUpTurns
<1>2. Sound(a) /\ Ring(a)
  BY FineFacts
<1>3. CASE t.cur # 0
  BY <1>3, ScrollUpTurns, FineFacts, SameWipes, WipesRolls
<1>4. ASSUME NEW p \in a.size - a.height + 1 .. a.size, Scrolled(a, c, p)
      PROVE  Rolls(t, u)
  <2>1. Sound(c)
    BY <1>4 DEF Scrolled, Ring
  <2>2. Edited(c, c)
    BY <2>1, WipedSelf, WipedEdited
  <2> QED BY <1>1, <1>4, <2>2 DEF Rolls, Turns
<1>5. ASSUME NEW i, NEW j, Shuffled(a, c, i, j) PROVE Rolls(t, u)
  BY <1>1, <1>5 DEF Rolls, Turns
<1>6. /\ t.cur \in 0 .. 1
      /\ t.cur = 0 => \/ \E p \in a.size - a.height + 1 .. a.size : Scrolled(a, c, p)
                      \/ Shuffled(a, c, t.offset + t.top, t.offset + t.bottom)
  BY ScrollUpTurns, FineFacts
<1> HIDE DEF u, a, c
<1> QED BY <1>3, <1>4, <1>5, <1>6 DEF u, a, c

LEMMA ShuffleRolls ==
  ASSUME NEW t, Fine(t)
  PROVE  Rolls(t, InsertRowHere(t)) /\ Rolls(t, DeleteRowHere(t)) /\ Rolls(t, ScrollDown(t))
<1>1. t \in Terminals /\ t.cur \in 0 .. 1 /\ Good(t) /\ Bounds(t)
  BY FineFacts
<1>2. t.y \in 0 .. t.height - 1 /\ t.bottom \in 0 .. t.height - 1 /\ t.top \in 0 .. t.height - 1
  BY ScreenFacts DEF Fine, Good
<1>3. ASSUME NEW y \in 0 .. t.height - 1, NEW z \in 0 .. t.height - 1, NEW u,
             u = RowUpdate(WithCur(t, MoveRow(Cur(t), t.offset + y, t.offset + z, BlankRow))), Marks(t, u)
      PROVE  Rolls(t, u)
  <2>1. CASE t.cur # 0
    <3>1. u.buf[0] = t.buf[0]
      BY <1>1, <1>3, <2>1, OtherSame
    <3> QED BY <1>3, <3>1, SameWipes, WipesRolls
  <2>2. CASE t.cur = 0
    BY <1>3, <2>2, MovedRowsShuffle DEF Rolls, Turns
  <2> QED BY <2>1, <2>2
<1>4. Rolls(t, t)
  BY WipesSelf, WipesRolls
<1>5. Marks(t, InsertRowHere(t)) /\ Marks(t, DeleteRowHere(t)) /\ Marks(t, ScrollDown(t))
  BY <1>1, ScrollMarks
<1>6. Rolls(t, InsertRowHere(t))
  <2>1. CASE ~InMargins(t)
    BY <1>4, <2>1 DEF InsertRowHere
  <2>2. CASE InMargins(t)
    <3>1. InsertRowHere(t) = RowUpdate(WithCur(t, MoveRow(Cur(t), t.offset + t.bottom, t.offset + t.y, BlankRow)))
      BY <2>2 DEF InsertRowHere, DeleteRowAndInsertAbove, CursorRow
    <3> QED BY <1>2, <1>3, <1>5, <3>1
  <2> QED BY <2>1, <2>2
<1>7. Rolls(t, DeleteRowHere(t))
  <2>1. CASE ~InMargins(t)
    BY <1>4, <2>1 DEF DeleteRowHere
  <2>2. CASE InMargins(t)
    <3>1. DeleteRowHere(t) = RowUpdate(WithCur(t, MoveRow(Cur(t), t.offset + t.y, t.offset + t.bottom, BlankRow)))
      BY <2>2 DEF DeleteRowHere, DeleteRowAndInsertBelow, CursorRow
    <3> QED BY <1>2, <1>3, <1>5, <3>1
  <2> QED BY <2>1, <2>2
<1>8. Rolls(t, ScrollDown(t))
  <2>1. ScrollDown(t) = RowUpdate(WithCur(t, MoveRow(Cur(t), t.offset + t.bottom, t.offset + t.top, BlankRow)))
    BY DEF ScrollDown, DeleteRowAndInsertAbove
  <2> QED BY <1>2, <1>3, <1>5, <2>1
<1> QED BY <1>6, <1>7, <1>8

LEMMA FeedRolls ==
  ASSUME NEW t, Fine(t)
  PROVE  Rolls(t, LineFeed(t)) /\ Rolls(t, ReverseIndex(t))
<1>1. -1 \in Int
  OBVIOUS
<1>2. Rolls(t, CursorMoveDown(t)) /\ Rolls(t, MoveBy(t, -1))
  BY <1>1, MoveDownWipes, CursorWipes, WipesRolls
<1> QED BY <1>2, ScrollRolls, ShuffleRolls DEF LineFeed, ReverseIndex

\* What becomes of the one row that is marked as a continuation and written to.
LEMMA WrappedPens ==
  ASSUME NEW t, Fine(t), NEW text, text \in Nat
  PROVE  LET u == WithCur(t, WithCont(TakeRow(Cur(t), CursorRow(t)), CursorRow(t), TRUE))
         IN Pens(t, WriteCell(u, text))
<1> DEFINE u == WithCur(t, WithCont(TakeRow(Cur(t), CursorRow(t)), CursorRow(t), TRUE))
           v == WriteCell(u, text)
<1>1. /\ Marks(t, u) /\ Only(t.buf[0], u.buf[0], {})
      /\ u.cur = t.cur /\ CursorRow(u) = CursorRow(t)
  BY MarkedPens
<1> HIDE DEF u
<1>2. Fine(u)
  BY <1>1, FineFacts, OnlyRing, MarksGood DEF Fine
<1>3. Pens(u, v)
  BY <1>2, WriteCellPens
<1>4. PenRow(u) = PenRow(t)
  BY <1>1 DEF PenRow
<1>5. {} \cup PenRow(t) = PenRow(t)
  OBVIOUS
<1> HIDE DEF v
<1>6. Marks(t, v)
  BY <1>1, <1>3, MarksTrans DEF Pens
<1>7. Only(u.buf[0], v.buf[0], PenRow(t))
  BY <1>3, <1>4 DEF Pens
<1>8. Only(t.buf[0], v.buf[0], {} \cup PenRow(t))
  BY <1>1, <1>7, OnlyTrans
<1>9. Pens(t, v)
  BY <1>5, <1>6, <1>8 DEF Pens
<1> QED BY <1>9 DEF u, v

\* The list turns, and then the cursor's row, which came in, is written to.
LEMMA WrapRolls ==
  ASSUME NEW t, Fine(t), t.y = t.bottom, NEW v, Pens(ScrollUp(t), v)
  PROVE  Rolls(t, v)
<1> DEFINE u == ScrollUp(t)
           a == t.buf[0]
           d == u.buf[0]
           c == v.buf[0]
           j == t.offset + t.bottom
<1>1. Marks(t, u) /\ u.cur = t.cur /\ (t.cur # 0 => u.buf[0] = t.buf[0])
  BY ScrollUpTurns
<1>2. Marks(t, v) /\ Only(d, c, PenRow(u))
  BY <1>1, MarksTrans DEF Pens
<1>3. CASE t.cur # 0
  BY <1>1, <1>3, SameWipes, PensRolls
<1>4. ASSUME t.cur = 0, NEW p \in a.size - a.height + 1 .. a.size, Scrolled(a, d, p)
      PROVE  Rolls(t, v)
  <2>1. Fine(u)
    BY <1>1, <1>4, MarksGood DEF Fine, Scrolled
  <2>2. CursorRow(u) \in Screen(d)
    BY <1>1, <1>4, <2>1, FineFacts
  <2>3. Only(d, c, {CursorRow(u)})
    BY <1>1, <1>2, <1>4 DEF PenRow
  <2>4. Edited(d, c)
    BY <2>2, <2>3, OnlyEdited
  <2> QED BY <1>2, <1>4, <2>4 DEF Rolls, Turns
<1>5. ASSUME t.cur = 0, NEW i, Shuffled(a, d, i, j), CursorRow(u) = CursorRow(t) PROVE Rolls(t, v)
  <2>1. PenRow(u) \subseteq {j}
    BY <1>5 DEF PenRow, CursorRow
  <2>2. Shuffled(a, c, i, j)
    BY <1>2, <1>5, <2>1, ShuffledOnly
  <2> QED BY <1>2, <2>2 DEF Rolls, Turns
<1>6. /\ t.cur \in 0 .. 1
      /\ t.cur = 0 => \/ \E p \in a.size - a.height + 1 .. a.size : Scrolled(a, d, p)
                      \/ Shuffled(a, d, t.offset + t.top, j) /\ CursorRow(u) = CursorRow(t)
  BY ScrollUpTurns, FineFacts
<1> HIDE DEF u, a, d, c, j
<1> QED BY <1>3, <1>4, <1>5, <1>6

LEMMA PrintWrappedRolls ==
  ASSUME NEW t, Fine(t), NEW text, text \in Nat
  PROVE  LET down == IF t.y = t.bottom THEN ScrollUp(t) ELSE MoveBy(t, 1)
             u == WithCur(down, WithCont(TakeRow(Cur(down), CursorRow(down)), CursorRow(down), TRUE))
         IN Rolls(t, WriteCell(u, text))
<1> DEFINE down == IF t.y = t.bottom THEN ScrollUp(t) ELSE MoveBy(t, 1)
           u == WithCur(down, WithCont(TakeRow(Cur(down), CursorRow(down)), CursorRow(down), TRUE))
           v == WriteCell(u, text)
<1>1. 1 \in Int
  OBVIOUS
<1>2. Wipes(t, MoveBy(t, 1)) /\ Rolls(t, ScrollUp(t))
  BY <1>1, CursorWipes, ScrollRolls
<1>3. Rolls(t, down)
  BY <1>2, WipesRolls
<1>4. Fine(down)
  BY <1>3, TurnsListed, MarksGood, FineFacts DEF Rolls, Fine
<1>5. Pens(down, v)
  BY <1>4, WrappedPens
<1> SUFFICES Rolls(t, v)
  OBVIOUS
<1> HIDE DEF v, u
<1>6. CASE t.y = t.bottom
  <2>1. down = ScrollUp(t)
    BY <1>6
  <2> HIDE DEF down
  <2>2. Pens(ScrollUp(t), v)
    BY <1>5, <2>1
  <2> QED BY <1>6, <2>2, WrapRolls
<1>7. CASE t.y # t.bottom
  <2>1. down = MoveBy(t, 1)
    BY <1>7
  <2> HIDE DEF down
  <2> QED BY <1>2, <1>5, <2>1, PensRolls
<1> QED BY <1>6, <1>7
-----------------------------------------------------------------------------
(* Resets and resizes *)

LEMMA ScrollbackCuts ==
  ASSUME NEW t, Fine(t), ~ClearScrollbackNow(t).buf[0].lost
  PROVE  LET u == ClearScrollbackNow(t)
         IN Marks(t, u) /\ Fine(u) /\ Cut(t.buf[0], u.buf[0])
<1> DEFINE w == [t EXCEPT !.buf[0] = ClearScrollback(@)]
           u == ClearScrollbackNow(t)
<1>1. Marks(t, u) /\ t \in Terminals /\ Ring(t.buf[0])
  BY FineFacts, MainBufferMarks
<1>2. "buf" \in DOMAIN w /\ w.buf[0] = ClearScrollback(t.buf[0])
  BY <1>1 DEF Terminals
<1>3. u = RowUpdate(MoveToEnd(w))
  BY DEF ClearScrollbackNow
<1> HIDE DEF w
<1>4. u.buf[0] = ClearScrollback(t.buf[0])
  BY <1>2, <1>3, SettleSame
<1> HIDE DEF u
<1>5. ~ClearScrollback(t.buf[0]).lost
  BY <1>4 DEF u
<1>6. Cut(t.buf[0], u.buf[0])
  BY <1>1, <1>4, <1>5, ClearScrollbackCuts
<1>7. Fine(u)
  BY <1>1, <1>6, MarksGood DEF Fine, Cut
<1> QED BY <1>1, <1>6, <1>7 DEF u

LEMMA ResetRolls ==
  ASSUME NEW t, Fine(t), NEW emulator \in BOOLEAN, NEW scrollback \in BOOLEAN, NEW screen \in BOOLEAN
  PROVE  LET plain == IF emulator THEN ResetEmulator(t) ELSE t
             cleared == IF scrollback THEN ClearScrollbackNow(plain) ELSE plain
             end == IF screen THEN ClearScreen(cleared) ELSE cleared
         IN ~end.buf[0].lost => Rolls(t, end)
<1> DEFINE plain == IF emulator THEN ResetEmulator(t) ELSE t
           cleared == IF scrollback THEN ClearScrollbackNow(plain) ELSE plain
           end == IF screen THEN ClearScreen(cleared) ELSE cleared
<1>1. Wipes(t, plain) /\ Fine(plain)
  BY ResetEmulatorWipes, WipesSelf, WipesFine
<1> SUFFICES ASSUME ~end.buf[0].lost PROVE Rolls(t, end)
  OBVIOUS
<1> HIDE DEF plain
<1>2. Marks(plain, cleared)
  BY <1>1, FineFacts, MainBufferMarks, MarksSelf
<1>3. ~cleared.buf[0].lost
  <2> HIDE DEF cleared
  <2> QED BY <1>2, MarksGood, ClearScreenLost
<1>4. CASE scrollback
  <2>1. cleared = ClearScrollbackNow(plain)
    BY <1>4
  <2>2. Marks(plain, cleared) /\ Fine(cleared) /\ Cut(plain.buf[0], cleared.buf[0])
    BY <1>1, <1>3, <2>1, ScrollbackCuts
  <2> HIDE DEF cleared
  <2>3. Wipes(cleared, end)
    BY <2>2, ClearScreenWipes, WipesSelf
  <2> HIDE DEF end
  <2>4. Ring(t.buf[0]) /\ Ring(plain.buf[0]) /\ Wiped(t.buf[0], plain.buf[0]) /\ Wiped(cleared.buf[0], end.buf[0])
    BY <1>1, <2>3, FineFacts DEF Wipes
  <2>5. Cut(t.buf[0], end.buf[0])
    BY <2>2, <2>4, WipedCut, CutWiped
  <2>6. Marks(t, end)
    BY <1>1, <2>2, <2>3, MarksTrans DEF Wipes
  <2> QED BY <2>5, <2>6 DEF Rolls, Turns
<1>5. CASE ~scrollback
  <2>1. cleared = plain
    BY <1>5
  <2>2. Wipes(plain, end)
    BY <1>1, <2>1, ClearScreenWipes, WipesSelf
  <2> HIDE DEF cleared, end
  <2> QED BY <1>1, <2>2, WipesTrans, WipesRolls
<1> QED BY <1>4, <1>5

\* A new capacity.
LEMMA ResizeLists ==
  ASSUME NEW t, Fine(t), NEW cap, cap \in Nat \ {0}
  PROVE  LET u == BufferResize(t, cap)
         IN Ring(u.buf[0]) /\ Listed(t.buf[0], u.buf[0])
<1> DEFINE w == [t EXCEPT !.buf[0] = EnableScrollback(@, cap)]
           u == BufferResize(t, cap)
           b == t.buf[0]
           c == u.buf[0]
<1>1. t \in Terminals /\ Ring(b) /\ Sound(b)
  BY FineFacts
<1>2. "buf" \in DOMAIN w /\ w.buf[0] = EnableScrollback(b, cap)
  BY <1>1 DEF Terminals
<1>3. u = RowUpdate(MoveToEnd(w))
  BY DEF BufferResize
<1> HIDE DEF w, u
<1>4. c = EnableScrollback(b, cap)
  BY <1>2, <1>3, SettleSame
<1>5. Edited(b, b)
  BY <1>1, WipedSelf, WipedEdited
<1>6. Listed(b, b)
  BY <1>1, <1>5, TurnsListed DEF Turns
<1> HIDE DEF b, c
<1>7. /\ Ring(c) /\ c.height = b.height
      /\ c = b \/ Recap(b.cap, c.cap, Lines(b), Lines(c))
  BY <1>1, <1>4, EnableScrollbackLines
<1>8. Ring(c) /\ Listed(b, c)
  BY <1>6, <1>7 DEF Listed
<1> QED BY <1>8 DEF b, c, u

\* A new height, while the ring holds the screen.
LEMMA SetSizeLists ==
  ASSUME NEW t, Fine(t), NEW height, height \in Nat \ {0}, Full(SetSize(t, height).buf[0])
  PROVE  LET u == SetSize(t, height)
         IN Ring(u.buf[0]) /\ Listed(t.buf[0], u.buf[0])
<1> DEFINE b == t.buf[0]
           u == SetSize(t, height)
           maxChop == IF t.cur = 1 THEN 0 ELSE t.height - 1 - t.y
           fitted(k) == IF t.buf[k].cap < height THEN SetCapacity(t.buf[k], CapacityFor(t.buf[k].cap, height))
                        ELSE t.buf[k]
           added == LinesAdded(fitted(t.cur), height)
           sized == [t EXCEPT !.buf[0] = SetScreenHeight(@, height, maxChop),
                              !.buf[1] = SetScreenHeight(@, height, 0)]
<1>1. t \in Terminals /\ Ring(b) /\ Sound(b) /\ t.height \in Nat \ {0} /\ t.y \in 0 .. t.height - 1
  BY FineFacts
<1>2. CASE t.height = height
  <2>1. u = t
    BY <1>2 DEF SetSize
  <2>2. Edited(b, b)
    BY <1>1, WipedSelf, WipedEdited
  <2>3. Listed(b, b)
    BY <1>1, <2>2, TurnsListed DEF Turns
  <2> QED BY <1>1, <2>1, <2>3
<1>3. CASE t.height # height
  <2>1. u = SetHeight(sized, height, added)
    BY <1>3 DEF SetSize
  <2>2. "buf" \in DOMAIN sized /\ "height" \in DOMAIN sized
    BY <1>1 DEF Terminals
  <2>3. sized.buf[0] = SetScreenHeight(b, height, maxChop)
    BY <1>1 DEF Terminals
  <2> HIDE DEF sized, added
  <2>4. u.buf[0] = SetScreenHeight(b, height, maxChop)
    BY <2>1, <2>2, <2>3, SetHeightQuiet
  <2>5. maxChop \in Nat
    BY <1>1
  <2> HIDE DEF u, maxChop, b
  <2>6. Full(SetScreenHeight(b, height, maxChop))
    BY <2>4 DEF u
  <2>7. LET c == SetScreenHeight(b, height, maxChop)
        IN Ring(c) /\ b.cap <= c.cap /\ c.height = height /\ Refit(Lines(b), Lines(c), height)
    BY <1>1, <2>5, <2>6, SetScreenHeightLines
  <2>8. Ring(u.buf[0]) /\ Listed(b, u.buf[0])
    BY <2>4, <2>7 DEF Listed
  <2> QED BY <2>8 DEF u, b
<1> QED BY <1>2, <1>3

(* A step of the specification is one of the list, as long as the ring holds its screen. *)
Listing == Ring(term'.buf[0]) /\ Listed(term.buf[0], term'.buf[0])

LEMMA StepLists ==
  ASSUME Fine(term), NEW t, Rolls(term, t), Step(t)
  PROVE  Listing
<1>1. term' = t
  BY DEF Step, Becomes
<1>2. Ring(t.buf[0]) /\ Listed(term.buf[0], t.buf[0])
  BY FineFacts, TurnsListed DEF Rolls
<1> QED BY <1>1, <1>2 DEF Listing

LEMMA FreshFine ==
  ASSUME Fine(term)
  PROVE  Fine(ResetEvents(term)) /\ Twin(term.buf[0], ResetEvents(term).buf[0])
<1>1. /\ Bounds(ResetEvents(term)) /\ Good(ResetEvents(term))
      /\ ResetEvents(term).buf[0] = ResetEventState(term.buf[0])
  BY FineFacts, ResetEventsNotes
<1>2. Twin(term.buf[0], ResetEventState(term.buf[0])) /\ Ring(term.buf[0]) /\ Sound(term.buf[0])
  BY FineFacts, TwinOps
<1> QED BY <1>1, <1>2, TwinFacts DEF Fine

LEMMA ArriveLists ==
  ASSUME Fine(term), NEW t, Ring(t.buf[0]), Listed(ResetEvents(term).buf[0], t.buf[0]), Arrive(t)
  PROVE  Listing
<1>1. term' = t
  BY DEF Arrive, Becomes
<1>2. Listed(term.buf[0], t.buf[0])
  BY FreshFine, FineFacts, TwinListed
<1> QED BY <1>1, <1>2 DEF Listing

\* The ring still holds its screen.
LEMMA StillFull ==
  ASSUME IInv, Next, NEW t, Becomes(t), ~crowded'
  PROVE  ~t.buf[0].lost /\ Full(t.buf[0])
<1>1. term' = t /\ ~IsCrowded(t)
  BY DEF Becomes
<1>2. Sound(t.buf[0])
  <2>1. IInv'
    BY Stepping
  <2>2. Poised(term)'
    BY <2>1 DEF IInv, Good
  <2>3. Poised(t)
    BY <1>1, <2>2
  <2> QED BY <2>3 DEF Poised, Framed
<1>3. ~t.buf[0].lost /\ ~(t.buf[0].size - t.buf[0].height < First(t.buf[0]))
  BY <1>1 DEF IsCrowded
<1> DEFINE b == t.buf[0]
<1> HIDE DEF b
<1>4. Sound(b) /\ ~b.lost /\ ~(b.size - b.height < First(b))
  BY <1>2, <1>3 DEF b
<1>5. ~b.lost /\ Full(b)
  BY <1>4, Measures DEF Full
<1> QED BY <1>5 DEF b

LEMMA NextLists ==
  ASSUME IInv, Fine(term), Next, ~crowded'
  PROVE  Listing
<1>0. Good(term) /\ Poised(term) /\ Wipes(term, term)
  BY FineFacts, WipesSelf
<1>s. \A t : Rolls(term, t) /\ Step(t) => Listing
  BY StepLists
<1>w. \A t : Wipes(term, t) /\ Step(t) => Listing
  BY <1>s, WipesRolls
<1>t. Texts \subseteq Nat
  BY ScreenAssumption DEF ScreenAssumption
<1>1. ASSUME NEW text \in Texts, Printable(text) PROVE Listing
  <2>1. text \in Nat
    BY <1>t
  <2>2. CASE Step(WriteCell(term, text))
    BY <1>0, <1>s, <2>1, <2>2, WriteCellPens, PensRolls
  <2>3. CASE Step(WriteCell(RowUpdate(term), text))
    <3>1. 0 \in Int
      OBVIOUS
    <3>2. Wipes(term, RowUpdate(term)) /\ Fine(RowUpdate(term))
      BY <3>1, CursorWipes, WipesFine
    <3>3. Pens(RowUpdate(term), WriteCell(RowUpdate(term), text))
      BY <2>1, <3>2, WriteCellPens
    <3> QED BY <1>s, <2>3, <3>2, <3>3, PensRolls
  <2> QED BY <1>1, <2>2, <2>3 DEF Printable
<1>2. ASSUME NEW text \in Texts, PrintWrapped(text) PROVE Listing
  <2> DEFINE down == IF term.y = term.bottom THEN ScrollUp(term) ELSE MoveBy(term, 1)
             marked == WithCur(down, WithCont(TakeRow(Cur(down), CursorRow(down)), CursorRow(down), TRUE))
  <2>1. text \in Nat
    BY <1>t
  <2>2. Step(WriteCell(marked, text))
    BY <1>2 DEF PrintWrapped, WithCont
  <2>3. Rolls(term, WriteCell(marked, text))
    BY <2>1, PrintWrappedRolls
  <2> HIDE DEF marked
  <2> QED BY <1>s, <2>2, <2>3
<1>3. ASSUME Feed \/ ReverseFeed PROVE Listing
  BY <1>3, <1>s, FeedRolls DEF Feed, ReverseFeed
<1>4. ASSUME CursorUp \/ CursorDown PROVE Listing
  <2>1. 1 \in Int /\ -1 \in Int
    OBVIOUS
  <2>2. Wipes(term, MoveBy(term, 1)) /\ Wipes(term, MoveBy(term, -1))
    BY <2>1, CursorWipes
  <2> QED BY <1>4, <1>w, <2>2 DEF CursorUp, CursorDown
<1>5. ASSUME CursorPosition \/ CursorVerticalAbsolute PROVE Listing
  <2>1. PICK y \in 0 .. term.height - 1 : Step(MoveTo(term, y)) \/ Step(MoveY(term, y + term.origin, TRUE))
    BY <1>5 DEF CursorPosition, CursorVerticalAbsolute
  <2>2. y \in Int
    OBVIOUS
  <2>3. Wipes(term, MoveTo(term, y)) /\ Wipes(term, MoveY(term, y + term.origin, TRUE))
    BY <2>2, CursorWipes
  <2> QED BY <1>w, <2>1, <2>3
<1>6. ASSUME CmdSaveCursor \/ CmdRestoreCursor PROVE Listing
  <2>1. 0 \in Int
    OBVIOUS
  <2>2. Wipes(term, SaveCursor(term)) /\ Wipes(term, RestoreCursor(term))
    BY <2>1, CursorWipes
  <2> QED BY <1>6, <1>w, <2>2 DEF CmdSaveCursor, CmdRestoreCursor
<1>7. ASSUME InsertLines \/ DeleteLines \/ CmdScrollUp \/ CmdScrollDown PROVE Listing
  BY <1>7, <1>s, ScrollRolls, ShuffleRolls DEF InsertLines, DeleteLines, CmdScrollUp, CmdScrollDown
<1>8. ASSUME EraseInLine PROVE Listing
  <2>1. CASE Step(EraseRow(term, term.y))
    <3>1. term.y \in 0 .. term.height - 1
      BY <1>0, ScreenFacts
    <3> QED BY <1>w, <2>1, <3>1, EraseRowWipes
  <2>2. ASSUME NEW text \in Parts(term),
               Step(SetText(WithCur(term, TakeRow(Cur(term), CursorRow(term))), text))
        PROVE  Listing
    <3> DEFINE b == TakeRow(Cur(term), CursorRow(term))
    <3>1. text \in Nat
      BY <1>0, PartsFacts
    <3>2. b \in {TakeRow(Cur(term), CursorRow(term)), TouchRow(Cur(term), CursorRow(term))}
      OBVIOUS
    <3>3. Pens(term, SetText(WithCur(term, b), text))
      BY <3>1, <3>2, TakenPens, Zenon
    <3>4. Rolls(term, SetText(WithCur(term, b), text))
      BY <1>0, <3>3, PensRolls
    <3> QED BY <1>s, <2>2, <3>4
  <2> QED BY <1>8, <2>1, <2>2 DEF EraseInLine
<1>9. ASSUME EraseBelow PROVE Listing
  <2> DEFINE ys == term.y + 1 .. term.height - 1
             below == EraseRows(term, ys)
             b == TouchRow(Cur(below), CursorRow(below))
  <2>1. term.y \in Nat /\ term.height \in Nat
    BY <1>0, ScreenFacts
  <2>2. ys \subseteq 0 .. term.height - 1
    BY <2>1
  <2>3. PICK text \in Parts(term) :
          Step(SetText(WithCur(below, TouchRow(Cur(below), CursorRow(term))), text))
    BY <1>9 DEF EraseBelow
  <2> HIDE DEF ys
  <2>4. Stays(term, below) /\ Wipes(term, below) /\ text \in Nat
    BY <1>0, <2>2, EraseRowsFacts, EraseRowsWipes, PartsFacts
  <2> HIDE DEF below
  <2>5. CursorRow(below) = CursorRow(term) /\ Fine(below)
    BY <2>4, WipesFine DEF CursorRow, Stays
  <2>6. b \in {TakeRow(Cur(below), CursorRow(below)), TouchRow(Cur(below), CursorRow(below))}
    OBVIOUS
  <2>7. Step(SetText(WithCur(below, b), text))
    BY <2>3, <2>5
  <2>8. Pens(below, SetText(WithCur(below, b), text))
    BY <2>4, <2>5, <2>6, TakenPens, Zenon
  <2>9. Rolls(term, SetText(WithCur(below, b), text))
    BY <2>4, <2>8, PensRolls
  <2> QED BY <1>s, <2>7, <2>9
<1>10. ASSUME EraseAbove PROVE Listing
  <2> DEFINE above == ErasedAbove(term, term.y)[term.y]
             b == TakeRow(Cur(above), CursorRow(above))
  <2>1. term.y \in Nat /\ term.y <= term.height
    BY <1>0, ScreenFacts
  <2>3. PICK text \in Parts(term) :
          Step(SetText(WithCur(above, TakeRow(Cur(above), CursorRow(term))), text))
    BY <1>10 DEF EraseAbove
  <2>4. Stays(term, above) /\ Wipes(term, above) /\ text \in Nat
    BY <1>0, <2>1, FineFacts, ErasedAboveMarks, ErasedAboveWipes, PartsFacts
  <2> HIDE DEF above
  <2>5. CursorRow(above) = CursorRow(term) /\ Fine(above)
    BY <2>4, WipesFine DEF CursorRow, Stays
  <2>6. b \in {TakeRow(Cur(above), CursorRow(above)), TouchRow(Cur(above), CursorRow(above))}
    OBVIOUS
  <2>7. Step(SetText(WithCur(above, b), text))
    BY <2>3, <2>5
  <2>8. Pens(above, SetText(WithCur(above, b), text))
    BY <2>4, <2>5, <2>6, TakenPens, Zenon
  <2>9. Rolls(term, SetText(WithCur(above, b), text))
    BY <2>4, <2>8, PensRolls
  <2> QED BY <1>s, <2>7, <2>9
<1>11. ASSUME EraseAll PROVE Listing
  <2> DEFINE ys == 0 .. term.height - 1
  <2>1. ys \subseteq 0 .. term.height - 1
    OBVIOUS
  <2>2. Wipes(term, EraseRows(term, ys))
    BY <2>1, EraseRowsWipes
  <2> QED BY <1>11, <1>w, <2>2 DEF EraseAll
<1>12. ASSUME EraseScrollback PROVE Listing
  <2> DEFINE u == ClearScrollbackNow(term)
  <2>1. Step(u) /\ Becomes(u)
    BY <1>12 DEF EraseScrollback, Step
  <2>2. ~u.buf[0].lost
    <3> HIDE DEF u
    <3> QED BY <2>1, StillFull
  <2>3. Rolls(term, u)
    BY <2>2, ScrollbackCuts DEF Rolls, Turns
  <2> QED BY <1>s, <2>1, <2>3
<1>13. ASSUME SetTopBottomMargins PROVE Listing
  <2>1. PICK top, bottom \in 0 .. term.height - 1 :
          top < bottom /\ Step(MoveTo(SetMargins(term, top, bottom), 0))
    BY <1>13 DEF SetTopBottomMargins
  <2> DEFINE u == SetMargins(term, top, bottom)
  <2>2. top <= bottom /\ 0 \in Int
    BY <2>1
  <2>3. Wipes(term, u)
    BY <2>2, MarginWipes
  <2>4. Wipes(u, MoveTo(u, 0))
    BY <2>2, <2>3, WipesFine, CursorWipes
  <2> QED BY <1>w, <2>1, <2>3, <2>4, WipesTrans
<1>14. ASSUME NEW on \in BOOLEAN, SetOriginMode(on) PROVE Listing
  <2> DEFINE u == [term EXCEPT !.originMode = on]
  <2>1. Wipes(term, u)
    BY ModeWipes
  <2>2. Step(SetStayWithinMargins(u, on))
    BY <1>14 DEF SetOriginMode
  <2> HIDE DEF u
  <2>3. Wipes(u, SetStayWithinMargins(u, on))
    BY <2>1, WipesFine, ModeWipes
  <2> QED BY <1>w, <2>1, <2>2, <2>3, WipesTrans
<1>15. ASSUME NEW on \in BOOLEAN, AltScreen(on) PROVE Listing
  <2> DEFINE k == IF on THEN 1 ELSE 0
  <2>1. k \in 0 .. 1
    OBVIOUS
  <2>2. Step(SetBuffer(term, k))
    BY <1>15 DEF AltScreen
  <2> HIDE DEF k
  <2> QED BY <1>w, <2>1, <2>2, SwitchWipes
<1>16. ASSUME AltScreenCleared PROVE Listing
  <2> DEFINE u == IF term.cur = 1 THEN ClearAlternate(term) ELSE term
  <2>1. Wipes(term, u)
    BY <1>0, ClearAlternateWipes
  <2>2. Step(SetBuffer(u, 0)) /\ 0 \in 0 .. 1
    BY <1>16 DEF AltScreenCleared
  <2> HIDE DEF u
  <2>3. Wipes(u, SetBuffer(u, 0))
    BY <2>1, <2>2, WipesFine, SwitchWipes
  <2> QED BY <1>w, <2>1, <2>2, <2>3, WipesTrans
<1>17. ASSUME AltScreenSaved PROVE Listing
  <2> DEFINE s == SaveCursor(term)
             u == ClearAlternate(s)
  <2>1. Wipes(term, s)
    <3>1. 0 \in Int
      OBVIOUS
    <3> QED BY <3>1, CursorWipes
  <2>2. Step(SetBuffer(u, 1)) /\ 1 \in 0 .. 1
    BY <1>17 DEF AltScreenSaved
  <2> HIDE DEF s
  <2>3. Wipes(s, u) /\ Fine(s)
    BY <2>1, WipesFine, ClearAlternateWipes
  <2> HIDE DEF u
  <2>4. Wipes(u, SetBuffer(u, 1))
    BY <2>2, <2>3, WipesFine, SwitchWipes
  <2> QED BY <1>w, <2>1, <2>2, <2>3, <2>4, WipesTrans
<1>18. ASSUME AltScreenRestored PROVE Listing
  <2> DEFINE u == SetBuffer(term, 0)
  <2>1. 0 \in 0 .. 1 /\ 0 \in Int
    OBVIOUS
  <2>2. Wipes(term, u)
    BY <2>1, SwitchWipes
  <2>3. Step(RestoreCursor(u))
    BY <1>18 DEF AltScreenRestored
  <2> HIDE DEF u
  <2>4. Wipes(u, RestoreCursor(u))
    BY <2>1, <2>2, WipesFine, CursorWipes
  <2> QED BY <1>w, <2>2, <2>3, <2>4, WipesTrans
<1>19. ASSUME CmdResetEmulator PROVE Listing
  <2> DEFINE u == ResetEmulator(term)
  <2>1. Wipes(term, u)
    BY ResetEmulatorWipes
  <2>2. Step(ClearScreen(u))
    BY <1>19 DEF CmdResetEmulator
  <2> HIDE DEF u
  <2>3. Wipes(u, ClearScreen(u))
    BY <2>1, WipesFine, ClearScreenWipes
  <2> QED BY <1>w, <2>1, <2>2, <2>3, WipesTrans
<1> DEFINE fresh == ResetEvents(term)
<1>20. Fine(fresh) /\ \A t : Ring(t.buf[0]) /\ Listed(fresh.buf[0], t.buf[0]) /\ Arrive(t) => Listing
  BY FreshFine, ArriveLists
<1>a. ASSUME NEW t, Rolls(fresh, t), Arrive(t) PROVE Listing
  <2> HIDE DEF fresh
  <2>1. Ring(t.buf[0]) /\ Listed(fresh.buf[0], t.buf[0])
    BY <1>20, <1>a, FineFacts, TurnsListed DEF Rolls
  <2> QED BY <1>20, <1>a, <2>1
<1>21. ASSUME TermEvent PROVE Listing
  <2>1. Rolls(fresh, fresh)
    BY <1>20, WipesSelf, WipesRolls
  <2> QED BY <1>21, <1>a, <2>1 DEF TermEvent
<1>22. ASSUME NEW flags \in SUBSET {"emulator", "scrollback", "screen"}, TermReset(flags) PROVE Listing
  <2> DEFINE emulator == "emulator" \in flags
             scrollback == "scrollback" \in flags
             screen == "screen" \in flags
             plain == IF emulator THEN ResetEmulator(fresh) ELSE fresh
             cleared == IF scrollback THEN ClearScrollbackNow(plain) ELSE plain
             end == IF screen THEN ClearScreen(cleared) ELSE cleared
  <2>1. Arrive(end) /\ Becomes(end)
    BY <1>22 DEF TermReset, Arrive
  <2>2. emulator \in BOOLEAN /\ scrollback \in BOOLEAN /\ screen \in BOOLEAN
    OBVIOUS
  <2> HIDE DEF fresh, emulator, scrollback, screen
  <2>3. ~end.buf[0].lost => Rolls(fresh, end)
    BY <1>20, <2>2, ResetRolls
  <2> HIDE DEF end
  <2>4. ~end.buf[0].lost
    BY <2>1, StillFull
  <2> QED BY <1>a, <2>1, <2>3, <2>4
<1>23. ASSUME NEW height \in Heights, TermResize(height) PROVE Listing
  <2> DEFINE u == SetSize(fresh, height)
  <2>1. height \in Nat \ {0}
    BY ScreenAssumption DEF ScreenAssumption
  <2>2. Arrive(u) /\ Becomes(u)
    BY <1>23 DEF TermResize, Arrive
  <2> HIDE DEF fresh
  <2>3. Full(u.buf[0])
    <3> HIDE DEF u
    <3> QED BY <2>2, StillFull
  <2>4. Ring(u.buf[0]) /\ Listed(fresh.buf[0], u.buf[0])
    BY <1>20, <2>1, <2>3, SetSizeLists
  <2> QED BY <1>20, <2>2, <2>4
<1>24. ASSUME NEW cap \in Caps, TermBufferResize(cap) PROVE Listing
  <2>1. cap \in Nat \ {0}
    BY ScreenAssumption DEF ScreenAssumption
  <2>2. Arrive(BufferResize(fresh, cap))
    BY <1>24 DEF TermBufferResize
  <2> HIDE DEF fresh
  <2>3. Ring(BufferResize(fresh, cap).buf[0]) /\ Listed(fresh.buf[0], BufferResize(fresh, cap).buf[0])
    BY <1>20, <2>1, ResizeLists
  <2> QED BY <1>20, <2>2, <2>3
<1> QED
  BY <1>1, <1>2, <1>3, <1>4, <1>5, <1>6, <1>7, <1>8, <1>9, <1>10, <1>11, <1>12, <1>13, <1>14, <1>15,
     <1>16, <1>17, <1>18, <1>19, <1>21, <1>22, <1>23, <1>24 DEF Next

\* What a step of the list is, in terms of the two buffers.
LEMMA ListedNext ==
  ASSUME Listed(term.buf[0], term'.buf[0]), Sound(term.buf[0]), Sound(term'.buf[0]), crowded' = crowded
  PROVE  List!Next
<1> DEFINE b == term.buf[0]
           c == term'.buf[0]
<1>c. b.cap \in Nat /\ c.cap \in Nat
  BY Measures
<1>0. List!Next <=> (List!Change \/ List!Move \/ List!SetCapacity \/ List!Resize)
  BY DEF List!Next
<1>i. \A l, i, e : List!InsertAt(l, i, e) = InsertAt(l, i, e) /\ List!RemoveAt(l, i) = RemoveAt(l, i)
  BY DEF List!InsertAt, InsertAt, List!RemoveAt, RemoveAt
<1>1. ASSUME c.cap = b.cap, c.height = b.height, Recasts(b, c) PROVE List!Change
  <2> DEFINE l == Lines(b)
             m == Lines(c)
  <2>1. List!Change <=> /\ \/ List!Rewritten(l, m)
                           \/ \E k \in 1 .. b.height : List!Rewritten(List!ScrollAt(l, k), m)
                           \/ \E n \in b.height .. Len(l) : List!Rewritten(List!Lasts(l, n), m)
                        /\ c.cap = b.cap /\ c.height = b.height /\ crowded' = crowded
    BY DEF List!Change, Lines, Text
  <2>2. \A s : List!Rewritten(s, m) <=> Recast(b.height, s, m)
    BY DEF List!Rewritten, List!OnScreen, Recast
  <2>3. \A k : List!ScrollAt(l, k) = Scroll(b.height, b.cap, l, k)
    BY <1>i DEF List!ScrollAt, Scroll
  <2>4. \/ Recast(b.height, l, m)
        \/ \E k \in 1 .. b.height : Recast(b.height, Scroll(b.height, b.cap, l, k), m)
        \/ \E n \in b.height .. Len(l) : Recast(b.height, List!Lasts(l, n), m)
    BY <1>1 DEF Recasts
  <2> HIDE DEF l, m, b, c
  <2> QED BY <1>1, <2>1, <2>2, <2>3, <2>4
<1>2. ASSUME c.cap = b.cap, c.height = b.height, Moves(b, c) PROVE List!Move
  <2> DEFINE l == Lines(b)
             m == Lines(c)
             span == Len(l) - b.height + 1 .. Len(l)
  <2>1. List!Move <=> /\ Len(m) = Len(l)
                      /\ \E i, j \in List!OnScreen(l) :
                           m = List!InsertAt(List!RemoveAt(l, i), j, m[j])
                      /\ c.cap = b.cap /\ c.height = b.height /\ crowded' = crowded
    BY DEF List!Move, Lines, Text
  <2>2. List!OnScreen(l) = span
    BY DEF List!OnScreen
  <2>3. Len(m) = Len(l) /\ \E p, q \in span : m = InsertAt(RemoveAt(l, p), q, m[q])
    BY <1>2 DEF Moves
  <2> HIDE DEF l, m, b, c, span
  <2> QED BY <1>i, <1>2, <2>1, <2>2, <2>3
<1>3. ASSUME c.height = b.height, Recap(b.cap, c.cap, Lines(b), Lines(c)) PROVE List!SetCapacity
  BY <1>3 DEF List!SetCapacity, List!Lasts, Recap, Empties, Lines, Text
<1>4. ASSUME b.cap <= c.cap, Refit(Lines(b), Lines(c), c.height) PROVE List!Resize
  BY <1>c, <1>4 DEF List!Resize, Refit, Empties, Lines, Text
<1> QED BY <1>0, <1>1, <1>2, <1>3, <1>4 DEF Listed

\* The ring of a new buffer is a list of empty lines.
LEMMA NewRing ==
  ASSUME NEW height, height \in Nat \ {0}, NEW cap, cap \in Nat \ {0}
  PROVE  LET b == NewBuffer(height, cap, FALSE)
         IN /\ Ring(b) /\ b.height = height /\ b.cap \in Nat /\ height <= b.cap
            /\ Lines(b) = [i \in 1 .. height |-> 0]
<1> DEFINE b == NewBuffer(height, cap, FALSE)
<1>1. Sound(b) /\ b.height = height /\ ~b.noScroll /\ b.size = height
  <2>1. FALSE \in BOOLEAN
    OBVIOUS
  <2> QED BY <2>1, NewBufferFacts
<1>2. b.realsize = height /\ b.rows = Blanks(height)
  BY DEF NewBuffer
<1> HIDE DEF b
<1>3. /\ First(b) = 0 /\ b.cap \in Nat /\ height <= b.cap /\ b.rows \in Seq(RowTypes)
      /\ Len(b.rows) = height
  BY <1>1, <1>2, Measures
<1>4. Ring(b)
  <2>1. Full(b)
    BY <1>1, <1>3 DEF Full
  <2>2. Bare(b)
    BY <1>1, <1>2 DEF Bare
  <2> QED BY <1>1, <2>1, <2>2 DEF Ring
<1>5. \A j \in 1 .. height : Lines(b)[j] = 0
  <2> TAKE j \in 1 .. height
  <2>1. First(b) + j - 1 \in Live(b) /\ Lines(b)[j] = Text(b, First(b) + j - 1)
    <3>1. b.size - First(b) = height
      BY <1>1, <1>3
    <3> QED BY <1>1, <1>4, <3>1, LinesFacts DEF Ring
  <2> DEFINE i == First(b) + j - 1
  <2> HIDE DEF i
  <2>2. Slot(b, i) \in 1 .. height
    BY <1>1, <1>3, <2>1, Places DEF i
  <2>3. b.rows[Slot(b, i)] = BlankRow
    BY <1>2, <2>2 DEF Blanks
  <2> QED BY <2>1, <2>3 DEF Text, Row, BlankRow, i
<1>6. Lines(b) \in Seq(Nat) /\ Len(Lines(b)) = height
  BY <1>1, <1>3, <1>4, LinesFacts DEF Ring
<1>7. Lines(b) = [i \in 1 .. height |-> 0]
  <2>1. DOMAIN Lines(b) = 1 .. height /\ Lines(b) = [i \in DOMAIN Lines(b) |-> Lines(b)[i]]
    BY <1>6
  <2> QED BY <1>5, <2>1
<1> QED BY <1>1, <1>3, <1>4, <1>7 DEF b

LEMMA InitLists ==
  ASSUME Init
  PROVE  Ring(term.buf[0]) /\ List!Init
<1>1. PICK h \in Heights, cap \in Caps :
        term = [buf |-> [k \in 0 .. 1 |-> IF k = 0 THEN NewBuffer(h, LargerOf(cap, 2), FALSE)
                                          ELSE NewBuffer(h, 1, TRUE)],
                cur |-> 0, height |-> h, top |-> 0, bottom |-> h - 1,
                offset |-> 0, y |-> 0, stay |-> FALSE, origin |-> 0, originMode |-> FALSE,
                saved |-> [y |-> 0, origin |-> FALSE], row |-> <<0, 1>>, next |-> None]
  BY DEF Init
<1> DEFINE n == LargerOf(cap, 2)
           b == term.buf[0]
<1>2. h \in Nat \ {0} /\ n \in Nat \ {0}
  BY ScreenAssumption DEF ScreenAssumption, LargerOf
<1>3. b = NewBuffer(h, n, FALSE)
  BY <1>1
<1> HIDE DEF n, b
<1>4. /\ Ring(b) /\ b.height = h /\ b.cap \in Nat /\ h <= b.cap
      /\ Lines(b) = [i \in 1 .. h |-> 0]
  BY <1>2, <1>3, NewRing
<1>5. crowded = FALSE
  BY DEF Init
<1>6. List!Init
  BY <1>2, <1>4, <1>5 DEF List!Init, Lines, Text, b
<1> QED BY <1>4, <1>6 DEF b

\* Rows that are lost are never said to be kept again.
LEMMA CrowdedStays ==
  ASSUME Next, crowded
  PROVE  crowded'
<1>1. \A t : Step(t) \/ Arrive(t) => crowded'
  BY DEF Step, Arrive, Becomes
<1> QED
  BY <1>1 DEF Next, Printable, PrintWrapped, Feed, ReverseFeed, CursorUp, CursorDown, CursorPosition,
     CursorVerticalAbsolute, CmdSaveCursor, CmdRestoreCursor, InsertLines, DeleteLines, CmdScrollUp,
     CmdScrollDown, EraseInLine, EraseBelow, EraseAbove, EraseAll, EraseScrollback, SetTopBottomMargins,
     SetOriginMode, AltScreen, AltScreenCleared, AltScreenSaved, AltScreenRestored, CmdResetEmulator,
     TermEvent, TermReset, TermResize, TermBufferResize

(* The ring is a list of lines as long as it holds its screen. *)
HoldsList == Bounds(term) /\ (crowded \/ Ring(term.buf[0]))

LEMMA HoldsListStep ==
  ASSUME IInv, HoldsList, [Next]_vars
  PROVE  HoldsList' /\ [crowded' \/ List!Next]_(List!vars)
<1>1. CASE UNCHANGED vars
  <2>1. term' = term /\ crowded' = crowded
    BY <1>1 DEF vars
  <2>2. UNCHANGED List!vars
    BY <2>1 DEF List!vars
  <2> QED BY <2>1, <2>2 DEF HoldsList, Bounds, Bounded, Ring, Sound, Full, Bare, Text, Row, Slot, First
<1>2. CASE Next
  <2>1. Bounds(term)' /\ IInv'
    BY <1>2, NextTold, Stepping DEF Told, HoldsList
  <2>2. CASE crowded'
    BY <2>1, <2>2 DEF HoldsList
  <2>3. CASE ~crowded'
    <3>1. ~crowded /\ crowded' = crowded
      BY <1>2, <2>1, <2>3, CrowdedStays DEF IInv
    <3>2. Fine(term)
      BY <3>1 DEF HoldsList, Fine, IInv
    <3>3. Ring(term'.buf[0]) /\ Listed(term.buf[0], term'.buf[0])
      BY <1>2, <2>3, <3>2, NextLists DEF Listing
    <3>4. List!Next
      BY <3>1, <3>2, <3>3, FineFacts, ListedNext DEF Ring
    <3>5. Ring(term.buf[0])'
      BY <3>3
    <3> QED BY <2>1, <3>4, <3>5 DEF HoldsList
  <2> QED BY <2>2, <2>3
<1> QED BY <1>1, <1>2

(* The ring of rows is the list of lines it promises to be (LineList)      *)
(* through every write, scroll, erasure, reset, new height and new         *)
(* capacity: only lines of the screen change, and those above it stay      *)
(* until the list is longer than its capacity or is cut on purpose         *)
(* (buffer.cpp:96, buffer.cpp:221, buffer.cpp:345).                        *)
THEOREM RingIsAList == Spec => RingIsList
<1>1. Init => HoldsList /\ List!Init
  BY InitLists, InitiallyBounded DEF HoldsList
<1>2. IInv /\ HoldsList /\ [Next]_vars => HoldsList' /\ [crowded' \/ List!Next]_(List!vars)
  BY HoldsListStep
<1> QED BY <1>1, <1>2, Invariance, PTL DEF Spec, RingIsList, List!Spec
-----------------------------------------------------------------------------
(***************************************************************************)
(* The regions of the main buffer (MCMarks' Region).  BufferRight(b, H)    *)
(* says that the buffer b is right while the screen holds the regions H:   *)
(* a region that is not ended is one of H, and ended ones of one kind      *)
(* stand apart.  A lemma for each thing that is done to a buffer says that *)
(* it stays right, and with which H; then one case for each handler.       *)
(***************************************************************************)

LEMMA LargerOfTwo ==
  ASSUME NEW m \in Int, NEW n \in Int
  PROVE  /\ Region!Max({m, n}) \in Int /\ Region!Max({m, n}) >= m /\ Region!Max({m, n}) >= n
         /\ Region!Max({m, n}) \in {m, n}
<1> DEFINE top == IF m >= n THEN m ELSE n
<1>1. top \in {m, n} /\ \A y \in {m, n} : top >= y
  OBVIOUS
<1>2. Region!Max({m, n}) \in {m, n} /\ \A y \in {m, n} : Region!Max({m, n}) >= y
  BY <1>1 DEF Region!Max
<1> QED BY <1>2

(* Positions and rows. *)
LEMMA Distributes ==
  ASSUME NEW a \in Int, NEW b \in Int, NEW c \in Int PROVE (a - b) * c = a * c - b * c
  OBVIOUS
LEMMA Grows == ASSUME NEW a \in Int, NEW b \in Int, NEW c \in Nat, a <= b PROVE a * c <= b * c
  OBVIOUS
LEMMA RowBounds ==
  ASSUME NEW s \in Nat
  PROVE  /\ Region!RowOf(s) \in Nat
         /\ Region!RowOf(s) * Columns <= s /\ s < (Region!RowOf(s) + 1) * Columns
<1> USE MarksAssumption
<1>1. s \div Columns \in Nat
  OBVIOUS
<1>2. (s \div Columns) * Columns <= s /\ s < ((s \div Columns) + 1) * Columns
  OBVIOUS
<1> QED BY <1>1, <1>2 DEF Region!RowOf
LEMMA InRow == ASSUME NEW s \in Nat, NEW r \in Int PROVE r <= Region!RowOf(s) <=> r * Columns <= s
<1> DEFINE q == Region!RowOf(s)
<1>1. q \in Nat /\ q * Columns <= s /\ s < (q + 1) * Columns
  BY RowBounds
<1> HIDE DEF q
<1> USE MarksAssumption
<1>2. r <= q => r * Columns <= q * Columns
  BY <1>1, Grows
<1>3. ~(r <= q) => (q + 1) * Columns <= r * Columns
  BY <1>1, Grows
<1>4. q * Columns \in Int /\ (q + 1) * Columns \in Int /\ r * Columns \in Int
  BY <1>1
<1> QED BY <1>1, <1>2, <1>3, <1>4 DEF q

(* What a buffer is made of. *)
LEMMA BufferParts ==
  ASSUME NEW b, NEW H, Region!BufferRight(b, H)
  PROVE  /\ DOMAIN b = {"regions", "kept", "ended", "size", "next"}
         /\ DOMAIN b.regions = b.kept \cup H
         /\ b.next \in Nat /\ b.size \in Nat /\ b.size >= Height
         /\ b.kept \cup H \subseteq 1 .. b.next
         /\ b.ended = [k \in 0 .. 1 |-> b.ended[k]]
         /\ b.ended[0] = {i \in b.kept : b.regions[i].end # Region!Open} /\ b.ended[1] = {}
         /\ \A i \in b.kept \cup H : b.regions[i] \in Region!RegionType
<1>1. b = [regions |-> b.regions, kept |-> b.kept, ended |-> b.ended, size |-> b.size, next |-> b.next]
  BY DEF Region!BufferRight
<1>2. DOMAIN b = {"regions", "kept", "ended", "size", "next"}
  BY <1>1
<1>3. DOMAIN b.regions = b.kept \cup H
  BY DEF Region!BufferRight
<1>4. /\ b.ended = [k \in 0 .. 1 |-> b.ended[k]]
      /\ b.ended[0] = {i \in b.kept : b.regions[i].end # Region!Open} /\ b.ended[1] = {}
  BY DEF Region!BufferRight
<1> QED BY <1>2, <1>3, <1>4 DEF Region!BufferRight

(* Which parts make a buffer right. *)
Standing(r) == {"deleted", "overwritten"} \cap r.flags = {}
Apart(c) ==
  \A i, k \in c.kept :
    /\ c.regions[i].type \in Region!JobTypes /\ c.regions[k].type = c.regions[i].type
    /\ Standing(c.regions[i]) /\ Standing(c.regions[k]) /\ i < k
    => c.regions[i].end # Region!Open /\ c.regions[i].end <= c.regions[k].start

LEMMA RightApart ==
  ASSUME NEW b, NEW H, Region!BufferRight(b, H) PROVE Apart(b)
<1> SUFFICES ASSUME NEW i \in b.kept, NEW k \in b.kept,
                    b.regions[i].type \in Region!JobTypes, b.regions[k].type = b.regions[i].type,
                    Standing(b.regions[i]), Standing(b.regions[k]), i < k
             PROVE  b.regions[i].end # Region!Open /\ b.regions[i].end <= b.regions[k].start
  BY DEF Apart
<1>1. {b.regions[i].type, b.regions[k].type} \subseteq Region!JobTypes
  OBVIOUS
<1>2. {"deleted", "overwritten"} \cap (b.regions[i].flags \cup b.regions[k].flags) = {}
  BY DEF Standing
<1> QED BY <1>1, <1>2 DEF Region!BufferRight

LEMMA ApartRight ==
  ASSUME NEW c, NEW H,
         c = [regions |-> c.regions, kept |-> c.kept, ended |-> c.ended, size |-> c.size, next |-> c.next],
         c.next \in Nat, c.size \in Nat, c.size >= Height,
         c.regions = [i \in c.kept \cup H |-> c.regions[i]],
         c.kept \cup H \subseteq 1 .. c.next,
         \A i \in c.kept \cup H : c.regions[i] \in Region!RegionType,
         c.ended = [k \in 0 .. 1 |-> IF k = 0 THEN {i \in c.kept : c.regions[i].end # Region!Open} ELSE {}],
         \A i \in c.kept : Region!RegionRight(c, H, i),
         \A i \in H : c.regions[i].type # "user",
         Apart(c)
  PROVE  Region!BufferRight(c, H)
<1>1. ASSUME NEW i \in c.kept, NEW k \in c.kept,
             {c.regions[i].type, c.regions[k].type} \subseteq Region!JobTypes,
             {"deleted", "overwritten"} \cap (c.regions[i].flags \cup c.regions[k].flags) = {},
             i < k, c.regions[i].type = c.regions[k].type
      PROVE  c.regions[i].end # Region!Open /\ c.regions[i].end <= c.regions[k].start
  <2>1. Standing(c.regions[i]) /\ Standing(c.regions[k]) /\ c.regions[i].type \in Region!JobTypes
    BY <1>1 DEF Standing
  <2> QED BY <1>1, <2>1 DEF Apart
<1> QED BY <1>1 DEF Region!BufferRight

OnlyMain(f, S) == f = [k \in 0 .. 1 |-> IF k = 0 THEN S ELSE {}]
LEMMA TwoOrders ==
  ASSUME NEW e, NEW f, NEW S, e = [k \in 0 .. 1 |-> e[k]], e[1] = {}, f = [e EXCEPT ![0] = S]
  PROVE  OnlyMain(f, S)
<1> SUFFICES f = [k \in 0 .. 1 |-> IF k = 0 THEN S ELSE {}]
  BY DEF OnlyMain
<1>1. DOMAIN e = 0 .. 1 /\ 0 \in 0 .. 1 /\ 1 \in 0 .. 1
  OBVIOUS
<1>2. DOMAIN f = 0 .. 1 /\ f = [k \in 0 .. 1 |-> f[k]]
  BY <1>1
<1>3. f[0] = S /\ f[1] = {}
  BY <1>1
<1>4. \A k \in 0 .. 1 : k = 0 \/ k = 1
  OBVIOUS
<1> QED BY <1>2, <1>3, <1>4

(* A flag more: nothing else changes, and fewer regions stand. *)
Marked(b, H, ids, flag, c) ==
  /\ Region!BufferRight(c, H)
  /\ c.kept = b.kept /\ c.next = b.next /\ c.size = b.size /\ c.ended = b.ended
  /\ \A i \in b.kept \cup H :
       /\ c.regions[i].type = b.regions[i].type /\ c.regions[i].start = b.regions[i].start
       /\ c.regions[i].end = b.regions[i].end
       /\ c.regions[i].flags = IF i \in ids THEN b.regions[i].flags \cup {flag} ELSE b.regions[i].flags

LEMMA MarkRight ==
  ASSUME NEW b, NEW H, Region!BufferRight(b, H), NEW ids, NEW flag \in Region!Flags
  PROVE  Marked(b, H, ids, flag, Region!Mark(b, ids, flag))
<1> DEFINE c == Region!Mark(b, ids, flag)
           D == b.kept \cup H
<1>1. /\ DOMAIN b = {"regions", "kept", "ended", "size", "next"} /\ DOMAIN b.regions = D
      /\ \A i \in D : b.regions[i] \in Region!RegionType
      /\ b.ended = [k \in 0 .. 1 |-> b.ended[k]]
      /\ b.ended[0] = {i \in b.kept : b.regions[i].end # Region!Open} /\ b.ended[1] = {}
  BY BufferParts
<1>2. c = [b EXCEPT !.regions = [i \in DOMAIN @ |-> IF i \in ids THEN Region!Flagged(@[i], flag) ELSE @[i]]]
  BY DEF Region!Mark
<1>3. /\ c.regions = [i \in D |-> IF i \in ids THEN Region!Flagged(b.regions[i], flag) ELSE b.regions[i]]
      /\ c.kept = b.kept /\ c.next = b.next /\ c.size = b.size /\ c.ended = b.ended
      /\ c = [regions |-> c.regions, kept |-> c.kept, ended |-> c.ended, size |-> c.size, next |-> c.next]
  <2> HIDE DEF c
  <2>1. c.kept = b.kept /\ c.next = b.next /\ c.size = b.size /\ c.ended = b.ended
    BY <1>1, <1>2
  <2>2. c.regions = [i \in DOMAIN b.regions |-> IF i \in ids THEN Region!Flagged(b.regions[i], flag) ELSE b.regions[i]]
    BY <1>1, <1>2
  <2>3. DOMAIN c = {"regions", "kept", "ended", "size", "next"}
    BY <1>1, <1>2
  <2>4. c = [regions |-> c.regions, kept |-> c.kept, ended |-> c.ended, size |-> c.size, next |-> c.next]
    BY <1>1, <1>2
  <2> QED BY <1>1, <2>1, <2>2, <2>4
<1> HIDE DEF c
<1>4. ASSUME NEW i \in D
      PROVE  /\ c.regions[i] \in Region!RegionType
             /\ c.regions[i].type = b.regions[i].type /\ c.regions[i].start = b.regions[i].start
             /\ c.regions[i].end = b.regions[i].end
             /\ c.regions[i].flags = IF i \in ids THEN b.regions[i].flags \cup {flag} ELSE b.regions[i].flags
  <2>1. b.regions[i] \in Region!RegionType
    BY <1>1
  <2>2. c.regions[i] = IF i \in ids THEN Region!Flagged(b.regions[i], flag) ELSE b.regions[i]
    BY <1>3
  <2> QED BY <2>1, <2>2 DEF Region!RegionType, Region!Flagged
<1>5. c.ended = [k \in 0 .. 1 |-> IF k = 0 THEN {i \in c.kept : c.regions[i].end # Region!Open} ELSE {}]
  <2>1. {i \in c.kept : c.regions[i].end # Region!Open} = {i \in b.kept : b.regions[i].end # Region!Open}
    BY <1>3, <1>4
  <2> QED BY <1>3, <2>1 DEF Region!BufferRight
<1>6. Apart(c)
  <2>1. Apart(b)
    BY RightApart
  <2>2. \A i \in D : Standing(c.regions[i]) => Standing(b.regions[i])
    BY <1>4 DEF Standing
  <2> QED BY <1>3, <1>4, <2>1, <2>2 DEF Apart
<1>7. \A i \in c.kept : Region!RegionRight(c, H, i)
  BY <1>3, <1>4 DEF Region!RegionRight, Region!BufferRight
<1>8. \A i \in H : c.regions[i].type # "user"
  BY <1>4 DEF Region!BufferRight
<1>9. Region!BufferRight(c, H)
  <2>1. c.next \in Nat /\ c.size \in Nat /\ c.size >= Height /\ c.kept \cup H \subseteq 1 .. c.next
    BY <1>3, BufferParts
  <2>2. c.regions = [i \in c.kept \cup H |-> c.regions[i]]
    BY <1>3
  <2> QED BY <1>3, <1>4, <1>5, <1>6, <1>7, <1>8, <2>1, <2>2, ApartRight
<1> QED BY <1>3, <1>4, <1>9 DEF c, Marked

(* A region leaves the buffer: it stays an object while it is held. *)
Gone(b, H, ids, c) ==
  /\ Region!BufferRight(c, H)
  /\ c.kept = b.kept \ ids /\ c.next = b.next /\ c.size = b.size
  /\ \A i \in c.kept \cup H : c.regions[i] = b.regions[i]

LEMMA DeleteRight ==
  ASSUME NEW b, NEW H, Region!BufferRight(b, H), NEW ids, ids \subseteq b.kept,
         NEW held, held \subseteq H, ids \cap H \subseteq held
  PROVE  Gone(b, H, ids, Region!Delete(b, ids, held))
<1> DEFINE c == Region!Delete(b, ids, held)
           D == b.kept \cup H
<1>1. /\ DOMAIN b = {"regions", "kept", "ended", "size", "next"} /\ DOMAIN b.regions = D
      /\ \A i \in D : b.regions[i] \in Region!RegionType
      /\ b.ended = [k \in 0 .. 1 |-> b.ended[k]]
      /\ b.ended[0] = {i \in b.kept : b.regions[i].end # Region!Open} /\ b.ended[1] = {}
  BY BufferParts
<1>0. c = [b EXCEPT !.kept = @ \ ids, !.ended[0] = @ \ ids,
                    !.regions = Region!Restrict(@, DOMAIN @ \ (ids \ held))]
  BY DEF Region!Delete
<1> HIDE DEF c
<1>2. /\ c.kept = b.kept \ ids /\ c.next = b.next /\ c.size = b.size
      /\ c.ended = [b.ended EXCEPT ![0] = @ \ ids]
      /\ c.regions = Region!Restrict(b.regions, DOMAIN b.regions \ (ids \ held))
      /\ c = [regions |-> c.regions, kept |-> c.kept, ended |-> c.ended, size |-> c.size, next |-> c.next]
  BY <1>0, <1>1
<1>3. D \ (ids \ held) = c.kept \cup H
  BY <1>2
<1>4. c.regions = [i \in c.kept \cup H |-> b.regions[i]]
  BY <1>1, <1>2, <1>3 DEF Region!Restrict
<1>5. c.ended = [k \in 0 .. 1 |-> IF k = 0 THEN {i \in c.kept : c.regions[i].end # Region!Open} ELSE {}]
  <2> DEFINE over == {i \in c.kept : c.regions[i].end # Region!Open}
  <2>1. b.ended[0] \ ids = over
    BY <1>1, <1>2, <1>4
  <2> HIDE DEF over
  <2>2. c.ended = [k \in 0 .. 1 |-> IF k = 0 THEN over ELSE {}]
    <3>1. c.ended = [b.ended EXCEPT ![0] = over]
      BY <1>2, <2>1
    <3>2. OnlyMain(c.ended, over)
      BY <1>1, <3>1, TwoOrders
    <3> QED BY <3>2 DEF OnlyMain
  <2> QED BY <2>2 DEF over
<1>6. Apart(c)
  <2>1. Apart(b)
    BY RightApart
  <2> QED BY <1>2, <1>4, <2>1 DEF Apart
<1>7. \A i \in c.kept : Region!RegionRight(c, H, i)
  BY <1>2, <1>4 DEF Region!RegionRight, Region!BufferRight
<1>8. Region!BufferRight(c, H)
  <2>1. c.next \in Nat /\ c.size \in Nat /\ c.size >= Height /\ c.kept \cup H \subseteq 1 .. c.next
    BY <1>2, BufferParts
  <2>2. /\ c.regions = [i \in c.kept \cup H |-> c.regions[i]]
        /\ \A i \in c.kept \cup H : c.regions[i] \in Region!RegionType
        /\ \A i \in H : c.regions[i].type # "user"
    BY <1>1, <1>2, <1>4 DEF Region!BufferRight
  <2> QED BY <1>2, <1>5, <1>6, <1>7, <2>1, <2>2, ApartRight
<1> QED BY <1>2, <1>4, <1>8 DEF c, Gone

(* The screen lets go of a region, which ends if the buffer still has it. *)
LeftAlone(b, H, id, c) ==
  /\ Region!BufferRight(c, H \ {id})
  /\ c.kept = b.kept /\ c.next = b.next /\ c.size = b.size
  /\ \A i \in (b.kept \cup H) \ {id} : c.regions[i] = b.regions[i]

LEMMA LetGoRight ==
  ASSUME NEW b, NEW H, Region!BufferRight(b, H), NEW id \in H, NEW pos \in Nat, NEW shown \in 0 .. 1,
         shown = 1 => id \notin b.kept
  PROVE  LeftAlone(b, H, id, Region!LetGo(b, id, pos, shown))
<1> DEFINE c == Region!LetGo(b, id, pos, shown)
           D == b.kept \cup H
           G == H \ {id}
<1>1. /\ DOMAIN b = {"regions", "kept", "ended", "size", "next"} /\ DOMAIN b.regions = D
      /\ \A i \in D : b.regions[i] \in Region!RegionType
      /\ b.ended = [k \in 0 .. 1 |-> b.ended[k]]
      /\ b.ended[0] = {i \in b.kept : b.regions[i].end # Region!Open} /\ b.ended[1] = {}
      /\ b.next \in Nat /\ b.size \in Nat /\ b.size >= Height /\ D \subseteq 1 .. b.next
  BY BufferParts
<1>2. CASE id \in b.kept
  <2> DEFINE last == Region!Max({pos, b.regions[id].start})
             ended == [b.regions[id] EXCEPT !.end = last, !.flags = @ \cup {"end"}]
  <2>1. b.regions[id].start \in Nat /\ b.regions[id].flags \subseteq Region!Flags
    BY <1>1 DEF Region!RegionType
  <2>2. last \in Nat /\ last >= b.regions[id].start
    <3>1. pos \in Int /\ b.regions[id].start \in Int
      BY <2>1
    <3>2. last \in {pos, b.regions[id].start} /\ last >= b.regions[id].start
      BY <3>1, LargerOfTwo
    <3> HIDE DEF last
    <3> QED BY <2>1, <3>2
  <2>3. c = [b EXCEPT !.regions[id].end = last, !.regions[id].flags = @ \cup {"end"},
                      !.ended[shown] = @ \cup {id}]
    BY <1>2 DEF Region!LetGo, Region!EndRegion
  <2> HIDE DEF c, last
  <2>4. /\ c.kept = b.kept /\ c.next = b.next /\ c.size = b.size
        /\ c.ended = [b.ended EXCEPT ![0] = @ \cup {id}]
        /\ c.regions = [i \in D |-> IF i = id THEN ended ELSE b.regions[i]]
        /\ c = [regions |-> c.regions, kept |-> c.kept, ended |-> c.ended, size |-> c.size, next |-> c.next]
    <3>1. shown = 0
      BY <1>2
    <3>2. /\ c.kept = b.kept /\ c.next = b.next /\ c.size = b.size
          /\ c.ended = [b.ended EXCEPT ![0] = @ \cup {id}]
      BY <1>1, <2>3, <3>1
    <3>3. c.regions = [i \in D |-> IF i = id THEN ended ELSE b.regions[i]]
      BY <1>1, <2>3
    <3> QED BY <1>1, <2>3, <3>2, <3>3
  <2>5. /\ ended \in Region!RegionType /\ ended.end = last /\ ended.start = b.regions[id].start
        /\ ended.type = b.regions[id].type /\ ended.flags = b.regions[id].flags \cup {"end"}
    <3>1. b.regions[id] \in Region!RegionType
      BY <1>1
    <3> QED BY <2>1, <2>2, <3>1 DEF Region!RegionType, Region!Flags
  <2> HIDE DEF ended
  <2>6. ASSUME NEW i \in D
        PROVE  /\ c.regions[i] \in Region!RegionType /\ c.regions[i].type = b.regions[i].type
               /\ c.regions[i].start = b.regions[i].start
               /\ Standing(c.regions[i]) => Standing(b.regions[i])
               /\ i # id => c.regions[i] = b.regions[i]
    BY <1>1, <2>4, <2>5 DEF Standing
  <2>7. c.regions[id].end = last /\ b.regions[id].end = Region!Open /\ last # Region!Open
    BY <1>2, <2>2, <2>4, <2>5 DEF Region!BufferRight, Region!RegionRight, Region!Open
  <2>8. c.ended = [k \in 0 .. 1 |-> IF k = 0 THEN {i \in c.kept : c.regions[i].end # Region!Open} ELSE {}]
    <3> DEFINE over == {i \in c.kept : c.regions[i].end # Region!Open}
    <3>1. b.ended[0] \cup {id} = over
      BY <1>1, <1>2, <2>4, <2>6, <2>7
    <3> HIDE DEF over
    <3>2. c.ended = [k \in 0 .. 1 |-> IF k = 0 THEN over ELSE {}]
      <4>1. c.ended = [b.ended EXCEPT ![0] = over]
        BY <2>4, <3>1
      <4>2. OnlyMain(c.ended, over)
        BY <1>1, <4>1, TwoOrders
      <4> QED BY <4>2 DEF OnlyMain
    <3> QED BY <3>2 DEF over
  <2>9. Apart(c)
    <3> SUFFICES ASSUME NEW i \in c.kept, NEW k \in c.kept, c.regions[i].type \in Region!JobTypes,
                        c.regions[k].type = c.regions[i].type,
                        Standing(c.regions[i]), Standing(c.regions[k]), i < k
                 PROVE  c.regions[i].end # Region!Open /\ c.regions[i].end <= c.regions[k].start
      BY DEF Apart
    <3>1. b.regions[i].end # Region!Open /\ b.regions[i].end <= b.regions[k].start
      <4>1. Apart(b)
        BY RightApart
      <4> QED BY <2>4, <2>6, <4>1 DEF Apart
    <3>2. i # id
      BY <2>7, <3>1
    <3> QED BY <2>4, <2>6, <3>1, <3>2
  <2>10. ASSUME NEW i \in c.kept PROVE Region!RegionRight(c, G, i)
    <3>1. Region!RegionRight(b, H, i)
      BY <2>4 DEF Region!BufferRight
    <3>2. CASE i = id
      BY <2>2, <2>4, <2>6, <2>7, <3>1, <3>2 DEF Region!RegionRight
    <3>3. CASE i # id
      BY <2>4, <2>6, <3>1, <3>3 DEF Region!RegionRight
    <3> QED BY <3>2, <3>3
  <2>11. Region!BufferRight(c, G)
    <3>1. c.next \in Nat /\ c.size \in Nat /\ c.size >= Height /\ c.kept \cup G \subseteq 1 .. c.next
      BY <1>1, <2>4
    <3>2. c.kept \cup G = D
      BY <1>2, <2>4
    <3>3. /\ c.regions = [i \in c.kept \cup G |-> c.regions[i]]
          /\ \A i \in c.kept \cup G : c.regions[i] \in Region!RegionType
          /\ \A i \in G : c.regions[i].type # "user"
      BY <2>4, <2>6, <3>2 DEF Region!BufferRight
    <3> QED BY <2>4, <2>8, <2>9, <2>10, <3>1, <3>3, ApartRight
  <2> QED BY <2>4, <2>6, <2>11 DEF c, LeftAlone
<1>3. CASE id \notin b.kept
  <2>1. c = [b EXCEPT !.regions = Region!Restrict(b.regions, DOMAIN b.regions \ {id})]
    BY <1>1, <1>3 DEF Region!LetGo
  <2> HIDE DEF c
  <2>2. /\ c.kept = b.kept /\ c.next = b.next /\ c.size = b.size /\ c.ended = b.ended
        /\ c.regions = [i \in c.kept \cup G |-> b.regions[i]]
        /\ c = [regions |-> c.regions, kept |-> c.kept, ended |-> c.ended, size |-> c.size, next |-> c.next]
    <3>1. D \ {id} = b.kept \cup G
      BY <1>3
    <3> QED BY <1>1, <2>1, <3>1 DEF Region!Restrict
  <2>3. c.ended = [k \in 0 .. 1 |-> IF k = 0 THEN {i \in c.kept : c.regions[i].end # Region!Open} ELSE {}]
    <3>1. {i \in c.kept : c.regions[i].end # Region!Open} = {i \in b.kept : b.regions[i].end # Region!Open}
      BY <2>2
    <3> QED BY <2>2, <3>1 DEF Region!BufferRight
  <2>4. Apart(c)
    <3>1. Apart(b)
      BY RightApart
    <3> QED BY <2>2, <3>1 DEF Apart
  <2>5. \A i \in c.kept : Region!RegionRight(c, G, i)
    BY <1>3, <2>2 DEF Region!RegionRight, Region!BufferRight
  <2>6. Region!BufferRight(c, G)
    <3>1. c.next \in Nat /\ c.size \in Nat /\ c.size >= Height /\ c.kept \cup G \subseteq 1 .. c.next
      BY <1>1, <2>2
    <3>2. /\ c.regions = [i \in c.kept \cup G |-> c.regions[i]]
          /\ \A i \in c.kept \cup G : c.regions[i] \in Region!RegionType
          /\ \A i \in G : c.regions[i].type # "user"
      BY <1>1, <2>2 DEF Region!BufferRight
    <3> QED BY <2>2, <2>3, <2>4, <2>5, <3>1, <3>2, ApartRight
  <2> QED BY <2>2, <2>6 DEF c, LeftAlone
<1> QED BY <1>2, <1>3

(* What ends behind a place is overwritten. *)
Overwritten(b, H, pos, c) ==
  /\ Region!BufferRight(c, H)
  /\ c.kept = b.kept /\ c.next = b.next /\ c.size = b.size /\ c.ended = b.ended
  /\ \A i \in b.kept \cup H :
       /\ c.regions[i].type = b.regions[i].type /\ c.regions[i].start = b.regions[i].start
       /\ c.regions[i].end = b.regions[i].end
       /\ b.regions[i].flags \subseteq c.regions[i].flags
       /\ i \in b.kept /\ c.regions[i].end # Region!Open /\ Standing(c.regions[i])
            => c.regions[i].end <= pos

LEMMA OverwriteRight ==
  ASSUME NEW b, NEW H, Region!BufferRight(b, H), NEW pos \in Nat
  PROVE  Overwritten(b, H, pos, Region!Overwrite(b, pos))
<1> DEFINE ids == {i \in b.ended[0] : b.regions[i].end > pos /\ "deleted" \notin b.regions[i].flags}
           c == Region!Mark(b, ids, "overwritten")
<1>1. c = Region!Overwrite(b, pos)
  BY DEF Region!Overwrite
<1>2. "overwritten" \in Region!Flags
  BY DEF Region!Flags
<1> HIDE DEF ids
<1>3. /\ Region!BufferRight(c, H)
      /\ c.kept = b.kept /\ c.next = b.next /\ c.size = b.size /\ c.ended = b.ended
      /\ \A i \in b.kept \cup H :
           /\ c.regions[i].type = b.regions[i].type /\ c.regions[i].start = b.regions[i].start
           /\ c.regions[i].end = b.regions[i].end
           /\ c.regions[i].flags = IF i \in ids THEN b.regions[i].flags \cup {"overwritten"} ELSE b.regions[i].flags
  <2>1. Marked(b, H, ids, "overwritten", c)
    BY <1>2, MarkRight
  <2> HIDE DEF c
  <2> QED BY <2>1 DEF Marked
<1> HIDE DEF c
<1>4. ASSUME NEW i \in b.kept, c.regions[i].end # Region!Open, Standing(c.regions[i])
      PROVE  c.regions[i].end <= pos
  <2>1. i \notin ids /\ "deleted" \notin b.regions[i].flags
    BY <1>3, <1>4 DEF Standing
  <2>2. i \in b.ended[0]
    BY <1>3, <1>4, BufferParts
  <2>3. ~(b.regions[i].end > pos)
    BY <2>1, <2>2 DEF ids
  <2>4. b.regions[i].end \in Int
    <3>1. b.regions[i] \in Region!RegionType
      BY BufferParts
    <3> QED BY <3>1 DEF Region!RegionType, Region!Open
  <2>5. c.regions[i].end = b.regions[i].end
    BY <1>3
  <2> HIDE DEF ids
  <2> QED BY <2>3, <2>4, <2>5
<1>5. Overwritten(b, H, pos, c)
  BY <1>3, <1>4 DEF Overwritten
<1> QED BY <1>1, <1>5

(* A region begins. *)
Begun(b, H, type, c) ==
  /\ Region!BufferRight(c, H \cup {b.next + 1})
  /\ c.kept = b.kept \cup {b.next + 1} /\ c.next = b.next + 1 /\ c.size = b.size
  /\ c.regions[b.next + 1].type = type
  /\ \A i \in b.kept \cup H : c.regions[i].type = b.regions[i].type

LEMMA AddRight ==
  ASSUME NEW b, NEW H, Region!BufferRight(b, H), NEW type \in Region!JobTypes, NEW parent \in Nat, NEW pos \in Nat,
         Region!RowOf(pos) >= b.size - Capacity,
         \A i \in b.kept : b.regions[i].type = type /\ Standing(b.regions[i]) =>
                             b.regions[i].end # Region!Open /\ b.regions[i].end <= pos
  PROVE  Begun(b, H, type, Region!AddRegion(b, b.next + 1, Region!NewRegion(type, parent, pos, Region!Open, {})))
<1> DEFINE id == b.next + 1
           new == Region!NewRegion(type, parent, pos, Region!Open, {})
           c == Region!AddRegion(b, id, new)
           D == b.kept \cup H
           G == H \cup {id}
<1>1. /\ DOMAIN b = {"regions", "kept", "ended", "size", "next"} /\ DOMAIN b.regions = D
      /\ \A i \in D : b.regions[i] \in Region!RegionType
      /\ b.ended = [k \in 0 .. 1 |-> b.ended[k]]
      /\ b.ended[0] = {i \in b.kept : b.regions[i].end # Region!Open} /\ b.ended[1] = {}
      /\ b.next \in Nat /\ b.size \in Nat /\ b.size >= Height /\ D \subseteq 1 .. b.next
  BY BufferParts
<1>2. /\ new \in Region!RegionType /\ new.type = type /\ new.start = pos /\ new.end = Region!Open /\ new.flags = {}
  BY DEF Region!NewRegion, Region!RegionType, Region!JobTypes
<1> HIDE DEF new
<1>3. c = [b EXCEPT !.next = id, !.kept = @ \cup {id},
                    !.regions = [i \in DOMAIN @ \cup {id} |-> IF i = id THEN new ELSE @[i]]]
  BY DEF Region!AddRegion
<1> HIDE DEF c
<1>4. /\ c.kept = b.kept \cup {id} /\ c.next = id /\ c.size = b.size /\ c.ended = b.ended
      /\ c = [regions |-> c.regions, kept |-> c.kept, ended |-> c.ended, size |-> c.size, next |-> c.next]
  BY <1>1, <1>3
<1>5. c.regions = [i \in D \cup {id} |-> IF i = id THEN new ELSE b.regions[i]]
  BY <1>1, <1>3
<1>6. id \notin D /\ id \in Nat
  BY <1>1
<1> HIDE DEF id
<1>7. c.kept \cup G = D \cup {id}
  BY <1>4
<1>8. c.regions[id] = new /\ \A i \in D : c.regions[i] = b.regions[i]
  BY <1>5, <1>6
<1>9. c.ended = [k \in 0 .. 1 |-> IF k = 0 THEN {i \in c.kept : c.regions[i].end # Region!Open} ELSE {}]
  <2>1. {i \in c.kept : c.regions[i].end # Region!Open} = {i \in b.kept : b.regions[i].end # Region!Open}
    BY <1>2, <1>4, <1>8
  <2> QED BY <1>4, <2>1 DEF Region!BufferRight
<1>10. Apart(c)
  <2> SUFFICES ASSUME NEW i \in c.kept, NEW k \in c.kept, c.regions[i].type \in Region!JobTypes,
                      c.regions[k].type = c.regions[i].type,
                      Standing(c.regions[i]), Standing(c.regions[k]), i < k
               PROVE  c.regions[i].end # Region!Open /\ c.regions[i].end <= c.regions[k].start
    BY DEF Apart
  <2>1. i \in b.kept
    <3>1. k \in 1 .. id /\ id \in Nat
      BY <1>1, <1>4 DEF id
    <3> QED BY <1>4, <3>1
  <2>2. CASE k = id
    BY <1>2, <1>8, <2>1, <2>2
  <2>3. CASE k # id
    <3>1. Apart(b)
      BY RightApart
    <3> QED BY <1>4, <1>8, <2>1, <2>3, <3>1 DEF Apart
  <2> QED BY <2>2, <2>3
<1>11. ASSUME NEW i \in c.kept PROVE Region!RegionRight(c, G, i)
  <2>1. CASE i = id
    BY <1>2, <1>4, <1>8, <2>1 DEF Region!RegionRight
  <2>2. CASE i # id
    BY <1>4, <1>8, <2>2 DEF Region!RegionRight, Region!BufferRight
  <2> QED BY <2>1, <2>2
<1>12. Region!BufferRight(c, G)
  <2>1. c.next \in Nat /\ c.size \in Nat /\ c.size >= Height /\ c.kept \cup G \subseteq 1 .. c.next
    BY <1>1, <1>4, <1>6 DEF id
  <2>2. c.regions = [i \in c.kept \cup G |-> c.regions[i]]
    BY <1>5, <1>7
  <2>3. \A i \in c.kept \cup G : c.regions[i] \in Region!RegionType
    BY <1>1, <1>2, <1>7, <1>8
  <2>4. \A i \in G : c.regions[i].type # "user"
    BY <1>2, <1>8 DEF Region!BufferRight, Region!JobTypes
  <2> QED BY <1>4, <1>9, <1>10, <1>11, <2>1, <2>2, <2>3, <2>4, ApartRight
<1> QED BY <1>2, <1>4, <1>8, <1>12 DEF c, id, new, Begun

LEMMA BeginRight ==
  ASSUME NEW b, NEW H, Region!BufferRight(b, H), NEW type \in Region!JobTypes, NEW parent \in Nat, NEW pos \in Nat,
         Region!RowOf(pos) >= b.size - Capacity,
         \A i \in H : b.regions[i].type # type
  PROVE  Begun(b, H, type, Region!BeginRegion(b, type, parent, pos))
<1> DEFINE later == Region!From(b, pos, {type})
           d == Region!Mark(b, later, "deleted")
           e == Region!Overwrite(d, pos)
           new == Region!NewRegion(type, parent, pos, Region!Open, {})
           c == Region!AddRegion(e, e.next + 1, new)
<1> HIDE DEF later
<1>1. Marked(b, H, later, "deleted", d)
  <2>1. "deleted" \in Region!Flags
    BY DEF Region!Flags
  <2> QED BY <2>1, MarkRight
<1> HIDE DEF d
<1>2. /\ Region!BufferRight(d, H) /\ d.kept = b.kept /\ d.next = b.next /\ d.size = b.size
      /\ \A i \in b.kept \cup H : d.regions[i].type = b.regions[i].type
  BY <1>1 DEF Marked
<1>3. Overwritten(d, H, pos, e)
  BY <1>2, OverwriteRight
<1> HIDE DEF e
<1>4. /\ Region!BufferRight(e, H) /\ e.kept = b.kept /\ e.next = b.next /\ e.size = b.size
      /\ \A i \in b.kept \cup H :
           /\ e.regions[i].type = b.regions[i].type
           /\ i \in b.kept /\ e.regions[i].end # Region!Open /\ Standing(e.regions[i])
                => e.regions[i].end <= pos
  BY <1>2, <1>3 DEF Overwritten
<1>5. ASSUME NEW i \in e.kept, e.regions[i].type = type, Standing(e.regions[i])
      PROVE  e.regions[i].end # Region!Open /\ e.regions[i].end <= pos
  <2>1. e.regions[i].end # Region!Open
    <3>1. i \notin H
      BY <1>4, <1>5
    <3> QED BY <1>4, <3>1 DEF Region!BufferRight, Region!RegionRight
  <2> QED BY <1>4, <1>5, <2>1
<1>6. Begun(e, H, type, c)
  <2>1. \A i \in e.kept : e.regions[i].type = type /\ Standing(e.regions[i]) =>
                            e.regions[i].end # Region!Open /\ e.regions[i].end <= pos
    BY <1>5
  <2>2. Region!RowOf(pos) >= e.size - Capacity
    BY <1>4
  <2> QED BY <1>4, <2>1, <2>2, AddRight
<1>7. Region!BeginRegion(b, type, parent, pos) = c
  BY <1>4 DEF Region!BeginRegion, later, d, e
<1> HIDE DEF c
<1>8. Begun(b, H, type, c)
  BY <1>4, <1>6 DEF Begun
<1> QED BY <1>7, <1>8

(* One region's flag. *)
LEMMA MarkOne ==
  ASSUME NEW b, NEW H, Region!BufferRight(b, H), NEW id \in b.kept \cup H, NEW flag
  PROVE  [b EXCEPT !.regions[id].flags = @ \cup {flag}] = Region!Mark(b, {id}, flag)
<1> DEFINE c == [b EXCEPT !.regions[id].flags = @ \cup {flag}]
           d == Region!Mark(b, {id}, flag)
           D == b.kept \cup H
           f == [i \in D |-> IF i \in {id} THEN Region!Flagged(b.regions[i], flag) ELSE b.regions[i]]
<1>1. DOMAIN b = {"regions", "kept", "ended", "size", "next"} /\ DOMAIN b.regions = D
  BY BufferParts
<1>2. d = [b EXCEPT !.regions = f]
  <2>1. d = [b EXCEPT !.regions = [i \in DOMAIN @ |-> IF i \in {id} THEN Region!Flagged(@[i], flag) ELSE @[i]]]
    BY DEF Region!Mark
  <2> QED BY <1>1, <2>1
<1>3. c = [b EXCEPT !.regions = [b.regions EXCEPT ![id] = Region!Flagged(b.regions[id], flag)]]
  BY <1>1 DEF Region!Flagged
<1>4. [b.regions EXCEPT ![id] = Region!Flagged(b.regions[id], flag)] = f
  <2>1. b.regions = [i \in D |-> b.regions[i]]
    BY DEF Region!BufferRight
  <2> QED BY <1>1, <2>1
<1> QED BY <1>2, <1>3, <1>4

(* Another size, as far as the regions lie in rows that are kept. *)
OfSize(b, n) == [b EXCEPT !.size = n]
LEMMA SizeRight ==
  ASSUME NEW b, NEW H, Region!BufferRight(b, H), NEW n \in Nat, n >= Height,
         \A i \in b.kept : b.regions[i].type # "user" => Region!RowOf(b.regions[i].start) >= n - Capacity
  PROVE  Region!BufferRight(OfSize(b, n), H)
<1> DEFINE c == OfSize(b, n)
<1>1. DOMAIN b = {"regions", "kept", "ended", "size", "next"}
  BY BufferParts
<1>2. /\ c.kept = b.kept /\ c.next = b.next /\ c.size = n /\ c.ended = b.ended /\ c.regions = b.regions
      /\ c = [regions |-> c.regions, kept |-> c.kept, ended |-> c.ended, size |-> c.size, next |-> c.next]
  BY <1>1 DEF OfSize
<1> HIDE DEF c
<1>3. Apart(c)
  <2>1. Apart(b)
    BY RightApart
  <2> QED BY <1>2, <2>1 DEF Apart
<1>4. \A i \in c.kept : Region!RegionRight(c, H, i)
  BY <1>2 DEF Region!BufferRight, Region!RegionRight
<1>5. Region!BufferRight(c, H)
  <2>1. /\ c.next \in Nat /\ c.size \in Nat /\ c.size >= Height /\ c.kept \cup H \subseteq 1 .. c.next
        /\ \A i \in c.kept \cup H : c.regions[i] \in Region!RegionType
    BY <1>2, BufferParts
  <2>2. /\ c.regions = [i \in c.kept \cup H |-> c.regions[i]]
        /\ \A i \in H : c.regions[i].type # "user"
    BY <1>2 DEF Region!BufferRight
  <2>3. c.ended = [k \in 0 .. 1 |-> IF k = 0 THEN {i \in c.kept : c.regions[i].end # Region!Open} ELSE {}]
    BY <1>2 DEF Region!BufferRight
  <2> QED BY <1>2, <1>3, <1>4, <2>1, <2>2, <2>3, ApartRight
<1> QED BY <1>5 DEF c

LEMMA RowOfKept ==
  ASSUME NEW b, NEW H, Region!BufferRight(b, H), NEW i \in b.kept \cup H
  PROVE  b.regions[i].start \in Nat /\ Region!RowOf(b.regions[i].start) \in Nat
<1>1. b.regions[i] \in Region!RegionType
  BY BufferParts
<1>2. b.regions[i].start \in Nat
  BY <1>1 DEF Region!RegionType
<1> QED BY <1>2, RowBounds

LEMMA InsertRowRight ==
  ASSUME NEW b, NEW H, Region!BufferRight(b, H)
  PROVE  /\ Region!BufferRight(Region!InsertRow(b, H), H)
         /\ \A i \in H : Region!InsertRow(b, H).regions[i].type = b.regions[i].type
<1> DEFINE gone == {i \in b.kept : Region!RowOf(b.regions[i].start) <= b.size - Capacity}
           d == Region!Delete(b, gone, H)
           e == IF b.size >= Capacity THEN d ELSE b
           n == b.size + 1
<1> USE MarksAssumption
<1>1. b.size \in Nat /\ b.size >= Height
  BY BufferParts
<1>2. Gone(b, H, gone, d)
  BY DeleteRight
<1>3. Region!BufferRight(e, H) /\ e.size = b.size /\ \A i \in H : e.regions[i].type = b.regions[i].type
  <2> HIDE DEF d, gone
  <2> QED BY <1>2 DEF Gone
<1>4. ASSUME NEW i \in e.kept PROVE Region!RowOf(e.regions[i].start) >= n - Capacity
  <2>1. CASE b.size >= Capacity
    <3> DEFINE r == Region!RowOf(b.regions[i].start)
    <3>1. i \in b.kept \ gone /\ e.regions[i] = b.regions[i]
      <4> HIDE DEF d, gone
      <4> QED BY <1>2, <2>1 DEF Gone
    <3>2. ~(r <= b.size - Capacity)
      BY <3>1
    <3>3. r \in Nat
      BY <3>1, RowOfKept
    <3>4. Region!RowOf(e.regions[i].start) = r
      BY <3>1
    <3> HIDE DEF r, e
    <3> QED BY <1>1, <3>2, <3>3, <3>4
  <2>2. CASE ~(b.size >= Capacity)
    <3>1. Region!RowOf(e.regions[i].start) \in Nat
      BY <1>3, RowOfKept
    <3> HIDE DEF e
    <3> QED BY <1>1, <2>2, <3>1
  <2> QED BY <2>1, <2>2
<1>5. Region!InsertRow(b, H) = [e EXCEPT !.size = @ + 1]
  BY DEF Region!InsertRow
<1> HIDE DEF e
<1>6. Region!InsertRow(b, H) = OfSize(e, n)
  BY <1>3, <1>5 DEF OfSize
<1>7. Region!BufferRight(OfSize(e, n), H)
  BY <1>1, <1>3, <1>4, SizeRight
<1>8. OfSize(e, n).regions = e.regions
  <2>1. DOMAIN e = {"regions", "kept", "ended", "size", "next"}
    BY <1>3, BufferParts
  <2> QED BY <2>1 DEF OfSize
<1> QED BY <1>3, <1>6, <1>7, <1>8

(* Rows are dropped at the top and the others are numbered anew. *)
LEMMA DropRowsRight ==
  ASSUME NEW b, NEW H, Region!BufferRight(b, H), NEW n \in Nat, b.size - n >= Height
  PROVE  /\ Region!BufferRight(Region!DropRows(b, n, H), H)
         /\ \A i \in H : Region!DropRows(b, n, H).regions[i].type = b.regions[i].type
<1> DEFINE gone == {i \in b.kept : Region!RowOf(b.regions[i].start) < n}
           d == Region!Delete(b, gone, H)
           D == d.kept \cup H
           InNewRow(i) == [d.regions[i] EXCEPT
                          !.start = IF i \in d.kept THEN @ - n * Columns ELSE @,
                          !.end = IF i \in d.ended[0] THEN @ - n * Columns ELSE @]
           c == Region!DropRows(b, n, H)
<1> USE MarksAssumption
<1>1. Gone(b, H, gone, d)
  BY DeleteRight
<1>2. c = [d EXCEPT !.size = @ - n, !.regions = [i \in DOMAIN @ |-> InNewRow(i)]]
  BY DEF Region!DropRows
<1>3. \A i \in b.kept \ gone : ~(Region!RowOf(b.regions[i].start) < n)
  OBVIOUS
<1> HIDE DEF d, gone, c
<1>4. /\ Region!BufferRight(d, H) /\ d.kept = b.kept \ gone /\ d.size = b.size
      /\ \A i \in D : d.regions[i] = b.regions[i]
  BY <1>1 DEF Gone
<1>5. /\ DOMAIN d = {"regions", "kept", "ended", "size", "next"} /\ DOMAIN d.regions = D
      /\ \A i \in D : d.regions[i] \in Region!RegionType
      /\ d.ended[0] = {i \in d.kept : d.regions[i].end # Region!Open}
      /\ d.next \in Nat /\ d.size \in Nat /\ D \subseteq 1 .. d.next
  BY <1>4, BufferParts
<1>6. /\ c.kept = d.kept /\ c.next = d.next /\ c.size = d.size - n /\ c.ended = d.ended
      /\ c.regions = [i \in D |-> InNewRow(i)]
      /\ c = [regions |-> c.regions, kept |-> c.kept, ended |-> c.ended, size |-> c.size, next |-> c.next]
  <2> HIDE DEF InNewRow
  <2> QED BY <1>2, <1>5
<1>7. n * Columns \in Nat
  OBVIOUS
<1> DEFINE off == n * Columns
<1>8. ASSUME NEW i \in D
      PROVE  LET r == d.regions[i]  m == c.regions[i] IN
             /\ m.type = r.type /\ m.flags = r.flags /\ m.parent = r.parent
             /\ m.start = (IF i \in d.kept THEN r.start - off ELSE r.start)
             /\ m.end = (IF i \in d.ended[0] THEN r.end - off ELSE r.end)
             /\ m = [type |-> m.type, parent |-> m.parent, start |-> m.start, end |-> m.end, flags |-> m.flags]
  <2>1. c.regions[i] = InNewRow(i)
    BY <1>6
  <2>2. d.regions[i] \in Region!RegionType
    BY <1>5
  <2> HIDE DEF off, D
  <2> QED BY <2>1, <2>2 DEF Region!RegionType, off
<1> HIDE DEF InNewRow
<1>9. ASSUME NEW i \in d.kept
      PROVE  /\ d.regions[i].start - off \in Nat
             /\ Region!RowOf(d.regions[i].start - off) >= Region!RowOf(d.regions[i].start) - n
  <2> DEFINE s == d.regions[i].start
             q == Region!RowOf(s)
  <2>1. s \in Nat /\ q \in Nat
    BY <1>4, RowOfKept
  <2>2. q >= n
    BY <1>3, <1>4, <2>1
  <2> HIDE DEF s
  <2>3. q * Columns <= s
    BY <2>1, RowBounds
  <2> HIDE DEF q
  <2>4. off <= q * Columns /\ (q - n) * Columns = q * Columns - off
    BY <2>1, <2>2, Grows, Distributes
  <2>5. q * Columns \in Nat
    BY <2>1
  <2> HIDE DEF off
  <2>6. s - off \in Nat
    BY <1>7, <2>1, <2>3, <2>4, <2>5 DEF off
  <2>7. (q - n) * Columns <= s - off
    BY <1>7, <2>1, <2>3, <2>4, <2>5 DEF off
  <2>8. q - n <= Region!RowOf(s - off)
    BY <2>1, <2>6, <2>7, InRow
  <2>9. Region!RowOf(s - off) \in Nat
    BY <2>6, RowBounds
  <2> QED BY <2>1, <2>6, <2>8, <2>9 DEF s, q
<1> HIDE DEF off
<1>10. off \in Nat
  BY <1>7 DEF off
<1>11. ASSUME NEW i \in d.kept PROVE Region!RegionRight(d, H, i)
  BY <1>4 DEF Region!BufferRight
<1>12. ASSUME NEW i \in d.kept
       PROVE  /\ c.regions[i].end = Region!Open <=> d.regions[i].end = Region!Open
              /\ c.regions[i].end # Region!Open =>
                   /\ c.regions[i].end = d.regions[i].end - off /\ c.regions[i].start <= c.regions[i].end
                   /\ c.regions[i].end \in Nat
              /\ c.regions[i].start = d.regions[i].start - off /\ c.regions[i].start \in Nat
  <2>1. d.regions[i].start \in Nat /\ d.regions[i].end \in Nat \cup {-1}
    <3>1. d.regions[i] \in Region!RegionType
      BY <1>5
    <3> QED BY <3>1 DEF Region!RegionType, Region!Open
  <2>2. d.regions[i].end # -1 => d.regions[i].start <= d.regions[i].end
    BY <1>11 DEF Region!RegionRight, Region!Open
  <2>3. c.regions[i].start = d.regions[i].start - off /\ c.regions[i].start \in Nat
    BY <1>8, <1>9
  <2>4. c.regions[i].end = IF d.regions[i].end # -1 THEN d.regions[i].end - off ELSE d.regions[i].end
    BY <1>5, <1>8 DEF Region!Open
  <2> QED BY <1>10, <2>1, <2>2, <2>3, <2>4 DEF Region!Open
<1>13. \A i \in D : c.regions[i] \in Region!RegionType
  <2> SUFFICES ASSUME NEW i \in D PROVE c.regions[i] \in Region!RegionType
    OBVIOUS
  <2>1. d.regions[i] \in Region!RegionType
    BY <1>5
  <2>2. c.regions[i].start \in Nat /\ c.regions[i].end \in Nat \cup {Region!Open}
    <3>1. CASE i \in d.kept
      BY <1>12, <3>1
    <3>2. CASE i \notin d.kept
      BY <1>5, <1>8, <2>1, <3>2 DEF Region!RegionType
    <3> QED BY <3>1, <3>2
  <2>3. c.regions[i].type = d.regions[i].type /\ c.regions[i].flags = d.regions[i].flags
        /\ c.regions[i].parent = d.regions[i].parent
    BY <1>8
  <2>4. c.regions[i] = [type |-> d.regions[i].type, parent |-> d.regions[i].parent, start |-> c.regions[i].start,
                        end |-> c.regions[i].end, flags |-> d.regions[i].flags]
    BY <1>8
  <2>5. d.regions[i].type \in Region!JobTypes \cup {"user"} /\ d.regions[i].parent \in Nat
        /\ d.regions[i].flags \in SUBSET Region!Flags
    BY <2>1 DEF Region!RegionType
  <2> QED BY <2>2, <2>4, <2>5 DEF Region!RegionType
<1>14. c.ended = [k \in 0 .. 1 |-> IF k = 0 THEN {i \in c.kept : c.regions[i].end # Region!Open} ELSE {}]
  <2>1. {i \in c.kept : c.regions[i].end # Region!Open} = {i \in d.kept : d.regions[i].end # Region!Open}
    BY <1>6, <1>12
  <2> QED BY <1>4, <1>6, <2>1 DEF Region!BufferRight
<1>15. Apart(c)
  <2> SUFFICES ASSUME NEW i \in c.kept, NEW k \in c.kept, c.regions[i].type \in Region!JobTypes,
                      c.regions[k].type = c.regions[i].type,
                      Standing(c.regions[i]), Standing(c.regions[k]), i < k
               PROVE  c.regions[i].end # Region!Open /\ c.regions[i].end <= c.regions[k].start
    BY DEF Apart
  <2>1. i \in d.kept /\ k \in d.kept /\ i \in D /\ k \in D
    BY <1>6
  <2>2. d.regions[i].end # Region!Open /\ d.regions[i].end <= d.regions[k].start
    <3>1. Apart(d)
      BY <1>4, RightApart
    <3>2. /\ c.regions[i].type = d.regions[i].type /\ c.regions[i].flags = d.regions[i].flags
          /\ c.regions[k].type = d.regions[k].type /\ c.regions[k].flags = d.regions[k].flags
      BY <1>8, <2>1
    <3> QED BY <2>1, <3>1, <3>2 DEF Apart, Standing
  <2>3. /\ c.regions[i].end # Region!Open /\ c.regions[i].end = d.regions[i].end - off
        /\ c.regions[k].start = d.regions[k].start - off
    BY <1>12, <2>1, <2>2
  <2>4. d.regions[i].end \in Int /\ d.regions[k].start \in Int
    <3>1. d.regions[i] \in Region!RegionType /\ d.regions[k] \in Region!RegionType
      BY <1>5, <2>1
    <3> QED BY <3>1 DEF Region!RegionType, Region!Open
  <2> QED BY <1>10, <2>2, <2>3, <2>4
<1>16. \A i \in c.kept : Region!RegionRight(c, H, i)
  <2> SUFFICES ASSUME NEW i \in d.kept PROVE Region!RegionRight(c, H, i)
    BY <1>6
  <2>1. Region!RegionRight(d, H, i)
    BY <1>11
  <2>2. c.regions[i].type # "user" => Region!RowOf(c.regions[i].start) >= c.size - Capacity
    <3>1. d.regions[i].start \in Nat /\ Region!RowOf(d.regions[i].start) \in Nat
      BY <1>4, RowOfKept
    <3>2. Region!RowOf(c.regions[i].start) \in Nat
      BY <1>12, RowBounds
    <3>3. Region!RowOf(c.regions[i].start) >= Region!RowOf(d.regions[i].start) - n
      BY <1>9, <1>12
    <3>4. c.regions[i].type # "user" => Region!RowOf(d.regions[i].start) >= d.size - Capacity
      BY <1>8, <2>1 DEF Region!RegionRight
    <3> QED BY <1>5, <1>6, <3>1, <3>2, <3>3, <3>4
  <2> QED BY <1>12, <2>1, <2>2 DEF Region!RegionRight
<1>17. Region!BufferRight(c, H)
  <2>1. c.next \in Nat /\ c.size \in Nat /\ c.size >= Height /\ c.kept \cup H \subseteq 1 .. c.next
    BY <1>4, <1>5, <1>6
  <2>2. c.regions = [i \in c.kept \cup H |-> c.regions[i]]
    BY <1>6
  <2>3. \A i \in H : c.regions[i].type # "user"
    BY <1>4, <1>8 DEF Region!BufferRight
  <2>4. \A i \in c.kept \cup H : c.regions[i] \in Region!RegionType
    BY <1>6, <1>13
  <2> QED BY <1>6, <1>14, <1>15, <1>16, <2>1, <2>2, <2>3, <2>4, ApartRight
<1>18. \A i \in H : c.regions[i].type = b.regions[i].type
  BY <1>4, <1>8
<1> QED BY <1>17, <1>18 DEF c

(* A client's annotation. *)
WithNote(b, from, to) ==
  LET c == Region!AddRegion(b, b.next + 1, Region!NewRegion("user", 0, from, to, {"end"}))
  IN [c EXCEPT !.ended[0] = @ \cup {b.next + 1}]

LEMMA AnnotateRight ==
  ASSUME NEW b, NEW H, Region!BufferRight(b, H), NEW from \in Nat, NEW to \in Nat, from <= to
  PROVE  /\ Region!BufferRight(WithNote(b, from, to), H)
         /\ \A i \in H : WithNote(b, from, to).regions[i].type = b.regions[i].type
<1> DEFINE id == b.next + 1
           new == Region!NewRegion("user", 0, from, to, {"end"})
           d == Region!AddRegion(b, id, new)
           c == [d EXCEPT !.ended[0] = @ \cup {id}]
           D == b.kept \cup H
<1>1. /\ DOMAIN b = {"regions", "kept", "ended", "size", "next"} /\ DOMAIN b.regions = D
      /\ \A i \in D : b.regions[i] \in Region!RegionType
      /\ b.ended = [k \in 0 .. 1 |-> b.ended[k]]
      /\ b.ended[0] = {i \in b.kept : b.regions[i].end # Region!Open} /\ b.ended[1] = {}
      /\ b.next \in Nat /\ b.size \in Nat /\ b.size >= Height /\ D \subseteq 1 .. b.next
  BY BufferParts
<1>2. /\ new \in Region!RegionType /\ new.type = "user" /\ new.start = from /\ new.end = to
      /\ new.end # Region!Open
  BY DEF Region!NewRegion, Region!RegionType, Region!Flags, Region!Open
<1> HIDE DEF new
<1>3. d = [b EXCEPT !.next = id, !.kept = @ \cup {id},
                    !.regions = [i \in DOMAIN @ \cup {id} |-> IF i = id THEN new ELSE @[i]]]
  BY DEF Region!AddRegion
<1> HIDE DEF d
<1>4. /\ d.kept = b.kept \cup {id} /\ d.next = id /\ d.size = b.size /\ d.ended = b.ended
      /\ d.regions = [i \in D \cup {id} |-> IF i = id THEN new ELSE b.regions[i]]
      /\ DOMAIN d = {"regions", "kept", "ended", "size", "next"}
  BY <1>1, <1>3
<1>5. /\ c.kept = d.kept /\ c.next = d.next /\ c.size = d.size /\ c.regions = d.regions
      /\ c.ended = [b.ended EXCEPT ![0] = @ \cup {id}]
      /\ c = [regions |-> c.regions, kept |-> c.kept, ended |-> c.ended, size |-> c.size, next |-> c.next]
  <2> HIDE DEF id, D
  <2>1. c.kept = d.kept /\ c.next = d.next /\ c.size = d.size /\ c.regions = d.regions
    BY <1>4
  <2>2. c.ended = [d.ended EXCEPT ![0] = @ \cup {id}]
    BY <1>4
  <2>3. c = [regions |-> c.regions, kept |-> c.kept, ended |-> c.ended, size |-> c.size, next |-> c.next]
    <3> DEFINE order == [d.ended EXCEPT ![0] = @ \cup {id}]
    <3>1. c = [d EXCEPT !.ended = order]
      OBVIOUS
    <3> HIDE DEF order, c
    <3>2. DOMAIN c = {"regions", "kept", "ended", "size", "next"}
      BY <1>4, <3>1
    <3> QED BY <1>4, <3>1, <3>2
  <2> QED BY <1>4, <2>1, <2>2, <2>3
<1> HIDE DEF c
<1>6. id \notin D /\ id \in Nat
  BY <1>1
<1>7. c.kept \cup H = D \cup {id}
  BY <1>4, <1>5
<1>8. c.regions[id] = new /\ \A i \in D : c.regions[i] = b.regions[i]
  BY <1>4, <1>5, <1>6
<1>9. c.ended = [k \in 0 .. 1 |-> IF k = 0 THEN {i \in c.kept : c.regions[i].end # Region!Open} ELSE {}]
  <2> DEFINE over == {i \in c.kept : c.regions[i].end # Region!Open}
  <2>1. b.ended[0] \cup {id} = over
    BY <1>1, <1>2, <1>4, <1>5, <1>8
  <2> HIDE DEF over
  <2>2. c.ended = [b.ended EXCEPT ![0] = over]
    BY <1>5, <2>1
  <2>3. c.ended = [k \in 0 .. 1 |-> IF k = 0 THEN over ELSE {}]
    <3>1. OnlyMain(c.ended, over)
      BY <1>1, <2>2, TwoOrders
    <3> QED BY <3>1 DEF OnlyMain
  <2> QED BY <2>3 DEF over
<1>10. Apart(c)
  <2> SUFFICES ASSUME NEW i \in c.kept, NEW k \in c.kept, c.regions[i].type \in Region!JobTypes,
                      c.regions[k].type = c.regions[i].type,
                      Standing(c.regions[i]), Standing(c.regions[k]), i < k
               PROVE  c.regions[i].end # Region!Open /\ c.regions[i].end <= c.regions[k].start
    BY DEF Apart
  <2>1. i # id /\ k # id
    BY <1>2, <1>8 DEF Region!JobTypes
  <2>2. Apart(b)
    BY RightApart
  <2> QED BY <1>4, <1>5, <1>8, <2>1, <2>2 DEF Apart
<1>11. ASSUME NEW i \in c.kept PROVE Region!RegionRight(c, H, i)
  <2>1. CASE i = id
    BY <1>2, <1>6, <1>8, <2>1 DEF Region!RegionRight
  <2>2. CASE i # id
    BY <1>4, <1>5, <1>8, <2>2 DEF Region!RegionRight, Region!BufferRight
  <2> QED BY <2>1, <2>2
<1>12. Region!BufferRight(c, H)
  <2>1. c.next \in Nat /\ c.size \in Nat /\ c.size >= Height /\ c.kept \cup H \subseteq 1 .. c.next
    BY <1>1, <1>4, <1>5, <1>6
  <2>2. c.regions = [i \in c.kept \cup H |-> c.regions[i]]
    BY <1>4, <1>5, <1>7
  <2>3. \A i \in c.kept \cup H : c.regions[i] \in Region!RegionType
    BY <1>1, <1>2, <1>7, <1>8
  <2>4. \A i \in H : c.regions[i].type # "user"
    BY <1>8 DEF Region!BufferRight
  <2> HIDE DEF id
  <2> QED BY <1>5, <1>9, <1>10, <1>11, <2>1, <2>2, <2>3, <2>4, ApartRight
<1>13. \A i \in H : c.regions[i].type = b.regions[i].type
  BY <1>8
<1>14. WithNote(b, from, to) = c
  BY DEF WithNote, c, d, id, new
<1> HIDE DEF c
<1> QED BY <1>12, <1>13, <1>14
-----------------------------------------------------------------------------
(* The actions. *)
Right == Region!BufferRight(main, Region!Held) /\ Region!ScreenRight

LEMMA HeldRight ==
  ASSUME Right, jobState # "none"
  PROVE  /\ Region!Held = {job, child} /\ job # child /\ job \in Nat \ {0} /\ child \in Nat \ {0}
         /\ main.regions[job].type = "job" /\ main.regions[child].type = jobState
         /\ jobState \in {"prompt", "command", "output"}
  BY DEF Right, Region!ScreenRight, Region!Held

LEMMA PositionRight ==
  ASSUME Right, NEW pos \in Region!Cursors
  PROVE  pos \in Nat /\ (~alt => Region!RowOf(pos) >= main.size - Capacity)
<1> DEFINE top == IF alt THEN 0 ELSE main.size - Height
<1> USE MarksAssumption
<1>1. main.size \in Nat /\ main.size >= Height
  BY BufferParts DEF Right
<1>2. top \in Nat /\ (~alt => top = main.size - Height)
  BY <1>1
<1>3. pos \in top * Columns .. (top + Height) * Columns - 1
  BY DEF Region!Cursors
<1> HIDE DEF top
<1>4. top * Columns \in Nat /\ (top + Height) * Columns \in Nat
  BY <1>2
<1>5. pos \in Nat /\ top * Columns <= pos
  <2> DEFINE x == top * Columns
             y == (top + Height) * Columns
  <2> HIDE DEF x, y
  <2> QED BY <1>3, <1>4 DEF x, y
<1>6. top <= Region!RowOf(pos) /\ Region!RowOf(pos) \in Nat
  BY <1>2, <1>5, InRow, RowBounds
<1> QED BY <1>1, <1>2, <1>5, <1>6

LEMMA EndJobRight ==
  ASSUME Right, NEW pos \in Nat, alt => Region!Held \cap main.kept = {}
  PROVE  LET c == Region!EndJob(main, pos) IN
         Region!BufferRight(c, {}) /\ c.kept = main.kept /\ c.next = main.next /\ c.size = main.size
<1>1. CASE jobState = "none"
  <2>1. Region!EndJob(main, pos) = main
    BY <1>1 DEF Region!EndJob
  <2>2. Region!Held = {}
    BY <1>1 DEF Right, Region!ScreenRight, Region!Held
  <2> QED BY <2>1, <2>2 DEF Right
<1>2. CASE jobState # "none"
  <2> DEFINE d == Region!LetGo(main, child, pos, Region!Shown)
             c == Region!LetGo(d, job, pos, Region!Shown)
  <2>1. Region!EndJob(main, pos) = c
    BY <1>2 DEF Region!EndJob
  <2>2. Region!Held = {job, child} /\ job # child
    BY <1>2, HeldRight
  <2>3. Region!Shown \in 0 .. 1 /\ (Region!Shown = 1 => alt)
    BY DEF Region!Shown
  <2>4. LeftAlone(main, {job, child}, child, d)
    <3>1. Region!Shown = 1 => child \notin main.kept
      BY <2>2, <2>3
    <3>2. Region!BufferRight(main, {job, child}) /\ child \in {job, child}
      BY <2>2 DEF Right
    <3> QED BY <2>3, <3>1, <3>2, LetGoRight
  <2> HIDE DEF d
  <2>5. Region!BufferRight(d, {job}) /\ d.kept = main.kept /\ d.next = main.next /\ d.size = main.size
    <3>1. {job, child} \ {child} = {job}
      BY <2>2
    <3> QED BY <2>4, <3>1 DEF LeftAlone
  <2>6. LeftAlone(d, {job}, job, c)
    <3>1. Region!Shown = 1 => job \notin d.kept
      BY <2>2, <2>3, <2>5
    <3>2. job \in {job}
      OBVIOUS
    <3> QED BY <2>3, <2>5, <3>1, <3>2, LetGoRight
  <2> HIDE DEF c
  <2>7. {job} \ {job} = {}
    OBVIOUS
  <2> QED BY <2>1, <2>5, <2>6, <2>7 DEF LeftAlone
<1> QED BY <1>1, <1>2

(* A part of a job ends, and the next one begins. *)
LEMMA PartEndsRight ==
  ASSUME Right, ~alt, jobState # "none", job \in main.kept, NEW pos \in Nat
  PROVE  LET c == Region!PartEnds(main, pos) IN
         /\ Region!BufferRight(c, {job}) /\ c.kept = main.kept /\ c.next = main.next /\ c.size = main.size
         /\ c.regions[job].type = "job"
<1> DEFINE d == Region!LetGo(main, child, pos, Region!Shown)
           c == Region!PartEnds(main, pos)
<1>1. /\ Region!Held = {job, child} /\ job # child /\ main.regions[job].type = "job"
      /\ jobState \in Region!Flags
  BY HeldRight DEF Region!Flags
<1>2. LeftAlone(main, {job, child}, child, d)
  <2>1. Region!Shown = 0 /\ 0 \in 0 .. 1
    BY DEF Region!Shown
  <2>2. Region!BufferRight(main, {job, child}) /\ child \in {job, child}
    BY <1>1 DEF Right
  <2> QED BY <2>1, <2>2, LetGoRight
<1>3. c = d \/ c = Region!Mark(d, {job}, jobState)
  BY DEF Region!PartEnds
<1> HIDE DEF d, c
<1>4. /\ Region!BufferRight(d, {job}) /\ d.kept = main.kept /\ d.next = main.next /\ d.size = main.size
      /\ d.regions[job].type = "job"
  <2>1. {job, child} \ {child} = {job}
    BY <1>1
  <2> QED BY <1>1, <1>2, <2>1 DEF LeftAlone
<1>5. Marked(d, {job}, {job}, jobState, Region!Mark(d, {job}, jobState))
  BY <1>1, <1>4, MarkRight
<1>6. CASE c = d
  BY <1>4, <1>6 DEF c
<1>7. CASE c = Region!Mark(d, {job}, jobState)
  <2>1. Marked(d, {job}, {job}, jobState, c)
    BY <1>5, <1>7
  <2>2. job \in d.kept \cup {job}
    OBVIOUS
  <2>3. /\ Region!BufferRight(c, {job}) /\ c.kept = main.kept /\ c.next = main.next /\ c.size = main.size
        /\ c.regions[job].type = "job"
    BY <1>4, <2>1, <2>2 DEF Marked
  <2> QED BY <2>3 DEF c
<1> QED BY <1>3, <1>6, <1>7

LEMMA NextPartKeeps ==
  ASSUME Right, NEW before \in {"prompt", "command"}, NEW after \in {"command", "output"},
         Region!NextPart(before, after)
  PROVE  Right'
<1> PICK pos \in Region!Cursors :
      LET begun == Region!BeginRegion(Region!PartEnds(main, pos), after, job, pos)
      IN /\ ~alt /\ jobState = before /\ job \in main.kept /\ main.next < MaxIds
         /\ main' = begun /\ child' = begun.next /\ jobState' = after
         /\ UNCHANGED <<job, alt, astray>>
  BY DEF Region!NextPart
<1> DEFINE d == Region!PartEnds(main, pos)
           c == Region!BeginRegion(d, after, job, pos)
<1>1. pos \in Nat /\ Region!RowOf(pos) >= main.size - Capacity
  BY PositionRight
<1>2. jobState # "none"
  OBVIOUS
<1>3. /\ Region!BufferRight(d, {job}) /\ d.kept = main.kept /\ d.next = main.next /\ d.size = main.size
      /\ d.regions[job].type = "job"
  BY <1>1, <1>2, PartEndsRight
<1>4. main' = c /\ child' = c.next
  OBVIOUS
<1>5. job \in Nat \ {0}
  BY <1>2, HeldRight
<1> HIDE DEF d
<1>6. Begun(d, {job}, after, c)
  <2>1. after \in Region!JobTypes
    BY DEF Region!JobTypes
  <2>2. \A i \in {job} : d.regions[i].type # after
    BY <1>3
  <2>3. Region!RowOf(pos) >= d.size - Capacity
    BY <1>1, <1>3
  <2> QED BY <1>1, <1>3, <1>5, <2>1, <2>2, <2>3, BeginRight
<1> HIDE DEF c
<1>7. d.next \in Nat
  BY <1>3, BufferParts
<1>8. child' = d.next + 1 /\ main'.regions[child'].type = after /\ main'.regions[job].type = "job"
  BY <1>3, <1>4, <1>6 DEF Begun
<1>9. Region!Held' = {job} \cup {d.next + 1}
  BY <1>5, <1>7, <1>8 DEF Region!Held
<1>10. Region!BufferRight(main, Region!Held)'
  <2>1. Region!BufferRight(c, {job} \cup {d.next + 1})
    BY <1>6 DEF Begun
  <2> QED BY <1>4, <1>9, <2>1
<1>11. Region!ScreenRight'
  BY <1>5, <1>7, <1>8 DEF Region!ScreenRight, Right
<1> QED BY <1>10, <1>11 DEF Right

LEMMA PromptKeeps ==
  ASSUME Right, Region!PromptBegins PROVE Right'
<1> PICK pos \in Region!Cursors :
      LET begun == Region!BeginRegion(Region!EndJob(main, pos), "job", 0, pos)
          prompted == Region!BeginRegion(begun, "prompt", begun.next, pos)
      IN /\ ~alt /\ main.next + 2 <= MaxIds
         /\ main' = prompted /\ job' = begun.next /\ child' = prompted.next
         /\ jobState' = "prompt" /\ UNCHANGED <<alt, astray>>
  BY DEF Region!PromptBegins
<1> DEFINE d == Region!EndJob(main, pos)
           e == Region!BeginRegion(d, "job", 0, pos)
           c == Region!BeginRegion(e, "prompt", e.next, pos)
<1>1. pos \in Nat /\ Region!RowOf(pos) >= main.size - Capacity
  BY PositionRight
<1>2. Region!BufferRight(d, {}) /\ d.size = main.size
  BY <1>1, EndJobRight
<1>3. main' = c /\ job' = e.next /\ child' = c.next /\ jobState' = "prompt" /\ alt' = alt
  OBVIOUS
<1>4. {"job", "prompt"} \subseteq Region!JobTypes
  BY DEF Region!JobTypes
<1> HIDE DEF d
<1>5. Begun(d, {}, "job", e)
  <2>1. \A i \in {} : d.regions[i].type # "job"
    OBVIOUS
  <2>2. Region!RowOf(pos) >= d.size - Capacity
    BY <1>1, <1>2
  <2> QED BY <1>1, <1>2, <1>4, <2>1, <2>2, BeginRight
<1> HIDE DEF e
<1>6. d.next \in Nat
  BY <1>2, BufferParts
<1>7. /\ Region!BufferRight(e, {e.next}) /\ e.next = d.next + 1 /\ e.size = d.size
      /\ e.regions[e.next].type = "job"
  <2>1. {} \cup {d.next + 1} = {d.next + 1}
    OBVIOUS
  <2> QED BY <1>5, <2>1 DEF Begun
<1>8. Begun(e, {e.next}, "prompt", c)
  <2>1. \A i \in {e.next} : e.regions[i].type # "prompt"
    BY <1>7
  <2>2. Region!RowOf(pos) >= e.size - Capacity /\ e.next \in Nat
    BY <1>1, <1>2, <1>6, <1>7
  <2> QED BY <1>1, <1>4, <1>7, <2>1, <2>2, BeginRight
<1> HIDE DEF c
<1>9. /\ job' = d.next + 1 /\ child' = d.next + 2
      /\ main'.regions[job'].type = "job" /\ main'.regions[child'].type = "prompt"
  <2>1. e.next \in e.kept \cup {e.next}
    OBVIOUS
  <2>2. c.regions[e.next].type = "job" /\ c.regions[e.next + 1].type = "prompt" /\ c.next = e.next + 1
    BY <1>7, <1>8, <2>1 DEF Begun
  <2> QED BY <1>3, <1>6, <1>7, <2>2
<1>10. Region!Held' = {e.next} \cup {e.next + 1}
  BY <1>6, <1>7, <1>9 DEF Region!Held
<1>11. Region!BufferRight(main, Region!Held)'
  <2>1. Region!BufferRight(c, {e.next} \cup {e.next + 1})
    BY <1>8 DEF Begun
  <2> QED BY <1>3, <1>10, <2>1
<1>12. Region!ScreenRight'
  BY <1>3, <1>6, <1>9 DEF Region!ScreenRight, Right
<1> QED BY <1>11, <1>12 DEF Right

LEMMA OutputEndsKeeps ==
  ASSUME Right, Region!OutputEnds PROVE Right'
<1> PICK pos \in Region!Cursors :
      LET parted == IF child \in main.kept
                    THEN [Region!EndRegion(main, child, pos, Region!Shown)
                            EXCEPT !.regions[job].flags = @ \cup {"output"}]
                    ELSE Region!LetGo(main, child, pos, Region!Shown)
      IN /\ ~alt /\ jobState = "output"
         /\ main' = Region!LetGo(parted, job, pos, Region!Shown)
         /\ job' = 0 /\ child' = 0 /\ jobState' = "none" /\ UNCHANGED <<alt, astray>>
  BY DEF Region!OutputEnds
<1> DEFINE d == Region!LetGo(main, child, pos, 0)
           e == IF child \in main.kept THEN [d EXCEPT !.regions[job].flags = @ \cup {"output"}] ELSE d
           c == Region!LetGo(e, job, pos, 0)
<1>1. pos \in Nat
  BY PositionRight
<1>2. Region!Shown = 0 /\ 0 \in 0 .. 1
  BY DEF Region!Shown
<1>3. main' = c
  <2>1. child \in main.kept => d = Region!EndRegion(main, child, pos, 0)
    BY DEF Region!LetGo
  <2> HIDE DEF d
  <2> QED BY <1>2, <2>1 DEF d
<1>4. Region!Held = {job, child} /\ job # child /\ jobState # "none"
  BY HeldRight
<1>5. LeftAlone(main, {job, child}, child, d)
  <2>1. Region!BufferRight(main, {job, child}) /\ child \in {job, child}
    BY <1>4 DEF Right
  <2> QED BY <1>1, <1>2, <2>1, LetGoRight
<1> HIDE DEF d
<1>6. Region!BufferRight(d, {job})
  <2>1. {job, child} \ {child} = {job}
    BY <1>4
  <2> QED BY <1>5, <2>1 DEF LeftAlone
<1>7. Region!BufferRight(e, {job})
  <2>1. CASE child \in main.kept
    <3>1. e = Region!Mark(d, {job}, "output")
      <4>1. job \in d.kept \cup {job}
        OBVIOUS
      <4> QED BY <1>6, <2>1, <4>1, MarkOne
    <3>2. "output" \in Region!Flags
      BY DEF Region!Flags
    <3>3. Marked(d, {job}, {job}, "output", Region!Mark(d, {job}, "output"))
      BY <1>6, <3>2, MarkRight
    <3> HIDE DEF e
    <3> QED BY <3>1, <3>3 DEF Marked
  <2>2. CASE child \notin main.kept
    BY <1>6, <2>2
  <2> QED BY <2>1, <2>2
<1> HIDE DEF e
<1>8. LeftAlone(e, {job}, job, c)
  BY <1>1, <1>2, <1>7, LetGoRight
<1> HIDE DEF c
<1>9. Region!BufferRight(c, {})
  <2>1. {job} \ {job} = {}
    OBVIOUS
  <2> QED BY <1>8, <2>1 DEF LeftAlone
<1>10. Region!Held' = {}
  BY DEF Region!Held
<1>11. Region!BufferRight(main, Region!Held)'
  BY <1>3, <1>9, <1>10
<1>12. Region!ScreenRight'
  BY DEF Region!ScreenRight, Right
<1> QED BY <1>11, <1>12 DEF Right

LEMMA ResetKeeps ==
  ASSUME Right, astray = FALSE, Region!Reset PROVE astray' \in BOOLEAN /\ (astray' \/ Right')
<1> PICK pos \in Region!Cursors :
      /\ main' = Region!EndJob(main, pos)
      /\ astray' = (astray \/ (alt /\ Region!Held \cap main.kept # {}))
      /\ job' = 0 /\ child' = 0 /\ jobState' = "none" /\ alt' = FALSE
  BY DEF Region!Reset
<1> SUFFICES ASSUME alt => Region!Held \cap main.kept = {} PROVE Right'
  BY DEF Right, Region!ScreenRight
<1>1. pos \in Nat
  BY PositionRight
<1>2. Region!BufferRight(Region!EndJob(main, pos), {})
  BY <1>1, EndJobRight
<1>3. Region!Held' = {}
  BY DEF Region!Held
<1>4. Region!BufferRight(main, Region!Held)'
  BY <1>2, <1>3
<1>5. Region!ScreenRight'
  BY DEF Region!ScreenRight, Right
<1> QED BY <1>4, <1>5 DEF Right

\* A change of the buffer alone, that leaves what is held and its kinds.
LEMMA BufferKeeps ==
  ASSUME Right, UNCHANGED <<job, child, jobState, alt>>, Region!BufferRight(main', Region!Held),
         \A i \in Region!Held : main'.regions[i].type = main.regions[i].type
  PROVE  Right'
<1>1. Region!Held' = Region!Held
  BY DEF Region!Held
<1>2. Region!BufferRight(main, Region!Held)'
  BY <1>1
<1>3. Region!ScreenRight'
  <2>1. jobState # "none" => job \in Region!Held /\ child \in Region!Held
    BY HeldRight
  <2> QED BY <2>1 DEF Region!ScreenRight, Right
<1> QED BY <1>2, <1>3 DEF Right

LEMMA EraseKeeps == ASSUME Right, Region!EraseFrom PROVE Right'
<1> PICK pos \in Region!Cursors : main' = Region!RemoveRegions(main, pos)
  BY DEF Region!EraseFrom
<1> DEFINE H == Region!Held
           later == Region!From(main, pos, Region!JobTypes)
           d == Region!Mark(main, later, "deleted")
           c == Region!Overwrite(d, pos)
<1>1. pos \in Nat /\ UNCHANGED <<job, child, jobState, alt>>
  BY PositionRight DEF Region!EraseFrom
<1>2. main' = c
  BY DEF Region!RemoveRegions
<1> HIDE DEF later, H
<1>3. Marked(main, H, later, "deleted", d)
  BY MarkRight DEF Region!Flags, Right, H
<1> HIDE DEF d
<1>4. Region!BufferRight(d, H) /\ d.kept = main.kept /\ \A i \in H : d.regions[i].type = main.regions[i].type
  BY <1>3 DEF Marked
<1>5. Overwritten(d, H, pos, c)
  BY <1>1, <1>4, OverwriteRight
<1> HIDE DEF c
<1>6. Region!BufferRight(c, H) /\ \A i \in H : c.regions[i].type = main.regions[i].type
  BY <1>4, <1>5 DEF Overwritten
<1> QED BY <1>1, <1>2, <1>6, BufferKeeps DEF H

LEMMA ScrollKeeps == ASSUME Right, Region!ScrollUp PROVE Right'
<1>1. main' = Region!InsertRow(main, Region!Held) /\ UNCHANGED <<job, child, jobState, alt>>
  BY DEF Region!ScrollUp
<1>2. /\ Region!BufferRight(Region!InsertRow(main, Region!Held), Region!Held)
      /\ \A i \in Region!Held : Region!InsertRow(main, Region!Held).regions[i].type = main.regions[i].type
  BY InsertRowRight DEF Right
<1> QED BY <1>1, <1>2, BufferKeeps

LEMMA ClearKeeps == ASSUME Right, Region!ClearScrollback PROVE Right'
<1> PICK n \in 1 .. main.size - Height : main' = Region!DropRows(main, n, Region!Held)
  BY DEF Region!ClearScrollback
<1>1. UNCHANGED <<job, child, jobState, alt>>
  BY DEF Region!ClearScrollback
<1>2. n \in Nat /\ main.size - n >= Height
  <2>1. main.size \in Nat /\ Height \in Nat
    BY BufferParts, MarksAssumption DEF Right
  <2> QED BY <2>1
<1>3. /\ Region!BufferRight(Region!DropRows(main, n, Region!Held), Region!Held)
      /\ \A i \in Region!Held : Region!DropRows(main, n, Region!Held).regions[i].type = main.regions[i].type
  BY <1>2, DropRowsRight DEF Right
<1> QED BY <1>1, <1>3, BufferKeeps

LEMMA AnnotateKeeps == ASSUME Right, Region!AddUserRegion PROVE Right'
<1> DEFINE Annotates(first, last) ==
      LET id == main.next + 1
          new == Region!NewRegion("user", 0, first * Columns, (last + 1) * Columns - 1, {"end"})
          rows == first .. last
          found == {i \in main.kept : /\ main.regions[i].type = "user" /\ Region!Overlap(new, main.regions[i])
                                      /\ {Region!RowOf(main.regions[i].start), Region!RowOf(main.regions[i].end)}
                                           \cap rows # {}}
          cleared == Region!Delete(main, found, {})
      IN /\ id <= MaxIds
         /\ main' = [Region!AddRegion(cleared, id, new) EXCEPT !.ended[0] = @ \cup {id}]
         /\ UNCHANGED <<job, child, jobState, alt, astray>>
<1>0. PICK first \in 0 .. main.size - 1 : \E last \in first .. main.size - 1 : Annotates(first, last)
  BY DEF Region!AddUserRegion
<1>9. PICK last \in first .. main.size - 1 : Annotates(first, last)
  BY <1>0
<1> DEFINE H == Region!Held
           from == first * Columns
           to == (last + 1) * Columns - 1
           new == Region!NewRegion("user", 0, from, to, {"end"})
           found == {i \in main.kept : /\ main.regions[i].type = "user" /\ Region!Overlap(new, main.regions[i])
                                       /\ {Region!RowOf(main.regions[i].start), Region!RowOf(main.regions[i].end)}
                                            \cap (first .. last) # {}}
           d == Region!Delete(main, found, {})
           c == [Region!AddRegion(d, main.next + 1, new) EXCEPT !.ended[0] = @ \cup {main.next + 1}]
<1>1. main' = c /\ UNCHANGED <<job, child, jobState, alt>>
  BY <1>9
<1> HIDE DEF Annotates
<1>2. from \in Nat /\ to \in Nat /\ from <= to
  <2> USE MarksAssumption
  <2>1. main.size \in Nat
    BY BufferParts DEF Right
  <2>2. first \in Nat /\ last \in Nat /\ first <= last
    BY <2>1
  <2>3. first * Columns <= last * Columns
    BY <2>2, Grows
  <2>4. (last + 1) * Columns = last * Columns + Columns
    BY <2>2
  <2>5. first * Columns \in Nat /\ last * Columns \in Nat
    BY <2>2
  <2> DEFINE x == first * Columns
             y == last * Columns
             z == (last + 1) * Columns
  <2> HIDE DEF x, y, z
  <2>6. x \in Nat /\ y \in Nat /\ x <= y /\ z = y + Columns
    BY <2>3, <2>4, <2>5 DEF x, y, z
  <2>7. x \in Nat /\ z - 1 \in Nat /\ x <= z - 1
    BY <2>6
  <2> QED BY <2>7 DEF x, z
<1> HIDE DEF from, to
<1>3. \A i \in found : i \in main.kept /\ main.regions[i].type = "user"
  OBVIOUS
<1> HIDE DEF found
<1>4. Region!BufferRight(main, H) /\ \A i \in H : main.regions[i].type # "user"
  BY DEF Right, Region!BufferRight
<1> HIDE DEF H
<1>5. Gone(main, H, found, d)
  <2>1. found \subseteq main.kept /\ found \cap H \subseteq {} /\ {} \subseteq H
    BY <1>3, <1>4
  <2> QED BY <1>4, <2>1, DeleteRight
<1> HIDE DEF d
<1>6. Region!BufferRight(d, H) /\ d.next = main.next /\ \A i \in H : d.regions[i].type = main.regions[i].type
  BY <1>5 DEF Gone
<1>7. Region!BufferRight(c, H) /\ \A i \in H : c.regions[i].type = d.regions[i].type
  <2> DEFINE f == WithNote(d, from, to)
  <2>1. Region!BufferRight(f, H) /\ \A i \in H : f.regions[i].type = d.regions[i].type
    BY <1>2, <1>6, AnnotateRight
  <2>2. f = c
    BY <1>6 DEF WithNote
  <2> HIDE DEF f, c
  <2> QED BY <2>1, <2>2
<1> HIDE DEF c
<1> QED BY <1>1, <1>6, <1>7, BufferKeeps DEF H

LEMMA UnannotateKeeps == ASSUME Right, Region!RemoveUserRegion PROVE Right'
<1> PICK i \in main.kept : main' = [main EXCEPT !.regions[i].flags = @ \cup {"deleted"}]
  BY DEF Region!RemoveUserRegion
<1> DEFINE H == Region!Held
           c == Region!Mark(main, {i}, "deleted")
<1>1. UNCHANGED <<job, child, jobState, alt>>
  BY DEF Region!RemoveUserRegion
<1>2. Region!BufferRight(main, H)
  BY DEF Right
<1> HIDE DEF H
<1>3. main' = c
  BY <1>2, MarkOne
<1>4. Marked(main, H, {i}, "deleted", c)
  BY <1>2, MarkRight DEF Region!Flags
<1> HIDE DEF c
<1>5. Region!BufferRight(c, H) /\ \A k \in H : c.regions[k].type = main.regions[k].type
  BY <1>4 DEF Marked
<1> QED BY <1>1, <1>3, <1>5, BufferKeeps DEF H

LEMMA RegionsInit == ASSUME Region!Init PROVE Region!IInv
<1> USE MarksAssumption
<1>1. Region!Held = {}
  BY DEF Region!Init, Region!Held
<1>2. /\ main = [regions |-> main.regions, kept |-> main.kept, ended |-> main.ended, size |-> main.size, next |-> main.next]
      /\ main.regions = <<>> /\ main.kept = {} /\ main.ended = [k \in 0 .. 1 |-> {}]
      /\ main.size = Height /\ main.next = 0
  BY DEF Region!Init
<1>3. Region!BufferRight(main, {})
  <2>1. main.regions = [i \in {} |-> main.regions[i]]
    BY <1>2
  <2>2. main.ended = [k \in 0 .. 1 |-> IF k = 0 THEN {i \in main.kept : main.regions[i].end # Region!Open} ELSE {}]
    <3>1. {i \in main.kept : main.regions[i].end # Region!Open} = {}
      BY <1>2
    <3> QED BY <1>2, <3>1
  <2> QED BY <1>2, <2>1, <2>2 DEF Region!BufferRight
<1>4. Region!ScreenRight /\ astray = FALSE
  BY DEF Region!ScreenRight, Region!Init
<1> QED BY <1>1, <1>3, <1>4 DEF Region!IInv

LEMMA RegionsNext == ASSUME Region!IInv, [Region!Next]_(Region!vars) PROVE Region!IInv'
<1>1. CASE UNCHANGED Region!vars
  <2>1. UNCHANGED <<main, job, child, jobState, alt, astray>>
    BY <1>1 DEF Region!vars
  <2>2. UNCHANGED Region!Held
    BY <2>1 DEF Region!Held
  <2> QED BY <2>1, <2>2 DEF Region!IInv, Region!ScreenRight
<1>2. CASE Region!Next
  <2>1. astray = FALSE /\ Right
    BY <1>2 DEF Region!IInv, Region!Next, Right
  <2>2. CASE Region!Reset
    BY <2>1, <2>2, ResetKeeps DEF Region!IInv, Right
  <2>3. CASE Region!PromptBegins
    BY <2>1, <2>3, PromptKeeps DEF Region!IInv, Right, Region!PromptBegins
  <2>4. CASE Region!CommandBegins \/ Region!OutputBegins
    <3>1. Right'
      BY <2>1, <2>4, NextPartKeeps DEF Region!CommandBegins, Region!OutputBegins
    <3>2. UNCHANGED astray
      BY <2>4 DEF Region!CommandBegins, Region!OutputBegins, Region!NextPart
    <3> QED BY <2>1, <3>1, <3>2 DEF Region!IInv, Right
  <2>5. CASE Region!OutputEnds
    BY <2>1, <2>5, OutputEndsKeeps DEF Region!IInv, Right, Region!OutputEnds
  <2>6. CASE Region!SwitchBuffer
    <3>1. /\ UNCHANGED <<main, job, child, jobState, astray>> /\ alt' \in BOOLEAN
      BY <2>6 DEF Region!SwitchBuffer
    <3>2. UNCHANGED Region!Held
      BY <3>1 DEF Region!Held
    <3> QED BY <2>1, <3>1, <3>2 DEF Region!IInv, Right, Region!ScreenRight
  <2>7. CASE Region!EraseFrom
    BY <2>1, <2>7, EraseKeeps DEF Region!IInv, Right, Region!EraseFrom
  <2>8. CASE Region!ScrollUp
    BY <2>1, <2>8, ScrollKeeps DEF Region!IInv, Right, Region!ScrollUp
  <2>9. CASE Region!ClearScrollback
    BY <2>1, <2>9, ClearKeeps DEF Region!IInv, Right, Region!ClearScrollback
  <2>10. CASE Region!AddUserRegion
    BY <2>1, <2>10, AnnotateKeeps DEF Region!IInv, Right, Region!AddUserRegion
  <2>11. CASE Region!RemoveUserRegion
    BY <2>1, <2>11, UnannotateKeeps DEF Region!IInv, Right, Region!RemoveUserRegion
  <2> QED BY <1>2, <2>2, <2>3, <2>4, <2>5, <2>6, <2>7, <2>8, <2>9, <2>10, <2>11 DEF Region!Next
<1> QED BY <1>1, <1>2

\* What is known of the buffer's orders, of its regions and of the screen's references
\* holds until a job is ended in the alternate buffer.
THEOREM RegionsInvariance == Region!Spec => []Region!IInv
<1>1. Region!Init => Region!IInv
  BY RegionsInit
<1>2. Region!IInv /\ [Region!Next]_(Region!vars) => Region!IInv'
  BY RegionsNext
<1> QED BY <1>1, <1>2, PTL DEF Region!Spec

\* The orders by id, start and end hold the same regions, what the screen holds exists,
\* the shell's regions lie in rows that are kept, and those of one kind stay apart.
THEOREM RegionsAreTrue == Region!Spec => []RegionsTrue
<1>1. Region!IInv => Region!RegionsSound
  <2> SUFFICES ASSUME Right PROVE Region!OrdersSound /\ Region!JobsApart
    BY DEF Region!IInv, Region!RegionsSound, Right
  <2>1. Region!OrdersSound
    <3>1. /\ DOMAIN main.regions = main.kept \cup Region!Held
          /\ main.ended[0] = {i \in main.kept : main.regions[i].end # Region!Open} /\ main.ended[1] = {}
      BY BufferParts DEF Right
    <3>2. \A i \in main.kept : Region!RegionRight(main, Region!Held, i)
      BY DEF Right, Region!BufferRight
    <3> QED BY <3>1, <3>2 DEF Region!OrdersSound, Region!RegionRight
  <2>2. Region!JobsApart
    <3>1. Apart(main)
      BY RightApart DEF Right
    <3>2. \A i \in Region!Standing : i \in main.kept /\ main.regions[i].type \in Region!JobTypes
                                    /\ Standing(main.regions[i])
      BY DEF Region!Standing, Standing
    <3> QED BY <3>1, <3>2 DEF Region!JobsApart, Apart
  <2> QED BY <2>1, <2>2
<1>2. Region!IInv => RegionsTrue
  BY <1>1 DEF RegionsTrue
<1> QED BY <1>2, RegionsInvariance, PTL
=============================================================================
