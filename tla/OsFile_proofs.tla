---------------------------- MODULE OsFile_proofs ----------------------------
(***************************************************************************)
(* For every set of bytes, every record length, every profile of use and   *)
(* every content of the path: what OsFile promises of a file of the        *)
(* operating system.                                                       *)
(*                                                                         *)
(* Three invariants, each resting on the one before.  Bookkeeping ties the *)
(* record length, the mode and the current record together, and holds      *)
(* whatever fails.  Positions says where the handle and the current record *)
(* are, for a program that does not both WRITE and REWRITE in I-O mode.    *)
(* Located says that cursor finds the handle, for updates by REWRITE       *)
(* alone.  From the first follow the two action properties, from the last  *)
(* the refinement of SequentialFile.                                       *)
(*                                                                         *)
(* Offsets are products: the first section proves what is needed of them,  *)
(* and the rest compares them by its lemmas.                               *)
(***************************************************************************)
EXTENDS OsFile, SequenceTheorems, TLAPS

Cell == Byte \cup {Zero}

-----------------------------------------------------------------------------
(* Where record i of a file of records of n bytes starts.                  *)
Off(i, n) == i * n

(* An offset is a number.                                                  *)
LEMMA OffType == \A x, n \in Nat : Off(x, n) \in Nat
  BY DEF Off

(* One record further is one record length further.                        *)
LEMMA OffNext == \A x, n \in Nat : Off(x + 1, n) = Off(x, n) + n
  BY DEF Off

(* The first record starts the file.                                       *)
LEMMA OffZero == \A n \in Nat : Off(0, n) = 0
  BY DEF Off

(* Two records do not overlap.                                             *)
LEMMA OffApart == \A x, y, n \in Nat : x < y => Off(x, n) + n <= Off(y, n)
  BY DEF Off

(* How many whole records there are before an offset.                      *)
LEMMA DivIs ==
  ASSUME NEW n \in Nat, n > 0, NEW x \in Nat, NEW q \in Nat,
         Off(q, n) <= x, x < Off(q, n) + n
  PROVE  x \div n = q
  BY DEF Off

(* The quotient and the remainder.                                         *)
LEMMA DivProperties ==
  ASSUME NEW n \in Nat, n > 0, NEW x \in Nat
  PROVE  /\ x \div n \in Nat
         /\ Off(x \div n, n) <= x /\ x < Off(x \div n, n) + n
         /\ x % n = 0 <=> x = Off(x \div n, n)
  BY DEF Off

(* The slots of a file are the whole records in it.                        *)
LEMMA SlotsAre ==
  ASSUME NEW d \in Seq(Cell), NEW n \in Nat, n > 0
  PROVE  \A i : i \in Slots(d, n) <=> i \in Nat /\ Off(i, n) + n <= Len(d)
<1> DEFINE L == Len(d)
           q == L \div n
<1>1. L \in Nat
  OBVIOUS
<1>2. q \in Nat /\ Off(q, n) <= L /\ L < Off(q, n) + n
  BY <1>1, DivProperties
<1>3. Slots(d, n) = 0..(q - 1)
  BY DEF Slots
<1> HIDE DEF L, q
<1>4. ASSUME NEW i \in Nat, i < q PROVE Off(i, n) + n <= L
  <2>1. Off(i, n) + n <= Off(q, n)
    BY <1>2, <1>4, OffApart
  <2>2. Off(i, n) \in Nat /\ Off(q, n) \in Nat
    BY <1>2, OffType
  <2> QED  BY <2>1, <2>2, <1>1, <1>2
<1>5. ASSUME NEW i \in Nat, ~(i < q) PROVE ~(Off(i, n) + n <= L)
  <2>1. q = i \/ q < i
    BY <1>2, <1>5
  <2>2. q < i => Off(q, n) + n <= Off(i, n)
    BY <1>2, OffApart
  <2>3. Off(i, n) \in Nat /\ Off(q, n) \in Nat
    BY <1>2, OffType
  <2> QED  BY <2>1, <2>2, <2>3, <1>2, <1>1
<1>6. \A i : i \in 0..(q - 1) <=> i \in Nat /\ i < q
  BY <1>2
<1>7. \A i \in Nat : i < q <=> Off(i, n) + n <= L
  BY <1>4, <1>5
<1>8. \A i : i \in 0..(q - 1) <=> i \in Nat /\ Off(i, n) + n <= L
  BY <1>6, <1>7
<1> QED  BY <1>3, <1>8 DEF L

(* What is in a slot.                                                      *)
LEMMA SlotIs ==
  ASSUME NEW d, NEW n \in Nat, NEW i \in Nat
  PROVE  Slot(d, n, i) = SubSeq(d, Off(i, n) + 1, Off(i, n) + n)
  BY OffNext DEF Slot, Off

(* Two stretches of bytes are equal when all their bytes are.              *)
LEMMA StretchEqual ==
  ASSUME NEW d \in Seq(Cell), NEW e \in Seq(Cell),
         NEW x \in Nat, NEW y \in Nat, NEW k \in Nat,
         x + k <= Len(d), y + k <= Len(e),
         \A i \in 1..k : d[x + i] = e[y + i]
  PROVE  SubSeq(d, x + 1, x + k) = SubSeq(e, y + 1, y + k)
<1> DEFINE s == SubSeq(d, x + 1, x + k)
           t == SubSeq(e, y + 1, y + k)
<1>1. s \in Seq(Cell) /\ Len(s) = k /\ \A i \in 1..k : s[i] = d[x + i]
  OBVIOUS
<1>2. t \in Seq(Cell) /\ Len(t) = k /\ \A i \in 1..k : t[i] = e[y + i]
  OBVIOUS
<1> HIDE DEF s, t
<1>3. s = t
  BY <1>1, <1>2, SeqEqual
<1> QED  BY <1>3 DEF s, t

(* The bytes from an offset to the end.                                    *)
LEMMA TailIs ==
  ASSUME NEW d \in Seq(Cell), NEW off \in Nat, off <= Len(d),
         NEW t, t = SubSeq(d, off + 1, Len(d))
  PROVE  /\ t \in Seq(Cell) /\ Len(t) = Len(d) - off
         /\ \A m \in 1..(Len(d) - off) : t[m] = d[off + m]
  OBVIOUS

(* The first bytes.                                                        *)
LEMMA HeadIs ==
  ASSUME NEW d \in Seq(Cell), NEW k \in 0..Len(d),
         NEW t, t = SubSeq(d, 1, k)
  PROVE  /\ t \in Seq(Cell) /\ Len(t) = k
         /\ \A m \in 1..k : t[m] = d[m]
  OBVIOUS

(* So a slot is what another slot was when its bytes are the same.         *)
LEMMA SlotEqual ==
  ASSUME NEW d \in Seq(Cell), NEW e \in Seq(Cell), NEW n \in Nat, n > 0,
         NEW i \in Nat, NEW j \in Nat,
         Off(i, n) + n <= Len(d), Off(j, n) + n <= Len(e),
         \A b \in 1..n : d[Off(i, n) + b] = e[Off(j, n) + b]
  PROVE  /\ i \in Slots(d, n) /\ j \in Slots(e, n)
         /\ Slot(d, n, i) = Slot(e, n, j)
<1> DEFINE x == Off(i, n)
           y == Off(j, n)
<1>1. x \in Nat /\ y \in Nat
  BY OffType
<1>2. Slot(d, n, i) = SubSeq(d, x + 1, x + n)
  BY SlotIs
<1>3. Slot(e, n, j) = SubSeq(e, y + 1, y + n)
  BY SlotIs
<1>4. i \in Slots(d, n) /\ j \in Slots(e, n)
  BY SlotsAre
<1>5. /\ x + n <= Len(d) /\ y + n <= Len(e)
      /\ \A b \in 1..n : d[x + b] = e[y + b]
  OBVIOUS
<1> HIDE DEF x, y
<1>6. SubSeq(d, x + 1, x + n) = SubSeq(e, y + 1, y + n)
  <2>1. d \in Seq(Cell) /\ e \in Seq(Cell) /\ n \in Nat
    OBVIOUS
  <2> QED  BY ONLY <1>1, <1>5, <2>1, StretchEqual
<1> QED  BY <1>2, <1>3, <1>4, <1>6

-----------------------------------------------------------------------------
(* What writing at an offset leaves.                                       *)
LEMMA PutAtIs ==
  ASSUME NEW d \in Seq(Cell), NEW b \in Seq(Cell), NEW off \in Nat
  PROVE  /\ PutAt(d, off, b) \in Seq(Cell)
         /\ Len(PutAt(d, off, b)) \in Nat
         /\ Len(PutAt(d, off, b)) >= Len(d)
         /\ Len(PutAt(d, off, b)) >= off + Len(b)
         /\ off + Len(b) <= Len(d) => Len(PutAt(d, off, b)) = Len(d)
         /\ \A i \in 1..Len(d) :
              i <= off \/ i > off + Len(b) => PutAt(d, off, b)[i] = d[i]
         /\ \A i \in 1..Len(b) : PutAt(d, off, b)[off + i] = b[i]
<1> DEFINE m == IF off + Len(b) > Len(d) THEN off + Len(b) ELSE Len(d)
           f(i) == IF i > off /\ i <= off + Len(b) THEN b[i - off]
                   ELSE IF i <= Len(d) THEN d[i] ELSE Zero
           p == [i \in 1..m |-> f(i)]
<1>1. Len(b) \in Nat /\ Len(d) \in Nat
  OBVIOUS
<1>2. /\ m \in Nat /\ m >= Len(d) /\ m >= off + Len(b)
      /\ off + Len(b) <= Len(d) => m = Len(d)
  BY <1>1
<1>3. \A i \in 1..m : f(i) \in Cell
  <2>1. SUFFICES ASSUME NEW i \in 1..m PROVE f(i) \in Cell
    OBVIOUS
  <2>2. CASE i > off /\ i <= off + Len(b)
    <3>1. i - off \in 1..Len(b)
      BY <2>2, <1>1, <1>2
    <3> QED  BY <3>1, <2>2, ElementOfSeq
  <2>3. CASE ~(i > off /\ i <= off + Len(b)) /\ i <= Len(d)
    BY <2>3, <1>1, <1>2, ElementOfSeq
  <2>4. CASE ~(i > off /\ i <= off + Len(b)) /\ ~(i <= Len(d))
    BY <2>4 DEF Cell
  <2> QED  BY <2>2, <2>3, <2>4
<1>4. \A i \in 1..Len(d) : i <= off \/ i > off + Len(b) => f(i) = d[i]
  BY <1>1
<1>5. \A i \in 1..Len(b) : f(off + i) = b[i]
  BY <1>1
<1>6. PutAt(d, off, b) = p
  BY DEF PutAt
<1> HIDE DEF m, f
<1>7. p \in Seq(Cell) /\ Len(p) = m
  BY <1>2, <1>3
<1>8. \A i \in 1..m : p[i] = f(i)
  OBVIOUS
<1> HIDE DEF p
<1>9. \A i \in 1..Len(d) : i <= off \/ i > off + Len(b) => p[i] = d[i]
  BY <1>1, <1>2, <1>4, <1>8
<1>10. \A i \in 1..Len(b) : p[off + i] = b[i]
  BY <1>1, <1>2, <1>5, <1>8
<1> QED  BY <1>2, <1>6, <1>7, <1>9, <1>10

(* What removing n bytes leaves.                                           *)
LEMMA CutAtIs ==
  ASSUME NEW d \in Seq(Cell), NEW off \in Nat, NEW n \in Nat,
         off + n <= Len(d)
  PROVE  /\ CutAt(d, off, n) \in Seq(Cell)
         /\ Len(CutAt(d, off, n)) = Len(d) - n
         /\ \A i \in 1..off : CutAt(d, off, n)[i] = d[i]
         /\ \A i \in 1..(Len(d) - n - off) :
              CutAt(d, off, n)[off + i] = d[off + n + i]
<1> DEFINE s == SubSeq(d, 1, off)
           t == SubSeq(d, off + n + 1, Len(d))
<1>1. s \in Seq(Cell) /\ Len(s) = off /\ \A i \in 1..off : s[i] = d[i]
  OBVIOUS
<1>2. /\ t \in Seq(Cell) /\ Len(t) = Len(d) - n - off
      /\ \A i \in 1..(Len(d) - n - off) : t[i] = d[off + n + i]
  OBVIOUS
<1>3. CutAt(d, off, n) = s \o t
  BY DEF CutAt
<1> HIDE DEF s, t
<1>4. /\ s \o t \in Seq(Cell) /\ Len(s \o t) = Len(s) + Len(t)
      /\ \A i \in 1..Len(s) : (s \o t)[i] = s[i]
      /\ \A i \in 1..Len(t) : (s \o t)[Len(s) + i] = t[i]
  BY <1>1, <1>2
<1> DEFINE c == s \o t
<1>5. /\ c \in Seq(Cell) /\ Len(c) = off + (Len(d) - n - off)
      /\ \A i \in 1..off : c[i] = d[i]
      /\ \A i \in 1..(Len(d) - n - off) : c[off + i] = d[off + n + i]
  BY <1>1, <1>2, <1>4
<1>6. Len(d) \in Nat
  OBVIOUS
<1> HIDE DEF c
<1>7. Len(c) = Len(d) - n
  BY <1>5, <1>6
<1> QED  BY <1>3, <1>5, <1>7 DEF c

-----------------------------------------------------------------------------
(* No slot but x is disturbed by bytes written into slot x.                *)
LEMMA PutAtSlots ==
  ASSUME NEW d \in Seq(Cell), NEW b \in Seq(Cell), NEW n \in Nat, n > 0,
         Len(b) <= n, NEW x \in Nat, NEW i \in Slots(d, n), i # x
  PROVE  /\ i \in Slots(PutAt(d, Off(x, n), b), n)
         /\ Slot(PutAt(d, Off(x, n), b), n, i) = Slot(d, n, i)
<1> DEFINE off == Off(x, n)
           pos == Off(i, n)
           p == PutAt(d, off, b)
<1>1. i \in Nat /\ Off(i, n) + n <= Len(d)
  BY SlotsAre
<1>2. off \in Nat /\ pos \in Nat
  BY <1>1, OffType
<1>3. /\ p \in Seq(Cell) /\ Len(p) >= Len(d)
      /\ \A k \in 1..Len(d) :
           k <= off \/ k > off + Len(b) => p[k] = d[k]
  BY <1>2, PutAtIs
<1>4. pos + n <= off \/ off + n <= pos
  BY <1>1, OffApart
<1>5. pos + n <= Len(d) /\ Len(d) \in Nat /\ Len(b) \in Nat
  BY <1>1
<1> HIDE DEF off, p
<1>6. \A k \in 1..n : p[pos + k] = d[pos + k]
  <2> HIDE DEF pos
  <2>1. SUFFICES ASSUME NEW k \in 1..n PROVE p[pos + k] = d[pos + k]
    OBVIOUS
  <2>2. /\ pos + k \in 1..Len(d)
        /\ pos + k <= off \/ pos + k > off + Len(b)
    BY <1>2, <1>4, <1>5
  <2> QED  BY <2>2, <1>3
<1>7. Off(i, n) + n <= Len(p)
  <2>1. Len(p) \in Nat
    BY <1>3
  <2> QED  BY <2>1, <1>2, <1>3, <1>5
<1> HIDE DEF pos
<1>8. /\ i \in Slots(p, n)
      /\ Slot(p, n, i) = Slot(d, n, i)
  <2>1. /\ d \in Seq(Cell) /\ n \in Nat /\ n > 0
        /\ \A k \in 1..n : p[Off(i, n) + k] = d[Off(i, n) + k]
    BY <1>6 DEF pos
  <2> QED  BY ONLY <1>1, <1>3, <1>7, <2>1, SlotEqual
<1> QED  BY <1>8 DEF p, off

(* Removing slot x leaves the slots before it and moves the later ones.    *)
LEMMA CutAtSlots ==
  ASSUME NEW d \in Seq(Cell), NEW n \in Nat, n > 0,
         NEW x \in Slots(d, n), NEW i \in Slots(d, n), i # x
  PROVE  \E j \in Slots(CutAt(d, Off(x, n), n), n) :
           Slot(CutAt(d, Off(x, n), n), n, j) = Slot(d, n, i)
<1> DEFINE off == Off(x, n)
           pos == Off(i, n)
           c == CutAt(d, off, n)
<1>1. /\ i \in Nat /\ Off(i, n) + n <= Len(d)
      /\ x \in Nat /\ Off(x, n) + n <= Len(d)
  BY SlotsAre
<1>2. off \in Nat /\ pos \in Nat /\ Len(d) \in Nat
  BY <1>1, OffType
<1>3. /\ c \in Seq(Cell) /\ Len(c) = Len(d) - n
      /\ \A k \in 1..off : c[k] = d[k]
      /\ \A k \in 1..(Len(d) - n - off) : c[off + k] = d[off + n + k]
  BY <1>1, <1>2, CutAtIs
<1>4. pos + n <= Len(d) /\ off + n <= Len(d)
  BY <1>1
<1>5. CASE i < x
  <2>1. pos + n <= off
    BY <1>1, <1>5, OffApart
  <2> HIDE DEF off, pos, c
  <2>2. \A k \in 1..n : c[pos + k] = d[pos + k]
    BY <2>1, <1>2, <1>3
  <2>3. pos + n <= Len(c)
    BY <2>1, <1>2, <1>3, <1>4
  <2>4. i \in Slots(c, n) /\ Slot(c, n, i) = Slot(d, n, i)
    <3>1. /\ \A k \in 1..n : c[Off(i, n) + k] = d[Off(i, n) + k]
          /\ Off(i, n) + n <= Len(c) /\ Off(i, n) + n <= Len(d)
      BY <1>1, <2>2, <2>3 DEF pos
    <3>2. d \in Seq(Cell) /\ c \in Seq(Cell) /\ n \in Nat /\ n > 0
      BY <1>3
    <3>3. i \in Nat
      BY <1>1
    <3> QED  BY ONLY <3>1, <3>2, <3>3, SlotEqual
  <2> QED  BY <2>4 DEF c, off
<1>6. CASE x < i
  <2> DEFINE j == i - 1
             lo == Off(j, n)
  <2>1. j \in Nat /\ i = j + 1 /\ x <= j
    BY <1>1, <1>6
  <2>2. lo \in Nat /\ pos = lo + n
    BY <2>1, OffType, OffNext
  <2>3. off <= lo
    <3>1. x = j \/ x < j
      BY <1>1, <2>1
    <3>2. x < j => Off(x, n) + n <= Off(j, n)
      BY <1>1, <2>1, OffApart
    <3> QED  BY <3>1, <3>2, <1>2, <2>2
  <2> HIDE DEF off, pos, c, lo, j
  <2>4. \A k \in 1..n : c[lo + k] = d[pos + k]
    <3>1. SUFFICES ASSUME NEW k \in 1..n PROVE c[lo + k] = d[pos + k]
      OBVIOUS
    <3>2. lo - off + k \in 1..(Len(d) - n - off)
      BY <1>2, <1>4, <2>2, <2>3
    <3>3. c[off + (lo - off + k)] = d[off + n + (lo - off + k)]
      BY <3>2, <1>3
    <3>4. /\ off + (lo - off + k) = lo + k
          /\ off + n + (lo - off + k) = pos + k
      BY <1>2, <2>2
    <3> QED  BY <3>3, <3>4
  <2>5. lo + n <= Len(c)
    BY <1>2, <1>3, <1>4, <2>2
  <2>6. Off(j, n) + n <= Len(c) /\ Off(i, n) + n <= Len(d)
        /\ \A k \in 1..n : c[Off(j, n) + k] = d[Off(i, n) + k]
    BY <2>4, <2>5, <1>1 DEF lo, pos
  <2>7. j \in Slots(c, n) /\ Slot(c, n, j) = Slot(d, n, i)
    <3>1. d \in Seq(Cell) /\ c \in Seq(Cell) /\ n \in Nat /\ n > 0
      BY <1>3
    <3>2. i \in Nat /\ j \in Nat
      BY <1>1, <2>1
    <3> QED  BY ONLY <2>6, <3>1, <3>2, SlotEqual
  <2> QED  BY <2>7 DEF c, off
<1> QED  BY <1>1, <1>5, <1>6

(* The bytes d with slot x being removed, after k of the later bytes have  *)
(* been moved over it.                                                     *)
After(d, x, n) == SubSeq(d, Off(x, n) + n + 1, Len(d))
Moved(d, x, n, k) == PutAt(d, Off(x, n), SubSeq(After(d, x, n), 1, k))

(* A slot whose bytes were moved is one further down, any other is in its  *)
(* place.                                                                  *)
LEMMA MoveSlots ==
  ASSUME NEW d \in Seq(Cell), NEW n \in Nat, n > 0,
         NEW x \in Slots(d, n), NEW i \in Slots(d, n), i # x,
         NEW k \in 0..Len(After(d, x, n))
  PROVE  /\ Moved(d, x, n, k) \in Seq(Cell)
         /\ \E j \in Slots(Moved(d, x, n, k), n) :
              Slot(Moved(d, x, n, k), n, j) = Slot(d, n, i)
<1> DEFINE rest == After(d, x, n)
           p    == Moved(d, x, n, k)
<1>a. rest = SubSeq(d, Off(x, n) + n + 1, Len(d))
  BY DEF After
<1>p. p = PutAt(d, Off(x, n), SubSeq(rest, 1, k))
  BY DEF Moved
<1>k. k \in 0..Len(rest)
  OBVIOUS
<1> SUFFICES /\ p \in Seq(Cell)
             /\ \E j \in Slots(p, n) : Slot(p, n, j) = Slot(d, n, i)
  OBVIOUS
<1> HIDE DEF rest, p
<1> DEFINE off == Off(x, n)
           pos == Off(i, n)
           b == SubSeq(rest, 1, k)
<1>1. /\ i \in Nat /\ Off(i, n) + n <= Len(d)
      /\ x \in Nat /\ Off(x, n) + n <= Len(d)
  BY SlotsAre
<1>2. off \in Nat /\ pos \in Nat /\ Len(d) \in Nat
  BY <1>1, OffType
<1>3. /\ rest \in Seq(Cell) /\ Len(rest) = Len(d) - n - off
      /\ \A m \in 1..Len(rest) : rest[m] = d[off + n + m]
  <2> DEFINE from == off + n
  <2>1. from \in Nat /\ from <= Len(d)
    BY <1>1, <1>2
  <2>2. rest = SubSeq(d, from + 1, Len(d))
    BY <1>a
  <2> HIDE DEF from
  <2>3. /\ rest \in Seq(Cell) /\ Len(rest) = Len(d) - from
        /\ \A m \in 1..(Len(d) - from) : rest[m] = d[from + m]
    <3>1. d \in Seq(Cell)
      OBVIOUS
    <3> QED  BY ONLY <2>1, <2>2, <3>1, TailIs
  <2>4. Len(d) - from = Len(d) - n - off
    BY <1>2 DEF from
  <2> QED  BY <2>3, <2>4 DEF from
<1>4. /\ b \in Seq(Cell) /\ Len(b) = k
      /\ \A m \in 1..k : b[m] = rest[m]
  BY <1>3, <1>k, HeadIs
<1> HIDE DEF b
<1>5. k \in Nat /\ k <= Len(d) - n - off
  BY <1>1, <1>2, <1>3, <1>k
<1>6. off + k <= Len(d) /\ p = PutAt(d, off, b)
  BY <1>2, <1>5, <1>p DEF b
<1> HIDE DEF off
<1>7. /\ p \in Seq(Cell) /\ Len(p) = Len(d)
      /\ \A m \in 1..Len(d) : m <= off \/ m > off + k => p[m] = d[m]
      /\ \A m \in 1..k : p[off + m] = b[m]
  <2>1. /\ p \in Seq(Cell)
        /\ off + Len(b) <= Len(d) => Len(p) = Len(d)
        /\ \A m \in 1..Len(d) :
             m <= off \/ m > off + Len(b) => p[m] = d[m]
        /\ \A m \in 1..Len(b) : p[off + m] = b[m]
    <3>1. d \in Seq(Cell) /\ b \in Seq(Cell) /\ off \in Nat
      BY <1>2, <1>4
    <3> QED  BY ONLY <3>1, <1>6, PutAtIs
  <2> QED  BY <2>1, <1>4, <1>6
<1>8. \A m \in 1..k : p[off + m] = d[off + n + m]
  <2>1. SUFFICES ASSUME NEW m \in 1..k PROVE p[off + m] = d[off + n + m]
    OBVIOUS
  <2>2. m \in 1..Len(rest)
    BY <1>2, <1>3, <1>5
  <2> QED  BY <2>2, <1>3, <1>4, <1>7
<1>9. CASE pos + n <= off \/ off + k <= pos
  <2> HIDE DEF pos
  <2>1. \A m \in 1..n : p[pos + m] = d[pos + m]
    <3>1. SUFFICES ASSUME NEW m \in 1..n PROVE p[pos + m] = d[pos + m]
      OBVIOUS
    <3>2. /\ pos + m \in 1..Len(d)
          /\ pos + m <= off \/ pos + m > off + k
      BY <1>1, <1>2, <1>5, <1>9 DEF pos
    <3> QED  BY <3>2, <1>7
  <2>2. /\ \A m \in 1..n : p[Off(i, n) + m] = d[Off(i, n) + m]
        /\ Off(i, n) + n <= Len(p) /\ Off(i, n) + n <= Len(d)
    BY <1>1, <1>7, <2>1 DEF pos
  <2>3. d \in Seq(Cell) /\ p \in Seq(Cell) /\ n \in Nat /\ n > 0 /\ i \in Nat
    BY <1>1, <1>7
  <2>4. i \in Slots(p, n) /\ Slot(p, n, i) = Slot(d, n, i)
    BY ONLY <2>2, <2>3, SlotEqual
  <2> QED  BY <2>4, <1>7
<1>10. CASE ~(pos + n <= off \/ off + k <= pos)
  <2> DEFINE j == i - 1
             lo == Off(j, n)
  <2>1. x < i
    <3>1. i < x => Off(i, n) + n <= Off(x, n)
      BY <1>1, OffApart
    <3> QED  BY <3>1, <1>1, <1>10 DEF off
  <2>2. j \in Nat /\ i = j + 1
    BY <1>1, <2>1
  <2>3. lo \in Nat /\ pos = lo + n
    BY <2>2, OffType, OffNext
  <2>4. off <= lo
    <3>1. x = j \/ x < j
      BY <1>1, <2>1, <2>2
    <3>2. x < j => Off(x, n) + n <= Off(j, n)
      BY <1>1, <2>2, OffApart
    <3> QED  BY <3>1, <3>2, <1>2, <2>3 DEF off
  <2> HIDE DEF pos, lo, j
  <2>5. \A m \in 1..n : p[lo + m] = d[pos + m]
    <3>1. SUFFICES ASSUME NEW m \in 1..n PROVE p[lo + m] = d[pos + m]
      OBVIOUS
    <3>2. lo - off + m \in 1..k
      BY <1>2, <1>5, <1>10, <2>3, <2>4
    <3>3. p[off + (lo - off + m)] = d[off + n + (lo - off + m)]
      BY <3>2, <1>8
    <3>4. /\ off + (lo - off + m) = lo + m
          /\ off + n + (lo - off + m) = pos + m
      BY <1>2, <2>3
    <3> QED  BY <3>3, <3>4
  <2>6. lo + n <= Len(p)
    BY <1>1, <1>2, <1>7, <2>3 DEF pos
  <2>7. /\ Off(j, n) + n <= Len(p) /\ Off(i, n) + n <= Len(d)
        /\ \A m \in 1..n : p[Off(j, n) + m] = d[Off(i, n) + m]
    BY <2>5, <2>6, <1>1 DEF lo, pos
  <2>8. d \in Seq(Cell) /\ p \in Seq(Cell) /\ n \in Nat /\ n > 0
    BY <1>7
  <2>9. i \in Nat /\ j \in Nat
    BY <1>1, <2>2
  <2>10. j \in Slots(p, n) /\ Slot(p, n, j) = Slot(d, n, i)
    BY ONLY <2>7, <2>8, <2>9, SlotEqual
  <2> QED  BY <2>10, <1>7
<1> QED  BY <1>9, <1>10

-----------------------------------------------------------------------------
(* The invariant.                                                          *)

(* Beyond BookkeepingAgrees: the record length is one the program uses, a  *)
(* disposition keeps the file to the modes it allows, and a current record *)
(* has a length.                                                           *)
Bookkeeping ==
  /\ BookkeepingAgrees
  /\ fixed_record_len \in {NoLen} \cup use.lens
  /\ use.disposition = "MOD" => open_mode \in {"CLOSED", "EXTEND"}
  /\ use.disposition \in {"OLD", "SHR"} =>
       open_mode \in {"CLOSED", "INPUT", "IO"}
  /\ last_record_index = NoIndex <=> last_record_len = NoLen

(* What an assumption on the constants says of the profile in use.         *)
LEMMA UseIs ==
  ASSUME use \in Profiles
  PROVE  /\ use.disposition \in Dispositions
         /\ use.lens \subseteq Nat \ {0}
         /\ use.errors \in BOOLEAN
  BY OsFileAssumption

(* The surroundings of a file do not change.                               *)
LEMMA UseStays == [Next]_vars => use' = use
  BY DEF Next, vars, Open, OpenNotAllowed, OpenMissing, OpenIoError, OpenOk,
         OpenFails, OpenResets, Read, ReadRefused, ReadWhole, ReadAtEnd,
         ReadPartial, ReadIoError, Write, WriteRefused, WriteOk,
         WriteIoError, Rewrite, RewriteRefused, RewriteOk, RewriteIoError,
         Delete, DeleteRefused, DeleteOutside, DeleteOk, DeleteIoError,
         Close, ResetLifecycle

(* A record the program writes.                                            *)
LEMMA RecordIs ==
  ASSUME use \in Profiles, NEW r \in Record
  PROVE  /\ r \in Seq(Cell) /\ Len(r) \in use.lens
         /\ Len(r) \in Nat /\ Len(r) > 0
<1>1. PICK n \in use.lens : r \in [1..n -> Byte]
  BY DEF Record
<1>2. n \in Nat /\ n > 0
  BY UseIs
<1>3. r \in Seq(Byte) /\ Len(r) = n
  BY <1>1, <1>2
<1>4. r \in Seq(Cell)
  BY <1>1, <1>2 DEF Cell
<1> QED  BY <1>1, <1>2, <1>3, <1>4

(* The bytes of the file.                                                  *)
LEMMA BytesAre ==
  ASSUME disk = NoFile \/ disk \in Seq(Cell)
  PROVE  Bytes \in Seq(Cell) /\ Len(Bytes) \in Nat
  BY EmptySeq DEF Bytes

(* The same of the next state.                                             *)
LEMMA BytesNext ==
  ASSUME disk' \in Seq(Cell)
  PROVE  Bytes' = disk'
  BY OsFileAssumption DEF Bytes, Cell

(* The file before it is used.                                             *)
LEMMA InitBookkeeping == Init => Bookkeeping
<1> SUFFICES ASSUME Init PROVE Bookkeeping
  OBVIOUS
<1>1. disk = NoFile \/ disk \in Seq(Byte)
  BY OsFileAssumption DEF Init
<1>2. disk = NoFile \/ disk \in Seq(Cell)
  BY <1>1 DEF Cell
<1>3. fixed_record_len \in Nat \cup {NoLen}
  BY UseIs DEF Init
<1> QED  BY <1>2, <1>3 DEF Init, Bookkeeping, BookkeepingAgrees, TypeOK, Cell,
              NoHandle, NoIndex, NoLen

(* Where the current record is, and how long: REWRITE and DELETE agree.    *)
LEMMA CurrentIs ==
  ASSUME Bookkeeping, last_record_index # NoIndex
  PROVE  /\ last_record_index \in Nat
         /\ last_record_len \in use.lens /\ last_record_len = fixed_record_len
         /\ last_record_len \in Nat /\ last_record_len > 0
         /\ \A r : /\ RewriteLen(r) = last_record_len
                   /\ RewriteOffset(r) = Off(last_record_index, last_record_len)
         /\ DeleteLen = last_record_len
         /\ DeleteOffset = Off(last_record_index, last_record_len)
         /\ Off(last_record_index, last_record_len) \in Nat
<1> DEFINE x == last_record_index
           n == last_record_len
<1>1. /\ x \in Nat /\ n = fixed_record_len /\ n # NoLen
      /\ fixed_record_len \in {NoLen} \cup use.lens /\ use \in Profiles
  BY DEF Bookkeeping, BookkeepingAgrees, TypeOK
<1>2. n \in use.lens
  BY <1>1
<1>3. n \in Nat /\ n > 0
  BY <1>1, <1>2, UseIs
<1>4. \A r : RewriteLen(r) = n
  BY <1>1 DEF RewriteLen
<1>5. DeleteLen = n
  BY <1>1 DEF DeleteLen
<1>6. \A r : RewriteOffset(r) = Off(x, n)
  BY <1>4 DEF RewriteOffset, Off
<1>7. DeleteOffset = Off(x, n)
  BY <1>5 DEF DeleteOffset, Off
<1>8. Off(x, n) \in Nat
  BY <1>1, <1>3, OffType
<1> QED  BY <1>1, <1>2, <1>3, <1>4, <1>5, <1>6, <1>7, <1>8

(* What OPEN does to the file: OUTPUT empties it, EXTEND may create it.    *)
LEMMA OpenEffect ==
  ASSUME Bookkeeping, NEW m \in {"INPUT", "OUTPUT", "IO", "EXTEND"}, Open(m)
  PROVE  /\ \/ disk' = disk
            \/ m = "OUTPUT" /\ Allowed(m) /\ disk' = <<>>
            \/ m = "EXTEND" /\ Allowed(m) /\ disk' = Bytes
         /\ \/ open_mode' = "CLOSED" /\ handle' = handle
            \/ /\ Allowed(m) /\ open_mode' = m
               /\ handle' = StartPosition(m) /\ handle' \in Nat
         /\ last_status' \in {"00", "30", "35", "37", "90"}
         /\ OpenResets
<1>1. Len(Bytes) \in Nat
  BY BytesAre DEF Bookkeeping, BookkeepingAgrees, TypeOK, Cell
<1>2. StartPosition(m) \in Nat
  BY <1>1 DEF StartPosition
<1> QED  BY <1>2 DEF Open, OpenNotAllowed, OpenMissing, OpenIoError, OpenOk,
              OpenFails

(* What WRITE does: bytes are added at the end.                            *)
LEMMA WriteEffect ==
  ASSUME Bookkeeping, NEW r \in Record, Write(r)
  PROVE  \/ UNCHANGED <<disk, handle>>
         \/ /\ open_mode \in {"OUTPUT", "IO", "EXTEND"} /\ handle # NoHandle
            /\ \E b \in Seq(Cell) : /\ disk' = Bytes \o b
                                    /\ handle' = Len(Bytes) + Len(b)
<1>1. r \in Seq(Cell) /\ Len(r) \in Nat
  BY RecordIs DEF Bookkeeping, BookkeepingAgrees, TypeOK
<1>2. CASE WriteRefused(r)
  BY <1>2 DEF WriteRefused
<1>3. CASE WriteOk(r)
  BY <1>1, <1>3 DEF WriteOk, CanWrite
<1>4. CASE WriteIoError(r)
  <2>1. ASSUME NEW k \in 0..Len(r), disk' = Bytes \o SubSeq(r, 1, k),
               handle' = Len(Bytes) + k
        PROVE  \E b \in Seq(Cell) : /\ disk' = Bytes \o b
                                    /\ handle' = Len(Bytes) + Len(b)
    <3>1. SubSeq(r, 1, k) \in Seq(Cell) /\ Len(SubSeq(r, 1, k)) = k
      BY <1>1, HeadIs
    <3> QED  BY <2>1, <3>1
  <2> QED  BY <1>4, <2>1 DEF WriteIoError, CanWrite
<1> QED  BY <1>2, <1>3, <1>4 DEF Write

(* What REWRITE does: bytes are put where the current record is.           *)
LEMMA RewriteEffect ==
  ASSUME Bookkeeping, NEW r \in Record, Rewrite(r)
  PROVE  \/ UNCHANGED <<disk, handle>>
         \/ /\ open_mode = "IO" /\ handle # NoHandle
            /\ last_record_index # NoIndex
            /\ \E b \in Seq(Cell) :
                 /\ Len(b) <= last_record_len
                 /\ disk' = disk \/ disk' =
                      PutAt(Bytes, Off(last_record_index, last_record_len), b)
                 /\ handle' = Off(last_record_index, last_record_len) + Len(b)
<1>1. r \in Seq(Cell) /\ Len(r) \in Nat
  BY RecordIs DEF Bookkeeping, BookkeepingAgrees, TypeOK
<1>c. ASSUME CanRewrite(r)
      PROVE  /\ open_mode = "IO" /\ handle # NoHandle
             /\ last_record_index # NoIndex /\ Len(r) = last_record_len
             /\ RewriteOffset(r) = Off(last_record_index, last_record_len)
  BY <1>c, CurrentIs DEF CanRewrite
<1>2. CASE RewriteRefused(r)
  BY <1>2 DEF RewriteRefused
<1>3. CASE RewriteOk(r)
  BY <1>1, <1>3, <1>c DEF RewriteOk
<1>4. CASE RewriteIoError(r)
  <2>1. ASSUME NEW k \in 0..Len(r),
               disk' = IF k = 0 THEN disk
                       ELSE PutAt(Bytes, RewriteOffset(r), SubSeq(r, 1, k)),
               handle' = RewriteOffset(r) + k, CanRewrite(r)
        PROVE  \E b \in Seq(Cell) :
                 /\ Len(b) <= last_record_len
                 /\ disk' = disk \/ disk' =
                      PutAt(Bytes, Off(last_record_index, last_record_len), b)
                 /\ handle' = Off(last_record_index, last_record_len) + Len(b)
    <3>1. SubSeq(r, 1, k) \in Seq(Cell) /\ Len(SubSeq(r, 1, k)) = k
      BY <1>1, HeadIs
    <3>2. k <= last_record_len
      BY <1>c, <2>1, <1>1
    <3> QED  BY <1>c, <2>1, <3>1, <3>2
  <2> QED  BY <1>4, <1>c, <2>1 DEF RewriteIoError
<1> QED  BY <1>2, <1>3, <1>4 DEF Rewrite

(* What DELETE does: the current record goes, or the bytes after it have   *)
(* begun to move.                                                          *)
LEMMA DeleteEffect ==
  ASSUME Bookkeeping, Delete
  PROVE  \/ disk' = disk /\ handle' \in Nat \cup {handle}
         \/ /\ open_mode = "IO" /\ handle # NoHandle
            /\ last_record_index # NoIndex
            /\ last_record_index \in Slots(Bytes, last_record_len)
            /\ LET x == last_record_index
                   n == last_record_len
               IN  \/ /\ disk' = CutAt(Bytes, Off(x, n), n)
                      /\ handle' = Len(Bytes) - n /\ handle' \in Nat
                   \/ \E k \in 0..Len(After(Bytes, x, n)) :
                        /\ disk' = Moved(Bytes, x, n, k)
                        /\ handle' = Off(x, n) + k
<1> DEFINE off  == Off(last_record_index, last_record_len)
           rest == After(Bytes, last_record_index, last_record_len)
<1>1. Bytes \in Seq(Cell) /\ Len(Bytes) \in Nat
  BY BytesAre DEF Bookkeeping, BookkeepingAgrees, TypeOK, Cell
<1>c. ASSUME CanDelete
      PROVE  /\ open_mode = "IO" /\ handle # NoHandle
             /\ last_record_index # NoIndex /\ last_record_index \in Nat
             /\ DeleteLen = last_record_len /\ DeleteOffset = off
             /\ last_record_len \in Nat /\ last_record_len > 0 /\ off \in Nat
  BY <1>c, CurrentIs DEF CanDelete
<1>s. ASSUME CanDelete, DeleteOffset + DeleteLen <= Len(Bytes)
      PROVE  last_record_index \in Slots(Bytes, last_record_len)
  BY <1>s, <1>c, <1>1, SlotsAre
<1>2. CASE DeleteRefused
  BY <1>2 DEF DeleteRefused
<1>3. CASE DeleteOutside
  BY <1>1, <1>3 DEF DeleteOutside
<1>4. CASE DeleteOk
  <2>1. /\ CanDelete /\ DeleteOffset + DeleteLen <= Len(Bytes)
        /\ disk' = CutAt(Bytes, off, last_record_len)
        /\ handle' = Len(Bytes) - last_record_len
    BY <1>4, <1>c DEF DeleteOk
  <2>2. Len(Bytes) - last_record_len \in Nat
    BY <2>1, <1>c, <1>1
  <2> QED  BY <2>1, <2>2, <1>c, <1>s
<1>5. CASE DeleteIoError
  <2>1. CanDelete /\ DeleteOffset + DeleteLen <= Len(Bytes)
    BY <1>5 DEF DeleteIoError
  <2>2. Rest(Bytes) = rest
    BY <2>1, <1>c DEF Rest, After
  <2>3. CASE /\ handle' \in {handle, Len(Bytes), DeleteOffset + DeleteLen}
             /\ UNCHANGED disk
    BY <2>1, <2>3, <1>1, <1>c
  <2>4. CASE \E k \in 0..Len(rest) :
               /\ disk' = PutAt(Bytes, off, SubSeq(rest, 1, k))
               /\ handle' = off + k
    BY <2>1, <2>4, <1>c, <1>s DEF Moved
  <2> QED  BY <1>5, <2>1, <2>2, <2>3, <2>4, <1>c DEF DeleteIoError
<1> QED  BY <1>2, <1>3, <1>4, <1>5 DEF Delete

(* What each update leaves on the disk is a file.                          *)
LEMMA DiskStep ==
  ASSUME Bookkeeping, [Next]_vars
  PROVE  disk' = disk \/ disk' \in Seq(Cell)
<1>1. Bytes \in Seq(Cell) /\ Len(Bytes) \in Nat
  BY BytesAre DEF Bookkeeping, BookkeepingAgrees, TypeOK, Cell
<1>2. ASSUME NEW m \in {"INPUT", "OUTPUT", "IO", "EXTEND"}, Open(m)
      PROVE  disk' = disk \/ disk' \in Seq(Cell)
  BY <1>1, <1>2, OpenEffect, EmptySeq
<1>3. ASSUME NEW n \in use.lens, Read(n) PROVE disk' = disk
  BY <1>3 DEF Read, ReadRefused, ReadWhole, ReadAtEnd, ReadPartial,
              ReadIoError
<1>4. ASSUME NEW r \in Record, Write(r)
      PROVE  disk' = disk \/ disk' \in Seq(Cell)
  <2>1. \A b \in Seq(Cell) : Bytes \o b \in Seq(Cell)
    BY <1>1, ConcatProperties
  <2> QED  BY <1>4, <2>1, WriteEffect
<1>5. ASSUME NEW r \in Record, Rewrite(r)
      PROVE  disk' = disk \/ disk' \in Seq(Cell)
  <2>1. last_record_index # NoIndex =>
          Off(last_record_index, last_record_len) \in Nat
    BY CurrentIs
  <2>2. \A b \in Seq(Cell), off \in Nat : PutAt(Bytes, off, b) \in Seq(Cell)
    BY <1>1, PutAtIs
  <2> QED  BY <1>5, <2>1, <2>2, RewriteEffect
<1>6. CASE Delete
  <2> DEFINE x   == last_record_index
             n   == last_record_len
             off == Off(x, n)
  <2>1. CASE disk' = disk
    BY <2>1
  <2>2. CASE disk' # disk
    <3>1. /\ x # NoIndex /\ x \in Slots(Bytes, n)
          /\ \/ disk' = CutAt(Bytes, off, n)
             \/ \E k \in 0..Len(After(Bytes, x, n)) :
                  disk' = Moved(Bytes, x, n, k)
      BY <1>6, <2>2, DeleteEffect
    <3>2. x \in Nat /\ n \in Nat /\ n > 0 /\ off \in Nat
      BY <3>1, CurrentIs
    <3>3. off + n <= Len(Bytes)
      BY <1>1, <3>1, <3>2, SlotsAre
    <3>4. CutAt(Bytes, off, n) \in Seq(Cell)
      BY <1>1, <3>2, <3>3, CutAtIs
    <3>5. \A k \in 0..Len(After(Bytes, x, n)) :
            Moved(Bytes, x, n, k) \in Seq(Cell)
      <4>1. After(Bytes, x, n) \in Seq(Cell)
        <5> HIDE DEF off
        <5>1. SubSeq(Bytes, off + n + 1, Len(Bytes)) \in Seq(Cell)
          BY <1>1, <3>2, <3>3
        <5> QED  BY <5>1 DEF After, off
      <4>2. \A k \in 0..Len(After(Bytes, x, n)) :
              SubSeq(After(Bytes, x, n), 1, k) \in Seq(Cell)
        BY <4>1, HeadIs
      <4> QED  BY <1>1, <3>2, <4>2, PutAtIs DEF Moved
    <3> QED  BY <3>1, <3>4, <3>5
  <2> QED  BY <2>1, <2>2
<1>7. CASE Close \/ ResetLifecycle \/ UNCHANGED vars
  BY <1>7 DEF Close, ResetLifecycle, vars
<1> QED  BY <1>2, <1>3, <1>4, <1>5, <1>6, <1>7 DEF Next

(* READ keeps the bookkeeping.                                             *)
LEMMA ReadBookkeeping ==
  ASSUME Bookkeeping, NEW n \in use.lens, Read(n)
  PROVE  Bookkeeping'
<1> USE DEF Bookkeeping, BookkeepingAgrees, TypeOK, NoHandle, NoIndex, NoLen
<1>1. n \in Nat /\ n > 0 /\ use.lens \subseteq Nat \ {0}
  BY UseIs
<1>2. Len(Bytes) \in Nat
  BY BytesAre DEF Cell
<1>3. CASE ReadRefused(n)
  BY <1>3 DEF ReadRefused, Refused
<1>4. /\ ReadLen(n) \in use.lens
      /\ ReadLen(n) \in Nat /\ ReadLen(n) > 0
  BY <1>1 DEF ReadLen
<1>5. CASE ReadWhole(n)
  <2>1. handle' \in Nat /\ got' = {current'} /\ handle' # NoHandle
    BY <1>4, <1>5 DEF ReadWhole, CanRead
  <2> QED  BY <1>4, <1>5, <2>1 DEF ReadWhole, CanRead
<1>6. CASE ReadAtEnd(n)
  BY <1>6 DEF ReadAtEnd, Refused, Forget
<1>7. CASE ReadPartial(n)
  BY <1>2, <1>7 DEF ReadPartial, Refused, Forget
<1>8. CASE ReadIoError(n)
  <2>1. handle \in Nat /\ handle' \in handle..(handle + ReadLen(n) - 1)
    BY <1>8 DEF ReadIoError, CanRead
  <2>2. handle' \in Nat
    BY <1>4, <2>1
  <2> QED  BY <1>8, <2>2 DEF ReadIoError, Refused, Forget
<1> QED  BY <1>3, <1>5, <1>6, <1>7, <1>8 DEF Read

(* Every request keeps the bookkeeping.                                    *)
LEMMA BookkeepingStep == Bookkeeping /\ [Next]_vars => Bookkeeping'
<1> SUFFICES ASSUME Bookkeeping, [Next]_vars PROVE Bookkeeping'
  OBVIOUS
<1> USE DEF NoHandle, NoIndex, NoLen
<1>1. /\ Bytes \in Seq(Cell) /\ Len(Bytes) \in Nat
  BY BytesAre DEF Bookkeeping, BookkeepingAgrees, TypeOK, Cell
<1>d. disk' = NoFile \/ disk' \in Seq(Byte \cup {Zero})
  BY DiskStep DEF Bookkeeping, BookkeepingAgrees, TypeOK, Cell
<1>2. ASSUME NEW m \in {"INPUT", "OUTPUT", "IO", "EXTEND"}, Open(m)
      PROVE  Bookkeeping'
  <2>1. /\ \/ open_mode' = "CLOSED" /\ handle' = handle
           \/ Allowed(m) /\ open_mode' = m /\ handle' \in Nat
        /\ last_status' \in {"00", "30", "35", "37", "90"}
        /\ OpenResets
    BY <1>2, OpenEffect
  <2>2. /\ Allowed(m) /\ use.disposition = "MOD" => m = "EXTEND"
        /\ Allowed(m) /\ use.disposition \in {"OLD", "SHR"} =>
             m \in {"INPUT", "IO"}
    BY DEF Allowed
  <2> QED  BY <1>d, <2>1, <2>2
           DEF Bookkeeping, BookkeepingAgrees, TypeOK, OpenResets, Forget
<1>3. ASSUME NEW n \in use.lens, Read(n) PROVE Bookkeeping'
  BY <1>3, ReadBookkeeping
<1>4. ASSUME NEW r \in Record, Write(r) PROVE Bookkeeping'
  <2>1. handle' \in Nat \/ handle' = handle
    <3>1. \A b \in Seq(Cell) : Len(Bytes) + Len(b) \in Nat
      BY <1>1
    <3> QED  BY <1>4, <3>1, WriteEffect
  <2>2. /\ cursor' \in {cursor, cursor + 1}
        /\ last_status' \in {"00", "30", "90"} /\ got' = {}
        /\ UNCHANGED <<use, open_mode, last_record_index, last_record_len,
                       fixed_record_len, current>>
    BY <1>4 DEF Write, WriteRefused, WriteOk, WriteIoError, Refused
  <2> QED  BY <1>d, <2>1, <2>2 DEF Bookkeeping, BookkeepingAgrees, TypeOK
<1>5. ASSUME NEW r \in Record, Rewrite(r) PROVE Bookkeeping'
  <2>1. handle' \in Nat \/ handle' = handle
    <3>1. \A b \in Seq(Cell) : Len(b) \in Nat
      OBVIOUS
    <3>2. last_record_index # NoIndex =>
            Off(last_record_index, last_record_len) \in Nat
      BY CurrentIs
    <3> QED  BY <1>5, <3>1, <3>2, RewriteEffect
  <2>2. /\ last_status' \in {"00", "30", "90"} /\ got' = {}
        /\ Forget \/ UNCHANGED <<last_record_index, last_record_len>>
        /\ UNCHANGED <<use, open_mode, cursor, fixed_record_len, current>>
    BY <1>5 DEF Rewrite, RewriteRefused, RewriteOk, RewriteIoError, Refused
  <2> QED  BY <1>d, <2>1, <2>2
           DEF Bookkeeping, BookkeepingAgrees, TypeOK, Forget
<1>6. CASE Delete
  <2>1. handle' \in Nat \/ handle' = handle
    <3>1. last_record_index # NoIndex =>
            Off(last_record_index, last_record_len) \in Nat
      BY CurrentIs
    <3> QED  BY <1>6, <3>1, DeleteEffect
  <2>2. /\ last_status' \in {"00", "30", "90"} /\ got' = {}
        /\ \/ Forget /\ cursor' = last_record_index /\ CanDelete
           \/ UNCHANGED <<cursor, last_record_index, last_record_len>>
        /\ UNCHANGED <<use, open_mode, fixed_record_len, current>>
    BY <1>6 DEF Delete, DeleteRefused, DeleteOutside, DeleteOk,
                DeleteIoError, Refused
  <2> QED  BY <1>d, <2>1, <2>2
           DEF Bookkeeping, BookkeepingAgrees, TypeOK, Forget, CanDelete
<1>7. CASE Close
  BY <1>7 DEF Close, Bookkeeping, BookkeepingAgrees, TypeOK
<1>8. CASE ResetLifecycle
  BY <1>8 DEF ResetLifecycle, Forget, Bookkeeping, BookkeepingAgrees, TypeOK
<1>9. CASE UNCHANGED vars
  BY <1>9 DEF vars, Bookkeeping, BookkeepingAgrees, TypeOK
<1> QED  BY <1>2, <1>3, <1>4, <1>5, <1>6, <1>7, <1>8, <1>9 DEF Next

(* The bookkeeping holds whatever fails.                                   *)
LEMMA BookkeepingHolds == Spec => []Bookkeeping
  BY InitBookkeeping, BookkeepingStep, PTL DEF Spec

-----------------------------------------------------------------------------
(* What an update does to the records beside the current one.              *)

(* The bytes of the file after a request.                                  *)
LEMMA BytesStep ==
  ASSUME Bookkeeping, [Next]_vars
  PROVE  /\ disk' = disk => Bytes' = Bytes
         /\ disk' # disk => Bytes' = disk'
  BY DiskStep, BytesNext DEF Bytes

(* REWRITE writes into the slot of the current record only.                *)
LEMMA RewriteKeepsOthers ==
  ASSUME Bookkeeping, NEW r \in Record, Rewrite(r)
  PROVE  \A i \in Slots(Bytes, last_record_len) \ {last_record_index} :
           \E j \in Slots(Bytes', last_record_len) :
             Slot(Bytes', last_record_len, j) = Slot(Bytes, last_record_len, i)
<1> DEFINE x == last_record_index
           n == last_record_len
<1>1. Bytes \in Seq(Cell)
  BY BytesAre DEF Bookkeeping, BookkeepingAgrees, TypeOK, Cell
<1>2. Next
  BY DEF Next
<1>3. CASE disk' = disk
  BY <1>2, <1>3, BytesStep
<1>4. CASE disk' # disk
  <2>1. /\ Bytes' = disk' /\ x # NoIndex
        /\ \E b \in Seq(Cell) : /\ Len(b) <= n
                                /\ disk' = PutAt(Bytes, Off(x, n), b)
    BY <1>2, <1>4, BytesStep, RewriteEffect
  <2>2. PICK b \in Seq(Cell) :
          Len(b) <= n /\ Bytes' = PutAt(Bytes, Off(x, n), b)
    BY <2>1
  <2>3. x \in Nat /\ n \in Nat /\ n > 0
    BY <2>1, CurrentIs
  <2>4. \A i \in Slots(Bytes, n) \ {x} :
          /\ i \in Slots(PutAt(Bytes, Off(x, n), b), n)
          /\ Slot(PutAt(Bytes, Off(x, n), b), n, i) = Slot(Bytes, n, i)
    BY <1>1, <2>2, <2>3, PutAtSlots
  <2> QED  BY <2>2, <2>4
<1> QED  BY <1>3, <1>4

(* DELETE moves the records after the current one, none is lost even when  *)
(* it is stopped half way.                                                 *)
LEMMA DeleteKeepsOthers ==
  ASSUME Bookkeeping, Delete
  PROVE  \A i \in Slots(Bytes, last_record_len) \ {last_record_index} :
           \E j \in Slots(Bytes', last_record_len) :
             Slot(Bytes', last_record_len, j) = Slot(Bytes, last_record_len, i)
<1> DEFINE x == last_record_index
           n == last_record_len
<1>1. Bytes \in Seq(Cell)
  BY BytesAre DEF Bookkeeping, BookkeepingAgrees, TypeOK, Cell
<1>2. Next
  BY DEF Next
<1>3. CASE disk' = disk
  BY <1>2, <1>3, BytesStep
<1>4. CASE disk' # disk
  <2>1. /\ Bytes' = disk' /\ x # NoIndex /\ x \in Slots(Bytes, n)
        /\ \/ disk' = CutAt(Bytes, Off(x, n), n)
           \/ \E k \in 0..Len(After(Bytes, x, n)) :
                disk' = Moved(Bytes, x, n, k)
    BY <1>2, <1>4, BytesStep, DeleteEffect
  <2>2. n \in Nat /\ n > 0
    BY <2>1, CurrentIs
  <2>3. CASE disk' = CutAt(Bytes, Off(x, n), n)
    <3>1. \A i \in Slots(Bytes, n) \ {x} :
            \E j \in Slots(CutAt(Bytes, Off(x, n), n), n) :
              Slot(CutAt(Bytes, Off(x, n), n), n, j) = Slot(Bytes, n, i)
      BY <1>1, <2>1, <2>2, CutAtSlots
    <3> QED  BY <2>1, <2>3, <3>1
  <2>4. ASSUME NEW k \in 0..Len(After(Bytes, x, n)),
               disk' = Moved(Bytes, x, n, k)
        PROVE  \A i \in Slots(Bytes, n) \ {x} :
                 \E j \in Slots(Bytes', n) :
                   Slot(Bytes', n, j) = Slot(Bytes, n, i)
    <3>1. \A i \in Slots(Bytes, n) \ {x} :
            \E j \in Slots(Moved(Bytes, x, n, k), n) :
              Slot(Moved(Bytes, x, n, k), n, j) = Slot(Bytes, n, i)
      BY <1>1, <2>1, <2>2, MoveSlots
    <3> QED  BY <2>1, <2>4, <3>1
  <2> QED  BY <2>1, <2>3, <2>4
<1> QED  BY <1>3, <1>4

(* For every file, every record length and every point at which the        *)
(* operating system may stop it, a REWRITE or DELETE leaves each record    *)
(* beside the current one somewhere in the file.                           *)
THEOREM UpdatesLoseNoOther == Spec => UpdateLosesNoOther
<1>1. Bookkeeping /\ [Next]_vars =>
        [(\E r \in Record : Rewrite(r)) \/ Delete =>
           \A i \in Slots(Bytes, last_record_len) \ {last_record_index} :
             \E j \in Slots(Bytes', last_record_len) :
               Slot(Bytes', last_record_len, j) =
                 Slot(Bytes, last_record_len, i)]_vars
  BY RewriteKeepsOthers, DeleteKeepsOthers
<1> QED  BY <1>1, BookkeepingHolds, PTL DEF Spec, UpdateLosesNoOther

-----------------------------------------------------------------------------
(* What a disposition protects.                                            *)

(* A file is a beginning of what it is after bytes were added.             *)
LEMMA AppendedIs ==
  ASSUME NEW d \in Seq(Cell), NEW b \in Seq(Cell), NEW e, e = d \o b
  PROVE  /\ e \in Seq(Cell) /\ Len(e) = Len(d) + Len(b)
         /\ \A i \in 1..Len(d) : e[i] = d[i]
         /\ \A i \in 1..Len(b) : e[Len(d) + i] = b[i]
         /\ IsPrefix(d, e)
<1>1. /\ e \in Seq(Cell) /\ Len(e) = Len(d) + Len(b)
      /\ \A i \in 1..Len(d) : e[i] = d[i]
      /\ \A i \in 1..Len(b) : e[Len(d) + i] = b[i]
  BY ConcatProperties
<1>2. 0 + Len(d) <= Len(e) /\ Len(d) \in Nat
  BY <1>1
<1>3. \A i \in 1..Len(d) : d[0 + i] = e[0 + i]
  BY <1>1
<1>4. SubSeq(d, 0 + 1, 0 + Len(d)) = SubSeq(e, 0 + 1, 0 + Len(d))
  BY <1>1, <1>2, <1>3, StretchEqual
<1>5. SubSeq(d, 1, Len(d)) = SubSeq(e, 1, Len(d))
  BY <1>2, <1>4
<1> QED  BY <1>1, <1>2, <1>5 DEF IsPrefix

(* A file is a beginning of itself.                                        *)
LEMMA UnchangedIsPrefix ==
  ASSUME NEW d \in Seq(Cell)
  PROVE  IsPrefix(d, d)
  BY DEF IsPrefix

(* A step under disposition MOD adds at the end or changes nothing; one    *)
(* under OLD or SHR changes nothing unless the file is open I-O.           *)
LEMMA DispositionStep ==
  ASSUME Bookkeeping, [Next]_vars
  PROVE  /\ use.disposition = "MOD" => IsPrefix(Bytes, Bytes')
         /\ use.disposition \in {"OLD", "SHR"} /\ open_mode # "IO" =>
              disk' = disk
<1> DEFINE Protected ==
             /\ use.disposition = "MOD" => IsPrefix(Bytes, Bytes')
             /\ use.disposition \in {"OLD", "SHR"} /\ open_mode # "IO" =>
                  disk' = disk
<1>1. Bytes \in Seq(Cell)
  BY BytesAre DEF Bookkeeping, BookkeepingAgrees, TypeOK, Cell
<1>2. Bytes' = Bytes => IsPrefix(Bytes, Bytes')
  BY <1>1, UnchangedIsPrefix
<1>3. CASE disk' = disk
  BY <1>2, <1>3, BytesStep
<1>4. CASE disk' # disk
  <2>1. Bytes' = disk'
    BY <1>4, BytesStep
  <2>2. ASSUME NEW m \in {"INPUT", "OUTPUT", "IO", "EXTEND"}, Open(m)
        PROVE  Protected
    <3>1. \/ m = "OUTPUT" /\ Allowed(m)
          \/ m = "EXTEND" /\ Allowed(m) /\ disk' = Bytes
      BY <1>4, <2>2, OpenEffect
    <3> QED  BY <1>2, <2>1, <3>1 DEF Allowed
  <2>3. ASSUME NEW n \in use.lens, Read(n) PROVE disk' = disk
    BY <2>3 DEF Read, ReadRefused, ReadWhole, ReadAtEnd, ReadPartial,
                ReadIoError
  <2>4. ASSUME NEW r \in Record, Write(r) PROVE Protected
    <3>1. /\ open_mode \in {"OUTPUT", "IO", "EXTEND"}
          /\ \E b \in Seq(Cell) : disk' = Bytes \o b
      BY <1>4, <2>4, WriteEffect
    <3>2. IsPrefix(Bytes, Bytes')
      BY <1>1, <2>1, <3>1, AppendedIs
    <3> QED  BY <3>1, <3>2 DEF Bookkeeping
  <2>5. ASSUME NEW r \in Record, Rewrite(r) PROVE open_mode = "IO"
    BY <1>4, <2>5, RewriteEffect
  <2>6. ASSUME Delete PROVE open_mode = "IO"
    BY <1>4, <2>6, DeleteEffect
  <2>7. open_mode = "IO" => Protected
    BY DEF Bookkeeping
  <2>8. CASE Close \/ ResetLifecycle \/ UNCHANGED vars
    BY <1>4, <2>8 DEF Close, ResetLifecycle, vars
  <2> QED  BY <1>4, <2>2, <2>3, <2>4, <2>5, <2>6, <2>7, <2>8 DEF Next
<1> QED  BY <1>3, <1>4

(* Whatever the program asks and whatever fails, a dataset bound MOD is    *)
(* only added to, and one bound OLD or SHR is changed by updates alone.    *)
THEOREM DispositionsProtect == Spec => DispositionProtects
<1>1. Bookkeeping /\ [Next]_vars =>
        [/\ use.disposition = "MOD" => IsPrefix(Bytes, Bytes')
         /\ use.disposition \in {"OLD", "SHR"} /\ open_mode # "IO" =>
              disk' = disk]_vars
  BY DispositionStep
<1> QED  BY <1>1, BookkeepingHolds, PTL DEF Spec, DispositionProtects

(* In every reachable state the types are right and the bookkeeping of     *)
(* struct VmFile agrees with itself and with the handle.                   *)
THEOREM BookkeepingAlwaysAgrees == Spec => []BookkeepingAgrees
<1>1. Bookkeeping => BookkeepingAgrees
  BY DEF Bookkeeping
<1> QED  BY <1>1, BookkeepingHolds, PTL

-----------------------------------------------------------------------------
(* Where the handle and the current record are.                            *)

\* A program that does not both WRITE and REWRITE in I-O mode, and whose
\* requests are not stopped half way.
Straight == ~({"write", "rewrite"} \subseteq use.verbs) /\ ~use.errors

(* The handle is before the record cursor counts, or at the end.           *)
HandleCounted ==
  Straight /\ open_mode \in {"INPUT", "IO"} =>
    /\ \/ handle = 0 /\ cursor = 0
       \/ /\ fixed_record_len # NoLen
          /\ handle = Off(cursor, fixed_record_len)
       \/ handle >= Len(Bytes)
    /\ "write" \notin use.verbs /\ last_record_index # NoIndex =>
         cursor = last_record_index + 1

(* The current record is in its slot.                                      *)
CurrentInSlot ==
  Straight /\ open_mode = "IO" /\ last_record_index # NoIndex =>
    /\ Off(last_record_index, last_record_len) + last_record_len <= Len(Bytes)
    /\ Slot(Bytes, last_record_len, last_record_index) = current

Positions == Bookkeeping /\ HandleCounted /\ CurrentInSlot

(* READ delivers the record cursor counts, and makes it the current one.   *)
LEMMA ReadWholeIs ==
  ASSUME Positions, Straight, NEW n \in use.lens, ReadWhole(n)
  PROVE  LET l == ReadLen(n)
         IN  /\ l \in use.lens /\ l \in Nat /\ l > 0
             /\ handle = Off(cursor, l) /\ handle' = Off(cursor', l)
             /\ Off(cursor, l) + l <= Len(Bytes)
             /\ current' = Slot(Bytes, l, cursor)
             /\ fixed_record_len # NoLen => l = fixed_record_len
<1> DEFINE l == ReadLen(n)
<1> USE DEF Positions, Bookkeeping, BookkeepingAgrees, TypeOK
<1>1. use.lens \subseteq Nat \ {0}
  BY UseIs
<1>2. /\ l \in use.lens /\ l \in Nat /\ l > 0
      /\ fixed_record_len # NoLen => l = fixed_record_len
  BY <1>1 DEF ReadLen
<1>3. /\ open_mode \in {"INPUT", "IO"} /\ handle \in Nat
      /\ handle + l <= Len(Bytes) /\ Len(Bytes) \in Nat
      /\ cursor' = cursor + 1 /\ handle' = handle + l
      /\ current' = SubSeq(Bytes, handle + 1, handle + l)
  BY BytesAre DEF ReadWhole, CanRead, Cell
<1> HIDE DEF l
<1>4. handle = Off(cursor, l)
  <2>1. ~(handle >= Len(Bytes))
    BY <1>2, <1>3
  <2>2. Off(0, l) = 0
    BY <1>2, OffZero
  <2> QED  BY <1>2, <1>3, <2>1, <2>2 DEF HandleCounted
<1>5. Off(cursor', l) = Off(cursor, l) + l
  BY <1>2, <1>3, OffNext
<1>6. Slot(Bytes, l, cursor) =
        SubSeq(Bytes, Off(cursor, l) + 1, Off(cursor, l) + l)
  BY <1>2, SlotIs
<1> QED  BY <1>2, <1>3, <1>4, <1>5, <1>6 DEF l

(* Bytes added at the end leave the slots where they are.                  *)
LEMMA AppendedSlot ==
  ASSUME NEW d \in Seq(Cell), NEW b \in Seq(Cell), NEW n \in Nat, n > 0,
         NEW i \in Nat, Off(i, n) + n <= Len(d)
  PROVE  /\ Off(i, n) + n <= Len(d \o b)
         /\ Slot(d \o b, n, i) = Slot(d, n, i)
<1> DEFINE e == d \o b
           off == Off(i, n)
<1>1. /\ e \in Seq(Cell) /\ Len(e) = Len(d) + Len(b)
      /\ \A k \in 1..Len(d) : e[k] = d[k]
  BY AppendedIs
<1>o. off \in Nat
  BY OffType
<1>2. off \in Nat /\ Len(d) \in Nat /\ Len(b) \in Nat /\ off + n <= Len(d)
  BY <1>o
<1> HIDE DEF e, off
<1>3. off + n <= Len(e) /\ \A k \in 1..n : e[off + k] = d[off + k]
  BY <1>1, <1>2
<1>4. /\ Off(i, n) + n <= Len(e) /\ Off(i, n) + n <= Len(d)
      /\ \A k \in 1..n : e[Off(i, n) + k] = d[Off(i, n) + k]
  BY <1>3 DEF off
<1>5. d \in Seq(Cell) /\ e \in Seq(Cell) /\ n \in Nat /\ n > 0 /\ i \in Nat
  BY <1>1
<1>6. Slot(e, n, i) = Slot(d, n, i)
  BY ONLY <1>4, <1>5, SlotEqual
<1> QED  BY <1>4, <1>6 DEF e

(* Every request keeps the handle and the current record in their places,  *)
(* for a program that does not mix its updates.                            *)
LEMMA PositionsStep == Positions /\ [Next]_vars => Positions'
<1> SUFFICES ASSUME Positions, [Next]_vars PROVE Positions'
  OBVIOUS
<1>b. Bookkeeping /\ Bookkeeping'
  BY BookkeepingStep DEF Positions
<1> SUFFICES ASSUME Straight PROVE HandleCounted' /\ CurrentInSlot'
  <2>1. use' = use
    BY UseStays
  <2> QED  BY <1>b, <2>1 DEF Positions, HandleCounted, CurrentInSlot, Straight
<1>1. /\ Bytes \in Seq(Cell) /\ Len(Bytes) \in Nat
      /\ Bytes' \in Seq(Cell) /\ Len(Bytes') \in Nat
  BY <1>b, BytesAre, DiskStep, BytesStep
     DEF Bookkeeping, BookkeepingAgrees, TypeOK, Cell
<1>2. disk' = disk => Bytes' = Bytes
  BY DEF Bytes
<1>3. ~use.errors
  BY DEF Straight
<1>4. ASSUME UNCHANGED <<use, disk, handle, open_mode, cursor,
                         last_record_index, last_record_len,
                         fixed_record_len, current>>
      PROVE  HandleCounted' /\ CurrentInSlot'
  BY <1>2, <1>4 DEF Positions, HandleCounted, CurrentInSlot, Straight
<1>5. ASSUME NEW m \in {"INPUT", "OUTPUT", "IO", "EXTEND"}, Open(m)
      PROVE  HandleCounted' /\ CurrentInSlot'
  <2>1. /\ \/ open_mode' = "CLOSED"
           \/ open_mode' = m /\ handle' = StartPosition(m)
        /\ cursor' = 0 /\ last_record_index' = NoIndex
    <3>1. /\ \/ open_mode' = "CLOSED"
             \/ open_mode' = m /\ handle' = StartPosition(m)
          /\ OpenResets
      BY <1>b, <1>5, OpenEffect
    <3> QED  BY <3>1 DEF OpenResets, Forget
  <2>2. m \in {"INPUT", "IO"} => StartPosition(m) = 0
    BY DEF StartPosition
  <2> QED  BY <2>1, <2>2 DEF HandleCounted, CurrentInSlot
<1>6. ASSUME NEW n \in use.lens, Read(n)
      PROVE  HandleCounted' /\ CurrentInSlot'
  <2>1. CASE ReadRefused(n)
    BY <1>4, <2>1 DEF ReadRefused
  <2>2. CASE ReadWhole(n)
    <3> DEFINE l == ReadLen(n)
    <3>1. /\ l \in Nat /\ l > 0 /\ l # NoLen /\ handle' = Off(cursor', l)
          /\ Off(cursor, l) + l <= Len(Bytes)
          /\ current' = Slot(Bytes, l, cursor)
      BY <2>2, ReadWholeIs DEF NoLen
    <3>2. /\ fixed_record_len' = l /\ last_record_len' = l
          /\ last_record_index' = cursor /\ cursor' = cursor + 1
          /\ disk' = disk
      BY <2>2 DEF ReadWhole
    <3> QED  BY <3>1, <3>2, <1>2 DEF HandleCounted, CurrentInSlot
  <2>3. CASE ReadAtEnd(n)
    BY <1>2, <2>3
       DEF ReadAtEnd, Forget, Positions, HandleCounted, CurrentInSlot, Straight
  <2>4. CASE ReadPartial(n)
    <3>1. handle' = Len(Bytes) /\ disk' = disk /\ last_record_index' = NoIndex
      BY <2>4 DEF ReadPartial, Forget
    <3> QED  BY <1>1, <1>2, <3>1 DEF HandleCounted, CurrentInSlot
  <2> QED  BY <1>3, <1>6, <2>1, <2>2, <2>3, <2>4 DEF Read, ReadIoError
<1>7. ASSUME NEW r \in Record, Write(r)
      PROVE  HandleCounted' /\ CurrentInSlot'
  <2>1. CASE WriteRefused(r)
    BY <1>4, <2>1 DEF WriteRefused
  <2>2. CASE WriteOk(r)
    <3>1. r \in Seq(Cell) /\ Len(r) \in Nat
      BY <1>b, RecordIs DEF Bookkeeping, BookkeepingAgrees, TypeOK
    <3>2. /\ disk' = Bytes \o r /\ handle' = Len(Bytes) + Len(r)
          /\ open_mode' = open_mode /\ use' = use /\ current' = current
          /\ last_record_index' = last_record_index
          /\ last_record_len' = last_record_len
          /\ open_mode \in {"OUTPUT", "IO", "EXTEND"}
          /\ open_mode = "IO" => "write" \in use.verbs
      BY <2>2 DEF WriteOk, CanWrite, UsesIo
    <3>3. /\ Bytes' = Bytes \o r /\ Len(Bytes') = Len(Bytes) + Len(r)
      <4>1. disk' \in Seq(Cell) /\ Len(disk') = Len(Bytes) + Len(r)
        BY <1>1, <3>1, <3>2, AppendedIs
      <4> QED  BY <4>1, <3>2, BytesNext
    <3>4. CurrentInSlot'
      <4>1. SUFFICES ASSUME open_mode = "IO", last_record_index # NoIndex
                     PROVE  /\ Off(last_record_index, last_record_len)
                                 + last_record_len <= Len(Bytes')
                            /\ Slot(Bytes', last_record_len, last_record_index)
                                 = current
        BY <3>2 DEF CurrentInSlot
      <4>2. /\ Off(last_record_index, last_record_len) + last_record_len
                 <= Len(Bytes)
            /\ Slot(Bytes, last_record_len, last_record_index) = current
        BY <4>1 DEF Positions, CurrentInSlot
      <4>3. /\ last_record_index \in Nat
            /\ last_record_len \in Nat /\ last_record_len > 0
        BY <4>1, <1>b, CurrentIs
      <4> QED  BY <1>1, <3>1, <3>3, <4>2, <4>3, AppendedSlot
    <3>5. HandleCounted'
      BY <1>1, <3>1, <3>2, <3>3 DEF HandleCounted, Straight
    <3> QED  BY <3>4, <3>5
  <2> QED  BY <1>3, <1>7, <2>1, <2>2 DEF Write, WriteIoError
<1>8. ASSUME NEW r \in Record, Rewrite(r)
      PROVE  HandleCounted' /\ CurrentInSlot'
  <2>1. CASE RewriteRefused(r)
    BY <1>4, <2>1 DEF RewriteRefused
  <2>2. CASE RewriteOk(r)
    <3> DEFINE x == last_record_index
               n == last_record_len
    <3>1. /\ open_mode = "IO" /\ x # NoIndex /\ Len(r) = RewriteLen(r)
          /\ "rewrite" \in use.verbs
          /\ handle' = RewriteOffset(r) + Len(r)
          /\ last_record_index' = NoIndex
          /\ cursor' = cursor /\ fixed_record_len' = fixed_record_len
      BY <2>2 DEF RewriteOk, CanRewrite, UsesIo, Forget
    <3>2. /\ RewriteLen(r) = n /\ RewriteOffset(r) = Off(x, n)
          /\ n = fixed_record_len /\ n \in Nat /\ n # NoLen /\ x \in Nat
      BY <3>1, <1>b, CurrentIs DEF NoLen
    <3>3. cursor = x + 1
      BY <3>1 DEF Positions, HandleCounted, Straight
    <3>4. handle' = Off(cursor', fixed_record_len')
      BY <3>1, <3>2, <3>3, OffNext
    <3> QED  BY <3>1, <3>2, <3>4 DEF HandleCounted, CurrentInSlot
  <2> QED  BY <1>3, <1>8, <2>1, <2>2 DEF Rewrite, RewriteIoError
<1>9. CASE Delete
  <2>1. CASE DeleteRefused
    BY <1>4, <2>1 DEF DeleteRefused
  <2>2. CASE DeleteOutside
    <3>1. /\ handle' = Len(Bytes) /\ disk' = disk
          /\ UNCHANGED <<use, open_mode, cursor, last_record_index,
                         last_record_len, current>>
      BY <2>2 DEF DeleteOutside
    <3> QED  BY <1>1, <1>2, <3>1
             DEF Positions, HandleCounted, CurrentInSlot, Straight
  <2>3. CASE DeleteOk
    <3>1. /\ last_record_index' = NoIndex /\ CanDelete
          /\ disk' = CutAt(Bytes, DeleteOffset, DeleteLen)
          /\ handle' = Len(Bytes) - DeleteLen
          /\ DeleteOffset + DeleteLen <= Len(Bytes)
      BY <2>3 DEF DeleteOk, Forget
    <3>2. DeleteLen \in Nat /\ DeleteOffset \in Nat
      BY <3>1, <1>b, CurrentIs DEF CanDelete
    <3>3. disk' \in Seq(Cell) /\ Len(disk') = Len(Bytes) - DeleteLen
      BY <1>1, <3>1, <3>2, CutAtIs
    <3>4. handle' = Len(Bytes')
      BY <3>1, <3>3, BytesNext
    <3> QED  BY <1>1, <3>1, <3>4 DEF HandleCounted, CurrentInSlot
  <2> QED  BY <1>3, <1>9, <2>1, <2>2, <2>3 DEF Delete, DeleteIoError
<1>10. CASE Close \/ ResetLifecycle
  BY <1>10 DEF Close, ResetLifecycle, HandleCounted, CurrentInSlot
<1>11. CASE UNCHANGED vars
  BY <1>4, <1>11 DEF vars
<1> QED  BY <1>5, <1>6, <1>7, <1>8, <1>9, <1>10, <1>11 DEF Next

(* The file before it is used has neither a handle nor a current record.   *)
LEMMA InitPositions == Init => Positions
  BY InitBookkeeping DEF Init, Positions, HandleCounted, CurrentInSlot

(* Both positions hold throughout.                                         *)
LEMMA PositionsHold == Spec => []Positions
  BY InitPositions, PositionsStep, PTL DEF Spec

(* For every file and every record length: what REWRITE would replace and  *)
(* DELETE remove is what the last READ delivered, for every program that   *)
(* does not mix WRITE and REWRITE in I-O mode.                             *)
THEOREM CurrentIsAlwaysOnDisk == Spec => []CurrentIsOnDiskUnlessMixed
<1>1. ASSUME Positions PROVE CurrentIsOnDiskUnlessMixed
  <2>1. SUFFICES ASSUME Straight, open_mode = "IO",
                        last_record_index # NoIndex
        PROVE  /\ (last_record_index + 1) * last_record_len <= Len(Bytes)
               /\ Slot(Bytes, last_record_len, last_record_index) = current
    BY DEF CurrentIsOnDiskUnlessMixed, CurrentIsOnDisk, Straight
  <2>2. /\ Off(last_record_index, last_record_len) + last_record_len
             <= Len(Bytes)
        /\ Slot(Bytes, last_record_len, last_record_index) = current
    BY <1>1, <2>1 DEF Positions, CurrentInSlot
  <2>3. last_record_index \in Nat /\ last_record_len \in Nat
    BY <1>1, <2>1, CurrentIs DEF Positions
  <2>4. Off(last_record_index + 1, last_record_len) =
          Off(last_record_index, last_record_len) + last_record_len
    BY <2>3, OffNext
  <2>5. Off(last_record_index + 1, last_record_len) <= Len(Bytes)
    BY <2>2, <2>4
  <2> QED  BY <2>2, <2>5 DEF Off
<1> QED  BY <1>1, PositionsHold, PTL

-----------------------------------------------------------------------------
(* How the handle is found again by counting records.                      *)

(* For updates by REWRITE alone the handle is at the record cursor counts, *)
(* or at the end after a READ met a last record cut short; READ has told   *)
(* of the end only at the end.                                             *)
HandleLocated ==
  use.verbs \subseteq {"rewrite"} /\ ~use.errors
    /\ open_mode \in {"INPUT", "IO"} /\ fixed_record_len # NoLen =>
    /\ \/ handle = Off(cursor, fixed_record_len)
       \/ /\ handle = Len(Bytes) /\ last_record_index = NoIndex
          /\ Off(cursor, fixed_record_len) < Len(Bytes)
          /\ Len(Bytes) < Off(cursor, fixed_record_len) + fixed_record_len
    /\ last_status = "10" => handle >= Len(Bytes)

Located == Positions /\ HandleLocated

(* A length the program reads with.                                        *)
LEMMA FixedLen ==
  ASSUME Bookkeeping, fixed_record_len # NoLen
  PROVE  fixed_record_len \in Nat /\ fixed_record_len > 0
  BY UseIs DEF Bookkeeping, BookkeepingAgrees, TypeOK

(* Every request of such a program keeps the handle located.               *)
LEMMA LocatedStep == Located /\ [Next]_vars => Located'
<1> SUFFICES ASSUME Located, [Next]_vars PROVE Located'
  OBVIOUS
<1>p. Positions /\ Positions' /\ Bookkeeping /\ Bookkeeping'
  BY PositionsStep DEF Located, Positions
<1>u. use' = use
  BY UseStays
<1> SUFFICES ASSUME use.verbs \subseteq {"rewrite"}, ~use.errors,
                    open_mode' \in {"INPUT", "IO"}, fixed_record_len' # NoLen
             PROVE  HandleLocated'
  BY <1>p, <1>u DEF Located, HandleLocated
<1>s. Straight
  BY DEF Straight
<1>1. Len(Bytes) \in Nat /\ handle \in Nat \cup {NoHandle} /\ cursor \in Nat
  BY <1>p, BytesAre DEF Bookkeeping, BookkeepingAgrees, TypeOK, Cell
<1>2. disk' = disk => Bytes' = Bytes
  BY DEF Bytes
<1>3. ASSUME UNCHANGED <<disk, handle, open_mode, cursor, last_record_index,
                         fixed_record_len>>,
             last_status' # "10" \/ last_status' = last_status
      PROVE  HandleLocated'
  BY <1>2, <1>3, <1>u DEF Located, HandleLocated
<1>4. ASSUME NEW m \in {"INPUT", "OUTPUT", "IO", "EXTEND"}, Open(m)
      PROVE  HandleLocated'
  <2>1. /\ \/ open_mode' = "CLOSED"
           \/ open_mode' = m /\ handle' = StartPosition(m)
        /\ last_status' # "10" /\ OpenResets
    BY <1>4, <1>p, OpenEffect
  <2>2. cursor' = 0 /\ handle' = 0
    BY <2>1 DEF StartPosition, OpenResets
  <2>3. Off(cursor', fixed_record_len') = 0
    <3>1. fixed_record_len' \in Nat
      BY <1>p, UseIs DEF Bookkeeping, BookkeepingAgrees, TypeOK
    <3> QED  BY <2>2, <3>1, OffZero
  <2> QED  BY <2>1, <2>2, <2>3 DEF HandleLocated
<1>5. ASSUME NEW n \in use.lens, Read(n) PROVE HandleLocated'
  <2>1. CASE ReadRefused(n)
    BY <1>3, <2>1 DEF ReadRefused, Refused
  <2>2. CASE ReadWhole(n)
    <3>1. handle' = Off(cursor', ReadLen(n))
      BY <1>p, <1>s, <2>2, ReadWholeIs
    <3>2. fixed_record_len' = ReadLen(n) /\ last_status' = "00"
      BY <2>2 DEF ReadWhole
    <3> QED  BY <3>1, <3>2 DEF HandleLocated
  <2>3. CASE ReadAtEnd(n)
    <3>1. /\ UNCHANGED <<use, disk, handle, open_mode, cursor,
                         fixed_record_len>>
          /\ last_record_index' = NoIndex /\ handle >= Len(Bytes)
      BY <2>3 DEF ReadAtEnd, Forget
    <3> QED  BY <1>2, <3>1 DEF Located, HandleLocated
  <2>4. CASE ReadPartial(n)
    <3>1. /\ handle' = Len(Bytes) /\ disk' = disk /\ cursor' = cursor
          /\ last_record_index' = NoIndex /\ last_status' # "10"
          /\ fixed_record_len' = fixed_record_len /\ open_mode' = open_mode
          /\ handle < Len(Bytes) /\ handle + fixed_record_len > Len(Bytes)
      BY <2>4 DEF ReadPartial, Forget, Refused, ReadLen
    <3>2. handle = Off(cursor, fixed_record_len)
      BY <3>1, <1>1 DEF Located, HandleLocated, NoHandle
    <3> QED  BY <1>2, <3>1, <3>2 DEF HandleLocated
  <2> QED  BY <1>5, <2>1, <2>2, <2>3, <2>4 DEF Read, ReadIoError
<1>6. ASSUME NEW r \in Record, Write(r) PROVE HandleLocated'
  <2>1. open_mode' = open_mode
    BY <1>6 DEF Write, WriteRefused, WriteOk, WriteIoError
  <2>2. ~CanWrite(r)
    BY <2>1 DEF CanWrite, UsesIo
  <2>3. WriteRefused(r)
    BY <1>6, <2>2 DEF Write, WriteOk, WriteIoError
  <2> QED  BY <1>3, <2>3 DEF WriteRefused, Refused
<1>7. ASSUME NEW r \in Record, Rewrite(r) PROVE HandleLocated'
  <2>1. CASE RewriteRefused(r)
    BY <1>3, <2>1 DEF RewriteRefused, Refused
  <2>2. CASE RewriteOk(r)
    <3> DEFINE x == last_record_index
               n == last_record_len
    <3>1. /\ open_mode = "IO" /\ x # NoIndex /\ Len(r) = RewriteLen(r)
          /\ handle' = RewriteOffset(r) + Len(r) /\ last_status' = "00"
          /\ cursor' = cursor /\ fixed_record_len' = fixed_record_len
      BY <2>2 DEF RewriteOk, CanRewrite
    <3>2. /\ RewriteLen(r) = n /\ RewriteOffset(r) = Off(x, n)
          /\ n = fixed_record_len /\ n \in Nat /\ x \in Nat
      BY <3>1, <1>p, CurrentIs
    <3>3. cursor = x + 1
      BY <1>p, <1>s, <3>1 DEF Positions, HandleCounted
    <3>4. handle' = Off(cursor', fixed_record_len')
      BY <3>1, <3>2, <3>3, OffNext
    <3> QED  BY <3>1, <3>4 DEF HandleLocated
  <2> QED  BY <1>7, <2>1, <2>2 DEF Rewrite, RewriteIoError
<1>8. CASE Delete
  <2>1. open_mode' = open_mode
    BY <1>8 DEF Delete, DeleteRefused, DeleteOutside, DeleteOk, DeleteIoError
  <2>2. CanDelete => ~UsesIo("delete")
    BY DEF CanDelete, UsesIo
  <2>3. DeleteRefused
    BY <1>8, <2>2 DEF Delete, DeleteOutside, DeleteOk, DeleteIoError
  <2> QED  BY <1>3, <2>3 DEF DeleteRefused, Refused
<1>9. CASE Close \/ ResetLifecycle
  BY <1>9 DEF Close, ResetLifecycle
<1>10. CASE UNCHANGED vars
  BY <1>3, <1>10 DEF vars
<1> QED  BY <1>4, <1>5, <1>6, <1>7, <1>8, <1>9, <1>10 DEF Next

(* The handle is located throughout.                                       *)
LEMMA LocatedHolds == Spec => []Located
<1>1. Init => Located
  BY InitPositions DEF Init, Located, HandleLocated
<1> QED  BY <1>1, LocatedStep, PTL DEF Spec

(* For every file and every record length: for updates by REWRITE alone    *)
(* cursor finds the handle, unless the last record is cut short, and the   *)
(* end is reported after the last whole record.                            *)
THEOREM CursorAlwaysLocatesHandle == Spec => []CursorLocatesHandle
<1>1. ASSUME Located PROVE CursorLocatesHandle
  <2>1. SUFFICES ASSUME use.verbs \subseteq {"rewrite"}, ~use.errors,
                        open_mode \in {"INPUT", "IO"},
                        fixed_record_len # NoLen
        PROVE  /\ \/ handle = cursor * fixed_record_len
                  \/ handle = Len(Bytes) /\ Len(Bytes) % fixed_record_len # 0
               /\ last_status = "10" =>
                    Len(Bytes) < (cursor + 1) * fixed_record_len
    BY DEF CursorLocatesHandle
  <2> DEFINE f   == fixed_record_len
             l   == Len(Bytes)
             off == Off(cursor, f)
  <2>2. Bookkeeping
    BY <1>1 DEF Located, Positions
  <2>3. l \in Nat /\ cursor \in Nat /\ f \in Nat /\ f > 0
    BY <2>1, <2>2, FixedLen, BytesAre
       DEF Bookkeeping, BookkeepingAgrees, TypeOK, Cell
  <2>4. off \in Nat /\ Off(cursor + 1, f) = off + f
    BY <2>3, OffType, OffNext
  <2>5. /\ handle = off \/ (handle = l /\ off < l /\ l < off + f)
        /\ last_status = "10" => handle >= l
    BY <1>1, <2>1 DEF Located, HandleLocated
  <2>6. off < l /\ l < off + f => l % f # 0
    <3>1. ASSUME off < l, l < off + f PROVE l % f # 0
      <4> HIDE DEF l, f
      <4>1. l \div f = cursor
        BY <2>3, <2>4, <3>1, DivIs
      <4>2. l % f = 0 => l = Off(l \div f, f)
        BY <2>3, DivProperties
      <4>3. l # Off(cursor, f)
        BY <2>3, <2>4, <3>1
      <4> QED  BY <4>1, <4>2, <4>3
    <3> QED  BY <3>1
  <2>7. last_status = "10" => l < Off(cursor + 1, f)
    BY <2>3, <2>4, <2>5
  <2>8. off = cursor * f /\ Off(cursor + 1, f) = (cursor + 1) * f
    BY DEF Off
  <2> QED  BY <2>5, <2>6, <2>7, <2>8
<1> QED  BY <1>1, LocatedHolds, PTL

-----------------------------------------------------------------------------
(* The file as the abstract SequentialFile: RefinesSequentialFile.         *)

(* The whole records of the bytes d.                                       *)
Recs(d, n) == [i \in 1..(Len(d) \div n) |-> Slot(d, n, i - 1)]

(* There are as many as there are slots, each is what its slot holds.      *)
LEMMA RecsAre ==
  ASSUME NEW d \in Seq(Cell), NEW n \in Nat, n > 0
  PROVE  /\ Len(d) \div n \in Nat
         /\ Recs(d, n) \in Seq(Seq(Cell))
         /\ Len(Recs(d, n)) = Len(d) \div n
         /\ \A i \in 1..(Len(d) \div n) : Recs(d, n)[i] = Slot(d, n, i - 1)
<1> DEFINE q == Len(d) \div n
<1>0. Len(d) \in Nat
  OBVIOUS
<1>1. q \in Nat
  BY <1>0, DivProperties
<1>2. \A i \in 1..q : Slot(d, n, i - 1) \in Seq(Cell)
  <2>1. SUFFICES ASSUME NEW i \in 1..q PROVE Slot(d, n, i - 1) \in Seq(Cell)
    OBVIOUS
  <2> DEFINE j == i - 1
             off == Off(j, n)
  <2>2. j \in Nat /\ j \in Slots(d, n)
    BY <1>1 DEF Slots
  <2>3. off \in Nat /\ off + n <= Len(d)
    BY <2>2, OffType, SlotsAre
  <2>4. Slot(d, n, j) = SubSeq(d, off + 1, off + n)
    BY <2>2, SlotIs
  <2> HIDE DEF off
  <2>5. SubSeq(d, off + 1, off + n) \in Seq(Cell)
    BY <2>3
  <2> QED  BY <2>4, <2>5
<1> HIDE DEF q
<1> DEFINE f(i) == Slot(d, n, i - 1)
           c == [i \in 1..q |-> f(i)]
<1>3. \A i \in 1..q : f(i) \in Seq(Cell)
  BY <1>2
<1>4. Recs(d, n) = c
  BY DEF Recs, q
<1> HIDE DEF f
<1>5. /\ c \in Seq(Seq(Cell)) /\ Len(c) = q
      /\ \A i \in 1..q : c[i] = f(i)
  BY <1>1, <1>3
<1> HIDE DEF c
<1> QED  BY <1>1, <1>4, <1>5 DEF f, q

(* A record added at the end of whole records is one record more.          *)
LEMMA RecsAppend ==
  ASSUME NEW d \in Seq(Cell), NEW n \in Nat, n > 0, Len(d) % n = 0,
         NEW r \in Seq(Cell), Len(r) = n
  PROVE  Recs(d \o r, n) = Append(Recs(d, n), r)
<1> DEFINE q == Len(d) \div n
           e == d \o r
           s == Recs(d, n)
           t == Recs(e, n)
           u == Append(s, r)
<1>0. Len(d) \in Nat
  OBVIOUS
<1>a. q \in Nat /\ Len(d) = Off(q, n)
  BY <1>0, DivProperties
<1>1. /\ q \in Nat /\ Len(d) = Off(q, n) /\ Off(q, n) \in Nat
      /\ Off(q + 1, n) = Off(q, n) + n
  <2> HIDE DEF q
  <2> QED  BY <1>a, OffType, OffNext
<1>2. /\ e \in Seq(Cell) /\ Len(e) = Len(d) + n
      /\ \A i \in 1..n : e[Len(d) + i] = r[i]
  BY AppendedIs
<1>3. Len(e) \div n = q + 1
  <2> HIDE DEF q, e
  <2>1. Len(e) = Off(q + 1, n) /\ q + 1 \in Nat /\ Len(e) \in Nat
    BY <1>1, <1>2
  <2> QED  BY <2>1, DivIs
<1>4. /\ s \in Seq(Seq(Cell)) /\ Len(s) = q
      /\ \A i \in 1..q : s[i] = Slot(d, n, i - 1)
  BY RecsAre
<1>5. /\ t \in Seq(Seq(Cell)) /\ Len(t) = q + 1
      /\ \A i \in 1..(q + 1) : t[i] = Slot(e, n, i - 1)
  <2> HIDE DEF e, q
  <2>1. /\ t \in Seq(Seq(Cell)) /\ Len(t) = Len(e) \div n
        /\ \A i \in 1..(Len(e) \div n) : t[i] = Slot(e, n, i - 1)
    BY <1>2, RecsAre
  <2> HIDE DEF t
  <2> QED  BY <1>3, <2>1
<1>6. \A i \in 1..q : Slot(e, n, i - 1) = Slot(d, n, i - 1)
  <2>1. SUFFICES ASSUME NEW i \in 1..q
                 PROVE  Slot(e, n, i - 1) = Slot(d, n, i - 1)
    OBVIOUS
  <2>2. i - 1 \in Nat /\ i - 1 \in Slots(d, n)
    BY <1>1 DEF Slots
  <2>3. Off(i - 1, n) + n <= Len(d)
    BY <2>2, SlotsAre
  <2> QED  BY <2>2, <2>3, AppendedSlot
<1>7. Slot(e, n, q) = r
  <2> DEFINE off == Off(q, n)
  <2>1. Slot(e, n, q) = SubSeq(e, off + 1, off + n)
    BY <1>1, SlotIs
  <2>2. /\ off \in Nat /\ off + n <= Len(e)
        /\ \A i \in 1..n : e[off + i] = r[i]
    BY <1>1, <1>2
  <2> HIDE DEF off, e
  <2>3. /\ SubSeq(e, off + 1, off + n) \in Seq(Cell)
        /\ Len(SubSeq(e, off + 1, off + n)) = n
        /\ \A i \in 1..n : SubSeq(e, off + 1, off + n)[i] = r[i]
    BY <1>2, <2>2
  <2> DEFINE v == SubSeq(e, off + 1, off + n)
  <2> HIDE DEF v
  <2>4. v \in Seq(Cell) /\ Len(v) = n /\ \A i \in 1..n : v[i] = r[i]
    BY <2>3 DEF v
  <2>5. v = r
    BY <2>4, SeqEqual
  <2> QED  BY <2>1, <2>5 DEF v
<1> HIDE DEF s, t, e, q
<1>8. /\ u \in Seq(Seq(Cell)) /\ Len(u) = q + 1
      /\ \A i \in 1..q : u[i] = s[i]
      /\ u[q + 1] = r
  BY <1>1, <1>4, AppendProperties
<1> HIDE DEF u
<1>9. \A i \in 1..(q + 1) : t[i] = u[i]
  <2>1. SUFFICES ASSUME NEW i \in 1..(q + 1) PROVE t[i] = u[i]
    OBVIOUS
  <2>2. CASE i = q + 1
    BY <1>1, <1>5, <1>7, <1>8, <2>2
  <2>3. CASE i \in 1..q
    BY <1>1, <1>4, <1>5, <1>6, <1>8, <2>3
  <2> QED  BY <1>1, <2>1, <2>2, <2>3
<1>10. t = u
  BY <1>5, <1>8, <1>9, SeqEqual
<1> QED  BY <1>10 DEF t, u, s, e

(* The records s with r in the place of record x + 1.                      *)
Replaced(s, x, r) == [s EXCEPT ![x + 1] = r]

(* A record put into slot x replaces record x + 1.                         *)
LEMMA RecsPut ==
  ASSUME NEW d \in Seq(Cell), NEW n \in Nat, n > 0,
         NEW r \in Seq(Cell), Len(r) = n,
         NEW x \in Nat, Off(x, n) + n <= Len(d)
  PROVE  Recs(PutAt(d, Off(x, n), r), n) = Replaced(Recs(d, n), x, r)
<1> DEFINE q == Len(d) \div n
           off == Off(x, n)
           p == PutAt(d, off, r)
           s == Recs(d, n)
           t == Recs(p, n)
           u == [s EXCEPT ![x + 1] = r]
<1>o. Len(d) \in Nat /\ off \in Nat
  BY OffType
<1>a. x \in Slots(d, n) /\ Len(d) \in Nat /\ off \in Nat
  BY <1>o, SlotsAre
<1>1. /\ x \in Slots(d, n) /\ Len(d) \in Nat /\ q \in Nat /\ off \in Nat
  BY <1>a, DivProperties
<1>2. /\ p \in Seq(Cell) /\ Len(p) = Len(d)
      /\ \A i \in 1..n : p[off + i] = r[i]
  <2>1. off + Len(r) <= Len(d)
    OBVIOUS
  <2> QED  BY <1>1, <2>1, PutAtIs
<1>3. /\ s \in Seq(Seq(Cell)) /\ Len(s) = q
      /\ \A i \in 1..q : s[i] = Slot(d, n, i - 1)
  BY RecsAre
<1>4. /\ t \in Seq(Seq(Cell)) /\ Len(t) = q
      /\ \A i \in 1..q : t[i] = Slot(p, n, i - 1)
  BY <1>2, RecsAre
<1>5. x + 1 \in 1..q
  BY <1>1 DEF Slots
<1>6. \A i \in 1..q : i # x + 1 => Slot(p, n, i - 1) = Slot(d, n, i - 1)
  <2>1. SUFFICES ASSUME NEW i \in 1..q, i # x + 1
                 PROVE  Slot(p, n, i - 1) = Slot(d, n, i - 1)
    OBVIOUS
  <2>2. i - 1 \in Slots(d, n) /\ i - 1 # x
    BY <1>1, <2>1 DEF Slots
  <2> QED  BY <2>2, PutAtSlots
<1>7. Slot(p, n, x) = r
  <2>1. Slot(p, n, x) = SubSeq(p, off + 1, off + n)
    BY SlotIs
  <2>2. off + n <= Len(p)
    BY <1>2
  <2> HIDE DEF off, p
  <2> DEFINE v == SubSeq(p, off + 1, off + n)
  <2>3. /\ v \in Seq(Cell) /\ Len(v) = n
        /\ \A i \in 1..n : v[i] = r[i]
    BY <1>1, <1>2, <2>2
  <2> HIDE DEF v
  <2>4. v = r
    BY <2>3, SeqEqual
  <2> QED  BY <2>1, <2>4 DEF v
<1> HIDE DEF p, s, t, q
<1>8. /\ u \in Seq(Seq(Cell)) /\ Len(u) = q
      /\ \A i \in 1..q : u[i] = IF i = x + 1 THEN r ELSE s[i]
  BY <1>1, <1>3, <1>5
<1> HIDE DEF u
<1>9. \A i \in 1..q : t[i] = u[i]
  <2>1. SUFFICES ASSUME NEW i \in 1..q PROVE t[i] = u[i]
    OBVIOUS
  <2>2. CASE i = x + 1
    <3>1. i - 1 = x
      BY <2>2
    <3> QED  BY <1>4, <1>7, <1>8, <2>2, <3>1
  <2>3. CASE i # x + 1
    BY <1>3, <1>4, <1>6, <1>8, <2>3
  <2> QED  BY <2>2, <2>3
<1>10. t = u
  BY <1>4, <1>8, <1>9, SeqEqual
<1> QED  BY <1>10 DEF t, u, s, p, Replaced

\* What the refinement maps the file to.
Content == Recs(Bytes, RecLen)
NextOf == IF open_mode \in {"INPUT", "IO"} THEN handle \div RecLen ELSE 0
LastOf == IF open_mode = "CLOSED" THEN NoIndex ELSE last_record_index

(* The requests of the abstract file, in these words.  OPEN:               *)
LEMMA AbstractOpen ==
  ASSUME NEW m \in {"INPUT", "OUTPUT", "IO", "EXTEND"}, open_mode' = m,
         Content' = IF m = "OUTPUT" THEN <<>> ELSE Content,
         NextOf' = 0, LastOf' = NoIndex, last_status' = "00", got' = {}
  PROVE  File!Open(m)
  BY Zenon DEF File!Open, Content, Recs, NextOf, LastOf, NoIndex,
               File!NoRecord

(* A READ that delivers a record.                                          *)
LEMMA AbstractRead ==
  ASSUME open_mode \in {"INPUT", "IO"}, NextOf < Len(Content),
         got' = {Content[NextOf + 1]}, NextOf' = NextOf + 1,
         LastOf' = NextOf, last_status' = "00",
         Content' = Content, open_mode' = open_mode
  PROVE  File!Read
  BY Zenon DEF File!Read, File!ReadModes, Content, Recs, NextOf, LastOf

(* A READ at the end.                                                      *)
LEMMA AbstractReadAtEnd ==
  ASSUME open_mode \in {"INPUT", "IO"}, NextOf >= Len(Content),
         LastOf' = NoIndex, last_status' = "10", got' = {},
         Content' = Content, open_mode' = open_mode, NextOf' = NextOf
  PROVE  File!ReadAtEnd
  BY Zenon DEF File!ReadAtEnd, File!ReadModes, Content, Recs, NextOf, LastOf,
               NoIndex, File!NoRecord

(* WRITE.                                                                  *)
LEMMA AbstractWrite ==
  ASSUME NEW r, open_mode \in {"OUTPUT", "IO", "EXTEND"},
         Content' = Append(Content, r), last_status' = "00", got' = {},
         open_mode' = open_mode, NextOf' = NextOf, LastOf' = LastOf
  PROVE  File!Write(r)
  BY Zenon DEF File!Write, File!WriteModes, Content, Recs, NextOf, LastOf

(* REWRITE.                                                                *)
LEMMA AbstractRewrite ==
  ASSUME NEW r, open_mode = "IO", LastOf # NoIndex,
         Content' = [Content EXCEPT ![LastOf + 1] = r],
         LastOf' = NoIndex, last_status' = "00", got' = {},
         open_mode' = open_mode, NextOf' = NextOf
  PROVE  File!Rewrite(r)
  BY Zenon DEF File!Rewrite, Content, Recs, NextOf, LastOf, NoIndex,
               File!NoRecord

(* CLOSE and the reset of an INITIAL program.                              *)
LEMMA AbstractClose ==
  ASSUME open_mode' = "CLOSED", NextOf' = 0, LastOf' = NoIndex,
         last_status' \in {"00", last_status}, got' = {},
         Content' = Content
  PROVE  File!Close
  BY Zenon DEF File!Close, Content, Recs, NextOf, LastOf, NoIndex,
               File!NoRecord

(* A request turned down.                                                  *)
LEMMA AbstractRefuse ==
  ASSUME last_status' \in {"30", "35", "37", "90"}, got' = {},
         \/ open_mode' = "CLOSED" /\ NextOf' = 0 /\ LastOf' = NoIndex
         \/ /\ open_mode' = open_mode /\ NextOf' = NextOf
            /\ LastOf' \in {LastOf, NoIndex},
         Content' = Content
  PROVE  File!Refuse
  BY Zenon DEF File!Refuse, File!Refusals, Content, Recs, NextOf, LastOf,
               NoIndex, File!NoRecord

(* What KeepsToRewrite says of the file: one length, whole records, and    *)
(* the handle before the record cursor counts whenever a READ can succeed. *)
LEMMA WholeFile ==
  ASSUME Located, KeepsToRewrite
  PROVE  /\ RecLen \in Nat /\ RecLen > 0 /\ use.lens = {RecLen}
         /\ Straight /\ Bookkeeping /\ Positions
         /\ Bytes \in Seq(Cell) /\ Len(Bytes) \in Nat
         /\ Len(Bytes) % RecLen = 0
         /\ Len(Bytes) = Off(Len(Bytes) \div RecLen, RecLen)
         /\ Len(Bytes) \div RecLen \in Nat
         /\ Len(Content) = Len(Bytes) \div RecLen
         /\ \A n \in use.lens : ReadLen(n) = RecLen
<1>1. Bookkeeping /\ Positions
  BY DEF Located, Positions
<1>2. RecLen \in use.lens /\ use.lens = {RecLen}
  BY DEF KeepsToRewrite
<1>3. RecLen \in Nat /\ RecLen > 0
  BY <1>1, <1>2, UseIs DEF Bookkeeping, BookkeepingAgrees, TypeOK
<1>4. Bytes \in Seq(Cell) /\ Len(Bytes) \in Nat
  BY <1>1, BytesAre DEF Bookkeeping, BookkeepingAgrees, TypeOK, Cell
<1>5. Len(Bytes) % RecLen = 0
  <2>1. CASE disk = NoFile
    <3>1. Len(Bytes) = 0
      BY <2>1 DEF Bytes
    <3> HIDE DEF RecLen
    <3> QED  BY <1>3, <3>1
  <2>2. CASE disk # NoFile
    BY <2>2 DEF Bytes, KeepsToRewrite
  <2> QED  BY <2>1, <2>2
<1>6. /\ Len(Bytes) \div RecLen \in Nat
      /\ Len(Bytes) = Off(Len(Bytes) \div RecLen, RecLen)
  BY <1>3, <1>4, <1>5, DivProperties
<1>7. Len(Content) = Len(Bytes) \div RecLen
  BY <1>3, <1>4, RecsAre DEF Content
<1>8. Straight
  BY DEF KeepsToRewrite, Straight
<1>9. \A n \in use.lens : ReadLen(n) = RecLen
  BY <1>1, <1>2 DEF ReadLen, Bookkeeping
<1> QED  BY <1>1, <1>2, <1>3, <1>4, <1>5, <1>6, <1>7, <1>8, <1>9

(* The reading position of a handle that is before record c.               *)
LEMMA HandleNext ==
  ASSUME NEW c \in Nat, NEW n \in Nat, n > 0
  PROVE  Off(c, n) \div n = c
<1>1. Off(c, n) \in Nat
  BY OffType
<1> QED  BY <1>1, DivIs

(* An earlier offset is in an earlier or the same record.                  *)
LEMMA DivMono ==
  ASSUME NEW x \in Nat, NEW y \in Nat, NEW n \in Nat, n > 0, x <= y
  PROVE  x \div n <= y \div n
<1> DEFINE a == x \div n
           b == y \div n
<1>1. a \in Nat /\ Off(a, n) <= x
  BY DivProperties
<1>2. b \in Nat /\ y < Off(b, n) + n
  BY DivProperties
<1> HIDE DEF a, b
<1>3. b < a => Off(b, n) + n <= Off(a, n)
  BY <1>1, <1>2, OffApart
<1>4. Off(a, n) \in Nat /\ Off(b, n) \in Nat
  BY <1>1, <1>2, OffType
<1>5. a <= b
  BY <1>1, <1>2, <1>3, <1>4
<1> QED  BY <1>5 DEF a, b

(* OPEN of such a file.                                                    *)
LEMMA OpenRefines ==
  ASSUME Located, KeepsToRewrite, NEW m \in {"INPUT", "OUTPUT", "IO", "EXTEND"},
         Open(m)
  PROVE  File!Next
<1>1. /\ RecLen \in Nat /\ RecLen > 0 /\ Bookkeeping
      /\ RecLen' = RecLen /\ ~use.errors
  BY WholeFile DEF RecLen, KeepsToRewrite, Open, OpenNotAllowed, OpenMissing,
     OpenIoError, OpenOk, OpenFails, OpenResets
<1>2. Bytes \in Seq(Cell)
  BY WholeFile
<1>3. CASE OpenOk(m)
  <2>1. /\ open_mode' = m /\ last_status' = "00" /\ got' = {}
        /\ last_record_index' = NoIndex /\ handle' = StartPosition(m)
        /\ disk' = CASE m = "OUTPUT" -> <<>> [] m = "EXTEND" -> Bytes
                     [] OTHER -> disk
    BY <1>3 DEF OpenOk, OpenResets, Forget
  <2>2. Bytes' = IF m = "OUTPUT" THEN <<>> ELSE Bytes
    <3>1. CASE m = "OUTPUT"
      <4>1. disk' = <<>> /\ disk' \in Seq(Cell)
        BY <2>1, <3>1
      <4> QED  BY <3>1, <4>1, BytesNext
    <3>2. CASE m = "EXTEND"
      <4>1. disk' = Bytes
        BY <2>1, <3>2
      <4> QED  BY <1>2, <3>2, <4>1, BytesNext
    <3>3. CASE m \in {"INPUT", "IO"}
      <4>1. disk' = disk
        BY <2>1, <3>3
      <4> QED  BY <3>3, <4>1 DEF Bytes
    <3> QED  BY <3>1, <3>2, <3>3
  <2>3. Recs(<<>>, RecLen) = <<>>
    <3>1. Len(<<>>) \div RecLen = 0
      <4> HIDE DEF RecLen
      <4> QED  BY <1>1
    <3> QED  BY <3>1 DEF Recs
  <2>4. Content' = IF m = "OUTPUT" THEN <<>> ELSE Content
    BY <1>1, <2>2, <2>3 DEF Content
  <2>5. NextOf' = 0
    <3>1. m \in {"INPUT", "IO"} => handle' = 0
      BY <2>1 DEF StartPosition
    <3>2. 0 \div RecLen = 0
      <4> HIDE DEF RecLen
      <4> QED  BY <1>1
    <3> QED  BY <1>1, <2>1, <3>1, <3>2 DEF NextOf
  <2>6. LastOf' = NoIndex
    BY <2>1 DEF LastOf
  <2>7. File!Open(m)
    BY <2>1, <2>4, <2>5, <2>6, AbstractOpen
  <2> QED  BY <2>7 DEF File!Next, File!OpenModes
<1>4. CASE OpenNotAllowed(m) \/ OpenMissing(m)
  <2>1. /\ open_mode' = "CLOSED" /\ last_status' \in {"35", "90"}
        /\ got' = {} /\ disk' = disk
    BY <1>4 DEF OpenNotAllowed, OpenMissing, OpenFails, OpenResets
  <2>2. Content' = Content /\ NextOf' = 0 /\ LastOf' = NoIndex
    BY <1>1, <2>1 DEF Content, Bytes, NextOf, LastOf
  <2>3. File!Refuse
    BY <2>1, <2>2, AbstractRefuse
  <2> QED  BY <2>3 DEF File!Next
<1> QED  BY <1>1, <1>3, <1>4 DEF Open, OpenIoError

(* A request that is turned down.                                          *)
LEMMA RefusalRefines ==
  ASSUME Refused("90"),
         UNCHANGED <<use, disk, handle, open_mode, last_record_index>>
  PROVE  File!Next
<1>1. /\ last_status' = "90" /\ got' = {} /\ open_mode' = open_mode
      /\ Content' = Content /\ NextOf' = NextOf /\ LastOf' = LastOf
  BY DEF Refused, Content, Bytes, RecLen, NextOf, LastOf
<1>2. File!Refuse
  BY <1>1, AbstractRefuse
<1> QED  BY <1>2 DEF File!Next

(* READ of such a file: never a part of a record.                          *)
LEMMA ReadRefines ==
  ASSUME Located, KeepsToRewrite, NEW n \in use.lens, Read(n)
  PROVE  File!Next
<1> DEFINE R == RecLen
           q == Len(Bytes) \div RecLen
<1>1. /\ R \in Nat /\ R > 0 /\ Bookkeeping /\ Positions /\ Straight
      /\ Bytes \in Seq(Cell) /\ Len(Bytes) \in Nat /\ q \in Nat
      /\ Len(Bytes) = Off(q, R) /\ Len(Content) = q /\ ReadLen(n) = R
  BY WholeFile
<1>2. /\ cursor \in Nat /\ handle \in Nat \cup {NoHandle}
      /\ R' = R /\ ~use.errors /\ disk' = disk /\ open_mode' = open_mode
  BY <1>1 DEF Bookkeeping, BookkeepingAgrees, TypeOK, RecLen, KeepsToRewrite,
     Read, ReadRefused, ReadWhole, ReadAtEnd, ReadPartial, ReadIoError
<1>3. Content' = Content
  BY <1>2 DEF Content, Bytes
<1>4. CASE ReadRefused(n)
  BY <1>4, RefusalRefines DEF ReadRefused
<1>5. CASE ReadWhole(n)
  <2>1. /\ open_mode \in {"INPUT", "IO"} /\ cursor' = cursor + 1
        /\ last_record_index' = cursor /\ last_status' = "00"
        /\ got' = {current'}
    BY <1>5 DEF ReadWhole, CanRead
  <2>2. /\ handle = Off(cursor, R) /\ handle' = Off(cursor', R)
        /\ Off(cursor, R) + R <= Len(Bytes)
        /\ current' = Slot(Bytes, R, cursor)
    BY <1>1, <1>5, ReadWholeIs
  <2>3. cursor \in Slots(Bytes, R)
    BY <1>1, <1>2, <2>2, SlotsAre
  <2>4. NextOf = cursor
    BY <1>1, <1>2, <2>1, <2>2, HandleNext DEF NextOf
  <2>5. NextOf' = cursor + 1
    <3>1. cursor + 1 \in Nat /\ handle' = Off(cursor + 1, R)
      BY <1>2, <2>1, <2>2
    <3>2. handle' \div R = cursor + 1
      BY <1>1, <3>1, HandleNext
    <3> QED  BY <1>2, <2>1, <3>2 DEF NextOf
  <2>6. cursor < q
    BY <1>1, <1>2, <2>3 DEF Slots
  <2>7. Content[cursor + 1] = Slot(Bytes, R, cursor)
    <3>1. cursor + 1 \in 1..q
      BY <1>1, <1>2, <2>6
    <3>2. Content[cursor + 1] = Slot(Bytes, R, (cursor + 1) - 1)
      BY <1>1, <3>1, RecsAre DEF Content
    <3>3. (cursor + 1) - 1 = cursor
      BY <1>2
    <3> QED  BY <3>2, <3>3
  <2>8. LastOf' = cursor
    BY <1>2, <2>1 DEF LastOf
  <2> HIDE DEF R, q
  <2>9. File!Read
    BY <1>1, <1>2, <1>3, <2>1, <2>2, <2>4, <2>5, <2>6, <2>7, <2>8,
       AbstractRead
  <2> QED  BY <2>9 DEF File!Next
<1>6. CASE ReadAtEnd(n)
  <2>1. /\ open_mode \in {"INPUT", "IO"} /\ handle >= Len(Bytes)
        /\ handle # NoHandle /\ handle' = handle
        /\ last_record_index' = NoIndex /\ last_status' = "10" /\ got' = {}
    BY <1>6 DEF ReadAtEnd, CanRead, Refused, Forget
  <2>2. handle \div R >= q
    <3>1. handle \in Nat /\ Len(Bytes) <= handle
      BY <1>1, <1>2, <2>1
    <3>2. Len(Bytes) \div R <= handle \div R
      BY <1>1, <3>1, DivMono
    <3>3. handle \div R \in Nat
      BY <1>1, <3>1, DivProperties
    <3> QED  BY <1>1, <3>2, <3>3
  <2>3. NextOf >= Len(Content) /\ NextOf' = NextOf /\ LastOf' = NoIndex
    BY <1>1, <1>2, <2>1, <2>2 DEF NextOf, LastOf
  <2>4. File!ReadAtEnd
    BY <1>2, <1>3, <2>1, <2>3, AbstractReadAtEnd
  <2> QED  BY <2>4 DEF File!Next
<1>7. CASE ReadPartial(n)
  <2>1. /\ open_mode \in {"INPUT", "IO"} /\ handle # NoHandle
        /\ handle < Len(Bytes) /\ handle + R > Len(Bytes)
    BY <1>1, <1>7 DEF ReadPartial, CanRead
  <2>2. handle = Off(cursor, R)
    <3>1. \/ handle = 0 /\ cursor = 0
          \/ /\ fixed_record_len # NoLen
             /\ handle = Off(cursor, fixed_record_len)
      BY <1>1, <1>2, <2>1 DEF Positions, HandleCounted, NoHandle
    <3>2. fixed_record_len # NoLen => fixed_record_len = R
      BY <1>1 DEF ReadLen
    <3>3. Off(0, R) = 0
      BY <1>1, OffZero
    <3> QED  BY <3>1, <3>2, <3>3
  <2>3. q <= cursor
    <3>1. cursor < q => Off(cursor, R) + R <= Off(q, R)
      BY <1>1, <1>2, OffApart
    <3> HIDE DEF q, R
    <3> QED  BY <1>1, <1>2, <2>1, <2>2, <3>1
  <2>4. Off(q, R) <= Off(cursor, R)
    <3>1. q = cursor \/ q < cursor
      BY <1>1, <1>2, <2>3
    <3>2. q < cursor => Off(q, R) + R <= Off(cursor, R)
      BY <1>1, <1>2, OffApart
    <3>3. Off(q, R) \in Nat /\ Off(cursor, R) \in Nat
      BY <1>1, <1>2, OffType
    <3> HIDE DEF q, R
    <3> QED  BY <1>1, <3>1, <3>2, <3>3
  <2> HIDE DEF q, R
  <2> QED  BY <1>1, <1>2, <2>1, <2>2, <2>4
<1> QED  BY <1>2, <1>4, <1>5, <1>6, <1>7 DEF Read, ReadIoError

(* WRITE to such a file, open OUTPUT or EXTEND.                            *)
LEMMA WriteRefines ==
  ASSUME Located, KeepsToRewrite, NEW r \in Record, Write(r)
  PROVE  File!Next
<1> DEFINE R == RecLen
<1>1. /\ R \in Nat /\ R > 0 /\ Bookkeeping /\ use.lens = {R}
      /\ Bytes \in Seq(Cell) /\ Len(Bytes) % R = 0 /\ ~use.errors
      /\ use.verbs \subseteq {"rewrite"} /\ use \in Profiles
  BY WholeFile DEF KeepsToRewrite, Bookkeeping, BookkeepingAgrees, TypeOK
<1>2. r \in Seq(Cell) /\ Len(r) = R /\ r \in AnyRecord
  <2>1. r \in Seq(Cell) /\ Len(r) \in use.lens
    BY <1>1, RecordIs
  <2>2. r \in AnyRecord
    BY <1>1 DEF Record, AnyRecord
  <2> QED  BY <1>1, <2>1, <2>2
<1>3. CASE WriteRefused(r)
  BY <1>3, RefusalRefines DEF WriteRefused
<1>4. CASE WriteOk(r)
  <2>1. /\ open_mode \in {"OUTPUT", "EXTEND"} /\ disk' = Bytes \o r
        /\ last_status' = "00" /\ got' = {} /\ open_mode' = open_mode
        /\ last_record_index' = last_record_index /\ use' = use
    BY <1>1, <1>4 DEF WriteOk, CanWrite, UsesIo
  <2>2. R' = R
    BY <2>1 DEF RecLen
  <2>3. Bytes' = Bytes \o r
    <3>1. disk' \in Seq(Cell)
      BY <1>1, <1>2, <2>1, AppendedIs
    <3> QED  BY <2>1, <3>1, BytesNext
  <2>4. Recs(Bytes \o r, R) = Append(Recs(Bytes, R), r)
    <3> HIDE DEF R
    <3> QED  BY <1>1, <1>2, RecsAppend
  <2>5. Content' = Append(Content, r)
    BY <2>2, <2>3, <2>4 DEF Content
  <2>6. NextOf' = NextOf /\ LastOf' = LastOf
    BY <2>1 DEF NextOf, LastOf
  <2>7. File!Write(r)
    BY <2>1, <2>5, <2>6, AbstractWrite
  <2> QED  BY <1>2, <2>7 DEF File!Next
<1> QED  BY <1>1, <1>3, <1>4 DEF Write, WriteIoError

(* REWRITE in such a file: the current record is replaced in its place.    *)
LEMMA RewriteRefines ==
  ASSUME Located, KeepsToRewrite, NEW r \in Record, Rewrite(r)
  PROVE  File!Next
<1> DEFINE R == RecLen
           x == last_record_index
<1>1. /\ R \in Nat /\ R > 0 /\ Bookkeeping /\ use.lens = {R} /\ Straight
      /\ Positions /\ Bytes \in Seq(Cell) /\ ~use.errors /\ use \in Profiles
      /\ use.verbs \subseteq {"rewrite"}
  BY WholeFile DEF KeepsToRewrite, Bookkeeping, BookkeepingAgrees, TypeOK
<1>2. r \in Seq(Cell) /\ Len(r) = R /\ r \in AnyRecord
  <2>1. r \in Seq(Cell) /\ Len(r) \in use.lens
    BY <1>1, RecordIs
  <2>2. r \in AnyRecord
    BY <1>1 DEF Record, AnyRecord
  <2> QED  BY <1>1, <2>1, <2>2
<1>3. CASE RewriteRefused(r)
  BY <1>3, RefusalRefines DEF RewriteRefused
<1>4. CASE RewriteOk(r)
  <2>1. /\ open_mode = "IO" /\ x # NoIndex
        /\ disk' = PutAt(Bytes, RewriteOffset(r), r)
        /\ handle' = RewriteOffset(r) + Len(r)
        /\ last_record_index' = NoIndex
        /\ last_status' = "00" /\ got' = {} /\ open_mode' = open_mode
        /\ use' = use
    BY <1>4 DEF RewriteOk, CanRewrite, Forget
  <2>2. /\ x \in Nat /\ last_record_len = R /\ fixed_record_len = R
        /\ RewriteOffset(r) = Off(x, R)
    BY <1>1, <2>1, CurrentIs
  <2>3. Off(x, R) + R <= Len(Bytes)
    BY <1>1, <2>1, <2>2 DEF Positions, CurrentInSlot
  <2>4. /\ Recs(PutAt(Bytes, Off(x, R), r), R) =
             Replaced(Recs(Bytes, R), x, r)
        /\ PutAt(Bytes, Off(x, R), r) \in Seq(Cell)
    <3>1. Off(x, R) \in Nat
      BY <1>1, <2>2, OffType
    <3>2. /\ R \in Nat /\ R > 0 /\ x \in Nat /\ Bytes \in Seq(Cell)
          /\ r \in Seq(Cell) /\ Len(r) = R
      BY <1>1, <1>2, <2>2
    <3> HIDE DEF R, x
    <3>3. Recs(PutAt(Bytes, Off(x, R), r), R) = Replaced(Recs(Bytes, R), x, r)
      BY ONLY <2>3, <3>2, RecsPut
    <3>4. PutAt(Bytes, Off(x, R), r) \in Seq(Cell)
      BY ONLY <3>1, <3>2, PutAtIs
    <3> QED  BY <3>3, <3>4
  <2>5. R' = R
    BY <2>1 DEF RecLen
  <2>6. Bytes' = PutAt(Bytes, Off(x, R), r)
    BY <2>1, <2>2, <2>4, BytesNext
  <2>7. Content' = [Content EXCEPT ![x + 1] = r]
    BY <2>4, <2>5, <2>6 DEF Content, Replaced
  <2>8. handle' = handle
    <3>1. handle = Off(cursor, R)
      BY <1>1, <2>1, <2>2
         DEF Located, HandleLocated, Bookkeeping, BookkeepingAgrees
    <3>2. cursor = x + 1
      BY <1>1, <2>1 DEF Positions, HandleCounted
    <3>3. Off(x + 1, R) = Off(x, R) + R
      BY <1>1, <2>2, OffNext
    <3> QED  BY <1>2, <2>1, <2>2, <3>1, <3>2, <3>3
  <2>9. NextOf' = NextOf /\ LastOf' = NoIndex /\ LastOf = x
    BY <2>1, <2>5, <2>8 DEF NextOf, LastOf
  <2>10. File!Rewrite(r)
    BY <2>1, <2>7, <2>9, AbstractRewrite
  <2> QED  BY <1>2, <2>10 DEF File!Next
<1> QED  BY <1>1, <1>3, <1>4 DEF Rewrite, RewriteIoError

(* Every request of a program that updates by REWRITE alone, on a file of  *)
(* whole records of one length, is a request on the abstract file.         *)
LEMMA StepRefines ==
  ASSUME Located, KeepsToRewrite, [Next]_vars
  PROVE  File!Next \/ UNCHANGED File!vars
<1>1. ASSUME Delete PROVE File!Next
  <2>1. CanDelete => ~UsesIo("delete")
    BY DEF CanDelete, UsesIo, KeepsToRewrite
  <2>2. DeleteRefused
    BY <1>1, <2>1 DEF Delete, DeleteOutside, DeleteOk, DeleteIoError
  <2> QED  BY <2>2, RefusalRefines DEF DeleteRefused
<1>2. ASSUME Close \/ ResetLifecycle PROVE File!Next
  <2>1. /\ open_mode' = "CLOSED" /\ last_status' \in {"00", last_status}
        /\ got' = {} /\ disk' = disk /\ use' = use
    BY <1>2 DEF Close, ResetLifecycle
  <2>2. Content' = Content /\ NextOf' = 0 /\ LastOf' = NoIndex
    BY <2>1 DEF Content, Bytes, RecLen, NextOf, LastOf
  <2>3. File!Close
    BY <2>1, <2>2, AbstractClose
  <2> QED  BY <2>3 DEF File!Next
<1>3. CASE UNCHANGED vars
  <2>1. UNCHANGED File!vars
    BY <1>3 DEF vars, File!vars, Bytes, RecLen
  <2> QED  BY <2>1
<1> QED  BY <1>1, <1>2, <1>3, OpenRefines, ReadRefines, WriteRefines,
            RewriteRefines DEF Next

(* A file of the operating system implements the abstract sequential file  *)
(* step by step, for such a program and for every length and content.      *)
THEOREM OsFileRefines == Spec => RefinesSequentialFile
<1>1. Located /\ [Next]_vars =>
        [KeepsToRewrite => File!Next \/ UNCHANGED File!vars]_vars
  BY StepRefines
<1> QED  BY <1>1, LocatedHolds, PTL DEF Spec, RefinesSequentialFile
=============================================================================
