------------------------ MODULE BatchDecode_proofs ------------------------
(***************************************************************************)
(* The batch commands of cobol-packed, for every job: whatever the input,  *)
(* the layout, the policy, the sink, the limit and the rows that records   *)
(* decode to.                                                              *)
(*                                                                         *)
(* The argument is one invariant, IInv, in three parts:                    *)
(*   Inv       the counters of the audit add up, and so do the rows held   *)
(*             back and written;                                           *)
(*   Situated  what is left to read is the end of the input, so that the   *)
(*             next record, as the command cuts it, is the next frame, as  *)
(*             the definition of the frames cuts it;                       *)
(*   InStep    of the frames up to idx, the rows are written and counted;  *)
(*             of the one in progress, those that are not pending.         *)
(* OutputIsOfInput alone is not inductive: it says nothing of where the    *)
(* command is in its input, nor that the rows pending are the last ones of *)
(* the frame in progress.                                                  *)
(*                                                                         *)
(* The frames are defined by recursion along the input (a stream) and by   *)
(* counting (lines); what is used of them is shown first, by the least     *)
(* number where it could fail.  A set S of rows stands for all rows there  *)
(* may be, and is given at the end.                                        *)
(*                                                                         *)
(* Then follows one packed field, whose digits are taken off a number in   *)
(* the order opposite to the one that put them on, and in the last section *)
(* the fields of one record.                                               *)
(***************************************************************************)
EXTENDS BatchOutput, RecordFields, SequenceTheorems, FiniteSetTheorems,
        WellFoundedInduction, TLAPS

-----------------------------------------------------------------------------
\* Induction, over a set of numbers: a set of them has a least one,
LEMMA LeastNat ==
  ASSUME NEW T \in SUBSET Nat, T # {}
  PROVE  \E n \in T : \A m \in T : n <= m
<1> DEFINE R == OpToRel(<, Nat)
<1>1. IsWellFoundedOn(R, Nat)
  BY NatLessThanWellFounded
<1>2. \A x, y \in Nat : x < y => <<x, y>> \in R
  BY DEF OpToRel
<1> HIDE DEF R
<1>3. PICK x \in T : \A y \in T : ~ (<<y, x>> \in R)
  BY <1>1, WFMin
<1>4. ASSUME NEW y \in T PROVE x <= y
  <2>1. ~(y < x)
    BY <1>2, <1>3
  <2> QED  BY <2>1
<1> QED  BY <1>4

\* so that what holds of 0 and passes on to the next holds up to n.
LEMMA UpTo ==
  ASSUME NEW n \in Nat, NEW T, 0 \in T,
         \A k \in 0..n : k \in T /\ k < n => k + 1 \in T
  PROVE  \A k \in 0..n : k \in T
<1> DEFINE Rest == {k \in 0..n : k \notin T}
<1>1. SUFFICES ASSUME Rest # {} PROVE FALSE
  OBVIOUS
<1>2. Rest \in SUBSET Nat
  OBVIOUS
<1> HIDE DEF Rest
<1>3. PICK k \in Rest : \A m \in Rest : k <= m
  BY <1>1, <1>2, LeastNat
<1> USE DEF Rest
<1>4. k \in 0..n /\ k # 0
  OBVIOUS
<1>5. k - 1 \in 0..n /\ ~(k <= k - 1)
  BY <1>4
<1>6. k - 1 \in T
  BY <1>3, <1>5
<1>7. k - 1 < n /\ (k - 1) + 1 = k
  BY <1>4
<1> QED  BY <1>5, <1>6, <1>7

\* A function of 0..n given by its first value b and its steps G.
Steppers(n, X) == [X -> [1..n -> X]]

Stepped(n, X, b, G, f) == /\ f \in [0..n -> X] /\ f[0] = b
                          /\ \A i \in 1..n : f[i] = G[f[i - 1]][i]

\* There is such a function.
LEMMA StepsExist ==
  ASSUME NEW n \in Nat, NEW X, NEW b \in X, NEW G \in Steppers(n, X)
  PROVE  \E f : Stepped(n, X, b, G, f)
<1> USE DEF Steppers
<1> DEFINE Begun(f, k) == /\ f \in [0..k -> X] /\ f[0] = b
                         /\ \A i \in 1..k : f[i] = G[f[i - 1]][i]
           T == {k \in 0..n : \E f : Begun(f, k)}
<1>1. 0 \in T
  <2>1. Begun([i \in 0..0 |-> b], 0)
    OBVIOUS
  <2>2. 0 \in 0..n
    OBVIOUS
  <2> HIDE DEF Begun
  <2> QED  BY <2>1, <2>2
<1>2. ASSUME NEW k \in 0..n, k \in T, k < n
      PROVE  k + 1 \in T
  <2>1. PICK f : Begun(f, k)
    BY <1>2
  <2> DEFINE g == [i \in 0..(k + 1) |-> IF i = k + 1 THEN G[f[k]][i] ELSE f[i]]
  <2>2. k + 1 \in 1..n /\ f[k] \in X
    BY <1>2, <2>1
  <2>3. G[f[k]][k + 1] \in X
    BY <2>2
  <2>4. g \in [0..(k + 1) -> X]
    BY <2>1, <2>3
  <2>5. g[0] = b
    BY <2>1
  <2>6. ASSUME NEW i \in 1..(k + 1) PROVE g[i] = G[g[i - 1]][i]
    <3>1. CASE i = k + 1
      <4>1. i - 1 = k /\ i \in 0..(k + 1) /\ k \in 0..(k + 1) /\ k # k + 1
        BY <3>1
      <4> QED  BY <3>1, <4>1
    <3>2. CASE i # k + 1
      <4>1. /\ i \in 1..k /\ i \in 0..(k + 1) /\ i - 1 \in 0..(k + 1)
            /\ i - 1 # k + 1
        BY <3>2
      <4>2. g[i] = f[i] /\ g[i - 1] = f[i - 1]
        BY <3>2, <4>1
      <4> HIDE DEF g
      <4> QED  BY <2>1, <4>1, <4>2
    <3> QED  BY <3>1, <3>2
  <2> HIDE DEF g
  <2>7. Begun(g, k + 1)
    BY <2>4, <2>5, <2>6
  <2>8. k + 1 \in 0..n
    BY <2>2
  <2> HIDE DEF Begun
  <2> QED  BY <2>7, <2>8
<1> HIDE DEF T
<1>3. \A k \in 0..n : k \in T
  BY <1>1, <1>2, UpTo
<1>4. n \in T
  BY <1>3
<1>5. PICK f : Begun(f, n)
  BY <1>4 DEF T
<1> QED  BY <1>5 DEF Stepped

-----------------------------------------------------------------------------
\* A stream.
StreamJob(j) == j \in Jobs /\ j.plan.ok /\ j.encoding = "stream"

\* A position in a stream, or none.
Ends == Nat \cup {RefusedLen}

\* A record ends past its first byte, unless its counter is refused.
LEMMA EndIsAhead ==
  ASSUME NEW j, StreamJob(j), NEW start \in 0 .. Len(j.input)
  PROVE  /\ Len(j.input) \in Nat
         /\ RecordEnd(j, start) \in Ends
         /\ RecordEnd(j, start) = RefusedLen \/ RecordEnd(j, start) > start
<1>1. Len(j.input) \in Nat
  BY JobAssumption DEF StreamJob, IsSequence
<1>2. /\ HeaderOf(j.plan) \in Nat \ {0}
      /\ start + HeaderOf(j.plan) <= Len(j.input) =>
           LengthAt(j, start) \in {RefusedLen} \cup (Nat \ {0})
  BY LengthAssumption DEF StreamJob
<1>3. RefusedLen = -1
  BY DEF RefusedLen
<1> DEFINE head == start + HeaderOf(j.plan)
           length == LengthAt(j, start)
<1>4. RecordEnd(j, start) = IF head > Len(j.input) THEN head
        ELSE IF length = RefusedLen THEN RefusedLen ELSE start + length
  BY DEF RecordEnd
<1>5. CASE head > Len(j.input)
  BY <1>1, <1>2, <1>3, <1>4, <1>5 DEF Ends
<1>6. CASE ~(head > Len(j.input))
  BY <1>1, <1>2, <1>3, <1>4, <1>6 DEF Ends
<1> QED  BY <1>1, <1>5, <1>6

\* The ends of the records are those of their definition.
LEMMA RecordEndsAre ==
  ASSUME NEW j, StreamJob(j)
  PROVE  LET E == RecordEnds(j) IN
         /\ E[0] = 0
         /\ \A i \in 0 .. Len(j.input) : E[i] \in Ends
         /\ \A i \in 1 .. Len(j.input) :
              E[i] = IF Stops(j, E[i - 1]) THEN E[i - 1]
                                           ELSE RecordEnd(j, E[i - 1])
<1> DEFINE n == Len(j.input)
           next(x) == IF Stops(j, x) THEN x ELSE RecordEnd(j, x)
           Is(f) == f = [i \in 0 .. n |->
                           IF i = 0 THEN 0
                           ELSE LET start == f[i - 1]
                                IN  IF Stops(j, start) THEN start
                                    ELSE RecordEnd(j, start)]
           E == CHOOSE f : Is(f)
<1>1. n \in Nat /\ 0 \in Ends
  BY EndIsAhead DEF Ends
<1>2. ASSUME NEW x \in Ends PROVE next(x) \in Ends
  <2>1. CASE Stops(j, x)
    BY <2>1
  <2>2. CASE ~Stops(j, x)
    <3>1. x \in 0 .. n
      BY <1>1, <2>2 DEF Stops, Ends
    <3> QED  BY <2>2, <3>1, EndIsAhead
  <2> QED  BY <2>1, <2>2
<1>3. \E f : Is(f)
  <2> DEFINE G == [x \in Ends |-> [i \in 1 .. n |-> next(x)]]
  <2>1. G \in Steppers(n, Ends)
    BY <1>2 DEF Steppers
  <2> HIDE DEF G
  <2>2. \E f : Stepped(n, Ends, 0, G, f)
    BY ONLY <1>1, <2>1, StepsExist
  <2>3. PICK f : Stepped(n, Ends, 0, G, f)
    BY <2>2
  <2>4. f \in [0 .. n -> Ends] /\ f[0] = 0
        /\ \A i \in 1 .. n : f[i] = G[f[i - 1]][i]
    BY <2>3 DEF Stepped
  <2>5. ASSUME NEW i \in 0 .. n, i # 0 PROVE f[i] = next(f[i - 1])
    <3>1. i \in 1 .. n /\ i - 1 \in 0 .. n
      BY <1>1, <2>5
    <3>2. f[i - 1] \in Ends
      BY <2>4, <3>1
    <3> QED  BY <2>4, <3>1, <3>2 DEF G
  <2>6. Is(f)
    BY <2>4, <2>5
  <2> HIDE DEF Is
  <2> QED  BY <2>6
<1>4. RecordEnds(j) = E
  BY DEF RecordEnds
<1>5. Is(E)
  <2> HIDE DEF Is
  <2> QED  BY <1>3
<1> HIDE DEF E
<1>6. E[0] = 0
  BY <1>1, <1>5
<1>7. ASSUME NEW i \in 1 .. n PROVE E[i] = next(E[i - 1])
  <2>1. i \in 0 .. n /\ i # 0
    OBVIOUS
  <2> QED  BY <1>5, <2>1
<1> HIDE DEF next, Is
<1>8. \A i \in 0 .. n : E[i] \in Ends
  <2> DEFINE T == {i \in 0 .. n : E[i] \in Ends}
  <2>1. 0 \in T
    BY <1>1, <1>6
  <2>2. ASSUME NEW k \in 0 .. n, k \in T, k < n PROVE k + 1 \in T
    <3>1. k + 1 \in 1 .. n /\ (k + 1) - 1 = k /\ k + 1 \in 0 .. n
      BY <1>1, <2>2
    <3>2. E[k + 1] = next(E[k])
      BY <1>7, <3>1
    <3> QED  BY <1>2, <2>2, <3>1, <3>2
  <2> HIDE DEF T
  <2>3. \A k \in 0 .. n : k \in T
    BY ONLY <1>1, <2>1, <2>2, UpTo
  <2> QED  BY <2>3 DEF T
<1> QED  BY <1>4, <1>6, <1>7, <1>8 DEF next

\* Each record ends further on, so that one of them ends the stream.
LEMMA SomeRecordStops ==
  ASSUME NEW j, StreamJob(j)
  PROVE  \E n \in 0 .. Len(j.input) : FirstStop(j, n)
<1> DEFINE L == Len(j.input)
           E == RecordEnds(j)
           T == {i \in 0 .. L : Stops(j, E[i]) \/ E[i] >= i}
           Stopped == {i \in 0 .. L : Stops(j, E[i])}
<1>1. L \in Nat /\ RefusedLen = -1
  BY EndIsAhead DEF RefusedLen
<1>2. /\ E[0] = 0
      /\ \A i \in 0 .. L : E[i] \in Ends
      /\ \A i \in 1 .. L : E[i] = IF Stops(j, E[i - 1]) THEN E[i - 1]
                                   ELSE RecordEnd(j, E[i - 1])
  BY RecordEndsAre
<1> HIDE DEF E
<1>3. 0 \in T
  BY <1>1, <1>2
<1>4. ASSUME NEW k \in 0 .. L, k \in T, k < L PROVE k + 1 \in T
  <2>1. k + 1 \in 1 .. L /\ (k + 1) - 1 = k /\ k + 1 \in 0 .. L
    BY <1>1, <1>4
  <2>2. E[k + 1] = IF Stops(j, E[k]) THEN E[k] ELSE RecordEnd(j, E[k])
    BY <1>2, <2>1
  <2>3. CASE Stops(j, E[k])
    BY <2>1, <2>2, <2>3
  <2>4. CASE ~Stops(j, E[k])
    <3>1. E[k] \in 0 .. L /\ E[k] >= k
      BY <1>1, <1>2, <1>4, <2>4 DEF Stops, Ends
    <3>2. \/ RecordEnd(j, E[k]) = RefusedLen
          \/ RecordEnd(j, E[k]) > E[k] /\ RecordEnd(j, E[k]) \in Nat
      BY <3>1, EndIsAhead DEF Ends
    <3>3. E[k + 1] = RefusedLen => Stops(j, E[k + 1])
      BY DEF Stops
    <3>4. E[k + 1] = RecordEnd(j, E[k])
      BY <2>2, <2>4
    <3> QED  BY <1>1, <2>1, <3>1, <3>2, <3>3, <3>4
  <2> QED  BY <2>3, <2>4
<1> HIDE DEF T
<1>5. \A k \in 0 .. L : k \in T
  BY ONLY <1>1, <1>3, <1>4, UpTo
<1>6. L \in Stopped
  BY <1>1, <1>5 DEF T, Stops
<1>7. PICK n \in Stopped : \A m \in Stopped : n <= m
  <2>1. Stopped \in SUBSET Nat /\ Stopped # {}
    BY <1>1, <1>6
  <2> HIDE DEF Stopped
  <2> QED  BY <2>1, LeastNat
<1>8. ASSUME NEW i \in 0 .. n - 1 PROVE ~Stops(j, E[i])
  BY <1>1, <1>7
<1>9. FirstStop(j, n)
  BY <1>7, <1>8 DEF FirstStop, E
<1> QED  BY <1>7, <1>9

\* It is the one the definition counts up to.
LEMMA CountIs ==
  ASSUME NEW j, StreamJob(j)
  PROVE  /\ StreamCount(j) \in 0 .. Len(j.input)
         /\ FirstStop(j, StreamCount(j))
<1> HIDE DEF FirstStop
<1>1. \E n \in 0 .. Len(j.input) : FirstStop(j, n)
  BY SomeRecordStops
<1> QED  BY <1>1 DEF StreamCount

\* After n records the stream is read up to k, and none of them ended it.
StreamAt(j, n, k) ==
  /\ n \in 0 .. Len(j.input) /\ RecordEnds(j)[n] = k
  /\ \A i \in 0 .. n - 1 : ~Stops(j, RecordEnds(j)[i])

\* Where nothing is left, all records were read.
LEMMA StreamAtEnd ==
  ASSUME NEW j, StreamJob(j), NEW n, NEW k, StreamAt(j, n, k), Stops(j, k)
  PROVE  StreamCount(j) = n
<1> DEFINE c == StreamCount(j)
<1>1. /\ c \in Nat /\ FirstStop(j, c) /\ n \in Nat
      /\ Len(j.input) \in Nat
  BY CountIs, EndIsAhead DEF StreamAt
<1> HIDE DEF c
<1>2. ~(c < n)
  BY <1>1 DEF FirstStop, StreamAt
<1>3. ~(n < c)
  BY <1>1 DEF FirstStop, StreamAt
<1> QED  BY <1>1, <1>2, <1>3 DEF c

\* Before that there is a next one.
LEMMA StreamAtNext ==
  ASSUME NEW j, StreamJob(j), NEW n, NEW k, StreamAt(j, n, k), ~Stops(j, k)
  PROVE  /\ n < StreamCount(j) /\ n + 1 \in 1 .. Len(j.input)
         /\ k \in 0 .. Len(j.input) - 1
         /\ RecordEnds(j)[n] = k
         /\ StreamAt(j, n + 1, RecordEnd(j, k))
<1> DEFINE c == StreamCount(j)
           L == Len(j.input)
           E == RecordEnds(j)
<1>1. /\ c \in 0 .. L /\ FirstStop(j, c) /\ n \in 0 .. L
      /\ L \in Nat
  BY CountIs, EndIsAhead DEF StreamAt
<1> HIDE DEF c
<1>2. ~(c <= n)
  BY <1>1 DEF FirstStop, StreamAt
<1>3. n + 1 \in 1 .. L /\ (n + 1) - 1 = n
  BY <1>1, <1>2
<1>4. E[n + 1] = RecordEnd(j, k)
  BY <1>3, RecordEndsAre DEF StreamAt
<1>5. ASSUME NEW i \in 0 .. (n + 1) - 1 PROVE ~Stops(j, E[i])
  BY <1>1 DEF StreamAt
<1>6. StreamAt(j, n + 1, RecordEnd(j, k))
  BY <1>1, <1>3, <1>4, <1>5 DEF StreamAt
<1>7. k \in Ends
  BY RecordEndsAre DEF StreamAt
<1>8. k \in 0 .. L - 1
  BY <1>1, <1>7 DEF Stops, Ends, RefusedLen
<1> QED  BY <1>1, <1>2, <1>3, <1>6, <1>8 DEF c, StreamAt

-----------------------------------------------------------------------------
\* The rows of the records in order.  A sequence of sequences flattened is
\* the last of its beginnings, each the one before with one more sequence.
LEMMA FlattenedIs ==
  ASSUME NEW X, NEW seqs \in Seq(Seq(X)), NEW h \in [0 .. Len(seqs) -> Seq(X)],
         h[0] = <<>>, \A i \in 1 .. Len(seqs) : h[i] = h[i - 1] \o seqs[i]
  PROVE  FlattenSeq(seqs) = h[Len(seqs)]
<1> DEFINE n == Len(seqs)
           Is(f) == f = [i \in 1 .. n |-> IF i = 1 THEN seqs[i]
                                          ELSE f[i - 1] \o seqs[i]]
           F == CHOOSE f : Is(f)
<1>1. n \in Nat
  OBVIOUS
<1>2. CASE n = 0
  <2>1. seqs = <<>>
    BY <1>2, EmptySeq
  <2> QED  BY <1>2, <2>1 DEF FlattenSeq
<1>3. CASE n # 0
  <2>1. FlattenSeq(seqs) = F[n]
    BY <1>3 DEF FlattenSeq
  <2>2. h[1] = seqs[1]
    <3>1. 1 \in 1 .. n /\ 1 - 1 = 0
      BY <1>1, <1>3
    <3>2. h[1] = h[1 - 1] \o seqs[1]
      BY <3>1
    <3>3. h[1] = <<>> \o seqs[1] /\ seqs[1] \in Seq(X)
      BY <3>1, <3>2, ElementOfSeq
    <3> QED  BY <3>3, ConcatEmptySeq
  <2>3. \E f : Is(f)
    <3> DEFINE g == [i \in 1 .. n |-> h[i]]
    <3>1. ASSUME NEW i \in 1 .. n
          PROVE  g[i] = IF i = 1 THEN seqs[i] ELSE g[i - 1] \o seqs[i]
      <4>1. CASE i = 1
        BY <2>2, <4>1
      <4>2. CASE i # 1
        <5>1. i - 1 \in 1 .. n
          BY <1>1, <4>2
        <5> QED  BY <4>2, <5>1
      <4> QED  BY <4>1, <4>2
    <3>2. Is(g)
      <4>1. g = [i \in 1 .. n |-> g[i]]
        OBVIOUS
      <4> HIDE DEF g
      <4> QED  BY <3>1, <4>1
    <3> HIDE DEF Is, g
    <3> QED  BY <3>2
  <2>4. Is(F)
    <3> HIDE DEF Is
    <3> QED  BY <2>3
  <2> HIDE DEF F
  <2> DEFINE T == {k \in 0 .. n - 1 : F[k + 1] = h[k + 1]}
  <2>5. 0 \in T
    <3>1. 1 \in 1 .. n
      BY <1>1, <1>3
    <3>2. F[1] = seqs[1]
      BY <2>4, <3>1
    <3> QED  BY <1>1, <1>3, <2>2, <3>2
  <2>6. ASSUME NEW k \in 0 .. n - 1, k \in T, k < n - 1 PROVE k + 1 \in T
    <3>1. /\ k + 2 \in 1 .. n /\ k + 2 # 1 /\ (k + 2) - 1 = k + 1
          /\ (k + 1) + 1 = k + 2 /\ k + 1 \in 0 .. n - 1
      BY <1>1, <2>6
    <3>2. F[k + 2] = F[(k + 2) - 1] \o seqs[k + 2]
      BY <2>4, <3>1
    <3>3. h[k + 2] = h[(k + 2) - 1] \o seqs[k + 2]
      BY <3>1
    <3> QED  BY <2>6, <3>1, <3>2, <3>3
  <2> HIDE DEF T, Is
  <2>7. n - 1 \in Nat
    BY <1>1, <1>3
  <2>8. \A k \in 0 .. n - 1 : k \in T
    BY ONLY <2>5, <2>6, <2>7, UpTo
  <2>9. n - 1 \in T /\ (n - 1) + 1 = n
    BY <2>7, <2>8
  <2> QED  BY <2>1, <2>9 DEF T
<1> QED  BY <1>2, <1>3

\* Nothing is passed of no records,
LEMMA OfNone ==
  ASSUME NEW frames
  PROVE  OfFirst(frames, 0) = <<>>
<1> DEFINE seqs == [i \in 1 .. 0 |-> Passed(frames, i)]
<1>1. seqs \in Seq({}) /\ Len(seqs) = 0
  OBVIOUS
<1>2. seqs = <<>>
  BY <1>1, EmptySeq
<1> QED  BY <1>2 DEF OfFirst, FlattenSeq

\* and with each record what is passed of it is added.
LEMMA OfNext ==
  ASSUME NEW X, NEW frames, NEW n \in Nat,
         \A i \in 1 .. n + 1 : Passed(frames, i) \in Seq(X)
  PROVE  /\ OfFirst(frames, n) \in Seq(X)
         /\ OfFirst(frames, n + 1) \in Seq(X)
         /\ OfFirst(frames, n + 1)
              = OfFirst(frames, n) \o Passed(frames, n + 1)
<1> DEFINE G == [x \in Seq(X) |-> [i \in 1 .. n + 1 |->
                                     x \o Passed(frames, i)]]
           some == [i \in 1 .. n |-> Passed(frames, i)]
           more == [i \in 1 .. n + 1 |-> Passed(frames, i)]
<1>1. G \in Steppers(n + 1, Seq(X)) /\ <<>> \in Seq(X) /\ n + 1 \in Nat
  BY DEF Steppers
<1> HIDE DEF G
<1>2. \E f : Stepped(n + 1, Seq(X), <<>>, G, f)
  BY ONLY <1>1, StepsExist
<1>3. PICK h : Stepped(n + 1, Seq(X), <<>>, G, h)
  BY <1>2
<1>4. /\ h \in [0 .. n + 1 -> Seq(X)] /\ h[0] = <<>>
      /\ \A i \in 1 .. n + 1 : h[i] = G[h[i - 1]][i]
  BY <1>3 DEF Stepped
<1>5. ASSUME NEW i \in 1 .. n + 1 PROVE h[i] = h[i - 1] \o Passed(frames, i)
  <2>1. i - 1 \in 0 .. n + 1
    OBVIOUS
  <2>2. h[i - 1] \in Seq(X)
    BY <1>4, <2>1
  <2> QED  BY <1>4, <2>2 DEF G
<1>6. OfFirst(frames, n + 1) = h[n + 1]
  <2>1. more \in Seq(Seq(X)) /\ Len(more) = n + 1
    OBVIOUS
  <2>2. \A i \in 1 .. n + 1 : more[i] = Passed(frames, i)
    OBVIOUS
  <2> HIDE DEF more
  <2>3. /\ h \in [0 .. Len(more) -> Seq(X)] /\ h[0] = <<>>
        /\ \A i \in 1 .. Len(more) : h[i] = h[i - 1] \o more[i]
    BY <1>4, <1>5, <2>1, <2>2
  <2>4. FlattenSeq(more) = h[Len(more)]
    BY ONLY <2>1, <2>3, FlattenedIs
  <2> QED  BY <2>1, <2>4 DEF OfFirst, more
<1>7. OfFirst(frames, n) = h[n]
  <2> DEFINE g == [i \in 0 .. n |-> h[i]]
  <2>1. some \in Seq(Seq(X)) /\ Len(some) = n
    OBVIOUS
  <2>2. \A i \in 1 .. n : some[i] = Passed(frames, i)
    OBVIOUS
  <2>3. g \in [0 .. n -> Seq(X)] /\ g[0] = <<>> /\ g[n] = h[n]
    BY <1>4
  <2>4. ASSUME NEW i \in 1 .. n PROVE g[i] = g[i - 1] \o some[i]
    <3>1. i \in 1 .. n + 1 /\ i \in 0 .. n /\ i - 1 \in 0 .. n
      OBVIOUS
    <3> QED  BY <1>5, <2>2, <3>1
  <2> HIDE DEF some, g
  <2>5. FlattenSeq(some) = g[n]
    BY <2>1, <2>3, <2>4, FlattenedIs
  <2> QED  BY <2>3, <2>5 DEF OfFirst, some
<1>8. h[n] \in Seq(X) /\ h[n + 1] \in Seq(X)
  BY <1>4
<1>9. n + 1 \in 1 .. n + 1 /\ (n + 1) - 1 = n
  OBVIOUS
<1> QED  BY <1>5, <1>6, <1>7, <1>8, <1>9

-----------------------------------------------------------------------------
\* The limit cuts the frames short; those before it stay.
Below(j, n) == ~(j.limit # NoLimit /\ n >= j.limit)

\* What the limit leaves is a beginning of the frames, all of them while the
\* limit is not reached.
LEMMA LimitCuts ==
  ASSUME NEW j \in Jobs, NEW X, NEW frames \in Seq(X)
  PROVE  LET F == UpToLimit(j, frames) IN
         /\ F \in Seq(X) /\ Len(F) <= Len(frames)
         /\ \A i \in 1 .. Len(F) : F[i] = frames[i]
         /\ \A n \in Nat : ~Below(j, n) => Len(F) <= n
         /\ \A n \in Nat : Below(j, n) /\ n < Len(frames) =>
              n < Len(F) /\ (Len(frames) = n + 1 => Len(F) = n + 1)
<1>1. j.limit \in Nat \/ j.limit = NoLimit
  BY JobAssumption
<1>2. Len(frames) \in Nat
  OBVIOUS
<1>3. CASE j.limit # NoLimit /\ j.limit < Len(frames)
  <2>1. UpToLimit(j, frames) = SubSeq(frames, 1, j.limit) /\ j.limit \in Nat
    BY <1>1, <1>3 DEF UpToLimit
  <2>2. \A i \in 1 .. j.limit : frames[i] \in X
    BY <1>2, <1>3, <2>1, ElementOfSeq
  <2>3. /\ SubSeq(frames, 1, j.limit) \in Seq(X)
        /\ Len(SubSeq(frames, 1, j.limit)) = j.limit
        /\ \A i \in 1 .. j.limit : SubSeq(frames, 1, j.limit)[i] = frames[i]
    BY <2>1, <2>2, SubSeqProperties
  <2> DEFINE F == UpToLimit(j, frames)
  <2>4. /\ F \in Seq(X) /\ Len(F) = j.limit
        /\ \A i \in 1 .. j.limit : F[i] = frames[i]
    BY <2>1, <2>3
  <2> HIDE DEF F
  <2>5. \A n \in Nat : Below(j, n) <=> n < Len(F)
    BY <1>3, <2>1, <2>4 DEF Below
  <2> QED  BY <1>2, <1>3, <2>1, <2>4, <2>5 DEF F
<1>4. CASE ~(j.limit # NoLimit /\ j.limit < Len(frames))
  <2>1. UpToLimit(j, frames) = frames
    BY <1>4 DEF UpToLimit
  <2> QED  BY <1>1, <1>2, <1>4, <2>1 DEF Below
<1> QED  BY <1>3, <1>4

-----------------------------------------------------------------------------
\* The next record of a stream has its frame, the last one if it ends the
\* stream.
LEMMA StreamNext ==
  ASSUME NEW j, StreamJob(j), NEW n, NEW k \in 0 .. Len(j.input) - 1,
         StreamAt(j, n, k), Below(j, n)
  PROVE  LET F == FramesOf(j)
             end == RecordEnd(j, k)
         IN  /\ n \in Nat /\ Len(F) \in Nat /\ n < Len(F)
             /\ F[n + 1] = FrameAt(j, k, end)
             /\ Stops(j, end) => Len(F) = n + 1
             /\ StreamAt(j, n + 1, end)
<1> DEFINE frames == StreamFrames(j)
           X == {FrameAt(j, RecordEnds(j)[i - 1], RecordEnds(j)[i]) :
                   i \in 1 .. StreamCount(j)}
<1>1. Len(j.input) \in Nat /\ n \in Nat /\ StreamCount(j) \in Nat
  BY EndIsAhead, CountIs DEF StreamAt
<1>2. ~Stops(j, k)
  BY <1>1 DEF Stops, RefusedLen
<1>3. /\ n < StreamCount(j) /\ RecordEnds(j)[n] = k
      /\ StreamAt(j, n + 1, RecordEnd(j, k))
  BY <1>2, StreamAtNext
<1>4. frames \in Seq(X) /\ Len(frames) = StreamCount(j)
  <2> DEFINE count == StreamCount(j)
  <2>1. frames \in [1 .. count -> X] /\ count \in Nat
    BY <1>1 DEF StreamFrames
  <2> HIDE DEF frames, X, count
  <2>2. frames \in Seq(X) /\ Len(frames) = count
    BY ONLY <2>1
  <2> QED  BY <2>2 DEF count
<1>5. n + 1 \in 1 .. StreamCount(j) /\ (n + 1) - 1 = n
  BY <1>1, <1>3
<1>6. frames[n + 1] = FrameAt(j, k, RecordEnd(j, k))
  BY <1>3, <1>5 DEF StreamFrames, StreamAt
<1>7. FramesOf(j) = UpToLimit(j, frames) /\ j \in Jobs
  BY DEF FramesOf, StreamJob
<1>8. Stops(j, RecordEnd(j, k)) => StreamCount(j) = n + 1
  BY <1>3, StreamAtEnd
<1> HIDE DEF frames, X
<1>9. LET F == FramesOf(j) IN
      /\ Len(F) \in Nat /\ \A i \in 1 .. Len(F) : F[i] = frames[i]
      /\ n < Len(F) /\ (Len(frames) = n + 1 => Len(F) = n + 1)
  BY <1>1, <1>3, <1>4, <1>7, LimitCuts
<1> QED  BY <1>1, <1>3, <1>4, <1>6, <1>8, <1>9

\* Where a stream ends, or the limit is reached, there are no more frames.
LEMMA StreamEnds ==
  ASSUME NEW j, StreamJob(j), NEW n \in Nat,
         ~Below(j, n) \/ StreamAt(j, n, Len(j.input))
  PROVE  Len(FramesOf(j)) <= n
<1> DEFINE frames == StreamFrames(j)
           X == {FrameAt(j, RecordEnds(j)[i - 1], RecordEnds(j)[i]) :
                   i \in 1 .. StreamCount(j)}
<1>1. Len(j.input) \in Nat /\ StreamCount(j) \in Nat
  BY EndIsAhead, CountIs DEF StreamAt
<1>2. frames \in Seq(X) /\ Len(frames) = StreamCount(j)
  <2> DEFINE count == StreamCount(j)
  <2>1. frames \in [1 .. count -> X] /\ count \in Nat
    BY <1>1 DEF StreamFrames
  <2> HIDE DEF frames, X, count
  <2>2. frames \in Seq(X) /\ Len(frames) = count
    BY ONLY <2>1
  <2> QED  BY <2>2 DEF count
<1>3. FramesOf(j) = UpToLimit(j, frames) /\ j \in Jobs
  BY DEF FramesOf, StreamJob
<1> HIDE DEF frames, X
<1>4. Len(FramesOf(j)) \in Nat /\ Len(FramesOf(j)) <= Len(frames)
      /\ (~Below(j, n) => Len(FramesOf(j)) <= n)
  BY <1>2, <1>3, LimitCuts
<1>5. StreamAt(j, n, Len(j.input)) => StreamCount(j) = n
  BY <1>1, StreamAtEnd DEF Stops
<1> QED  BY <1>2, <1>4, <1>5

-----------------------------------------------------------------------------
\* Lines.  Those with a record are finitely many, and counting them up to one
\* of them tells which one it is.
LineJob(j) == j \in Jobs /\ j.plan.ok /\ j.encoding # "stream"

RecordsTo(j, k) == {i \in RecordLines(j) : i <= k}

\* Up to the n-th of them there are n.
LEMMA LinesCount ==
  ASSUME NEW j, LineJob(j)
  PROVE  LET lines == RecordLines(j) IN
         /\ Len(j.input) \in Nat
         /\ IsFiniteSet(lines) /\ Cardinality(lines) \in Nat
         /\ \A k : /\ IsFiniteSet(RecordsTo(j, k))
                   /\ RecordsUpTo(j, k) = Cardinality(RecordsTo(j, k))
                   /\ RecordsUpTo(j, k) \in Nat
                   /\ RecordsUpTo(j, k) <= Cardinality(lines)
         /\ \A k \in lines : RecordsUpTo(j, k) \in 1 .. Cardinality(lines)
         /\ \A k, m \in lines :
              RecordsUpTo(j, k) = RecordsUpTo(j, m) => k = m
<1> DEFINE lines == RecordLines(j)
           To(k) == RecordsTo(j, k)
<1>1. Len(j.input) \in Nat
  BY JobAssumption DEF LineJob, IsSequence
<1>2. IsFiniteSet(lines) /\ Cardinality(lines) \in Nat
  <2>1. IsFiniteSet(1 .. Len(j.input))
    BY <1>1, FS_Interval
  <2>2. lines \in SUBSET (1 .. Len(j.input))
    BY DEF RecordLines
  <2>3. IsFiniteSet(lines)
    BY <2>1, <2>2, FS_Subset
  <2> QED  BY <2>3, FS_CardinalityType
<1>3. lines \in SUBSET Nat
  BY <1>1 DEF RecordLines
<1> HIDE DEF lines
<1>4. ASSUME NEW k
      PROVE  /\ IsFiniteSet(To(k)) /\ RecordsUpTo(j, k) = Cardinality(To(k))
             /\ Cardinality(To(k)) \in Nat
             /\ Cardinality(To(k)) <= Cardinality(lines)
  <2>1. To(k) \in SUBSET lines
    BY DEF RecordsTo, lines
  <2>2. IsFiniteSet(To(k)) /\ Cardinality(To(k)) <= Cardinality(lines)
    BY <1>2, <2>1, FS_Subset
  <2>3. Cardinality(To(k)) \in Nat
    BY <2>2, FS_CardinalityType
  <2>4. RecordsUpTo(j, k) = Cardinality(To(k))
    BY DEF RecordsUpTo, RecordsTo
  <2> QED  BY <2>2, <2>3, <2>4
<1>5. ASSUME NEW k \in lines PROVE RecordsUpTo(j, k) \in 1 .. Cardinality(lines)
  <2>1. k \in To(k)
    BY <1>3 DEF RecordsTo, lines
  <2>2. Cardinality(To(k)) # 0
    <3> HIDE DEF To
    <3> QED  BY <1>4, <2>1, FS_EmptySet
  <2> HIDE DEF To
  <2> QED  BY <1>2, <1>4, <2>2
<1>6. ASSUME NEW k \in lines, NEW m \in lines, k < m
      PROVE  RecordsUpTo(j, k) # RecordsUpTo(j, m)
  <2>1. To(k) \in SUBSET To(m)
    BY <1>3, <1>6 DEF RecordsTo, lines
  <2>2. m \in To(m) /\ m \notin To(k)
    BY <1>3, <1>6 DEF RecordsTo, lines
  <2> HIDE DEF To
  <2>3. Cardinality(To(k)) # Cardinality(To(m))
    BY <1>4, <2>1, <2>2, FS_Subset
  <2> QED  BY <1>4, <2>3
<1>7. ASSUME NEW k \in lines, NEW m \in lines,
             RecordsUpTo(j, k) = RecordsUpTo(j, m)
      PROVE  k = m
  <2>1. ~(k < m) /\ ~(m < k)
    BY <1>6, <1>7
  <2> QED  BY <1>3, <2>1
<1> QED  BY <1>1, <1>2, <1>4, <1>5, <1>7 DEF lines, RecordsTo

\* Every number up to theirs is that of one of them.
LEMMA LinesOnto ==
  ASSUME NEW j, LineJob(j), NEW n \in 1 .. Cardinality(RecordLines(j))
  PROVE  \E k \in RecordLines(j) : RecordsUpTo(j, k) = n
<1> DEFINE lines == RecordLines(j)
           c == Cardinality(lines)
           f == [k \in lines |-> RecordsUpTo(j, k)]
<1>1. IsFiniteSet(lines) /\ c \in Nat
  BY LinesCount
<1>2. f \in Injection(lines, 1 .. c)
  <2>1. /\ \A k \in lines : RecordsUpTo(j, k) \in 1 .. c
        /\ \A k, m \in lines :
              RecordsUpTo(j, k) = RecordsUpTo(j, m) => k = m
    BY LinesCount
  <2> HIDE DEF lines, c
  <2>2. f \in [lines -> 1 .. c]
    BY <2>1
  <2>3. \A k, m \in lines : f[k] = f[m] => k = m
    BY <2>1
  <2> HIDE DEF f
  <2> QED  BY <2>2, <2>3 DEF Injection, IsInjective
<1>3. IsFiniteSet(1 .. c) /\ Cardinality(1 .. c) = c
  BY <1>1, FS_Interval
<1> HIDE DEF f
<1>4. f \in Surjection(lines, 1 .. c)
  BY <1>1, <1>2, <1>3, FS_Injection
<1>5. PICK k \in lines : f[k] = n
  BY <1>4 DEF Surjection
<1> QED  BY <1>5 DEF f

\* The lines up to k are read, n of them with a record.
LinesAt(j, n, k) ==
  /\ k \in 0 .. Len(j.input) /\ n = RecordsUpTo(j, k)
  /\ \A i \in 1 .. k : j.input[i].kind # "unreadable"

\* Nothing is read yet.
LEMMA LinesStart ==
  ASSUME NEW j, LineJob(j)
  PROVE  LinesAt(j, 0, 0)
<1>1. RecordsTo(j, 0) = {}
  BY LinesCount DEF RecordsTo, RecordLines
<1>2. RecordsUpTo(j, 0) = 0
  BY <1>1, LinesCount, FS_EmptySet
<1> QED  BY <1>2, LinesCount DEF LinesAt

\* A line without a record counts for none,
LEMMA LineSkipped ==
  ASSUME NEW j, LineJob(j), NEW n, NEW k \in 0 .. Len(j.input) - 1,
         LinesAt(j, n, k),
         j.input[k + 1].kind \notin RecordKinds \cup {"unreadable"}
  PROVE  LinesAt(j, n, k + 1)
<1>1. k + 1 \in 0 .. Len(j.input)
  BY LinesCount
<1>2. \A i \in 1 .. k + 1 : j.input[i].kind # "unreadable"
  BY <1>1 DEF LinesAt
<1>3. RecordsTo(j, k + 1) = RecordsTo(j, k)
  BY LinesCount DEF RecordsTo, RecordLines
<1>4. RecordsUpTo(j, k + 1) = RecordsUpTo(j, k)
  BY <1>3, LinesCount
<1> QED  BY <1>1, <1>2, <1>4 DEF LinesAt

\* and a line with one for the next.
LEMMA LineCounted ==
  ASSUME NEW j, LineJob(j), NEW n, NEW k \in 0 .. Len(j.input) - 1,
         LinesAt(j, n, k), j.input[k + 1].kind \in RecordKinds
  PROVE  /\ LinesAt(j, n + 1, k + 1) /\ k + 1 \in RecordLines(j)
         /\ n \in Nat /\ RecordsUpTo(j, k + 1) = n + 1
<1>1. k + 1 \in 0 .. Len(j.input) /\ k + 1 \in 1 .. Len(j.input)
  BY LinesCount
<1>2. \A i \in 1 .. k + 1 : j.input[i].kind # "unreadable"
  BY <1>1 DEF LinesAt, RecordKinds
<1>3. k + 1 \in RecordLines(j)
  BY <1>1, <1>2 DEF RecordLines
<1>4. RecordsTo(j, k + 1) = RecordsTo(j, k) \cup {k + 1}
  BY <1>1, <1>3 DEF RecordsTo, RecordLines
<1>5. k + 1 \notin RecordsTo(j, k)
  BY <1>1 DEF RecordsTo
<1>6. RecordsUpTo(j, k + 1) = RecordsUpTo(j, k) + 1
      /\ RecordsUpTo(j, k) \in Nat
  BY <1>4, <1>5, LinesCount, FS_AddElement
<1> QED  BY <1>1, <1>2, <1>3, <1>6 DEF LinesAt

\* The record of the next line has its frame.
LEMMA LineNext ==
  ASSUME NEW j, LineJob(j), NEW n, NEW k \in 0 .. Len(j.input) - 1,
         LinesAt(j, n, k), j.input[k + 1].kind \in RecordKinds, Below(j, n)
  PROVE  LET F == FramesOf(j) IN
         /\ n \in Nat /\ Len(F) \in Nat /\ n < Len(F)
         /\ F[n + 1] = LineFrame(j, j.input[k + 1])
         /\ LinesAt(j, n + 1, k + 1)
<1> DEFINE lines == RecordLines(j)
           Of(i) == LineFrame(j, j.input[CHOOSE m \in lines :
                                           RecordsUpTo(j, m) = i])
           frames == LineFrames(j)
           X == {Of(i) : i \in 1 .. Cardinality(lines)}
<1>1. /\ LinesAt(j, n + 1, k + 1) /\ k + 1 \in lines
      /\ n \in Nat /\ RecordsUpTo(j, k + 1) = n + 1
  BY LineCounted
<1>2. /\ Cardinality(lines) \in Nat /\ n + 1 \in 1 .. Cardinality(lines)
      /\ \A m \in lines : RecordsUpTo(j, m) = n + 1 => m = k + 1
  BY <1>1, LinesCount
<1> HIDE DEF lines
<1>3. (CHOOSE m \in lines : RecordsUpTo(j, m) = n + 1) = k + 1
  BY <1>1, <1>2
<1>4. frames = [i \in 1 .. Cardinality(lines) |-> Of(i)]
  BY DEF LineFrames, lines
<1>5. Of(n + 1) = LineFrame(j, j.input[k + 1])
  BY <1>3
<1> HIDE DEF Of, frames
<1>6. /\ frames \in Seq(X) /\ Len(frames) = Cardinality(lines)
      /\ frames[n + 1] = Of(n + 1)
  BY <1>2, <1>4
<1>7. FramesOf(j) = UpToLimit(j, frames) /\ j \in Jobs
  BY DEF FramesOf, LineJob, frames
<1> HIDE DEF X
<1>8. LET F == FramesOf(j) IN
      Len(F) \in Nat /\ n < Len(F) /\ \A i \in 1 .. Len(F) : F[i] = frames[i]
  BY <1>1, <1>2, <1>6, <1>7, LimitCuts
<1> QED  BY <1>1, <1>5, <1>6, <1>8

\* Where the lines end, or the limit is reached, there are no more frames.
LEMMA LinesEnd ==
  ASSUME NEW j, LineJob(j), NEW n \in Nat,
         ~Below(j, n) \/ LinesAt(j, n, Len(j.input))
  PROVE  Len(FramesOf(j)) <= n
<1> DEFINE lines == RecordLines(j)
           Of(i) == LineFrame(j, j.input[CHOOSE m \in lines :
                                           RecordsUpTo(j, m) = i])
           frames == LineFrames(j)
           X == {Of(i) : i \in 1 .. Cardinality(lines)}
<1>1. Cardinality(lines) \in Nat
  BY LinesCount
<1>2. frames = [i \in 1 .. Cardinality(lines) |-> Of(i)]
  BY DEF LineFrames
<1>3. LinesAt(j, n, Len(j.input)) => n = Cardinality(lines)
  <2>1. RecordsTo(j, Len(j.input)) = lines
    BY LinesCount DEF RecordsTo, RecordLines
  <2> QED  BY <2>1, LinesCount DEF LinesAt
<1> HIDE DEF Of, frames, lines
<1>4. frames \in Seq(X) /\ Len(frames) = Cardinality(lines)
  BY <1>1, <1>2
<1>5. FramesOf(j) = UpToLimit(j, frames) /\ j \in Jobs
  BY DEF FramesOf, LineJob, frames
<1> HIDE DEF X
<1>6. Len(FramesOf(j)) \in Nat /\ Len(FramesOf(j)) <= Len(frames)
      /\ (~Below(j, n) => Len(FramesOf(j)) <= n)
  BY <1>4, <1>5, LimitCuts
<1> QED  BY <1>1, <1>3, <1>4, <1>6

-----------------------------------------------------------------------------
\* Why a whole record is refused before it is decoded.
FrameErrors == {"E_RECORD_LENGTH", "E_OCCURS_COUNT", "E_LINE"}

\* Rows are drawn from S, each valid or not.
RowsTyped(S) ==
  /\ \A row \in S : row.valid \in BOOLEAN
  /\ \A code \in FrameErrors : ErrorOf(code) \in S
  /\ \A j \in Jobs : j.plan.ok =>
       \A record \in Decodable(j) : RowsOf(j, record) \in Seq(S)

FrameSet(S) == [rows : Seq(S), whole : BOOLEAN]

\* A frame of rows, or of a refusal, is one.
LEMMA FrameTyped ==
  ASSUME NEW S, RowsTyped(S)
  PROVE  /\ \A rows \in Seq(S) : Whole(rows) \in FrameSet(S)
         /\ \A code \in FrameErrors : /\ Torn(code) \in FrameSet(S)
                                      /\ ~Good(Torn(code))
                                      /\ Torn(code).rows = <<ErrorOf(code)>>
<1>1. ASSUME NEW code \in FrameErrors PROVE ErrorOf(code) \in S
  BY DEF RowsTyped
<1>2. ASSUME NEW code \in FrameErrors PROVE Torn(code) \in FrameSet(S)
  BY <1>1 DEF Torn, FrameSet
<1>3. ASSUME NEW code \in FrameErrors PROVE ~Good(Torn(code))
  BY DEF Torn, Good
<1> QED  BY <1>2, <1>3 DEF Torn, Whole, FrameSet

\* The bytes of a stream up to where a record ends are those of a record.
LEMMA StreamDecodable ==
  ASSUME NEW j, StreamJob(j), NEW k \in 0 .. Len(j.input),
         RecordEnd(j, k) # RefusedLen, RecordEnd(j, k) <= Len(j.input)
  PROVE  SubSeq(j.input, k + 1, RecordEnd(j, k)) \in Decodable(j)
<1> DEFINE L == Len(j.input)
           at == <<k, RecordEnd(j, k)>>
<1>1. L \in Nat /\ RecordEnd(j, k) \in 0 .. L
  BY EndIsAhead DEF Ends
<1>2. HeaderOf(j.plan) \in Nat
  BY LengthAssumption DEF StreamJob
<1>3. k + HeaderOf(j.plan) <= L /\ RecordEnd(j, k) = k + LengthAt(j, k)
  BY <1>1, <1>2 DEF RecordEnd
<1>4. at \in {p \in (0 .. L) \X (0 .. L) :
                /\ p[1] + HeaderOf(j.plan) <= L
                /\ p[2] = p[1] + LengthAt(j, p[1])}
  BY <1>1, <1>3
<1>5. SubSeq(j.input, at[1] + 1, at[2]) \in StreamRecords(j)
  BY <1>4 DEF StreamRecords
<1> QED  BY <1>5 DEF Decodable, StreamJob

\* So is the frame of a record of a stream
LEMMA StreamFrameTyped ==
  ASSUME NEW S, RowsTyped(S), NEW j, StreamJob(j), NEW k \in 0 .. Len(j.input)
  PROVE  FrameAt(j, k, RecordEnd(j, k)) \in FrameSet(S)
<1> DEFINE end == RecordEnd(j, k)
           record == SubSeq(j.input, k + 1, end)
<1>1. CASE end = RefusedLen
  BY <1>1, FrameTyped DEF FrameAt, FrameErrors
<1>2. CASE end # RefusedLen /\ end > Len(j.input)
  BY <1>2, FrameTyped DEF FrameAt, FrameErrors
<1>3. CASE end # RefusedLen /\ ~(end > Len(j.input))
  <2>1. end \in Nat /\ Len(j.input) \in Nat
    BY <1>3, EndIsAhead DEF Ends
  <2>2. record \in Decodable(j)
    BY <1>3, <2>1, StreamDecodable
  <2>3. RowsOf(j, record) \in Seq(S)
    BY <2>2 DEF RowsTyped, StreamJob
  <2>4. FrameAt(j, k, end) = Whole(RowsOf(j, record))
    BY <1>3 DEF FrameAt
  <2> QED  BY <2>3, <2>4, FrameTyped
<1> QED  BY <1>1, <1>2, <1>3

\* So are those of a line as long as they say, and the fields of a line.
LEMMA LineDecodable ==
  ASSUME NEW j, LineJob(j), NEW k \in 1 .. Len(j.input)
  PROVE  LET line == j.input[k] IN
         /\ line.kind = "fields" => line.fields \in Decodable(j)
         /\ line.kind = "bytes" /\ LengthOf(j, line.bytes) = Len(line.bytes)
              => line.bytes \in Decodable(j)
<1> DEFINE line == j.input[k]
           Of(l) == CASE l.kind = "bytes" ->
                {bytes \in {l.bytes} : LengthOf(j, bytes) = Len(bytes)}
           [] l.kind = "fields" -> {l.fields}
           [] OTHER -> {}
           all == {j.input[i] : i \in 1 .. Len(j.input)}
<1>1. line \in all
  OBVIOUS
<1>2. Decodable(j) = UNION {Of(l) : l \in all}
  BY Zenon DEF Decodable, LineRecords, LineJob
<1>3. line.kind = "fields" => line.fields \in Of(line)
  OBVIOUS
<1>4. line.kind = "bytes" /\ LengthOf(j, line.bytes) = Len(line.bytes)
        => line.bytes \in Of(line)
  OBVIOUS
<1> HIDE DEF Of, all, line
<1> QED  BY <1>1, <1>2, <1>3, <1>4 DEF line

\* (a line of bytes has a length, which is no refusal)
LEMMA BytesLong ==
  ASSUME NEW j, LineJob(j), NEW k \in 1 .. Len(j.input),
         j.input[k].kind = "bytes"
  PROVE  Len(j.input[k].bytes) \in Nat /\ Len(j.input[k].bytes) # RefusedLen
<1>1. k \in DOMAIN j.input
  BY JobAssumption DEF LineJob, IsSequence
<1>2. IsSequence(j.input[k].bytes)
  BY <1>1, JobAssumption DEF LineJob
<1>3. Len(j.input[k].bytes) \in Nat
  BY <1>2 DEF IsSequence
<1> QED  BY <1>3 DEF RefusedLen

\* and of a line.
LEMMA LineFrameTyped ==
  ASSUME NEW S, RowsTyped(S), NEW j, LineJob(j), NEW k \in 1 .. Len(j.input),
         j.input[k].kind \in RecordKinds
  PROVE  LineFrame(j, j.input[k]) \in FrameSet(S)
<1> DEFINE line == j.input[k]
<1>1. CASE line.kind = "bad"
  <2>1. LineFrame(j, line) = Torn("E_LINE")
    BY <1>1 DEF LineFrame
  <2> QED  BY <2>1, FrameTyped DEF FrameErrors
<1>2. CASE line.kind = "fields"
  <2>1. LineFrame(j, line) = Whole(RowsOf(j, line.fields))
    BY <1>2 DEF LineFrame
  <2>2. line.fields \in Decodable(j)
    BY <1>2, LineDecodable
  <2>3. RowsOf(j, line.fields) \in Seq(S)
    BY <2>2 DEF RowsTyped, LineJob
  <2> QED  BY <2>1, <2>3, FrameTyped
<1>3. CASE line.kind = "bytes"
  <2> DEFINE length == LengthOf(j, line.bytes)
  <2>1. CASE length = Len(line.bytes)
    <3>1. LineFrame(j, line) = Whole(RowsOf(j, line.bytes))
      BY <1>3, <2>1, BytesLong DEF LineFrame
    <3>2. line.bytes \in Decodable(j)
      BY <1>3, <2>1, LineDecodable
    <3>3. RowsOf(j, line.bytes) \in Seq(S)
      BY <3>2 DEF RowsTyped, LineJob
    <3> QED  BY <3>1, <3>3, FrameTyped
  <2>2. CASE length # Len(line.bytes)
    <3>1. LineFrame(j, line) = Torn("E_OCCURS_COUNT")
            \/ LineFrame(j, line) = Torn("E_RECORD_LENGTH")
      BY <1>3, <2>2 DEF LineFrame
    <3> QED  BY <3>1, FrameTyped DEF FrameErrors
  <2> QED  BY <2>1, <2>2
<1> QED  BY <1>1, <1>2, <1>3 DEF RecordKinds

\* All frames of a job are frames.
LEMMA FramesTyped ==
  ASSUME NEW S, RowsTyped(S), NEW j \in Jobs, j.plan.ok
  PROVE  FramesOf(j) \in Seq(FrameSet(S))
<1>1. CASE j.encoding = "stream"
  <2>1. StreamJob(j)
    BY <1>1 DEF StreamJob
  <2> DEFINE E == RecordEnds(j)
             c == StreamCount(j)
  <2>2. /\ c \in 0 .. Len(j.input) /\ Len(j.input) \in Nat
        /\ FirstStop(j, c)
    BY <2>1, CountIs, EndIsAhead
  <2>3. ASSUME NEW i \in 1 .. c
        PROVE  FrameAt(j, E[i - 1], E[i]) \in FrameSet(S)
    <3>1. i - 1 \in 0 .. c - 1 /\ i - 1 \in 0 .. Len(j.input)
          /\ i \in 1 .. Len(j.input)
      BY <2>2
    <3>2. ~Stops(j, E[i - 1])
      BY <2>2, <3>1 DEF FirstStop
    <3>3. E[i - 1] \in Ends /\ E[i] = RecordEnd(j, E[i - 1])
      BY <2>1, <3>1, <3>2, RecordEndsAre
    <3>4. E[i - 1] \in 0 .. Len(j.input)
      BY <2>2, <3>2, <3>3 DEF Stops, Ends
    <3> QED  BY <2>1, <3>3, <3>4, StreamFrameTyped
  <2> HIDE DEF c, E
  <2>4. StreamFrames(j) = [i \in 1 .. c |-> FrameAt(j, E[i - 1], E[i])]
    BY DEF StreamFrames, c, E
  <2>5. StreamFrames(j) \in Seq(FrameSet(S))
    BY <2>2, <2>3, <2>4
  <2> QED  BY <1>1, <2>5, LimitCuts DEF FramesOf
<1>2. CASE j.encoding # "stream"
  <2>1. LineJob(j)
    BY <1>2 DEF LineJob
  <2> DEFINE lines == RecordLines(j)
             c == Cardinality(lines)
             Line(i) == CHOOSE m \in lines : RecordsUpTo(j, m) = i
  <2>2. c \in Nat
    BY <2>1, LinesCount
  <2>3. ASSUME NEW i \in 1 .. c
        PROVE  LineFrame(j, j.input[Line(i)]) \in FrameSet(S)
    <3>1. \E m \in lines : RecordsUpTo(j, m) = i
      BY <2>1, LinesOnto
    <3>2. Line(i) \in lines
      BY <3>1
    <3>3. /\ Line(i) \in 1 .. Len(j.input)
          /\ j.input[Line(i)].kind \in RecordKinds
      BY <3>2 DEF RecordLines
    <3> QED  BY <2>1, <3>3, LineFrameTyped
  <2>4. LineFrames(j) = [i \in 1 .. c |-> LineFrame(j, j.input[Line(i)])]
    BY DEF LineFrames
  <2> HIDE DEF c, Line
  <2>5. LineFrames(j) \in Seq(FrameSet(S))
    BY <2>2, <2>3, <2>4
  <2> QED  BY <1>2, <2>5, LimitCuts DEF FramesOf
<1> QED  BY <1>1, <1>2

-----------------------------------------------------------------------------
\* What is left of a sequence.
LEMMA LeftOver ==
  ASSUME NEW X, NEW s \in Seq(X), NEW k \in 0 .. Len(s),
         NEW r, r = SubSeq(s, k + 1, Len(s))
  PROVE  /\ r \in Seq(X) /\ Len(r) = Len(s) - k /\ (r = <<>> <=> k = Len(s))
         /\ \A n \in 0 .. Len(r) :
              /\ SubSeq(r, n + 1, Len(r)) = SubSeq(s, k + n + 1, Len(s))
              /\ SubSeq(r, 1, n) = SubSeq(s, k + 1, k + n)
         /\ r # <<>> => /\ Head(r) = s[k + 1]
                        /\ Tail(r) = SubSeq(s, (k + 1) + 1, Len(s))
<1> DEFINE L == Len(s)
<1>1. L \in Nat /\ \A i \in 1 .. L : s[i] \in X
  BY ElementOfSeq
<1>2. /\ r \in Seq(X) /\ Len(r) = L - k
      /\ \A i \in 1 .. L - k : r[i] = s[k + i]
  <2>1. \A i \in k + 1 .. L : s[i] \in X
    BY <1>1
  <2>2. /\ SubSeq(s, k + 1, L) \in Seq(X)
        /\ Len(SubSeq(s, k + 1, L)) = IF k + 1 <= L THEN L - (k + 1) + 1 ELSE 0
        /\ \A i \in 1 .. L - (k + 1) + 1 :
             SubSeq(s, k + 1, L)[i] = s[(k + 1) + i - 1]
    BY <1>1, <2>1, SubSeqProperties
  <2> QED  BY <1>1, <2>2
<1>3. r = <<>> <=> k = L
  <2>1. r = <<>> => Len(r) = 0
    BY EmptySeq
  <2>2. r # <<>> => Len(r) # 0
    BY ONLY <1>2, EmptySeq
  <2> QED  BY ONLY <1>1, <1>2, <2>1, <2>2, k \in 0 .. Len(s)
<1>4. ASSUME NEW n \in 0 .. Len(r)
      PROVE  SubSeq(r, n + 1, Len(r)) = SubSeq(s, k + n + 1, L)
  <2> DEFINE a == SubSeq(r, n + 1, Len(r))
             b == SubSeq(s, k + n + 1, L)
  <2>1. n \in 0 .. L - k
    BY <1>2
  <2>2. /\ a \in Seq(X) /\ Len(a) = L - k - n
        /\ \A i \in 1 .. L - k - n : a[i] = r[n + i]
    <3>1. \A i \in n + 1 .. Len(r) : r[i] \in X
      BY <1>2, ElementOfSeq
    <3>2. /\ a \in Seq(X)
          /\ Len(a) = IF n + 1 <= Len(r) THEN Len(r) - (n + 1) + 1 ELSE 0
          /\ \A i \in 1 .. Len(r) - (n + 1) + 1 : a[i] = r[(n + 1) + i - 1]
      BY <1>1, <1>2, <2>1, <3>1, SubSeqProperties
    <3> HIDE DEF a
    <3> QED  BY <1>1, <1>2, <2>1, <3>2
  <2>3. /\ b \in Seq(X) /\ Len(b) = L - k - n
        /\ \A i \in 1 .. L - k - n : b[i] = s[k + n + i]
    <3>1. \A i \in k + n + 1 .. L : s[i] \in X
      BY <1>1, <2>1
    <3>2. /\ b \in Seq(X)
          /\ Len(b) = IF k + n + 1 <= L THEN L - (k + n + 1) + 1 ELSE 0
          /\ \A i \in 1 .. L - (k + n + 1) + 1 : b[i] = s[(k + n + 1) + i - 1]
      BY <1>1, <2>1, <3>1, SubSeqProperties
    <3> HIDE DEF b
    <3> QED  BY <1>1, <2>1, <3>2
  <2> HIDE DEF a, b
  <2>4. ASSUME NEW i \in 1 .. Len(a) PROVE a[i] = b[i]
    <3>1. n + i \in 1 .. L - k /\ k + (n + i) = k + n + i
      BY <1>1, <2>1, <2>2
    <3> QED  BY <1>2, <2>2, <2>3, <3>1
  <2>5. a = b
    BY <2>2, <2>3, <2>4, SeqEqual
  <2> QED  BY <2>5 DEF a, b
<1>5. ASSUME NEW n \in 0 .. Len(r)
      PROVE  SubSeq(r, 1, n) = SubSeq(s, k + 1, k + n)
  <2> DEFINE a == SubSeq(r, 1, n)
             b == SubSeq(s, k + 1, k + n)
  <2>1. n \in 0 .. L - k
    BY <1>2
  <2>2. /\ a \in Seq(X) /\ Len(a) = n
        /\ \A i \in 1 .. n : a[i] = r[i]
    <3>1. \A i \in 1 .. n : r[i] \in X
      BY <1>2, <2>1, ElementOfSeq
    <3>2. /\ a \in Seq(X)
          /\ Len(a) = IF 1 <= n THEN n - 1 + 1 ELSE 0
          /\ \A i \in 1 .. n - 1 + 1 : a[i] = r[1 + i - 1]
      BY <1>1, <1>2, <2>1, <3>1, SubSeqProperties
    <3> HIDE DEF a
    <3> QED  BY <1>1, <1>2, <2>1, <3>2
  <2>3. /\ b \in Seq(X) /\ Len(b) = n
        /\ \A i \in 1 .. n : b[i] = s[k + i]
    <3>1. \A i \in k + 1 .. k + n : s[i] \in X
      BY <1>1, <2>1
    <3>2. /\ b \in Seq(X)
          /\ Len(b) = IF k + 1 <= k + n THEN k + n - (k + 1) + 1 ELSE 0
          /\ \A i \in 1 .. k + n - (k + 1) + 1 : b[i] = s[(k + 1) + i - 1]
      BY <1>1, <2>1, <3>1, SubSeqProperties
    <3> HIDE DEF b
    <3> QED  BY <1>1, <2>1, <3>2
  <2> HIDE DEF a, b
  <2>4. ASSUME NEW i \in 1 .. Len(a) PROVE a[i] = b[i]
    <3>1. i \in 1 .. L - k
      BY <1>1, <2>1, <2>2
    <3> QED  BY <1>2, <2>2, <2>3, <3>1
  <2>5. a = b
    BY <2>2, <2>3, <2>4, SeqEqual
  <2> QED  BY <2>5 DEF a, b
<1>6. r # <<>> => /\ Head(r) = s[k + 1]
                  /\ Tail(r) = SubSeq(s, (k + 1) + 1, L)
  <2>1. SUFFICES ASSUME r # <<>>
                 PROVE  /\ Head(r) = s[k + 1]
                        /\ Tail(r) = SubSeq(s, (k + 1) + 1, L)
    OBVIOUS
  <2>2. 1 \in 0 .. Len(r) /\ 1 \in 1 .. L - k
    BY <1>1, <1>2, <1>3, <2>1
  <2>3. Head(r) = r[1]
    BY ONLY <1>2
  <2>4. Tail(r) = SubSeq(r, 1 + 1, Len(r))
    BY <1>2, <2>1, TailIsSubSeq
  <2>5. SubSeq(r, 1 + 1, Len(r)) = SubSeq(s, k + 1 + 1, L)
    BY <1>4, <2>2
  <2> QED  BY <1>2, <2>2, <2>3, <2>4, <2>5
<1> QED  BY <1>2, <1>3, <1>4, <1>5, <1>6

-----------------------------------------------------------------------------
\* Where the command is in its input.
Place == Len(job.input) - Len(rest)

Situated ==
  /\ job \in Jobs
  /\ Plan.ok \/ pc = "load" \/ (pc = "exit" /\ exit = "config")
  /\ Place \in 0 .. Len(job.input)
  /\ rest = SubSeq(job.input, Place + 1, Len(job.input))

\* It begins at the beginning.
LEMMA InitSituated == Init => Situated
<1>1. ASSUME Init PROVE Situated
  <2>1. IsSequence(job.input)
    BY <1>1, JobAssumption DEF Init
  <2>2. Len(job.input) \in Nat /\ Place = 0
    BY <1>1, <2>1 DEF Init, Place, IsSequence
  <2>3. rest = SubSeq(job.input, 1, Len(job.input))
    BY <1>1, <2>1, SubSeqFull DEF Init, IsSequence
  <2> QED  BY <1>1, <2>2, <2>3 DEF Situated, Init
<1> QED  BY <1>1

\* What is still to be read, seen from its place in the input.
LEMMA RestIs ==
  ASSUME Situated
  PROVE  LET input == job.input IN
         /\ Len(input) \in Nat /\ Place \in 0 .. Len(input)
         /\ Len(rest) \in Nat /\ Len(rest) = Len(input) - Place
         /\ rest = <<>> <=> Place = Len(input)
         /\ \A n \in 0 .. Len(rest) :
              /\ SubSeq(rest, n + 1, Len(rest))
                   = SubSeq(input, Place + n + 1, Len(input))
              /\ SubSeq(rest, 1, n) = SubSeq(input, Place + 1, Place + n)
         /\ rest # <<>> => /\ Head(rest) = input[Place + 1]
                           /\ Tail(rest)
                                = SubSeq(input, (Place + 1) + 1, Len(input))
<1> DEFINE X == {job.input[i] : i \in DOMAIN job.input}
<1>1. job.input \in Seq(X)
  BY JobAssumption DEF Situated, IsSequence
<1>2. /\ Place \in 0 .. Len(job.input)
      /\ rest = SubSeq(job.input, Place + 1, Len(job.input))
  BY DEF Situated
<1> HIDE DEF X
<1>3. Len(job.input) \in Nat
  BY <1>1
<1>4. Len(rest) = Len(job.input) - Place /\ rest \in Seq(X)
  BY ONLY <1>1, <1>2, LeftOver
<1>5. Len(rest) \in Nat
  BY <1>2, <1>3, <1>4
<1>6. rest = <<>> <=> Place = Len(job.input)
  <2>1. rest = <<>> => Len(rest) = 0
    BY EmptySeq
  <2>2. rest # <<>> => Len(rest) # 0
    BY <1>4, EmptySeq
  <2> QED  BY <1>2, <1>3, <1>4, <2>1, <2>2
<1>7. ASSUME NEW n \in 0 .. Len(rest)
      PROVE  /\ SubSeq(rest, n + 1, Len(rest))
                  = SubSeq(job.input, Place + n + 1, Len(job.input))
             /\ SubSeq(rest, 1, n) = SubSeq(job.input, Place + 1, Place + n)
  BY ONLY <1>1, <1>2, <1>7, LeftOver
<1>8. ASSUME rest # <<>>
      PROVE  /\ Head(rest) = job.input[Place + 1]
             /\ Tail(rest) = SubSeq(job.input, (Place + 1) + 1, Len(job.input))
  BY ONLY <1>1, <1>2, <1>8, LeftOver
<1> QED  BY <1>2, <1>3, <1>4, <1>5, <1>6, <1>7, <1>8

\* The command stays in its input when it goes on to k.
LEMMA MovedTo ==
  ASSUME Situated, NEW k \in 0 .. Len(job.input), job' = job,
         rest' = SubSeq(job.input, k + 1, Len(job.input)),
         Plan.ok
  PROVE  Situated' /\ Place' = k
<1> DEFINE X == {job.input[i] : i \in DOMAIN job.input}
<1>1. job.input \in Seq(X) /\ job \in Jobs
  BY JobAssumption DEF Situated, IsSequence
<1> HIDE DEF X
<1>2. Len(rest') = Len(job.input) - k /\ Len(job.input) \in Nat
  BY <1>1, LeftOver
<1>3. Place' = k
  BY <1>2 DEF Place
<1> QED  BY <1>1, <1>3 DEF Situated, Plan

-----------------------------------------------------------------------------
\* The first n frames are those of the input up to k.
ReachedAt(n, k) ==
  IF job.encoding = "stream" THEN StreamAt(job, n, k) ELSE LinesAt(job, n, k)

NextIs(frame) == idx < Len(Frames) /\ Frames[idx + 1] = frame
FinalOne == Len(Frames) = idx + 1

\* A record is refused as a whole, for what its frame says.
Refused(code, next) ==
  /\ pc = "read" /\ RecordError(code, next)
  /\ ReachedAt(idx, Place) =>
       /\ idx \in Nat /\ Len(Frames) \in Nat /\ NextIs(Torn(code))
       /\ \/ FinalOne /\ (next = "finish" \/ CounterRefused(Frames))
          \/ next = "read" /\ ReachedAt(idx + 1, Place')

\* The record that is decoded is that of its frame.
Taken(record) ==
  /\ pc = "read" /\ record \in Decodable(job) /\ TakeRecord(record)
  /\ ReachedAt(idx, Place) =>
       /\ idx \in Nat /\ Len(Frames) \in Nat
       /\ NextIs(Whole(RowsOf(job, record)))
       /\ ReachedAt(idx + 1, Place')

\* In a stream.
LEMMA StreamHere ==
  ASSUME Situated, pc = "read", Reading, ~AtLimit, rest # <<>>,
         ReachedAt(idx, Place)
  PROVE  LET end == RecordEnd(job, Place) IN
         /\ idx \in Nat /\ Len(Frames) \in Nat
         /\ NextIs(FrameAt(job, Place, end))
         /\ Stops(job, end) => FinalOne
         /\ ReachedAt(idx + 1, end)
<1>1. StreamJob(job)
  BY DEF Situated, Reading, Plan, StreamJob
<1>2. Place \in 0 .. Len(job.input) - 1
  BY RestIs
<1>3. Below(job, idx) /\ StreamAt(job, idx, Place)
  BY <1>1 DEF AtLimit, Below, ReachedAt, StreamJob
<1>4. LET F == FramesOf(job)
          end == RecordEnd(job, Place)
      IN  /\ idx \in Nat /\ Len(F) \in Nat /\ idx < Len(F)
          /\ F[idx + 1] = FrameAt(job, Place, end)
          /\ Stops(job, end) => Len(F) = idx + 1
          /\ StreamAt(job, idx + 1, end)
  BY <1>1, <1>2, <1>3, StreamNext
<1> QED  BY <1>1, <1>4 DEF Frames, NextIs, FinalOne, ReachedAt, StreamJob

\* What is left when n bytes or lines more were read, or all of them.
LEMMA ReadOn ==
  ASSUME Situated, pc = "read", job' = job
  PROVE  /\ \A n \in 0 .. Len(rest) :
              rest' = SubSeq(rest, n + 1, Len(rest)) =>
                Situated' /\ Place' = Place + n
         /\ rest' = <<>> => Situated' /\ Place' = Len(job.input)
         /\ rest # <<>> /\ rest' = Tail(rest) =>
              Situated' /\ Place' = Place + 1
<1> DEFINE L == Len(job.input)
<1>1. /\ L \in Nat /\ Place \in 0 .. L /\ Len(rest) = L - Place
      /\ Plan.ok
  BY RestIs DEF Situated
<1>2. ASSUME NEW n \in 0 .. Len(rest),
             rest' = SubSeq(rest, n + 1, Len(rest))
      PROVE  Situated' /\ Place' = Place + n
  <2>1. /\ Place + n \in 0 .. L
        /\ rest' = SubSeq(job.input, Place + n + 1, L)
    BY <1>1, <1>2, RestIs
  <2> QED  BY <1>1, <2>1, MovedTo
<1>3. ASSUME rest' = <<>> PROVE Situated' /\ Place' = L
  <2>1. SubSeq(job.input, L + 1, L) = <<>> /\ L \in 0 .. L
    BY <1>1, SubSeqEmpty
  <2> QED  BY <1>1, <1>3, <2>1, MovedTo
<1>4. ASSUME rest # <<>>, rest' = Tail(rest)
      PROVE  Situated' /\ Place' = Place + 1
  <2>1. /\ Place + 1 \in 0 .. L
        /\ rest' = SubSeq(job.input, (Place + 1) + 1, L)
    BY <1>1, <1>4, RestIs
  <2> QED  BY <1>1, <2>1, MovedTo
<1> QED  BY <1>2, <1>3, <1>4

\* What the header of the record tells, where it can be read.
LEMMA HeaderHere ==
  ASSUME Situated, HeaderRead
  PROVE  LET length == LengthOf(job, Header) IN
         /\ length \in {RefusedLen} \cup (Nat \ {0})
         /\ RecordEnd(job, Place) = IF length = RefusedLen THEN RefusedLen
                                                    ELSE Place + length
         /\ HeaderLength \in 0 .. Len(rest)
<1>1. StreamJob(job) /\ pc = "read"
  BY DEF Situated, HeaderRead, Reading, Plan, StreamJob
<1>2. HeaderLength \in Nat /\ HeaderLength = HeaderOf(job.plan)
  BY <1>1, LengthAssumption DEF StreamJob, HeaderLength, Plan
<1>3. HeaderLength \in 0 .. Len(rest)
  BY <1>2, RestIs DEF HeaderRead
<1>4. Header = SubSeq(job.input, Place + 1, Place + HeaderOf(job.plan))
  BY <1>2, <1>3, RestIs DEF Header
<1>5. LengthOf(job, Header) = LengthAt(job, Place)
  BY <1>4 DEF LengthAt
<1>6. /\ Place \in 0 .. Len(job.input) /\ Len(job.input) \in Nat
      /\ ~(Place + HeaderOf(job.plan) > Len(job.input))
      /\ Place + HeaderOf(job.plan) <= Len(job.input)
  <2>1. /\ Place \in 0 .. Len(job.input) /\ Len(job.input) \in Nat
        /\ Len(rest) = Len(job.input) - Place
    BY RestIs
  <2> QED  BY <1>2, <1>3, <2>1
<1>7. LengthAt(job, Place) \in {RefusedLen} \cup (Nat \ {0})
  BY <1>1, <1>6, LengthAssumption DEF StreamJob
<1>8. RecordEnd(job, Place) = IF LengthAt(job, Place) = RefusedLen
                                THEN RefusedLen
                                ELSE Place + LengthAt(job, Place)
  BY <1>6 DEF RecordEnd
<1> QED  BY <1>3, <1>5, <1>7, <1>8

\* A stream that ends in a header refuses its last frame.
LEMMA TornHeaderIs ==
  ASSUME Situated, TornHeader
  PROVE  Situated' /\ Refused("E_RECORD_LENGTH", "finish")
<1>1. /\ Reading /\ pc = "read" /\ ~AtLimit /\ rest # <<>>
      /\ rest' = <<>> /\ job' = job
      /\ RecordError("E_RECORD_LENGTH", "finish")
  BY DEF TornHeader, Reading, RecordError
<1>2. Situated'
  BY <1>1, ReadOn
<1>3. HeaderOf(job.plan) \in Nat /\ Place + HeaderOf(job.plan) > Len(job.input)
  BY <1>1, RestIs, LengthAssumption
  DEF TornHeader, HeaderLength, Plan, Situated, Reading
<1>4. RecordEnd(job, Place) = Place + HeaderOf(job.plan)
  BY <1>3 DEF RecordEnd
<1>5. /\ Place \in Nat /\ Len(job.input) \in Nat
  BY RestIs
<1>6. /\ RecordEnd(job, Place) # RefusedLen
      /\ RecordEnd(job, Place) > Len(job.input)
      /\ Stops(job, RecordEnd(job, Place))
  BY <1>3, <1>4, <1>5 DEF RefusedLen, Stops
<1>7. FrameAt(job, Place, RecordEnd(job, Place)) = Torn("E_RECORD_LENGTH")
  BY <1>6 DEF FrameAt
<1> QED  BY <1>1, <1>2, <1>6, <1>7, StreamHere DEF Refused

\* A refused counter is that of the next frame.
LEMMA RefuseCounterIs ==
  ASSUME Situated, RefuseCounter
  PROVE  Situated' /\ Refused("E_OCCURS_COUNT", "read")
<1>1. /\ HeaderRead /\ Reading /\ pc = "read" /\ ~AtLimit /\ rest # <<>>
      /\ LengthOf(job, Header) = RefusedLen /\ job.encoding = "stream"
      /\ rest' = SubSeq(rest, HeaderLength + 1, Len(rest)) /\ job' = job
      /\ RecordError("E_OCCURS_COUNT", "read")
  BY DEF RefuseCounter, HeaderRead, Reading, RecordError, Left
<1>2. /\ HeaderLength \in 0 .. Len(rest)
      /\ RecordEnd(job, Place) = RefusedLen
  BY <1>1, HeaderHere
<1>3. Situated'
  BY <1>1, <1>2, ReadOn
<1>4. /\ Stops(job, RecordEnd(job, Place))
      /\ FrameAt(job, Place, RecordEnd(job, Place)) = Torn("E_OCCURS_COUNT")
  <2>1. Len(job.input) \in Nat /\ ~(RefusedLen > Len(job.input))
    BY RestIs DEF RefusedLen
  <2> QED  BY <1>2, <2>1 DEF Stops, FrameAt
<1>5. ReachedAt(idx, Place) =>
        /\ idx \in Nat /\ Len(Frames) \in Nat
        /\ NextIs(Torn("E_OCCURS_COUNT")) /\ FinalOne
  BY <1>1, <1>4, StreamHere
<1>6. ReachedAt(idx, Place) => CounterRefused(Frames)
  <2>1. ASSUME ReachedAt(idx, Place) PROVE CounterRefused(Frames)
    <3>1. /\ Len(Frames) = idx + 1 /\ idx \in Nat
          /\ Frames[idx + 1] = Torn("E_OCCURS_COUNT")
      BY <1>5, <2>1 DEF NextIs, FinalOne
    <3>2. Frames # <<>>
      BY <3>1, EmptySeq
    <3> QED  BY <1>1, <3>1, <3>2 DEF CounterRefused
  <2> QED  BY <2>1
<1> QED  BY <1>1, <1>3, <1>5, <1>6 DEF Refused

\* A stream that ends in a record refuses its last frame.
LEMMA TornRecordIs ==
  ASSUME Situated, TornRecord
  PROVE  Situated' /\ Refused("E_RECORD_LENGTH", "finish")
<1>1. /\ HeaderRead /\ Reading /\ pc = "read" /\ ~AtLimit /\ rest # <<>>
      /\ LengthOf(job, Header) > Len(rest)
      /\ rest' = <<>> /\ job' = job
      /\ RecordError("E_RECORD_LENGTH", "finish")
  BY DEF TornRecord, HeaderRead, Reading, RecordError
<1>2. Situated'
  BY <1>1, ReadOn
<1> DEFINE length == LengthOf(job, Header)
<1>3. /\ length \in Nat \/ length = RefusedLen
      /\ RecordEnd(job, Place) = IF length = RefusedLen THEN RefusedLen
                                                  ELSE Place + length
      /\ length > Len(rest)
  BY <1>1, HeaderHere
<1> HIDE DEF length
<1>4. /\ Place \in Nat /\ Len(job.input) \in Nat /\ Len(rest) \in Nat
      /\ Len(rest) = Len(job.input) - Place
  BY RestIs
<1>5. /\ RecordEnd(job, Place) # RefusedLen
      /\ RecordEnd(job, Place) > Len(job.input)
      /\ Stops(job, RecordEnd(job, Place))
  BY <1>3, <1>4 DEF RefusedLen, Stops
<1>6. FrameAt(job, Place, RecordEnd(job, Place)) = Torn("E_RECORD_LENGTH")
  BY <1>5 DEF FrameAt
<1> QED  BY <1>1, <1>2, <1>5, <1>6, StreamHere DEF Refused

\* A record that is read is that of the next frame.
LEMMA ReadRecordIs ==
  ASSUME Situated, ReadRecord
  PROVE  Situated' /\ \E record : Taken(record)
<1>1. HeaderRead /\ Reading /\ pc = "read" /\ ~AtLimit /\ rest # <<>>
  BY DEF ReadRecord, HeaderRead, Reading
<1>2. PICK length \in {LengthOf(job, Header)} \cap (0 .. Len(rest)) :
        /\ rest' = Left(length)
        /\ \E record \in {SubSeq(rest, 1, length)} : TakeRecord(record)
  BY DEF ReadRecord
<1> DEFINE record == SubSeq(rest, 1, length)
<1>3. TakeRecord(record) /\ rest' = SubSeq(rest, length + 1, Len(rest))
  BY <1>2 DEF Left
<1>4. job' = job
  BY <1>3 DEF TakeRecord, RefuseRow, BeginRecord
<1>5. Situated' /\ Place' = Place + length
  BY <1>1, <1>2, <1>3, <1>4, ReadOn
<1>6. /\ Place \in 0 .. Len(job.input) /\ Len(job.input) \in Nat
      /\ Len(rest) \in Nat /\ Len(rest) = Len(job.input) - Place
  BY RestIs
<1>7. /\ length # RefusedLen /\ RecordEnd(job, Place) = Place + length
      /\ length \in Nat /\ ~(Place + length > Len(job.input))
      /\ Place + length # RefusedLen
  <2>1. length \in Nat /\ length # RefusedLen
    BY <1>2, <1>6 DEF RefusedLen
  <2>2. RecordEnd(job, Place) = Place + length
    BY <1>1, <1>2, <2>1, HeaderHere
  <2> QED  BY <1>2, <1>6, <2>1, <2>2 DEF RefusedLen
<1>8. record = SubSeq(job.input, Place + 1, Place + length)
  BY <1>2, RestIs
<1>9. StreamJob(job)
  BY <1>1 DEF Situated, Reading, Plan, StreamJob
<1>10. record \in Decodable(job)
  <2>1. RecordEnd(job, Place) <= Len(job.input)
    BY <1>6, <1>7
  <2> QED  BY <1>6, <1>7, <1>8, <1>9, <2>1, StreamDecodable
<1>11. FrameAt(job, Place, RecordEnd(job, Place)) = Whole(RowsOf(job, record))
  BY <1>7, <1>8 DEF FrameAt
<1> HIDE DEF record
<1>12. ReachedAt(idx, Place) =>
         /\ idx \in Nat /\ Len(Frames) \in Nat
         /\ NextIs(Whole(RowsOf(job, record)))
         /\ ReachedAt(idx + 1, Place')
  BY <1>1, <1>5, <1>7, <1>11, StreamHere
<1>13. Taken(record)
  BY <1>1, <1>3, <1>10, <1>12 DEF Taken, record
<1> QED  BY <1>5, <1>13

-----------------------------------------------------------------------------
\* Lines.  The next one is where the command is.
LEMMA LineHere ==
  ASSUME Situated, NEW kinds, AtLine(kinds)
  PROVE  /\ LineJob(job) /\ Place \in 0 .. Len(job.input) - 1
         /\ Head(rest) = job.input[Place + 1]
         /\ Place + 1 \in 1 .. Len(job.input)
         /\ job.input[Place + 1].kind \in kinds
<1>1. LineJob(job) /\ rest # <<>> /\ Head(rest).kind \in kinds
  BY DEF AtLine, Situated, LineJob, Plan
<1>2. Place \in 0 .. Len(job.input) - 1 /\ Head(rest) = job.input[Place + 1]
  BY <1>1, RestIs
<1>3. Place + 1 \in 1 .. Len(job.input)
  <2>1. Place \in Nat /\ Len(job.input) \in Nat
    BY RestIs
  <2> QED  BY <1>2, <2>1
<1> QED  BY <1>1, <1>2, <1>3

\* A line with a record has the next frame.
LEMMA LineFrameHere ==
  ASSUME Situated, NEW kinds \in SUBSET RecordKinds, AtLine(kinds), ~AtLimit,
         ReachedAt(idx, Place)
  PROVE  /\ idx \in Nat /\ Len(Frames) \in Nat
         /\ NextIs(LineFrame(job, Head(rest)))
         /\ ReachedAt(idx + 1, Place + 1)
<1>1. /\ LineJob(job) /\ Place \in 0 .. Len(job.input) - 1
      /\ Head(rest) = job.input[Place + 1]
      /\ job.input[Place + 1].kind \in RecordKinds
  BY LineHere
<1>2. Below(job, idx) /\ LinesAt(job, idx, Place)
  BY <1>1 DEF AtLimit, Below, ReachedAt, LineJob
<1>3. LET F == FramesOf(job) IN
      /\ idx \in Nat /\ Len(F) \in Nat /\ idx < Len(F)
      /\ F[idx + 1] = LineFrame(job, job.input[Place + 1])
      /\ LinesAt(job, idx + 1, Place + 1)
  BY <1>1, <1>2, LineNext
<1> QED  BY <1>1, <1>3 DEF Frames, NextIs, ReachedAt, LineJob

\* A line with nothing to decode is the next frame.
LEMMA BadLineIs ==
  ASSUME Situated, BadLine
  PROVE  Situated' /\ Refused("E_LINE", "read")
<1>1. /\ AtLine({"bad"}) /\ pc = "read" /\ ~AtLimit /\ rest # <<>>
      /\ rest' = Tail(rest) /\ job' = job
      /\ RecordError("E_LINE", "read")
  BY DEF BadLine, AtLine, RecordError
<1>2. Situated' /\ Place' = Place + 1
  BY <1>1, ReadOn
<1>3. Head(rest).kind = "bad" /\ {"bad"} \in SUBSET RecordKinds
  BY <1>1 DEF AtLine, RecordKinds
<1>4. LineFrame(job, Head(rest)) = Torn("E_LINE")
  BY <1>3 DEF LineFrame
<1>5. ReachedAt(idx, Place) =>
        /\ idx \in Nat /\ Len(Frames) \in Nat /\ NextIs(Torn("E_LINE"))
        /\ ReachedAt(idx + 1, Place')
  BY <1>1, <1>2, <1>3, <1>4, LineFrameHere
<1> QED  BY <1>1, <1>2, <1>5 DEF Refused

\* So is a line of fields by name,
LEMMA NamedLineIs ==
  ASSUME Situated, NamedLine
  PROVE  Situated' /\ \E record : Taken(record)
<1> DEFINE record == Head(rest).fields
<1>1. /\ AtLine({"fields"}) /\ pc = "read" /\ ~AtLimit /\ rest # <<>>
      /\ rest' = Tail(rest) /\ TakeRecord(record)
  BY DEF NamedLine, AtLine
<1>2. job' = job
  BY <1>1 DEF TakeRecord, RefuseRow, BeginRecord
<1>3. Situated' /\ Place' = Place + 1
  BY <1>1, <1>2, ReadOn
<1>4. Head(rest).kind = "fields" /\ {"fields"} \in SUBSET RecordKinds
  BY <1>1 DEF AtLine, RecordKinds
<1>5. LineFrame(job, Head(rest)) = Whole(RowsOf(job, record))
  BY <1>4 DEF LineFrame
<1>6. record \in Decodable(job)
  BY <1>1, <1>4, LineHere, LineDecodable
<1>7. ReachedAt(idx, Place) =>
        /\ idx \in Nat /\ Len(Frames) \in Nat
        /\ NextIs(Whole(RowsOf(job, record)))
        /\ ReachedAt(idx + 1, Place')
  BY <1>1, <1>3, <1>4, <1>5, LineFrameHere
<1> HIDE DEF record
<1>8. Taken(record)
  BY <1>1, <1>6, <1>7 DEF Taken
<1> QED  BY <1>3, <1>8

\* and a line of bytes, unless its length is wrong.
LEMMA HexLineIs ==
  ASSUME Situated, HexLine
  PROVE  /\ Situated'
         /\ \/ Refused("E_OCCURS_COUNT", "read")
            \/ Refused("E_RECORD_LENGTH", "read")
            \/ \E record : Taken(record)
<1> DEFINE bytes == Head(rest).bytes
           length == LengthOf(job, bytes)
<1>1. /\ AtLine({"bytes"}) /\ pc = "read" /\ ~AtLimit /\ rest # <<>>
      /\ rest' = Tail(rest)
      /\ \/ length = Len(bytes) /\ TakeRecord(bytes)
         \/ length = RefusedLen /\ RecordError("E_OCCURS_COUNT", "read")
         \/ /\ length \notin {RefusedLen, Len(bytes)}
            /\ RecordError("E_RECORD_LENGTH", "read")
  BY DEF HexLine, AtLine
<1>2. job' = job
  BY <1>1 DEF TakeRecord, RefuseRow, BeginRecord, RecordError
<1>3. Situated' /\ Place' = Place + 1
  BY <1>1, <1>2, ReadOn
<1>4. Head(rest).kind = "bytes" /\ {"bytes"} \in SUBSET RecordKinds
  BY <1>1 DEF AtLine, RecordKinds
<1>5. /\ LineJob(job) /\ Head(rest) = job.input[Place + 1]
      /\ Place + 1 \in 1 .. Len(job.input)
  BY <1>1, LineHere
<1>6. Len(bytes) # RefusedLen
  BY <1>4, <1>5, BytesLong
<1>7. LineFrame(job, Head(rest)) =
        CASE length = Len(bytes) -> Whole(RowsOf(job, bytes))
          [] length = RefusedLen -> Torn("E_OCCURS_COUNT")
          [] OTHER -> Torn("E_RECORD_LENGTH")
  BY <1>4 DEF LineFrame
<1>8. ReachedAt(idx, Place) =>
        /\ idx \in Nat /\ Len(Frames) \in Nat
        /\ NextIs(LineFrame(job, Head(rest))) /\ ReachedAt(idx + 1, Place')
  BY <1>1, <1>3, <1>4, LineFrameHere
<1>9. length = Len(bytes) => bytes \in Decodable(job)
  BY <1>4, <1>5, LineDecodable
<1> HIDE DEF bytes, length
<1>10. CASE length = Len(bytes) /\ TakeRecord(bytes)
  <2>1. LineFrame(job, Head(rest)) = Whole(RowsOf(job, bytes))
    BY <1>6, <1>7, <1>10
  <2>2. Taken(bytes)
    BY <1>1, <1>8, <1>9, <1>10, <2>1 DEF Taken
  <2> QED  BY <1>3, <2>2
<1>11. CASE length = RefusedLen /\ RecordError("E_OCCURS_COUNT", "read")
  <2>1. LineFrame(job, Head(rest)) = Torn("E_OCCURS_COUNT")
    BY <1>6, <1>7, <1>11
  <2> QED  BY <1>1, <1>3, <1>8, <1>11, <2>1 DEF Refused
<1>12. CASE /\ length \notin {RefusedLen, Len(bytes)}
            /\ RecordError("E_RECORD_LENGTH", "read")
  <2>1. LineFrame(job, Head(rest)) = Torn("E_RECORD_LENGTH")
    BY <1>7, <1>12
  <2> QED  BY <1>1, <1>3, <1>8, <1>12, <2>1 DEF Refused
<1> QED  BY <1>1, <1>10, <1>11, <1>12

-----------------------------------------------------------------------------
\* The command goes on, or ends, without a record: reading ends where the
\* frames do.
LEMMA ReadingEnds ==
  ASSUME Situated, EndOfStream \/ EndOfLines \/ LimitLine, idx \in Nat,
         ReachedAt(idx, Place)
  PROVE  Len(Frames) <= idx
<1>1. /\ pc = "read" /\ job \in Jobs /\ job.plan.ok
      /\ ~Below(job, idx) \/ rest = <<>>
  BY DEF EndOfStream, EndOfLines, LimitLine, AtLine, Reading, AtLimit, Below,
         Situated, Plan
<1>2. rest = <<>> => Place = Len(job.input)
  BY RestIs
<1>3. CASE job.encoding = "stream"
  BY <1>1, <1>2, <1>3, StreamEnds DEF StreamJob, ReachedAt, Frames
<1>4. CASE job.encoding # "stream"
  BY <1>1, <1>2, <1>4, LinesEnd DEF LineJob, ReachedAt, Frames
<1> QED  BY <1>3, <1>4

\* A line that is passed over has no record.
LEMMA BlankLineIs ==
  ASSUME Situated, BlankLine
  PROVE  Situated' /\ (ReachedAt(idx, Place) => ReachedAt(idx, Place'))
<1>1. /\ AtLine({"blank"}) /\ pc = "read" /\ rest # <<>>
      /\ rest' = Tail(rest) /\ job' = job
  BY DEF BlankLine, AtLine
<1>2. Situated' /\ Place' = Place + 1
  BY <1>1, ReadOn
<1>3. /\ LineJob(job) /\ Place \in 0 .. Len(job.input) - 1
      /\ job.input[Place + 1].kind \notin RecordKinds \cup {"unreadable"}
  BY <1>1, LineHere DEF RecordKinds
<1> QED  BY <1>2, <1>3, LineSkipped DEF ReachedAt, LineJob

\* Before the first record nothing was read, or the header of CSV.
LEMMA StartReached ==
  ASSUME NEW j \in Jobs, j.plan.ok
  PROVE  IF j.encoding = "stream" THEN StreamAt(j, 0, 0) ELSE LinesAt(j, 0, 0)
<1>1. CASE j.encoding = "stream"
  <2>1. StreamJob(j)
    BY <1>1 DEF StreamJob
  <2> QED  BY <1>1, <2>1, RecordEndsAre, EndIsAhead DEF StreamAt
<1>2. CASE j.encoding # "stream"
  BY <1>2, LinesStart DEF LineJob
<1> QED  BY <1>1, <1>2

\* Nothing was done yet.
Fresh ==
  /\ idx = 0 /\ rest = job.input /\ Place = 0 /\ audit = EmptyAudit
  /\ buffer = <<>> /\ out = <<>> /\ exit = "none"
  /\ pc = "header" => job.encoding = "csv"

\* A plan that is accepted begins at the first frame,
LEMMA LoadIs ==
  ASSUME Situated, Fresh, Load
  PROVE  /\ Situated' /\ (pc' = "header" => Fresh')
         /\ pc' = "read" => ReachedAt(0, 0) /\ Place' = 0
<1>1. /\ pc = "load" /\ Plan.ok /\ rest' = rest /\ job' = job
      /\ pc' = IF job.encoding = "csv" THEN "header" ELSE "read"
      /\ UNCHANGED <<idx, audit, buffer, out, exit>>
  BY DEF Load, Accepted, Proceed
<1>2. Situated' /\ Place' = Place
  BY <1>1 DEF Situated, Place, Plan
<1>3. ReachedAt(0, 0)
  BY <1>1, StartReached DEF ReachedAt, Situated, Plan
<1> QED  BY <1>1, <1>2, <1>3 DEF Fresh

\* and so does a header.
LEMMA ReadHeaderIs ==
  ASSUME Situated, Fresh, ReadHeader
  PROVE  Situated' /\ ReachedAt(0, Place')
<1>1. /\ pc = "header" /\ Plan.ok /\ rest # <<>> /\ job' = job
      /\ Head(rest).kind = "header" /\ rest' = Tail(rest)
  BY DEF ReadHeader, Situated
<1>2. LineJob(job) /\ Place = 0
  BY <1>1 DEF Fresh, LineJob, Situated, Plan
<1>3. /\ 0 \in 0 .. Len(job.input) - 1 /\ 1 \in 0 .. Len(job.input)
      /\ rest' = SubSeq(job.input, 1 + 1, Len(job.input))
      /\ job.input[0 + 1].kind \notin RecordKinds \cup {"unreadable"}
  BY <1>1, <1>2, RestIs DEF RecordKinds
<1>4. Situated' /\ Place' = 1
  BY <1>1, <1>3, MovedTo
<1>5. LinesAt(job, 0, 0 + 1)
  BY <1>2, <1>3, LinesStart, LineSkipped
<1> QED  BY <1>2, <1>4, <1>5 DEF ReachedAt, LineJob

Entry(S) == [record : Nat, row : S]

Audits(S) ==
  [records_seen : Nat, records_valid : Nat, records_invalid : Nat,
   fields_seen : Nat, fields_valid : Nat, fields_invalid : Nat,
   samples : Seq(Entry(S))]

Typed(S) ==
  /\ job \in Jobs /\ idx \in Nat /\ before \in Nat
  /\ pc \in {"load", "header", "read", "emit", "finish", "exit"}
  /\ exit \in {"none", "ok", "config", "data"}
  /\ exit = "none" <=> pc # "exit"
  /\ pending \in Seq(S) /\ audit \in Audits(S)
  /\ buffer \in Seq(Entry(S)) /\ out \in Seq(Entry(S))

\* The part of an audit that counts rows, with n samples asked for.
RowsAddUp(a, n) ==
  /\ a.fields_seen = a.fields_valid + a.fields_invalid
  /\ Len(a.samples) <= n
  /\ Len(a.samples) <= a.fields_invalid
  /\ Len(a.samples) < n => Len(a.samples) = a.fields_invalid

\* The part that counts records, of which open are in progress.
RecordsAddUp(a, open) ==
  /\ a.records_seen = a.records_valid + a.records_invalid + open
  /\ a.records_invalid <= a.fields_invalid
  /\ Atomic => a.records_invalid = a.fields_invalid

\* The record in progress.
InProgress ==
  /\ RecordsAddUp(audit, 1)
  /\ audit.records_invalid <= before /\ before <= audit.fields_invalid
  /\ Atomic => before = audit.fields_invalid /\ AllValid(pending)

WrittenAddUp ==
  /\ Len(buffer) <= MaxBuffered
  /\ exit = "none" /\ job.sink # "audit" =>
       Len(Written) = IF Atomic THEN audit.fields_valid
                                ELSE audit.fields_seen

Inv(S) ==
  /\ Typed(S)
  /\ RowsAddUp(audit, job.samples)
  /\ pc = "emit" => InProgress
  /\ pc # "emit" /\ exit # "data" => RecordsAddUp(audit, 0)
  /\ exit = "data" => RecordsAddUp(audit, 0) \/ RecordsAddUp(audit, 1)
  /\ WrittenAddUp

-----------------------------------------------------------------------------
\* The invariant says what is to be shown.
LEMMA InvGivesReport ==
  ASSUME NEW S, Inv(S)
  PROVE  ReportAddsUp
<1> USE DEF Typed, Audits
<1>1. RowsAddUp(audit, job.samples) /\ WrittenAddUp /\ Typed(S)
  BY DEF Inv
<1>2. RecordsAddUp(audit, 0) \/ RecordsAddUp(audit, 1)
  BY DEF Inv, InProgress
<1>3. pc = "emit" => RecordsAddUp(audit, 1)
  BY DEF Inv, InProgress
<1>4. pc \in {"read", "finish"} \/ exit = "ok" => RecordsAddUp(audit, 0)
  BY DEF Inv
<1>5. Open = 0 <=> RecordsAddUp(audit, 0)
  BY <1>1, <1>2 DEF RecordsAddUp, Open
<1>6. Open = 1 <=> RecordsAddUp(audit, 1)
  BY <1>1, <1>2 DEF RecordsAddUp, Open
<1>7. /\ audit.records_invalid <= audit.fields_invalid
      /\ Atomic => audit.records_invalid = audit.fields_invalid
  BY <1>2 DEF RecordsAddUp
<1>8. Open \in 0 .. 1
  BY <1>2, <1>5, <1>6
<1> QED
  BY <1>1, <1>3, <1>4, <1>5, <1>6, <1>7, <1>8
  DEF ReportAddsUp, RowsAddUp, WrittenAddUp

\* It holds of a command that has not begun.
LEMMA InitInv == ASSUME NEW S, Init PROVE Inv(S)
<1>1. Typed(S)
  BY DEF Init, Typed, Audits, EmptyAudit
<1>2. RowsAddUp(audit, job.samples)
  BY JobAssumption DEF Init, RowsAddUp, EmptyAudit
<1>3. RecordsAddUp(audit, 0)
  BY DEF Init, RecordsAddUp, EmptyAudit
<1>4. WrittenAddUp
  BY BufferAssumption DEF Init, WrittenAddUp, Written, EmptyAudit
<1> QED  BY <1>1, <1>2, <1>3, <1>4 DEF Inv, Init

-----------------------------------------------------------------------------
\* One row counted: an audit that counts rows right still does.
LEMMA RowCounted ==
  ASSUME NEW S, NEW a \in Audits(S), NEW row \in S, RowsTyped(S), Typed(S),
         RowsAddUp(a, job.samples)
  PROVE  LET b == RecordAudit(a, row) IN
         /\ b \in Audits(S)
         /\ RowsAddUp(b, job.samples)
         /\ b.records_seen = a.records_seen
         /\ b.records_valid = a.records_valid
         /\ b.records_invalid = a.records_invalid
         /\ b.fields_seen = a.fields_seen + 1
         /\ row.valid => /\ b.fields_valid = a.fields_valid + 1
                         /\ b.fields_invalid = a.fields_invalid
         /\ ~row.valid => /\ b.fields_invalid = a.fields_invalid + 1
                          /\ b.fields_valid = a.fields_valid
<1> DEFINE b == RecordAudit(a, row)
<1>1. job.samples \in Nat /\ idx \in Nat /\ row.valid \in BOOLEAN
  BY JobAssumption DEF Typed, RowsTyped
<1>2. Row(row) \in Entry(S)
  BY <1>1 DEF Row, Entry
<1>3. CASE row.valid
  <2>1. b = [a EXCEPT !.fields_seen = @ + 1, !.fields_valid = @ + 1]
    BY <1>3 DEF RecordAudit
  <2>2. b \in Audits(S) /\ b.samples = a.samples
    <3> DEFINE c == [a EXCEPT !.fields_seen = a.fields_seen + 1]
    <3>1. c \in Audits(S) /\ c.samples = a.samples
          /\ c.fields_valid = a.fields_valid
      BY DEF Audits
    <3>2. b = [c EXCEPT !.fields_valid = a.fields_valid + 1]
      BY <2>1, <3>1 DEF Audits
    <3>3. a.fields_valid + 1 \in Nat
      BY DEF Audits
    <3> HIDE DEF c, b
    <3>4. b \in Audits(S)
      BY <3>1, <3>2, <3>3 DEF Audits
    <3>5. b.samples = c.samples
      BY <3>1, <3>2 DEF Audits
    <3> QED  BY <3>1, <3>4, <3>5
  <2>3. /\ b.records_seen = a.records_seen
        /\ b.records_valid = a.records_valid
        /\ b.records_invalid = a.records_invalid
        /\ b.fields_seen = a.fields_seen + 1
        /\ b.fields_valid = a.fields_valid + 1
        /\ b.fields_invalid = a.fields_invalid
    BY <2>1 DEF Audits
  <2>4. RowsAddUp(b, job.samples)
    BY <2>2, <2>3 DEF RowsAddUp, Audits
  <2> QED  BY <1>3, <2>2, <2>3, <2>4
<1>4. CASE ~row.valid
  <2> DEFINE samples == IF Len(a.samples) < job.samples
                          THEN Append(a.samples, Row(row)) ELSE a.samples
  <2>1. b = [a EXCEPT !.fields_seen = @ + 1, !.fields_invalid = @ + 1,
                      !.samples = samples]
    BY <1>4 DEF RecordAudit, Audits
  <2>2. /\ samples \in Seq(Entry(S))
        /\ Len(samples) = IF Len(a.samples) < job.samples
                            THEN Len(a.samples) + 1 ELSE Len(a.samples)
    BY <1>2 DEF Audits
  <2>3. Len(a.samples) \in Nat
    BY DEF Audits
  <2> HIDE DEF samples
  <2>4. b \in Audits(S) /\ b.samples = samples
    <3> DEFINE c == [a EXCEPT !.fields_seen = a.fields_seen + 1]
               d == [c EXCEPT !.fields_invalid = a.fields_invalid + 1]
    <3>1. c \in Audits(S) /\ a.fields_invalid + 1 \in Nat
      BY DEF Audits
    <3>2. b = [d EXCEPT !.samples = samples]
      BY <2>1, <3>1 DEF Audits
    <3> HIDE DEF c
    <3>3. d \in Audits(S)
      BY <3>1 DEF Audits
    <3> HIDE DEF b, d
    <3>4. b \in Audits(S)
      BY <2>2, <3>2, <3>3 DEF Audits
    <3>5. b.samples = samples
      BY <3>2, <3>3 DEF Audits
    <3> QED  BY <3>4, <3>5
  <2>5. /\ b.records_seen = a.records_seen
        /\ b.records_valid = a.records_valid
        /\ b.records_invalid = a.records_invalid
        /\ b.fields_seen = a.fields_seen + 1
        /\ b.fields_invalid = a.fields_invalid + 1
        /\ b.fields_valid = a.fields_valid
    BY <2>1 DEF Audits
  <2>6. RowsAddUp(b, job.samples)
    BY <1>1, <2>2, <2>3, <2>4, <2>5 DEF RowsAddUp, Audits
  <2> QED  BY <1>4, <2>4, <2>5, <2>6
<1> QED  BY <1>1, <1>3, <1>4

\* A row that goes to the sink is written, or ends the command.
LEMMA EmittedIsWritten ==
  ASSUME NEW S, NEW row \in S, NEW next, Typed(S), Len(buffer) <= MaxBuffered,
         exit = "none", Emitted(row, next), job' = job
  PROVE  /\ buffer' \in Seq(Entry(S)) /\ out' \in Seq(Entry(S))
         /\ Len(buffer') <= MaxBuffered
         /\ \/ pc' = "exit" /\ exit' = "data"
            \/ /\ pc' = next /\ exit' = exit
               /\ job.sink # "audit" => Len(Written') = Len(Written) + 1
<1>1. Row(row) \in Entry(S)
  BY DEF Row, Entry, Typed
<1>2. CASE job.sink = "buffer" /\ Len(buffer) >= MaxBuffered
  BY <1>2 DEF Emitted, Abort, Typed
<1>3. CASE ~(job.sink = "buffer" /\ Len(buffer) >= MaxBuffered)
  <2>1. /\ pc' = next /\ exit' = exit
        /\ out' = IF job.sink = "stream" THEN Append(out, Row(row)) ELSE out
        /\ buffer' = IF job.sink = "buffer" THEN Append(buffer, Row(row))
                                            ELSE buffer
    BY <1>3 DEF Emitted
  <2>2. /\ Append(out, Row(row)) \in Seq(Entry(S))
        /\ Len(Append(out, Row(row))) = Len(out) + 1
        /\ Append(buffer, Row(row)) \in Seq(Entry(S))
        /\ Len(Append(buffer, Row(row))) = Len(buffer) + 1
    BY <1>1 DEF Typed
  <2>3. buffer' \in Seq(Entry(S)) /\ out' \in Seq(Entry(S))
    BY <2>1, <2>2 DEF Typed
  <2>4. Len(buffer') <= MaxBuffered
    BY <1>3, <2>1, <2>2, BufferAssumption DEF Typed
  <2>5. job.sink # "audit" => Len(Written') = Len(Written) + 1
    <3>1. job.sink \in {"stream", "buffer", "audit"}
      BY JobAssumption DEF Typed
    <3> QED  BY <2>1, <2>2, <3>1 DEF Written
  <2> QED  BY <2>1, <2>3, <2>4, <2>5
<1> QED  BY <1>2, <1>3

\* Counting a record that was begun changes nothing else.
LEMMA RecordSeenIs ==
  ASSUME NEW S, NEW a \in Audits(S)
  PROVE  LET b == RecordSeen(a) IN
         /\ b \in Audits(S)
         /\ b.records_seen = a.records_seen + 1
         /\ b.records_valid = a.records_valid
         /\ b.records_invalid = a.records_invalid
         /\ b.fields_seen = a.fields_seen
         /\ b.fields_valid = a.fields_valid
         /\ b.fields_invalid = a.fields_invalid
         /\ b.samples = a.samples
BY DEF RecordSeen, Audits

\* A record that is refused as a whole counts as one invalid row.
LEMMA RefusalCounts ==
  ASSUME NEW S, RowsTyped(S), Typed(S), RowsAddUp(audit, job.samples),
         NEW row \in S, ~row.valid,
         audit' = RecordAudit(RecordInvalid(RecordSeen(audit)), row)
  PROVE  /\ audit' \in Audits(S) /\ RowsAddUp(audit', job.samples)
         /\ audit'.records_seen = audit.records_seen + 1
         /\ audit'.records_valid = audit.records_valid
         /\ audit'.records_invalid = audit.records_invalid + 1
         /\ audit'.fields_seen = audit.fields_seen + 1
         /\ audit'.fields_valid = audit.fields_valid
         /\ audit'.fields_invalid = audit.fields_invalid + 1
<1> DEFINE a == RecordInvalid(RecordSeen(audit))
<1>1. /\ a \in Audits(S)
      /\ a.records_seen = audit.records_seen + 1
      /\ a.records_valid = audit.records_valid
      /\ a.records_invalid = audit.records_invalid + 1
      /\ a.fields_seen = audit.fields_seen
      /\ a.fields_valid = audit.fields_valid
      /\ a.fields_invalid = audit.fields_invalid
      /\ a.samples = audit.samples
  <2> DEFINE b == RecordSeen(audit)
  <2>1. audit \in Audits(S)
    BY DEF Typed
  <2>2. /\ b \in Audits(S)
        /\ b.records_seen = audit.records_seen + 1
        /\ b.records_valid = audit.records_valid
        /\ b.records_invalid = audit.records_invalid
        /\ b.fields_seen = audit.fields_seen
        /\ b.fields_valid = audit.fields_valid
        /\ b.fields_invalid = audit.fields_invalid
        /\ b.samples = audit.samples
    BY <2>1, RecordSeenIs
  <2>3. /\ a \in Audits(S)
        /\ a = [b EXCEPT !.records_invalid = @ + 1]
    BY <2>2 DEF RecordInvalid, Audits
  <2> HIDE DEF a, b
  <2> QED  BY <2>2, <2>3 DEF Audits
<1>2. RowsAddUp(a, job.samples)
  BY <1>1 DEF RowsAddUp
<1> HIDE DEF a
<1>3. audit' = RecordAudit(a, row)
  BY DEF a
<1>4. /\ audit' \in Audits(S) /\ RowsAddUp(audit', job.samples)
      /\ audit'.records_seen = a.records_seen
      /\ audit'.records_valid = a.records_valid
      /\ audit'.records_invalid = a.records_invalid
      /\ audit'.fields_seen = a.fields_seen + 1
      /\ audit'.fields_invalid = a.fields_invalid + 1
      /\ audit'.fields_valid = a.fields_valid
  BY <1>1, <1>2, <1>3, RowCounted
<1> QED  BY <1>1, <1>4

\* The counters still account for each other.
LEMMA RecordRefused ==
  ASSUME NEW S, RowsTyped(S), Inv(S), NEW row \in S, ~row.valid,
         NEW next \in {"read", "finish"}, pc = "read",
         audit' = RecordAudit(RecordInvalid(RecordSeen(audit)), row),
         Refuse(row, next), idx' = idx + 1,
         job' = job, pending' = pending, before' = before
  PROVE  Inv(S)'
<1>1. /\ Typed(S) /\ RowsAddUp(audit, job.samples)
      /\ RecordsAddUp(audit, 0) /\ WrittenAddUp /\ exit = "none"
  BY DEF Inv, Typed
<1>2. /\ audit' \in Audits(S) /\ RowsAddUp(audit', job.samples)
      /\ audit'.records_seen = audit.records_seen + 1
      /\ audit'.records_valid = audit.records_valid
      /\ audit'.records_invalid = audit.records_invalid + 1
      /\ audit'.fields_seen = audit.fields_seen + 1
      /\ audit'.fields_valid = audit.fields_valid
      /\ audit'.fields_invalid = audit.fields_invalid + 1
  BY <1>1, RefusalCounts
<1>3. RecordsAddUp(audit, 0)'
  <2>1. /\ audit.records_seen \in Nat /\ audit.records_valid \in Nat
        /\ audit.records_invalid \in Nat /\ audit.fields_invalid \in Nat
    BY <1>1 DEF Typed, Audits
  <2>2. /\ audit'.records_seen = audit.records_seen + 1
        /\ audit'.records_valid = audit.records_valid
        /\ audit'.records_invalid = audit.records_invalid + 1
        /\ audit'.fields_invalid = audit.fields_invalid + 1
    BY <1>2
  <2> QED  BY <1>1, <2>1, <2>2 DEF RecordsAddUp, Atomic
<1>4. /\ buffer' \in Seq(Entry(S)) /\ out' \in Seq(Entry(S))
      /\ Len(buffer') <= MaxBuffered
      /\ \/ pc' = "exit" /\ exit' = "data"
         \/ /\ pc' = next /\ exit' = exit
            /\ job.sink # "audit" =>
                 Len(Written') = IF Atomic THEN Len(Written)
                                           ELSE Len(Written) + 1
  <2>1. job.on_error \in {"fail", "skip-record", "emit-error-row"}
    BY <1>1, JobAssumption DEF Typed
  <2>2. CASE job.on_error = "fail"
    BY <1>1, <2>2 DEF Refuse, Abort, Typed, WrittenAddUp
  <2>3. CASE job.on_error = "skip-record"
    <3>1. pc' = next /\ UNCHANGED <<buffer, out, exit>>
      BY <2>3 DEF Refuse, Proceed
    <3> QED  BY <1>1, <2>3, <3>1 DEF Typed, WrittenAddUp, Written, Atomic
  <2>4. CASE job.on_error = "emit-error-row"
    <3>1. Emitted(row, next)
      BY <2>4 DEF Refuse
    <3>2. /\ buffer' \in Seq(Entry(S)) /\ out' \in Seq(Entry(S))
          /\ Len(buffer') <= MaxBuffered
          /\ \/ pc' = "exit" /\ exit' = "data"
             \/ /\ pc' = next /\ exit' = exit
                /\ job.sink # "audit" => Len(Written') = Len(Written) + 1
      BY <1>1, <3>1, EmittedIsWritten DEF WrittenAddUp
    <3> QED  BY <2>4, <3>2 DEF Atomic
  <2> QED  BY <2>1, <2>2, <2>3, <2>4
<1>5. Typed(S)'
  BY <1>1, <1>2, <1>4 DEF Typed
<1>6. WrittenAddUp'
  BY <1>1, <1>2, <1>4 DEF WrittenAddUp, Atomic, Typed
<1> QED  BY <1>1, <1>2, <1>3, <1>4, <1>5, <1>6 DEF Inv, Typed

\* A record that is taken up is in progress.
LEMMA RecordBegun ==
  ASSUME NEW S, RowsTyped(S), Inv(S), NEW rows \in Seq(S), pc = "read",
         Atomic => AllValid(rows), BeginRecord(rows)
  PROVE  Inv(S)'
<1>1. /\ Typed(S) /\ RowsAddUp(audit, job.samples)
      /\ RecordsAddUp(audit, 0) /\ WrittenAddUp /\ exit = "none"
  BY DEF Inv, Typed
<1>2. /\ audit' = RecordSeen(audit) /\ pending' = rows
      /\ before' = audit.fields_invalid /\ pc' = "emit"
      /\ UNCHANGED <<job, idx, buffer, out, exit>>
  BY DEF BeginRecord, Proceed
<1>3. /\ audit' \in Audits(S)
      /\ audit'.records_seen = audit.records_seen + 1
      /\ audit'.records_valid = audit.records_valid
      /\ audit'.records_invalid = audit.records_invalid
      /\ audit'.fields_seen = audit.fields_seen
      /\ audit'.fields_valid = audit.fields_valid
      /\ audit'.fields_invalid = audit.fields_invalid
      /\ audit'.samples = audit.samples
  <2>1. audit \in Audits(S)
    BY <1>1 DEF Typed
  <2> QED  BY <1>2, <2>1, RecordSeenIs
<1>4. Typed(S)'
  BY <1>1, <1>2, <1>3 DEF Typed, Audits
<1>5. RowsAddUp(audit, job.samples)'
  BY <1>1, <1>2, <1>3 DEF RowsAddUp
<1>6. RecordsAddUp(audit, 1)'
  BY <1>1, <1>2, <1>3 DEF RecordsAddUp, Atomic, Typed, Audits
<1>7. InProgress'
  BY <1>1, <1>2, <1>3, <1>6 DEF InProgress, RecordsAddUp, Atomic, Typed, Audits
<1>8. WrittenAddUp'
  BY <1>1, <1>2, <1>3 DEF WrittenAddUp, Written, Atomic
<1> QED  BY <1>1, <1>2, <1>4, <1>5, <1>7, <1>8 DEF Inv

\* Steps between records count and write nothing.
LEMMA NothingCounted ==
  ASSUME NEW S, Inv(S), pc # "emit", exit = "none",
         UNCHANGED <<job, idx, pending, before, audit, buffer>>,
         pc' \in {"load", "header", "read", "finish", "exit"},
         exit' \in {"none", "ok", "config", "data"},
         exit' = "none" <=> pc' # "exit",
         out' = out \/ (out' = buffer /\ exit' # "none")
  PROVE  Inv(S)'
<1>1. /\ Typed(S) /\ RowsAddUp(audit, job.samples)
      /\ RecordsAddUp(audit, 0) /\ WrittenAddUp
  BY DEF Inv
<1>2. Typed(S)'
  BY <1>1 DEF Typed
<1>3. RowsAddUp(audit, job.samples)' /\ RecordsAddUp(audit, 0)'
  BY <1>1 DEF RowsAddUp, RecordsAddUp, Atomic
<1>4. WrittenAddUp'
  BY <1>1 DEF WrittenAddUp, Written, Atomic
<1> QED  BY <1>2, <1>3, <1>4 DEF Inv

-----------------------------------------------------------------------------
\* Every way a record is refused or taken up keeps the invariant.
LEMMA RecordErrorStep ==
  ASSUME NEW S, RowsTyped(S), Inv(S), pc = "read", NEW code \in FrameErrors,
         NEW next \in {"read", "finish"}, RecordError(code, next)
  PROVE  Inv(S)'
<1>1. ErrorOf(code) \in S /\ ~ErrorOf(code).valid
  BY DEF RowsTyped, ErrorOf
<1>2. /\ audit' = RecordAudit(RecordInvalid(RecordSeen(audit)), ErrorOf(code))
      /\ Refuse(ErrorOf(code), next) /\ idx' = idx + 1
      /\ job' = job /\ pending' = pending /\ before' = before
  BY DEF RecordError
<1> QED  BY <1>1, <1>2, RecordRefused

\* A record that is taken is begun, or refused for its first bad row.
LEMMA TakeRecordStep ==
  ASSUME NEW S, RowsTyped(S), Inv(S), pc = "read", NEW record,
         RowsOf(job, record) \in Seq(S), TakeRecord(record)
  PROVE  Inv(S)'
<1> DEFINE rows == RowsOf(job, record)
<1>1. rows \in Seq(S)
  OBVIOUS
<1> HIDE DEF rows
<1>2. CASE \E i \in 1 .. Len(rows) : FirstInvalid(rows, i) /\ RefuseRow(rows[i])
  <2>1. PICK i \in 1 .. Len(rows) : FirstInvalid(rows, i) /\ RefuseRow(rows[i])
    BY <1>2
  <2>2. rows[i] \in S /\ ~rows[i].valid
    BY <1>1, <2>1 DEF FirstInvalid
  <2>3. /\ audit' = RecordAudit(RecordInvalid(RecordSeen(audit)), rows[i])
        /\ Refuse(rows[i], "read") /\ idx' = idx + 1
        /\ job' = job /\ pending' = pending /\ before' = before
    BY <2>1 DEF RefuseRow
  <2> QED  BY <2>2, <2>3, RecordRefused
<1>3. CASE (Atomic => AllValid(rows)) /\ BeginRecord(rows)
  BY <1>1, <1>3, RecordBegun
<1> QED  BY <1>2, <1>3, Zenon DEF TakeRecord, rows

-----------------------------------------------------------------------------
\* The rows of a record in progress are counted and written one by one.
LEMMA EmitRowStep ==
  ASSUME NEW S, RowsTyped(S), Inv(S), EmitRow
  PROVE  Inv(S)'
<1> DEFINE row == Head(pending)
<1>1. /\ Typed(S) /\ RowsAddUp(audit, job.samples)
      /\ InProgress /\ WrittenAddUp /\ exit = "none"
  BY DEF Inv, Typed, EmitRow
<1>2. /\ pending # <<>> /\ audit' = RecordAudit(audit, row)
      /\ pending' = Tail(pending) /\ Emitted(row, "emit")
      /\ UNCHANGED <<job, rest, idx, before>>
  BY DEF EmitRow
<1>3. row \in S /\ Tail(pending) \in Seq(S) /\ audit \in Audits(S)
  BY <1>1, <1>2 DEF Typed
<1>4. AllValid(pending) => row.valid /\ AllValid(Tail(pending))
  <2>1. /\ Len(pending) \in Nat \ {0} /\ row = pending[1]
        /\ Len(Tail(pending)) = Len(pending) - 1
        /\ \A i \in 1 .. Len(pending) - 1 : Tail(pending)[i] = pending[i + 1]
    BY <1>1, <1>2 DEF Typed
  <2> QED  BY <2>1 DEF AllValid
<1>5. /\ audit' \in Audits(S) /\ RowsAddUp(audit', job.samples)
      /\ audit'.records_seen = audit.records_seen
      /\ audit'.records_valid = audit.records_valid
      /\ audit'.records_invalid = audit.records_invalid
      /\ audit'.fields_seen = audit.fields_seen + 1
      /\ row.valid => /\ audit'.fields_valid = audit.fields_valid + 1
                      /\ audit'.fields_invalid = audit.fields_invalid
      /\ ~row.valid => /\ audit'.fields_invalid = audit.fields_invalid + 1
                       /\ audit'.fields_valid = audit.fields_valid
  BY <1>1, <1>2, <1>3, RowCounted
<1>6. /\ buffer' \in Seq(Entry(S)) /\ out' \in Seq(Entry(S))
      /\ Len(buffer') <= MaxBuffered
      /\ \/ pc' = "exit" /\ exit' = "data"
         \/ /\ pc' = "emit" /\ exit' = exit
            /\ job.sink # "audit" => Len(Written') = Len(Written) + 1
  BY <1>1, <1>2, <1>3, EmittedIsWritten DEF WrittenAddUp
<1>7. row.valid \in BOOLEAN
  BY <1>3 DEF RowsTyped
<1> HIDE DEF row
<1>8. /\ audit.records_seen \in Nat /\ audit.records_valid \in Nat
      /\ audit.records_invalid \in Nat /\ audit.fields_invalid \in Nat
      /\ audit.fields_seen \in Nat /\ audit.fields_valid \in Nat
      /\ before \in Nat
  BY <1>1 DEF Typed, Audits
<1>9. audit'.fields_invalid \in {audit.fields_invalid,
                                 audit.fields_invalid + 1}
  BY <1>5, <1>7
<1>10. Atomic => row.valid
  BY <1>1, <1>4 DEF InProgress
<1>11. Atomic' = Atomic /\ before' = before
  BY <1>2 DEF Atomic
<1>12. RecordsAddUp(audit, 1)'
  BY <1>1, <1>5, <1>8, <1>9, <1>10, <1>11 DEF InProgress, RecordsAddUp
<1>13. InProgress'
  <2>1. audit'.records_invalid <= before /\ before <= audit'.fields_invalid
    BY <1>1, <1>5, <1>8, <1>9 DEF InProgress
  <2>2. Atomic => before = audit'.fields_invalid /\ AllValid(Tail(pending))
    BY <1>1, <1>4, <1>5, <1>10 DEF InProgress
  <2> QED  BY <1>2, <1>11, <1>12, <2>1, <2>2 DEF InProgress
<1>14. Typed(S)'
  BY <1>1, <1>2, <1>3, <1>5, <1>6 DEF Typed
<1>15. WrittenAddUp'
  BY <1>1, <1>2, <1>5, <1>6, <1>8, <1>10, <1>11 DEF WrittenAddUp, Typed
<1>16. RowsAddUp(audit, job.samples)'
  BY <1>2, <1>5
<1> QED
  BY <1>1, <1>6, <1>12, <1>13, <1>14, <1>15, <1>16 DEF Inv, Typed

\* A record that ends is valid when no row failed since it began.
LEMMA EndRecordStep ==
  ASSUME NEW S, RowsTyped(S), Inv(S), EndRecord
  PROVE  Inv(S)'
<1>1. /\ Typed(S) /\ RowsAddUp(audit, job.samples)
      /\ InProgress /\ WrittenAddUp /\ exit = "none"
  BY DEF Inv, Typed, EndRecord
<1>2. /\ pc' = "read" /\ idx' = idx + 1
      /\ UNCHANGED <<job, pending, before, buffer, out, exit>>
      /\ audit' = IF audit.fields_invalid = before
                    THEN [audit EXCEPT !.records_valid = @ + 1]
                    ELSE [audit EXCEPT !.records_invalid = @ + 1]
  BY DEF EndRecord, Proceed, RecordInvalid
<1>3. audit \in Audits(S)
  BY <1>1 DEF Typed
<1>4. /\ audit' \in Audits(S)
      /\ audit'.records_seen = audit.records_seen
      /\ audit'.fields_seen = audit.fields_seen
      /\ audit'.fields_valid = audit.fields_valid
      /\ audit'.fields_invalid = audit.fields_invalid
      /\ audit'.samples = audit.samples
  <2>1. CASE audit.fields_invalid = before
    <3>1. audit' = [audit EXCEPT !.records_valid = @ + 1]
      BY <1>2, <2>1
    <3> QED  BY ONLY <1>3, <3>1 DEF Audits
  <2>2. CASE audit.fields_invalid # before
    <3>1. audit' = [audit EXCEPT !.records_invalid = @ + 1]
      BY <1>2, <2>2
    <3> QED  BY ONLY <1>3, <3>1 DEF Audits
  <2> QED  BY <2>1, <2>2
<1>5. IF audit.fields_invalid = before
        THEN /\ audit'.records_valid = audit.records_valid + 1
             /\ audit'.records_invalid = audit.records_invalid
        ELSE /\ audit'.records_valid = audit.records_valid
             /\ audit'.records_invalid = audit.records_invalid + 1
  BY <1>2, <1>3 DEF Audits
<1>6. /\ audit.records_seen \in Nat /\ audit.records_valid \in Nat
      /\ audit.records_invalid \in Nat /\ audit.fields_invalid \in Nat
      /\ before \in Nat
  BY <1>1 DEF Typed, Audits
<1>7. RecordsAddUp(audit, 0)'
  BY <1>1, <1>2, <1>4, <1>5, <1>6 DEF InProgress, RecordsAddUp, Atomic
<1>8. Typed(S)'
  BY <1>1, <1>2, <1>4 DEF Typed
<1>9. WrittenAddUp' /\ RowsAddUp(audit, job.samples)'
  BY <1>1, <1>2, <1>4 DEF WrittenAddUp, Written, Atomic, RowsAddUp
<1> QED  BY <1>1, <1>2, <1>7, <1>8, <1>9 DEF Inv

-----------------------------------------------------------------------------
(* How far the command is in frames: those up to idx are done, and the one *)
(* after is in progress while rows are emitted.                            *)

\* Only past a refused counter is there no frame for a record.
Bounded(frames) ==
  \/ idx < Len(frames) \/ (pc # "emit" /\ idx = Len(frames))
  \/ CounterRefused(frames)

OnTrack(frames) ==
  /\ pc = "read" /\ (idx < Len(frames) \/ ~CounterRefused(frames)) =>
       ReachedAt(idx, Place)
  /\ pc = "emit" /\ idx < Len(frames) => ReachedAt(idx + 1, Place)
  /\ pc = "finish" \/ exit = "ok" => idx >= Len(frames)

\* The rows still to be counted are the last ones of the frame in progress.
Current(frames) ==
  pc = "emit" /\ idx < Len(frames) =>
    LET rows == frames[idx + 1].rows
    IN  /\ frames[idx + 1].whole /\ (Atomic => Good(frames[idx + 1]))
        /\ Len(pending) <= Len(rows)
        /\ pending = SubSeq(rows, Len(rows) - Len(pending) + 1, Len(rows))

Output(frames) ==
  Complete =>
    /\ pc # "emit" /\ idx <= Len(frames) => Written = OfFirst(frames, idx)
    /\ pc = "emit" /\ idx < Len(frames) =>
         Written = OfFirst(frames, idx) \o OfCurrent(frames)
    /\ idx > Len(frames) \/ (pc = "emit" /\ idx = Len(frames)) =>
         IsPrefix(OfFirst(frames, Len(frames)), Written)

\* A buffer is written at the end, when it has the rows of all frames.
HeldBack(frames) ==
  job.sink = "buffer" =>
    /\ exit = "none" => out = <<>>
    /\ exit = "ok" => out = buffer
    /\ idx <= Len(frames) => out \in {<<>>, OfFirst(frames, Len(frames))}

\* What the counters tell of the frames so far.
Counted(frames) ==
  /\ audit.records_seen = 0 => audit.fields_seen = 0
  /\ audit.fields_invalid = 0 =>
       /\ \A i \in 1 .. Len(frames) : i <= idx => Good(frames[i])
       /\ pc = "emit" /\ idx < Len(frames) =>
            LET rows == frames[idx + 1].rows
            IN  \A i \in 1 .. Len(rows) - Len(pending) : rows[i].valid
  /\ audit.fields_seen = 0 =>
       /\ \A i \in 1 .. Len(frames) : i <= idx => frames[i].rows = <<>>
       /\ pc = "emit" /\ idx < Len(frames) =>
            Len(pending) = Len(frames[idx + 1].rows)
  /\ audit.fields_invalid # 0 => \E i \in 1 .. Len(frames) : ~Good(frames[i])
  /\ audit.fields_seen # 0 => \E i \in 1 .. Len(frames) : frames[i].rows # <<>>

\* Why the command has ended.
Ended(frames) ==
  /\ exit = "ok" /\ job.verify => Status # "failed"
  /\ exit = "data" =>
       \/ audit.fields_invalid # 0 \/ Unreadable \/ Headless \/ Overflowing
       \/ audit.fields_seen # 0 /\ job.strict /\ ~Plan.full

InStep(frames) ==
  /\ Bounded(frames) /\ OnTrack(frames) /\ Current(frames)
  /\ Output(frames) /\ HeldBack(frames)
  /\ Counted(frames) /\ Ended(frames)

\* The frames are those of the job, and hold rows of S.
FramesIn(S, F) ==
  F = Frames /\ F \in Seq(FrameSet(S)) /\ RowsTyped(S) /\ job \in Jobs

-----------------------------------------------------------------------------
\* What is passed of frames are entries of the output.
LEMMA TaggedTyped ==
  ASSUME NEW S, NEW rows \in Seq(S), NEW i \in Nat \ {0}
  PROVE  /\ Tagged(rows, i) \in Seq(Entry(S))
         /\ Len(Tagged(rows, i)) = Len(rows)
         /\ \A k \in 1 .. Len(rows) :
              Tagged(rows, i)[k] = [record |-> i - 1, row |-> rows[k]]
<1>1. /\ DOMAIN rows = 1 .. Len(rows) /\ Len(rows) \in Nat
      /\ \A k \in 1 .. Len(rows) : rows[k] \in S
  OBVIOUS
<1>2. \A k \in 1 .. Len(rows) :
        [record |-> i - 1, row |-> rows[k]] \in Entry(S)
  BY <1>1 DEF Entry
<1> QED  BY <1>1, <1>2 DEF Tagged

\* One row more.
LEMMA TaggedNext ==
  ASSUME NEW S, NEW rows \in Seq(S), NEW m \in 0 .. Len(rows) - 1,
         NEW i \in Nat \ {0}
  PROVE  Tagged(SubSeq(rows, 1, m + 1), i)
           = Append(Tagged(SubSeq(rows, 1, m), i),
                    [record |-> i - 1, row |-> rows[m + 1]])
<1> DEFINE a == SubSeq(rows, 1, m + 1)
           b == SubSeq(rows, 1, m)
           e == [record |-> i - 1, row |-> rows[m + 1]]
<1>1. Len(rows) \in Nat /\ \A k \in 1 .. Len(rows) : rows[k] \in S
  OBVIOUS
<1>2. /\ a \in Seq(S) /\ Len(a) = m + 1
      /\ \A k \in 1 .. m + 1 : a[k] = rows[k]
  BY <1>1
<1>3. b \in Seq(S) /\ Len(b) = m /\ \A k \in 1 .. m : b[k] = rows[k]
  BY <1>1
<1>4. e \in Entry(S)
  BY <1>1 DEF Entry
<1> HIDE DEF a, b
<1>5. /\ Tagged(a, i) \in Seq(Entry(S)) /\ Len(Tagged(a, i)) = m + 1
      /\ \A k \in 1 .. m + 1 :
           Tagged(a, i)[k] = [record |-> i - 1, row |-> rows[k]]
  BY <1>2, TaggedTyped
<1>6. /\ Tagged(b, i) \in Seq(Entry(S)) /\ Len(Tagged(b, i)) = m
      /\ \A k \in 1 .. m :
           Tagged(b, i)[k] = [record |-> i - 1, row |-> rows[k]]
  BY <1>3, TaggedTyped
<1> HIDE DEF e
<1>7. /\ Append(Tagged(b, i), e) \in Seq(Entry(S))
      /\ Len(Append(Tagged(b, i), e)) = m + 1
      /\ \A k \in 1 .. m : Append(Tagged(b, i), e)[k] = Tagged(b, i)[k]
      /\ Append(Tagged(b, i), e)[m + 1] = e
  BY <1>4, <1>6, AppendProperties
<1>8. ASSUME NEW k \in 1 .. m + 1
      PROVE  Tagged(a, i)[k] = Append(Tagged(b, i), e)[k]
  <2>1. CASE k = m + 1
    BY <1>5, <1>7, <2>1 DEF e
  <2>2. CASE k # m + 1
    <3>1. k \in 1 .. m
      BY <2>2
    <3> QED  BY <1>5, <1>6, <1>7, <3>1
  <2> QED  BY <2>1, <2>2
<1>9. Tagged(a, i) = Append(Tagged(b, i), e)
  BY <1>5, <1>7, <1>8, SeqEqual
<1> QED  BY <1>9 DEF a, b, e

\* What is passed of the first n frames grows by what is passed of the next.
LEMMA OfFrames ==
  ASSUME NEW S, NEW F \in Seq(FrameSet(S))
  PROVE  /\ \A i \in 1 .. Len(F) : Passed(F, i) \in Seq(Entry(S))
         /\ \A n \in 0 .. Len(F) : OfFirst(F, n) \in Seq(Entry(S))
         /\ \A n \in 0 .. Len(F) - 1 :
              OfFirst(F, n + 1) = OfFirst(F, n) \o Passed(F, n + 1)
<1>1. Len(F) \in Nat
  OBVIOUS
<1>2. ASSUME NEW i \in 1 .. Len(F) PROVE Passed(F, i) \in Seq(Entry(S))
  <2>0. F[i] \in FrameSet(S)
    BY ElementOfSeq
  <2>1. F[i].rows \in Seq(S)
    BY <2>0 DEF FrameSet
  <2>2. Tagged(F[i].rows, i) \in Seq(Entry(S))
    BY <1>1, <2>1, TaggedTyped
  <2> QED  BY <2>2 DEF Passed
<1>3. ASSUME NEW n \in 0 .. Len(F) - 1
      PROVE  /\ OfFirst(F, n + 1) \in Seq(Entry(S))
             /\ OfFirst(F, n + 1) = OfFirst(F, n) \o Passed(F, n + 1)
  <2>1. n \in Nat /\ \A i \in 1 .. n + 1 : i \in 1 .. Len(F)
    BY <1>1
  <2> QED  BY <1>2, <2>1, OfNext
<1>4. ASSUME NEW n \in 0 .. Len(F) PROVE OfFirst(F, n) \in Seq(Entry(S))
  <2>1. CASE n = 0
    <3>1. OfFirst(F, 0) = <<>> /\ <<>> \in Seq(Entry(S))
      BY OfNone
    <3>2. OfFirst(F, n) = OfFirst(F, 0)
      BY <2>1
    <3> QED  BY <3>1, <3>2
  <2>2. CASE n # 0
    <3>1. n - 1 \in 0 .. Len(F) - 1 /\ (n - 1) + 1 = n
      BY <1>1, <2>2
    <3>2. OfFirst(F, (n - 1) + 1) \in Seq(Entry(S))
      BY ONLY <1>3, <3>1
    <3> QED  BY <3>1, <3>2
  <2> QED  BY <2>1, <2>2
<1> QED  BY <1>2, <1>3, <1>4

\* That depends on nothing but the job.
LEMMA OfSame ==
  ASSUME NEW F, job' = job
  PROVE  /\ Frames' = Frames /\ CounterRefused(F)' = CounterRefused(F)
         /\ Atomic' = Atomic
         /\ \A n \in Nat : OfFirst(F, n)' = OfFirst(F, n)
         /\ \A n, k : ReachedAt(n, k)' = ReachedAt(n, k)
<1>1. Frames' = Frames
  BY DEF Frames
<1>2. CounterRefused(F)' = CounterRefused(F)
  BY DEF CounterRefused
<1>3. Atomic' = Atomic
  BY DEF Atomic
<1>4. ASSUME NEW n \in Nat PROVE OfFirst(F, n)' = OfFirst(F, n)
  <2>1. \A i : Passed(F, i)' = Passed(F, i)
    BY <1>3 DEF Passed
  <2>2. [i \in 1 .. n |-> Passed(F, i)]' = [i \in 1 .. n |-> Passed(F, i)]
    BY <2>1
  <2> QED  BY <2>2 DEF OfFirst
<1>5. ASSUME NEW n, NEW k PROVE ReachedAt(n, k)' = ReachedAt(n, k)
  BY DEF ReachedAt
<1> QED  BY <1>1, <1>2, <1>3, <1>4, <1>5

\* A refused counter makes its frame a bad one.
LEMMA RefusedIsBad ==
  ASSUME NEW S, NEW F, FramesIn(S, F), CounterRefused(F)
  PROVE  /\ Len(F) \in 1 .. Len(F) /\ ~Good(F[Len(F)])
         /\ F[Len(F)].rows # <<>>
<1>1. /\ F # <<>> /\ F \in Seq(FrameSet(S))
      /\ F[Len(F)] = Torn("E_OCCURS_COUNT")
  BY DEF CounterRefused, FramesIn
<1>2. Len(F) \in Nat \ {0}
  BY <1>1, EmptySeq
<1>3. ~Good(Torn("E_OCCURS_COUNT")) /\ Torn("E_OCCURS_COUNT").rows # <<>>
  <2>1. /\ ~Good(Torn("E_OCCURS_COUNT"))
        /\ Torn("E_OCCURS_COUNT").rows = <<ErrorOf("E_OCCURS_COUNT")>>
    BY FrameTyped DEF FramesIn, FrameErrors
  <2> QED  BY <2>1
<1> QED  BY <1>1, <1>2, <1>3

-----------------------------------------------------------------------------
\* Sequences that grow.
LEMMA PrefixGrows ==
  ASSUME NEW X, NEW s \in Seq(X), NEW t \in Seq(X), NEW e \in X
  PROVE  /\ IsPrefix(s, s)
         /\ IsPrefix(s, t) => IsPrefix(s, Append(t, e))
<1>1. IsPrefix(s, s)
  BY DEF IsPrefix
<1>2. ASSUME IsPrefix(s, t) PROVE IsPrefix(s, Append(t, e))
  <2>1. /\ Len(s) \in Nat /\ Len(t) \in Nat /\ Len(s) <= Len(t)
        /\ SubSeq(s, 1, Len(s)) = SubSeq(t, 1, Len(s))
    BY <1>2 DEF IsPrefix
  <2>2. /\ Append(t, e) \in Seq(X) /\ Len(Append(t, e)) = Len(t) + 1
        /\ \A i \in 1 .. Len(t) : Append(t, e)[i] = t[i]
    BY AppendProperties
  <2>3. SubSeq(Append(t, e), 1, Len(s)) = SubSeq(t, 1, Len(s))
    BY <2>1, <2>2
  <2> QED  BY <2>1, <2>2, <2>3 DEF IsPrefix
<1> QED  BY <1>1, <1>2

\* An entry more at the end of what follows.
LEMMA AppendLast ==
  ASSUME NEW X, NEW s \in Seq(X), NEW t \in Seq(X), NEW e \in X,
         NEW w, w = s \o t, NEW u, u = Append(t, e), NEW v, v = Append(w, e)
  PROVE  v = s \o u
<1>1. /\ s \o t \in Seq(X) /\ Append(t, e) \in Seq(X) /\ <<e>> \in Seq(X)
  OBVIOUS
<1>2. v = (s \o t) \o <<e>> /\ u = t \o <<e>>
  BY <1>1, AppendIsConcat
<1> QED  BY <1>1, <1>2, ConcatAssociative

\* What was written is entries, and so far in step.
LEMMA WrittenTyped ==
  ASSUME NEW S, Typed(S)
  PROVE  Written \in Seq(Entry(S)) /\ \A row \in S : Row(row) \in Entry(S)
BY DEF Typed, Written, Row, Entry

\* A row that goes to the sink is written, unless the buffer is full.
LEMMA EmittedIs ==
  ASSUME NEW row, NEW next, job \in Jobs, Len(buffer) <= MaxBuffered,
         Len(buffer) \in Nat, Emitted(row, next), job' = job
  PROVE  \/ /\ pc' = "exit" /\ exit' = "data" /\ job.sink = "buffer"
            /\ Overflowing' /\ UNCHANGED <<buffer, out>>
         \/ /\ pc' = next /\ exit' = exit
            /\ job.sink # "audit" => Written' = Append(Written, Row(row))
            /\ job.sink = "buffer" => out' = out
<1>1. job.sink \in {"stream", "buffer", "audit"} /\ MaxBuffered \in Nat
  BY JobAssumption, BufferAssumption
<1>2. CASE job.sink = "buffer" /\ Len(buffer) >= MaxBuffered
  <2>1. Abort
    BY <1>2 DEF Emitted
  <2>2. Len(buffer) = MaxBuffered
    BY <1>1, <1>2
  <2> QED  BY <1>2, <2>1, <2>2 DEF Abort, Overflowing
<1>3. CASE ~(job.sink = "buffer" /\ Len(buffer) >= MaxBuffered)
  <2>1. /\ pc' = next /\ exit' = exit
        /\ out' = IF job.sink = "stream" THEN Append(out, Row(row)) ELSE out
        /\ buffer' = IF job.sink = "buffer" THEN Append(buffer, Row(row))
                                            ELSE buffer
    BY <1>3 DEF Emitted
  <2> QED  BY <1>1, <2>1 DEF Written
<1> QED  BY <1>2, <1>3

\* Between records the command reads one that has a frame, or its counter
\* was refused.
LEMMA ReadHasFrame ==
  ASSUME NEW S, NEW F, FramesIn(S, F), Typed(S), InStep(F), pc = "read",
         ReachedAt(idx, Place) => idx < Len(F)
  PROVE  /\ idx \in Nat /\ Len(F) \in Nat
         /\ idx < Len(F) \/ CounterRefused(F)
         /\ idx < Len(F) => ReachedAt(idx, Place)
         /\ Complete => IF idx < Len(F) THEN Written = OfFirst(F, idx)
                        ELSE IsPrefix(OfFirst(F, Len(F)), Written)
<1>1. idx \in Nat /\ Len(F) \in Nat /\ Bounded(F) /\ OnTrack(F) /\ Output(F)
  BY DEF Typed, FramesIn, InStep
<1>2. /\ idx < Len(F) \/ CounterRefused(F)
      /\ idx < Len(F) => ReachedAt(idx, Place)
  BY <1>1 DEF Bounded, OnTrack
<1>3. OfFirst(F, Len(F)) \in Seq(Entry(S))
  BY <1>1, OfFrames DEF FramesIn
<1>4. Complete => IF idx <= Len(F) THEN Written = OfFirst(F, idx)
                  ELSE IsPrefix(OfFirst(F, Len(F)), Written)
  BY <1>1 DEF Output
<1>5. IsPrefix(OfFirst(F, Len(F)), OfFirst(F, Len(F)))
  BY <1>3 DEF IsPrefix
<1> QED  BY <1>1, <1>2, <1>4, <1>5

-----------------------------------------------------------------------------
\* A record that is refused stays in step with its frame.
LEMMA RefusedInStep ==
  ASSUME NEW S, NEW F, FramesIn(S, F), Inv(S), InStep(F), pc = "read",
         NEW row \in S, ~row.valid, NEW next \in {"read", "finish"},
         audit' = RecordAudit(RecordInvalid(RecordSeen(audit)), row),
         Refuse(row, next), idx' = idx + 1, job' = job,
         ReachedAt(idx, Place) =>
           /\ idx < Len(F)
           /\ ~Good(F[idx + 1]) /\ F[idx + 1].rows # <<>>
           /\ ~Atomic => F[idx + 1].rows = <<row>>
           /\ \/ Len(F) = idx + 1 /\ (next = "finish" \/ CounterRefused(F))
              \/ next = "read" /\ ReachedAt(idx + 1, Place')
  PROVE  InStep(F)'
<1>1. /\ Typed(S) /\ RowsAddUp(audit, job.samples) /\ WrittenAddUp
      /\ exit = "none" /\ job \in Jobs
      /\ F \in Seq(FrameSet(S)) /\ RowsTyped(S)
  BY DEF Inv, Typed, FramesIn
<1>2. /\ idx \in Nat /\ Len(F) \in Nat
      /\ idx < Len(F) \/ CounterRefused(F)
      /\ idx < Len(F) => ReachedAt(idx, Place)
      /\ Complete => IF idx < Len(F) THEN Written = OfFirst(F, idx)
                     ELSE IsPrefix(OfFirst(F, Len(F)), Written)
  BY <1>1, ReadHasFrame
<1>3. /\ CounterRefused(F)' = CounterRefused(F) /\ Atomic' = Atomic
      /\ \A n \in Nat : OfFirst(F, n)' = OfFirst(F, n)
      /\ \A n, k : ReachedAt(n, k)' = ReachedAt(n, k)
  BY OfSame
<1>4. idx < Len(F) =>
        /\ ~Good(F[idx + 1]) /\ F[idx + 1].rows # <<>>
        /\ ~Atomic => F[idx + 1].rows = <<row>>
        /\ \/ Len(F) = idx + 1 /\ (next = "finish" \/ CounterRefused(F))
           \/ next = "read" /\ ReachedAt(idx + 1, Place')
  BY <1>2
\* How the policy writes it.
<1>5. /\ pc' \in {next, "exit"} /\ exit' \in {"none", "data"}
      /\ exit' = "none" => pc' = next
      /\ pc' # "exit" => exit' = "none"
      /\ Complete' => \/ Atomic /\ Written' = Written
                      \/ ~Atomic /\ Written' = Append(Written, Row(row))
      /\ job.sink = "buffer" => out' = out
  <2>1. job.on_error \in {"fail", "skip-record", "emit-error-row"}
    BY <1>1, JobAssumption
  <2>2. CASE job.on_error = "fail"
    <3>1. pc' = "exit" /\ exit' = "data" /\ buffer' = buffer /\ out' = out
      BY <2>2 DEF Refuse, Abort
    <3> QED  BY <2>2, <3>1 DEF Atomic, Written
  <2>3. CASE job.on_error = "skip-record"
    <3>1. pc' = next /\ exit' = exit /\ buffer' = buffer /\ out' = out
      BY <2>3 DEF Refuse, Proceed
    <3> QED  BY <1>1, <2>3, <3>1 DEF Atomic, Written
  <2>4. CASE job.on_error = "emit-error-row"
    <3>1. Emitted(row, next) /\ ~Atomic
      BY <2>4 DEF Refuse, Atomic
    <3>2. Len(buffer) <= MaxBuffered /\ Len(buffer) \in Nat
      BY <1>1 DEF WrittenAddUp, Typed
    <3>3. \/ /\ pc' = "exit" /\ exit' = "data" /\ job.sink = "buffer"
             /\ Overflowing' /\ UNCHANGED <<buffer, out>>
          \/ /\ pc' = next /\ exit' = exit
             /\ job.sink # "audit" => Written' = Append(Written, Row(row))
             /\ job.sink = "buffer" => out' = out
      BY <1>1, <3>1, <3>2, EmittedIs
    <3> QED  BY <1>1, <3>1, <3>3 DEF Complete
  <2> QED  BY <2>1, <2>2, <2>3, <2>4
<1>6. Bounded(F)'
  BY <1>2, <1>3, <1>5 DEF Bounded
<1>7. OnTrack(F)'
  BY <1>2, <1>3, <1>4, <1>5 DEF OnTrack
<1>8. Current(F)'
  BY <1>5 DEF Current
<1>9. Output(F)'
  <2>0. idx' \in Nat /\ idx' = idx + 1 /\ pc' # "emit"
    BY <1>2, <1>5
  <2>1. Complete' => Complete
    BY <1>1, <1>5 DEF Complete
  <2>2. Written \in Seq(Entry(S)) /\ Row(row) \in Entry(S)
    BY <1>1, WrittenTyped
  <2>3. CASE idx < Len(F)
    <3>1. idx \in 0 .. Len(F) - 1 /\ idx + 1 <= Len(F) /\ idx + 1 \in Nat
          /\ idx \in 0 .. Len(F) /\ idx + 1 \in 1 .. Len(F)
      BY <1>2, <2>3
    <3>2. /\ OfFirst(F, idx + 1) = OfFirst(F, idx) \o Passed(F, idx + 1)
          /\ OfFirst(F, idx) \in Seq(Entry(S))
      BY <1>1, <3>1, OfFrames
    <3>3. Complete' => Written' = OfFirst(F, idx + 1)
      <4>1. CASE Atomic
        <5>1. Passed(F, idx + 1) = <<>>
          BY <1>4, <2>3, <4>1 DEF Passed
        <5>2. OfFirst(F, idx + 1) = OfFirst(F, idx)
          BY <3>2, <5>1, ConcatEmptySeq
        <5> QED  BY <1>2, <1>5, <2>1, <2>3, <4>1, <5>2
      <4>2. CASE ~Atomic
        <5>1. Passed(F, idx + 1) = Tagged(<<row>>, idx + 1)
          BY <1>4, <2>3, <4>2 DEF Passed
        <5>2. Tagged(<<row>>, idx + 1) = <<Row(row)>>
          <6> DEFINE one == <<row>>
          <6>1. /\ one \in Seq(S) /\ Len(one) = 1 /\ 1 \in 1 .. Len(one)
                /\ one[1] = row /\ idx + 1 \in Nat \ {0}
            BY <1>2
          <6> HIDE DEF one
          <6>2. /\ Tagged(one, idx + 1) \in Seq(Entry(S))
                /\ Len(Tagged(one, idx + 1)) = 1
                /\ Tagged(one, idx + 1)[1]
                     = [record |-> (idx + 1) - 1, row |-> row]
            BY <6>1, TaggedTyped
          <6>3. (idx + 1) - 1 = idx
            BY <1>2
          <6>4. Tagged(one, idx + 1)[1] = Row(row)
            BY <6>2, <6>3 DEF Row
          <6>5. Tagged(one, idx + 1) = <<Row(row)>>
            BY <2>2, <6>2, <6>4
          <6> QED  BY <6>5 DEF one
        <5>3. OfFirst(F, idx + 1) = Append(OfFirst(F, idx), Row(row))
          BY <2>2, <3>2, <5>1, <5>2, AppendIsConcat
        <5> QED  BY <1>2, <1>5, <2>1, <2>3, <4>2, <5>3
      <4> QED  BY <4>1, <4>2
    <3>4. Complete' => Written' = OfFirst(F, idx)'
      BY <1>3, <2>0, <3>1, <3>3
    <3> QED  BY <1>2, <2>0, <3>1, <3>4 DEF Output
  <2>4. CASE ~(idx < Len(F))
    <3>1. OfFirst(F, Len(F)) \in Seq(Entry(S))
      BY <1>1, <1>2, OfFrames
    <3>2. Complete' => IsPrefix(OfFirst(F, Len(F)), Written')
      BY <1>2, <1>5, <2>1, <2>2, <2>4, <3>1, PrefixGrows
    <3>3. ~(idx' <= Len(F))
      BY <1>2, <2>0, <2>4
    <3>4. Complete' => IsPrefix(OfFirst(F, Len(F))', Written')
      BY <1>2, <1>3, <3>2
    <3> QED  BY <2>0, <3>3, <3>4 DEF Output
  <2> QED  BY <2>3, <2>4
<1>10. HeldBack(F)'
  BY <1>1, <1>5 DEF InStep, HeldBack
<1>11. /\ audit'.records_seen # 0 /\ audit'.fields_seen # 0
       /\ audit'.fields_invalid # 0
  <2>1. /\ audit'.records_seen = audit.records_seen + 1
        /\ audit'.fields_seen = audit.fields_seen + 1
        /\ audit'.fields_invalid = audit.fields_invalid + 1
    BY <1>1, RefusalCounts
  <2> QED  BY <1>1, <2>1 DEF Typed, Audits
<1>12. /\ \E i \in 1 .. Len(F) : ~Good(F[i])
       /\ \E i \in 1 .. Len(F) : F[i].rows # <<>>
  <2>1. CASE idx < Len(F)
    <3>1. idx + 1 \in 1 .. Len(F)
      BY <1>2, <2>1
    <3> QED  BY <1>4, <2>1, <3>1
  <2>2. CASE ~(idx < Len(F))
    BY <1>2, <2>2, RefusedIsBad
  <2> QED  BY <2>1, <2>2
<1>13. Counted(F)'
  BY <1>11, <1>12 DEF Counted
<1>14. Ended(F)'
  BY <1>5, <1>11 DEF Ended
<1> QED  BY <1>6, <1>7, <1>8, <1>9, <1>13, <1>14, <1>10 DEF InStep

-----------------------------------------------------------------------------
\* The rows of the frame in progress that were put out, and the next one.
LEMMA CurrentIs ==
  ASSUME NEW S, NEW F, FramesIn(S, F), Typed(S), Current(F),
         pc = "emit", idx < Len(F)
  PROVE  LET rows == F[idx + 1].rows
             m == Len(rows) - Len(pending)
         IN  /\ idx + 1 \in 1 .. Len(F) /\ idx \in 0 .. Len(F) - 1
             /\ rows \in Seq(S) /\ m \in 0 .. Len(rows)
             /\ Len(rows) \in Nat /\ Len(pending) \in Nat
             /\ pending = SubSeq(rows, m + 1, Len(rows))
             /\ OfCurrent(F) = Tagged(SubSeq(rows, 1, m), idx + 1)
             /\ OfCurrent(F) \in Seq(Entry(S))
             /\ pending = <<>> => m = Len(rows)
                                  /\ OfCurrent(F) = Tagged(rows, idx + 1)
             /\ pending # <<>> =>
                  /\ m < Len(rows) /\ Head(pending) = rows[m + 1]
                  /\ Len(Tail(pending)) = Len(pending) - 1
                  /\ Tail(pending) = SubSeq(rows, (m + 1) + 1, Len(rows))
<1> DEFINE rows == F[idx + 1].rows
           L == Len(rows)
           m == L - Len(pending)
<1>1. /\ idx \in Nat /\ Len(F) \in Nat /\ F \in Seq(FrameSet(S))
      /\ pending \in Seq(S)
  BY DEF Typed, FramesIn
<1>2. idx + 1 \in 1 .. Len(F) /\ idx \in 0 .. Len(F) - 1
  BY <1>1
<1>3. F[idx + 1] \in FrameSet(S)
  BY <1>1, <1>2, ElementOfSeq
<1>4. rows \in Seq(S)
  BY <1>3 DEF FrameSet
<1>5. /\ Len(pending) <= L
      /\ pending = SubSeq(rows, L - Len(pending) + 1, L)
  BY DEF Current
<1>6. OfCurrent(F) = Tagged(SubSeq(rows, 1, m), idx + 1)
  BY DEF OfCurrent
<1> HIDE DEF rows
<1>7. L \in Nat /\ Len(pending) \in Nat
  BY <1>1, <1>4
<1>8. m \in 0 .. L /\ pending = SubSeq(rows, m + 1, L)
  BY <1>5, <1>7
<1> HIDE DEF m
<1>9. SubSeq(rows, 1, m) \in Seq(S)
  BY <1>4, <1>7, <1>8
<1>10. idx + 1 \in Nat \ {0}
  BY <1>1
<1>11. Tagged(SubSeq(rows, 1, m), idx + 1) \in Seq(Entry(S))
  BY <1>9, <1>10, TaggedTyped
<1>12. /\ Len(pending) = L - m
       /\ pending # <<>> => /\ Head(pending) = rows[m + 1]
                            /\ Tail(pending) = SubSeq(rows, (m + 1) + 1, L)
       /\ (pending = <<>> <=> m = L)
  <2>1. m \in 0 .. Len(rows) /\ pending = SubSeq(rows, m + 1, Len(rows))
    BY <1>8
  <2>2. Len(pending) = Len(rows) - m
    BY ONLY <1>4, <2>1, LeftOver
  <2>3. pending = <<>> <=> m = Len(rows)
    <3>1. pending = <<>> <=> Len(pending) = 0
      BY <1>1, EmptySeq
    <3> QED  BY <1>7, <2>1, <2>2, <3>1
  <2>4. ASSUME pending # <<>>
        PROVE  /\ Head(pending) = rows[m + 1]
               /\ Tail(pending) = SubSeq(rows, (m + 1) + 1, Len(rows))
    BY ONLY <1>4, <2>1, <2>4, LeftOver
  <2> QED  BY <2>2, <2>3, <2>4
<1>13. pending = <<>> => SubSeq(rows, 1, m) = rows
  BY <1>4, <1>12, SubSeqFull
<1>14. pending # <<>> => Len(Tail(pending)) = Len(pending) - 1
  BY <1>1
<1>15. pending # <<>> => m < L
  BY <1>7, <1>8, <1>12
<1> QED
  BY <1>2, <1>4, <1>6, <1>7, <1>8, <1>11, <1>12, <1>13, <1>14, <1>15
  DEF m, rows

\* A record that is taken up is the frame in progress.
LEMMA BegunInStep ==
  ASSUME NEW S, NEW F, FramesIn(S, F), Inv(S), InStep(F), pc = "read",
         NEW rows \in Seq(S), BeginRecord(rows), Atomic => AllValid(rows),
         ReachedAt(idx, Place) =>
           /\ idx < Len(F) /\ F[idx + 1] = Whole(rows)
           /\ ReachedAt(idx + 1, Place')
  PROVE  InStep(F)'
<1>1. /\ Typed(S) /\ exit = "none" /\ F \in Seq(FrameSet(S))
      /\ HeldBack(F) /\ Counted(F)
  BY DEF Inv, Typed, FramesIn, InStep
<1>2. /\ audit' = RecordSeen(audit) /\ pending' = rows /\ pc' = "emit"
      /\ UNCHANGED <<job, idx, buffer, out, exit>>
  BY DEF BeginRecord, Proceed
<1>3. /\ idx \in Nat /\ Len(F) \in Nat
      /\ idx < Len(F) \/ CounterRefused(F)
      /\ idx < Len(F) => ReachedAt(idx, Place)
      /\ Complete => IF idx < Len(F) THEN Written = OfFirst(F, idx)
                     ELSE IsPrefix(OfFirst(F, Len(F)), Written)
  BY <1>1, ReadHasFrame
<1>4. /\ CounterRefused(F)' = CounterRefused(F) /\ Atomic' = Atomic
      /\ \A n \in Nat : OfFirst(F, n)' = OfFirst(F, n)
      /\ \A n, k : ReachedAt(n, k)' = ReachedAt(n, k)
  BY <1>2, OfSame
<1>5. idx < Len(F) =>
        /\ F[idx + 1].rows = rows /\ F[idx + 1].whole
        /\ Atomic => Good(F[idx + 1])
        /\ ReachedAt(idx + 1, Place')
  BY <1>3 DEF Whole, Good
<1>6. Bounded(F)' /\ OnTrack(F)'
  BY <1>1, <1>2, <1>3, <1>4, <1>5 DEF Bounded, OnTrack
<1>7. Len(rows) \in Nat /\ Len(rows) - Len(rows) = 0
      /\ SubSeq(rows, 1, Len(rows)) = rows /\ SubSeq(rows, 1, 0) = <<>>
  BY SubSeqFull, SubSeqEmpty
<1>8. Current(F)'
  <2>1. SUFFICES ASSUME idx < Len(F)
                 PROVE  /\ F[idx + 1].whole /\ (Atomic => Good(F[idx + 1]))
                        /\ Len(rows) <= Len(F[idx + 1].rows)
                        /\ rows = SubSeq(F[idx + 1].rows,
                                         Len(F[idx + 1].rows) - Len(rows) + 1,
                                         Len(F[idx + 1].rows))
    BY <1>2, <1>4 DEF Current, Good
  <2>2. Len(rows) <= Len(rows) /\ Len(rows) - Len(rows) + 1 = 1
    BY <1>7
  <2>3. rows = SubSeq(rows, Len(rows) - Len(rows) + 1, Len(rows))
    BY <1>7, <2>2
  <2> QED  BY <1>5, <2>1, <2>2, <2>3
<1>9. Output(F)'
  <2>1. Complete' => Complete /\ Written' = Written
    BY <1>1, <1>2 DEF Complete, Written
  <2>2. idx < Len(F) => OfCurrent(F)' = <<>>
    <3>1. SUFFICES ASSUME idx < Len(F) PROVE OfCurrent(F)' = <<>>
      OBVIOUS
    <3>2. OfCurrent(F)' =
            Tagged(SubSeq(rows, 1, Len(rows) - Len(rows)), idx + 1)
      BY <1>2, <1>5, <3>1 DEF OfCurrent
    <3>3. OfCurrent(F)' = Tagged(<<>>, idx + 1)
      BY <1>7, <3>2
    <3>4. <<>> \in Seq(S) /\ Len(<<>>) = 0 /\ idx + 1 \in Nat \ {0}
      BY <1>3
    <3>5. /\ Tagged(<<>>, idx + 1) \in Seq(Entry(S))
          /\ Len(Tagged(<<>>, idx + 1)) = 0
      BY <3>4, TaggedTyped
    <3> QED  BY <3>3, <3>5, EmptySeq
  <2>3. CASE idx < Len(F)
    <3>1. OfFirst(F, idx) \in Seq(Entry(S))
      BY <1>1, <1>3, <2>3, OfFrames
    <3>2. Complete' => Written' = OfFirst(F, idx) \o OfCurrent(F)'
      BY <1>3, <2>1, <2>2, <2>3, <3>1, ConcatEmptySeq
    <3>3. OfFirst(F, idx)' = OfFirst(F, idx)
      BY <1>2, <1>3, <1>4
    <3> QED  BY <1>2, <1>3, <2>3, <3>2, <3>3 DEF Output
  <2>4. CASE ~(idx < Len(F))
    BY <1>2, <1>3, <1>4, <2>1, <2>4 DEF Output
  <2> QED  BY <2>3, <2>4
<1>10. HeldBack(F)'
  BY <1>1, <1>2 DEF HeldBack
<1>11. Counted(F)'
  <2>1. /\ audit'.records_seen # 0
        /\ audit'.fields_seen = audit.fields_seen
        /\ audit'.fields_invalid = audit.fields_invalid
    <3>1. audit \in Audits(S)
      BY <1>1 DEF Typed
    <3>2. /\ audit'.records_seen = audit.records_seen + 1
          /\ audit'.fields_seen = audit.fields_seen
          /\ audit'.fields_invalid = audit.fields_invalid
      BY <1>2, <3>1, RecordSeenIs
    <3> QED  BY <3>1, <3>2 DEF Audits
  <2>2. idx < Len(F) =>
          \A i \in 1 .. Len(F[idx + 1].rows) - Len(rows) :
            F[idx + 1].rows[i].valid
    BY <1>5, <1>7
  <2> QED  BY <1>1, <1>2, <1>5, <2>1, <2>2 DEF Counted
<1>12. Ended(F)'
  BY <1>1, <1>2 DEF Ended
<1> QED  BY <1>6, <1>8, <1>9, <1>10, <1>11, <1>12 DEF InStep

\* A record that ends is done.
LEMMA EndInStep ==
  ASSUME NEW S, NEW F, FramesIn(S, F), Inv(S), InStep(F), EndRecord
  PROVE  InStep(F)'
<1> DEFINE rows == F[idx + 1].rows
<1>1. /\ Typed(S) /\ exit = "none" /\ F \in Seq(FrameSet(S))
      /\ HeldBack(F) /\ Counted(F) /\ Bounded(F) /\ OnTrack(F)
      /\ Current(F) /\ Output(F) /\ audit \in Audits(S)
      /\ idx \in Nat /\ Len(F) \in Nat /\ pc = "emit" /\ pending = <<>>
  BY DEF Inv, Typed, FramesIn, InStep, EndRecord
<1>2. /\ idx' = idx + 1 /\ pc' = "read"
      /\ UNCHANGED <<job, rest, pending, buffer, out, exit>>
      /\ audit' = IF audit.fields_invalid = before
                    THEN [audit EXCEPT !.records_valid = @ + 1]
                    ELSE [audit EXCEPT !.records_invalid = @ + 1]
  BY DEF EndRecord, Proceed, RecordInvalid
<1>3. /\ CounterRefused(F)' = CounterRefused(F) /\ Atomic' = Atomic
      /\ \A n \in Nat : OfFirst(F, n)' = OfFirst(F, n)
      /\ \A n, k : ReachedAt(n, k)' = ReachedAt(n, k)
  BY <1>2, OfSame
<1>4. Place' = Place
  BY <1>2 DEF Place
<1>5. idx < Len(F) \/ CounterRefused(F)
  BY <1>1 DEF Bounded
<1>6. idx < Len(F) =>
        /\ idx + 1 \in 1 .. Len(F) /\ idx \in 0 .. Len(F) - 1
        /\ rows \in Seq(S) /\ Len(rows) \in Nat /\ Len(pending) = 0
        /\ OfCurrent(F) = Tagged(rows, idx + 1)
        /\ F[idx + 1].whole /\ (Atomic => Good(F[idx + 1]))
  <2>1. Len(pending) = 0
    BY <1>1
  <2> QED  BY <1>1, <2>1, CurrentIs DEF Current
<1> HIDE DEF rows
<1>7. Bounded(F)'
  BY <1>1, <1>2, <1>3, <1>5 DEF Bounded
<1>8. OnTrack(F)'
  BY <1>1, <1>2, <1>3, <1>4, <1>5 DEF OnTrack
<1>9. Current(F)'
  BY <1>2 DEF Current
<1>10. Output(F)'
  <2>1. Complete' => Complete /\ Written' = Written
    BY <1>1, <1>2 DEF Complete, Written
  <2>2. OfFirst(F, idx)' = OfFirst(F, idx + 1)
    BY <1>1, <1>2, <1>3
  <2>3. CASE idx < Len(F)
    <3>1. Passed(F, idx + 1) = OfCurrent(F)
      BY <1>6, <2>3 DEF Passed, rows
    <3>2. OfFirst(F, idx + 1) = OfFirst(F, idx) \o OfCurrent(F)
      BY <1>1, <1>6, <2>3, <3>1, OfFrames
    <3>3. Complete' => Written' = OfFirst(F, idx)'
      BY <1>1, <2>1, <2>2, <2>3, <3>2 DEF Output
    <3> QED  BY <1>1, <1>2, <2>3, <3>3 DEF Output
  <2>4. CASE ~(idx < Len(F))
    <3>1. Complete' => IsPrefix(OfFirst(F, Len(F)), Written')
      BY <1>1, <2>1, <2>4 DEF Output
    <3>2. OfFirst(F, Len(F))' = OfFirst(F, Len(F))
      BY <1>1, <1>3
    <3> QED  BY <1>1, <1>2, <2>4, <3>1, <3>2 DEF Output
  <2> QED  BY <2>3, <2>4
<1>11. HeldBack(F)'
  BY <1>1, <1>2 DEF HeldBack
<1>12. Counted(F)'
  <2>1. /\ audit'.records_seen = audit.records_seen
        /\ audit'.fields_seen = audit.fields_seen
        /\ audit'.fields_invalid = audit.fields_invalid
    BY <1>1, <1>2 DEF Audits
  <2>2. audit.fields_invalid = 0 =>
          \A i \in 1 .. Len(F) : i <= idx + 1 => Good(F[i])
    <3>1. SUFFICES ASSUME audit.fields_invalid = 0, NEW i \in 1 .. Len(F),
                          i <= idx + 1
                   PROVE  Good(F[i])
      OBVIOUS
    <3>2. CASE i = idx + 1
      <4>1. idx < Len(F)
        BY <1>1, <3>2
      <4>2. \A k \in 1 .. Len(rows) - Len(pending) : rows[k].valid
        BY <1>1, <3>1, <4>1 DEF Counted, rows
      <4>3. \A k \in 1 .. Len(rows) : rows[k].valid
        BY <1>6, <4>1, <4>2
      <4> QED  BY <1>6, <3>2, <4>1, <4>3 DEF Good, AllValid, rows
    <3>3. CASE i # idx + 1
      BY <1>1, <3>1, <3>3 DEF Counted
    <3> QED  BY <3>2, <3>3
  <2>3. audit.fields_seen = 0 =>
          \A i \in 1 .. Len(F) : i <= idx + 1 => F[i].rows = <<>>
    <3>1. SUFFICES ASSUME audit.fields_seen = 0, NEW i \in 1 .. Len(F),
                          i <= idx + 1
                   PROVE  F[i].rows = <<>>
      OBVIOUS
    <3>2. CASE i = idx + 1
      <4>1. idx < Len(F)
        BY <1>1, <3>2
      <4>2. Len(pending) = Len(rows)
        BY <1>1, <3>1, <4>1 DEF Counted, rows
      <4>3. rows = <<>>
        BY <1>6, <4>1, <4>2, EmptySeq
      <4> QED  BY <3>2, <4>3 DEF rows
    <3>3. CASE i # idx + 1
      BY <1>1, <3>1, <3>3 DEF Counted
    <3> QED  BY <3>2, <3>3
  <2> QED  BY <1>1, <1>2, <2>1, <2>2, <2>3 DEF Counted
<1>13. Ended(F)'
  BY <1>1, <1>2 DEF Ended
<1> QED  BY <1>7, <1>8, <1>9, <1>10, <1>11, <1>12, <1>13 DEF InStep

-----------------------------------------------------------------------------
\* A row that is counted and written is the next one of the frame.
LEMMA EmitInStep ==
  ASSUME NEW S, NEW F, FramesIn(S, F), Inv(S), InStep(F), EmitRow
  PROVE  InStep(F)'
<1> DEFINE rows == F[idx + 1].rows
           m == Len(rows) - Len(pending)
           row == Head(pending)
<1>1. /\ Typed(S) /\ exit = "none" /\ F \in Seq(FrameSet(S)) /\ RowsTyped(S)
      /\ HeldBack(F) /\ Counted(F) /\ Bounded(F) /\ OnTrack(F)
      /\ Current(F) /\ Output(F) /\ audit \in Audits(S)
      /\ idx \in Nat /\ Len(F) \in Nat /\ pc = "emit" /\ pending # <<>>
      /\ RowsAddUp(audit, job.samples) /\ WrittenAddUp /\ InProgress
      /\ job \in Jobs /\ pending \in Seq(S)
  BY DEF Inv, Typed, FramesIn, InStep, EmitRow
<1>2. /\ audit' = RecordAudit(audit, row) /\ pending' = Tail(pending)
      /\ Emitted(row, "emit") /\ UNCHANGED <<job, rest, idx, before>>
  BY DEF EmitRow
<1>3. row \in S
  BY <1>1
<1>4. /\ CounterRefused(F)' = CounterRefused(F) /\ Atomic' = Atomic
      /\ \A n \in Nat : OfFirst(F, n)' = OfFirst(F, n)
      /\ \A n, k : ReachedAt(n, k)' = ReachedAt(n, k)
  BY <1>2, OfSame
<1>5. Place' = Place
  BY <1>2 DEF Place
<1>6. \/ /\ pc' = "exit" /\ exit' = "data" /\ job.sink = "buffer"
         /\ Overflowing' /\ UNCHANGED <<buffer, out>>
      \/ /\ pc' = "emit" /\ exit' = "none"
         /\ job.sink # "audit" => Written' = Append(Written, Row(row))
         /\ job.sink = "buffer" => out' = out
  <2>1. Len(buffer) <= MaxBuffered /\ Len(buffer) \in Nat
    BY <1>1 DEF WrittenAddUp, Typed
  <2> QED  BY <1>1, <1>2, <2>1, EmittedIs
<1>7. idx < Len(F) \/ CounterRefused(F)
  BY <1>1 DEF Bounded
<1>8. idx < Len(F) =>
        /\ idx + 1 \in 1 .. Len(F) /\ idx \in 0 .. Len(F) - 1
        /\ rows \in Seq(S) /\ m \in 0 .. Len(rows) /\ m < Len(rows)
        /\ Len(rows) \in Nat /\ Len(pending) \in Nat
        /\ m = Len(rows) - Len(pending)
        /\ OfCurrent(F) = Tagged(SubSeq(rows, 1, m), idx + 1)
        /\ OfCurrent(F) \in Seq(Entry(S))
        /\ row = rows[m + 1]
        /\ Len(Tail(pending)) = Len(pending) - 1
        /\ Tail(pending) = SubSeq(rows, (m + 1) + 1, Len(rows))
        /\ F[idx + 1].whole /\ (Atomic => Good(F[idx + 1]))
  BY <1>1, CurrentIs DEF Current
<1> HIDE DEF rows, row, m
<1>9. /\ audit'.records_seen = audit.records_seen
      /\ audit'.fields_seen = audit.fields_seen + 1
      /\ row.valid => audit'.fields_invalid = audit.fields_invalid
      /\ ~row.valid => audit'.fields_invalid = audit.fields_invalid + 1
  BY <1>1, <1>2, <1>3, RowCounted
<1>10. ASSUME idx < Len(F)
       PROVE  /\ Len(rows) - Len(pending') = m + 1 /\ m + 1 \in 1 .. Len(rows)
              /\ m \in Nat /\ Len(pending') <= Len(rows)
  <2>1. Len(pending') = Len(pending) - 1
    BY <1>2, <1>8, <1>10
  <2>2. /\ Len(rows) \in Nat /\ Len(pending) \in Nat
        /\ m \in 0 .. Len(rows) /\ m < Len(rows)
        /\ m = Len(rows) - Len(pending)
    BY <1>8, <1>10
  <2> QED  BY ONLY <2>1, <2>2
<1>11. Bounded(F)' /\ OnTrack(F)'
  BY <1>1, <1>2, <1>4, <1>5, <1>6, <1>7 DEF Bounded, OnTrack
<1>12. Current(F)'
  <2>1. SUFFICES ASSUME idx < Len(F)
                 PROVE  /\ F[idx + 1].whole /\ (Atomic => Good(F[idx + 1]))
                        /\ Len(pending') <= Len(rows)
                        /\ pending' = SubSeq(rows,
                             Len(rows) - Len(pending') + 1, Len(rows))
    BY <1>2, <1>4 DEF Current, Good, rows
  <2>2. pending' = SubSeq(rows, (m + 1) + 1, Len(rows))
    BY <1>2, <1>8, <2>1
  <2>3. Len(rows) - Len(pending') = m + 1 /\ Len(pending') <= Len(rows)
    BY <1>10, <2>1
  <2> QED  BY <1>8, <2>1, <2>2, <2>3
<1>13. Output(F)'
  <2>1. SUFFICES ASSUME Complete' PROVE Output(F)'
    BY DEF Output
  <2>2. /\ pc' = "emit" /\ Complete /\ idx' = idx
        /\ Written' = Append(Written, Row(row))
    BY <1>1, <1>2, <1>6, <2>1 DEF Complete
  <2>3. Written \in Seq(Entry(S)) /\ Row(row) \in Entry(S)
    BY <1>1, <1>3, WrittenTyped
  <2>4. CASE idx < Len(F)
    <3>1. OfCurrent(F)' = Tagged(SubSeq(rows, 1, m + 1), idx + 1)
      <4>1. OfCurrent(F)'
              = Tagged(SubSeq(rows, 1, Len(rows) - Len(pending')), idx + 1)
        BY <2>2 DEF OfCurrent, rows
      <4> QED  BY <1>10, <2>4, <4>1
    <3>2. OfCurrent(F)' = Append(OfCurrent(F), Row(row))
      <4>1. /\ rows \in Seq(S) /\ m \in 0 .. Len(rows) - 1
            /\ idx + 1 \in Nat \ {0} /\ (idx + 1) - 1 = idx
        BY <1>1, <1>8, <2>4
      <4>2. Tagged(SubSeq(rows, 1, m + 1), idx + 1)
              = Append(Tagged(SubSeq(rows, 1, m), idx + 1),
                       [record |-> (idx + 1) - 1, row |-> rows[m + 1]])
        BY <4>1, TaggedNext
      <4>3. Row(row) = [record |-> (idx + 1) - 1, row |-> rows[m + 1]]
        BY <1>8, <2>4, <4>1 DEF Row
      <4> QED  BY <1>8, <2>4, <3>1, <4>2, <4>3
    <3>3. OfFirst(F, idx) \in Seq(Entry(S))
      BY <1>1, <2>4, OfFrames
    <3>4. Written = OfFirst(F, idx) \o OfCurrent(F)
      BY <1>1, <2>2, <2>4 DEF Output
    <3>5. OfCurrent(F) \in Seq(Entry(S))
      BY <1>8, <2>4
    <3>6. Written' = OfFirst(F, idx) \o OfCurrent(F)'
      <4> DEFINE E == Entry(S)
                 s == OfFirst(F, idx)
                 t == OfCurrent(F)
                 e == Row(row)
                 w == Written
                 u == OfCurrent(F)'
                 v == Written'
      <4>1. /\ s \in Seq(E) /\ t \in Seq(E) /\ e \in E
            /\ w = s \o t /\ u = Append(t, e) /\ v = Append(w, e)
        BY <2>2, <2>3, <3>2, <3>3, <3>4, <3>5
      <4> HIDE DEF E, s, t, e, u, v, w
      <4>2. v = s \o u
        BY ONLY <4>1, AppendLast
      <4> QED  BY <4>2 DEF s, u, v
    <3>7. OfFirst(F, idx)' = OfFirst(F, idx)
      BY <1>1, <1>2, <1>4
    <3> QED  BY <1>1, <2>2, <2>4, <3>6, <3>7 DEF Output
  <2>5. CASE ~(idx < Len(F))
    <3>1. OfFirst(F, Len(F)) \in Seq(Entry(S))
      BY <1>1, OfFrames
    <3>2. IsPrefix(OfFirst(F, Len(F)), Written)
      BY <1>1, <2>2, <2>5 DEF Output
    <3>3. IsPrefix(OfFirst(F, Len(F)), Written')
      BY <2>2, <2>3, <3>1, <3>2, PrefixGrows
    <3>4. OfFirst(F, Len(F))' = OfFirst(F, Len(F))
      BY <1>1, <1>4
    <3> QED  BY <1>1, <2>2, <2>5, <3>3, <3>4 DEF Output
  <2> QED  BY <2>4, <2>5
<1>14. HeldBack(F)'
  BY <1>1, <1>2, <1>6 DEF HeldBack
<1>15. Counted(F)'
  <2>1. /\ audit'.records_seen # 0 /\ audit'.fields_seen # 0
    <3>1. audit.records_seen = audit.records_valid + audit.records_invalid + 1
      BY <1>1 DEF InProgress, RecordsAddUp
    <3> QED  BY <1>1, <1>9, <3>1 DEF Audits
  <2>2. audit'.fields_invalid = 0 => row.valid /\ audit.fields_invalid = 0
    BY <1>1, <1>9 DEF Audits
  <2>3. \E i \in 1 .. Len(F) : F[i].rows # <<>>
    <3>1. CASE idx < Len(F)
      <4>1. rows # <<>>
        BY <1>8, <3>1, EmptySeq
      <4> QED  BY <1>8, <3>1, <4>1 DEF rows
    <3>2. CASE ~(idx < Len(F))
      BY <1>7, <3>2, RefusedIsBad
    <3> QED  BY <3>1, <3>2
  <2>4. audit'.fields_invalid # 0 => \E i \in 1 .. Len(F) : ~Good(F[i])
    <3>1. SUFFICES ASSUME audit'.fields_invalid # 0, audit.fields_invalid = 0
                   PROVE  \E i \in 1 .. Len(F) : ~Good(F[i])
      BY <1>1 DEF Counted
    <3>2. ~row.valid
      BY <1>9, <3>1
    <3>3. CASE idx < Len(F)
      <4>1. ~rows[m + 1].valid /\ m + 1 \in 1 .. Len(rows)
        BY <1>8, <1>10, <3>2, <3>3
      <4>2. ~Good(F[idx + 1])
        BY <4>1 DEF Good, AllValid, rows
      <4> QED  BY <1>8, <3>3, <4>2
    <3>4. CASE ~(idx < Len(F))
      BY <1>7, <3>4, RefusedIsBad
    <3> QED  BY <3>3, <3>4
  <2>5. row.valid /\ audit.fields_invalid = 0 =>
          /\ \A i \in 1 .. Len(F) : i <= idx => Good(F[i])
          /\ idx < Len(F) => \A i \in 1 .. m + 1 : rows[i].valid
    <3>1. SUFFICES ASSUME row.valid, audit.fields_invalid = 0
                   PROVE  /\ \A i \in 1 .. Len(F) : i <= idx => Good(F[i])
                          /\ idx < Len(F) =>
                               \A i \in 1 .. m + 1 : rows[i].valid
      OBVIOUS
    <3>2. /\ \A i \in 1 .. Len(F) : i <= idx => Good(F[i])
          /\ idx < Len(F) => \A i \in 1 .. m : rows[i].valid
      BY <1>1, <3>1 DEF Counted, rows, m
    <3>3. ASSUME idx < Len(F), NEW i \in 1 .. m + 1 PROVE rows[i].valid
      <4>1. CASE i = m + 1
        BY <1>8, <3>1, <3>3, <4>1
      <4>2. CASE i # m + 1
        <5>1. i \in 1 .. m
          BY <1>10, <3>3, <4>2
        <5> QED  BY <3>2, <3>3, <5>1
      <4> QED  BY <4>1, <4>2
    <3> QED  BY <3>2, <3>3
  <2>6. idx' = idx /\ (idx < Len(F) => Len(rows) - Len(pending') = m + 1)
    BY <1>2, <1>10
  <2>7. audit'.fields_invalid = 0 =>
          /\ \A i \in 1 .. Len(F) : i <= idx' => Good(F[i])
          /\ pc' = "emit" /\ idx' < Len(F) =>
               \A i \in 1 .. Len(F[idx' + 1].rows) - Len(pending') :
                 F[idx' + 1].rows[i].valid
    BY <2>2, <2>5, <2>6 DEF rows
  <2> QED  BY <2>1, <2>3, <2>4, <2>7 DEF Counted, Good
<1>16. Ended(F)'
  BY <1>6 DEF Ended
<1> QED  BY <1>11, <1>12, <1>13, <1>14, <1>15, <1>16 DEF InStep

\* Steps between records change nothing of what was counted and written.
LEMMA QuietInStep ==
  ASSUME NEW S, NEW F, FramesIn(S, F), Inv(S), InStep(F), exit = "none",
         pc # "emit", pc' # "emit",
         UNCHANGED <<job, idx, audit, buffer>>,
         exit' \in {"none", "ok", "data"},
         \/ out' = out /\ exit' # "ok"
         \/ /\ exit' # "none" /\ idx >= Len(F)
            /\ out' = IF job.sink = "buffer" THEN buffer ELSE out,
         OnTrack(F)', Ended(F)'
  PROVE  InStep(F)'
<1>1. /\ HeldBack(F) /\ Counted(F) /\ Bounded(F) /\ Output(F)
      /\ idx \in Nat /\ Len(F) \in Nat
  BY DEF Inv, Typed, FramesIn, InStep
<1>2. /\ CounterRefused(F)' = CounterRefused(F) /\ Atomic' = Atomic
      /\ \A n \in Nat : OfFirst(F, n)' = OfFirst(F, n)
  BY OfSame
<1>3. Bounded(F)'
  BY <1>1, <1>2 DEF Bounded
<1>4. Current(F)'
  BY DEF Current
<1>5. /\ OfFirst(F, idx)' = OfFirst(F, idx)
      /\ OfFirst(F, Len(F))' = OfFirst(F, Len(F))
  BY <1>1, <1>2
<1>6. Complete' => Complete /\ Written' = Written
  BY DEF Complete, Written
<1>7. Output(F)'
  BY <1>1, <1>5, <1>6 DEF Output
<1>8. HeldBack(F)'
  <2>1. SUFFICES ASSUME job.sink = "buffer" PROVE HeldBack(F)'
    BY DEF HeldBack
  <2>2. out = <<>>
    BY <1>1, <2>1 DEF HeldBack
  <2>3. CASE out' = out /\ exit' # "ok"
    BY <1>5, <2>2, <2>3 DEF HeldBack
  <2>4. CASE /\ exit' # "none" /\ idx >= Len(F)
             /\ out' = IF job.sink = "buffer" THEN buffer ELSE out
    <3>1. out' = buffer
      BY <2>1, <2>4
    <3>2. idx <= Len(F) => buffer = OfFirst(F, Len(F))
      <4>1. SUFFICES ASSUME idx <= Len(F) PROVE buffer = OfFirst(F, Len(F))
        OBVIOUS
      <4>2. idx = Len(F)
        BY <1>1, <2>4, <4>1
      <4> QED  BY <1>1, <2>1, <4>2 DEF Output, Complete, Written
    <3> QED  BY <1>5, <2>4, <3>1, <3>2 DEF HeldBack
  <2> QED  BY <2>3, <2>4
<1>9. Counted(F)'
  BY <1>1 DEF Counted, Good
<1> QED  BY <1>3, <1>4, <1>7, <1>8, <1>9 DEF InStep

\* The command starts in step.
LEMMA StartInStep ==
  ASSUME NEW S, NEW F, FramesIn(S, F), Fresh,
         UNCHANGED <<job, idx, audit, buffer, out>>,
         pc' \in {"read", "finish", "exit"}, exit' \in {"none", "data"},
         pc' = "read" => ReachedAt(0, Place'),
         pc' = "finish" => Len(F) = 0,
         exit' = "data" => Headless
  PROVE  InStep(F)'
<1>1. /\ idx' = 0 /\ audit' = EmptyAudit /\ buffer' = <<>> /\ out' = <<>>
      /\ Len(F) \in Nat /\ F \in Seq(FrameSet(S))
  BY DEF Fresh, FramesIn
<1>2. /\ CounterRefused(F)' = CounterRefused(F)
      /\ \A n \in Nat : OfFirst(F, n)' = OfFirst(F, n)
      /\ \A n, k : ReachedAt(n, k)' = ReachedAt(n, k)
  BY OfSame
<1>3. Bounded(F)'
  BY <1>1 DEF Bounded
<1>4. OnTrack(F)'
  BY <1>1, <1>2 DEF OnTrack
<1>5. Current(F)'
  BY DEF Current
<1>6. Output(F)'
  <2>1. OfFirst(F, 0) = <<>> /\ OfFirst(F, 0)' = OfFirst(F, 0)
    BY <1>2, OfNone
  <2>2. OfFirst(F, idx)' = <<>>
    BY <1>1, <1>2, <2>1
  <2>3. Written' = <<>>
    BY <1>1 DEF Written
  <2>4. ~(idx' > Len(F)) /\ pc' # "emit"
    BY <1>1
  <2> QED  BY <2>2, <2>3, <2>4 DEF Output
<1>7. HeldBack(F)'
  BY <1>1 DEF HeldBack
<1>8. Counted(F)'
  <2>1. /\ audit'.records_seen = 0 /\ audit'.fields_seen = 0
        /\ audit'.fields_invalid = 0
    BY <1>1 DEF EmptyAudit
  <2> QED  BY <1>1, <2>1 DEF Counted
<1>9. Headless' = Headless
  BY DEF Headless
<1>10. Ended(F)'
  BY <1>9 DEF Ended
<1> QED  BY <1>3, <1>4, <1>5, <1>6, <1>7, <1>8, <1>10 DEF InStep

-----------------------------------------------------------------------------
(* The inductive invariant.                                                *)

IInv(S) ==
  /\ Inv(S) /\ Situated
  /\ pc \in {"load", "header"} => Fresh
  /\ pc \notin {"load", "header"} /\ exit # "config" => InStep(Frames)

\* Where the command reads, its frames are there.
LEMMA FramesHere ==
  ASSUME NEW S, RowsTyped(S), Situated, pc # "load", exit # "config"
  PROVE  FramesIn(S, Frames)
<1>1. job \in Jobs /\ job.plan.ok
  BY DEF Situated, Plan
<1>2. Frames \in Seq(FrameSet(S))
  BY <1>1, FramesTyped DEF Frames
<1> QED  BY <1>1, <1>2 DEF FramesIn

\* Between records, and while one is in progress.
LEMMA Reads ==
  ASSUME NEW S, RowsTyped(S), IInv(S), pc \in {"read", "emit", "finish"}
  PROVE  /\ Inv(S) /\ Typed(S) /\ Situated /\ exit = "none" /\ job \in Jobs
         /\ job.plan.ok /\ idx \in Nat
         /\ \A F : F = Frames => FramesIn(S, F) /\ InStep(F)
<1>1. Inv(S) /\ Typed(S) /\ Situated /\ InStep(Frames) /\ exit = "none"
  BY DEF IInv, Inv, Typed
<1>2. FramesIn(S, Frames)
  BY <1>1, FramesHere
<1> QED  BY <1>1, <1>2 DEF Situated, Plan, Typed

\* To stay in step is enough.
LEMMA StaysInStep ==
  ASSUME NEW S, NEW F, F = Frames, job' = job, Inv(S)', Situated',
         InStep(F)', pc' \notin {"load", "header"}
  PROVE  IInv(S)'
<1>1. Frames' = F
  BY OfSame
<1>2. InStep(Frames)'
  BY <1>1
<1> QED  BY <1>2 DEF IInv

\* A refusal goes on where it is told to, or ends the command.
LEMMA RefuseGoes ==
  ASSUME job \in Jobs, NEW row, NEW next, Refuse(row, next)
  PROVE  pc' \in {next, "exit"}
BY JobAssumption DEF Refuse, Abort, Proceed, Emitted

\* A record refused as a whole keeps the invariant,
LEMMA RefusedKeeps ==
  ASSUME NEW S, RowsTyped(S), IInv(S), NEW code \in FrameErrors,
         NEW next \in {"read", "finish"}, Refused(code, next), Situated'
  PROVE  IInv(S)'
<1>1. pc = "read" /\ RecordError(code, next)
  BY DEF Refused
<1>2. PICK F : F = Frames
  OBVIOUS
<1>3. /\ Inv(S) /\ FramesIn(S, F) /\ InStep(F) /\ job \in Jobs
  BY <1>1, <1>2, Reads
<1> DEFINE row == ErrorOf(code)
<1>4. row \in S /\ ~row.valid
  BY DEF RowsTyped, ErrorOf
<1>5. /\ Torn(code).rows = <<row>> /\ ~Good(Torn(code))
      /\ Torn(code).rows # <<>>
  <2>1. Torn(code).rows = <<ErrorOf(code)>> /\ ~Good(Torn(code))
    BY FrameTyped
  <2> QED  BY <2>1
<1>6. /\ audit' = RecordAudit(RecordInvalid(RecordSeen(audit)), row)
      /\ Refuse(row, next) /\ idx' = idx + 1 /\ job' = job
  BY <1>1 DEF RecordError
<1> HIDE DEF row
<1>7. ReachedAt(idx, Place) =>
        /\ idx < Len(F)
        /\ ~Good(F[idx + 1]) /\ F[idx + 1].rows # <<>>
        /\ ~Atomic => F[idx + 1].rows = <<row>>
        /\ \/ Len(F) = idx + 1 /\ (next = "finish" \/ CounterRefused(F))
           \/ next = "read" /\ ReachedAt(idx + 1, Place')
  <2>1. SUFFICES ASSUME ReachedAt(idx, Place)
                 PROVE  /\ idx < Len(F)
                        /\ ~Good(F[idx + 1]) /\ F[idx + 1].rows # <<>>
                        /\ ~Atomic => F[idx + 1].rows = <<row>>
                        /\ \/ /\ Len(F) = idx + 1
                              /\ next = "finish" \/ CounterRefused(F)
                           \/ next = "read" /\ ReachedAt(idx + 1, Place')
    OBVIOUS
  <2>2. /\ idx < Len(F) /\ F[idx + 1] = Torn(code)
        /\ \/ Len(F) = idx + 1 /\ (next = "finish" \/ CounterRefused(F))
           \/ next = "read" /\ ReachedAt(idx + 1, Place')
    BY <1>2, <2>1 DEF Refused, NextIs, FinalOne
  <2> QED  BY <1>5, <2>2
<1>8. InStep(F)'
  BY <1>1, <1>3, <1>4, <1>6, <1>7, RefusedInStep
<1>9. Inv(S)'
  BY <1>1, <1>3, RecordErrorStep
<1>10. pc' \notin {"load", "header"}
  BY <1>3, <1>6, RefuseGoes
<1> QED  BY <1>2, <1>6, <1>8, <1>9, <1>10, StaysInStep

\* a record that is taken keeps it,
LEMMA TakenKeeps ==
  ASSUME NEW S, RowsTyped(S), IInv(S), NEW record, Taken(record), Situated'
  PROVE  IInv(S)'
<1> DEFINE rows == RowsOf(job, record)
<1>1. pc = "read" /\ TakeRecord(record) /\ record \in Decodable(job)
  BY DEF Taken
<1>2. PICK F : F = Frames
  OBVIOUS
<1>3. /\ Inv(S) /\ FramesIn(S, F) /\ InStep(F) /\ job \in Jobs /\ job.plan.ok
  BY <1>1, <1>2, Reads
<1>4. rows \in Seq(S)
  BY <1>1, <1>3 DEF RowsTyped
<1>5. Inv(S)'
  BY <1>1, <1>3, <1>4, TakeRecordStep
<1>6. ReachedAt(idx, Place) =>
        /\ idx < Len(F) /\ F[idx + 1] = Whole(rows)
        /\ ReachedAt(idx + 1, Place')
  BY <1>2 DEF Taken, NextIs
<1> HIDE DEF rows
<1>7. \/ /\ Atomic
         /\ \E i \in 1 .. Len(rows) :
              FirstInvalid(rows, i) /\ RefuseRow(rows[i])
      \/ (Atomic => AllValid(rows)) /\ BeginRecord(rows)
  BY <1>1, Zenon DEF TakeRecord, rows
<1>8. ASSUME Atomic, NEW i \in 1 .. Len(rows), FirstInvalid(rows, i),
             RefuseRow(rows[i])
      PROVE  IInv(S)'
  <2> DEFINE row == rows[i]
  <2>1. row \in S /\ ~row.valid /\ rows # <<>>
    BY <1>4, <1>8 DEF FirstInvalid
  <2>2. /\ audit' = RecordAudit(RecordInvalid(RecordSeen(audit)), row)
        /\ Refuse(row, "read") /\ idx' = idx + 1 /\ job' = job
    BY <1>8 DEF RefuseRow
  <2>3. ~Good(Whole(rows)) /\ Whole(rows).rows = rows
    BY <1>8 DEF Good, AllValid, Whole, FirstInvalid
  <2> HIDE DEF row
  <2>4. ReachedAt(idx, Place) =>
          /\ idx < Len(F)
          /\ ~Good(F[idx + 1]) /\ F[idx + 1].rows # <<>>
          /\ ~Atomic => F[idx + 1].rows = <<row>>
          /\ \/ Len(F) = idx + 1 /\ ("read" = "finish" \/ CounterRefused(F))
             \/ "read" = "read" /\ ReachedAt(idx + 1, Place')
    BY <1>6, <1>8, <2>1, <2>3
  <2>5. InStep(F)'
    BY <1>1, <1>3, <2>1, <2>2, <2>4, RefusedInStep
  <2>6. pc' \notin {"load", "header"}
    BY <1>3, <2>2, RefuseGoes
  <2> QED  BY <1>2, <1>5, <2>2, <2>5, <2>6, StaysInStep
<1>9. ASSUME Atomic => AllValid(rows), BeginRecord(rows)
      PROVE  IInv(S)'
  <2>1. InStep(F)'
    BY <1>1, <1>3, <1>4, <1>6, <1>9, BegunInStep
  <2>2. job' = job /\ pc' = "emit"
    BY <1>9 DEF BeginRecord, Proceed
  <2> QED  BY <1>2, <1>5, <2>1, <2>2, StaysInStep
<1> QED  BY <1>7, <1>8, <1>9

\* Steps between records.
LEMMA QuietKeeps ==
  ASSUME NEW S, RowsTyped(S), IInv(S), pc \in {"read", "finish"}, Situated',
         UNCHANGED <<job, idx, pending, before, audit, buffer>>,
         pc' \in {"read", "finish", "exit"}, exit' \in {"none", "ok", "data"},
         exit' = "none" <=> pc' # "exit",
         \/ out' = out /\ exit' # "ok"
         \/ /\ pc = "finish" /\ exit' # "none"
            /\ out' = IF job.sink = "buffer" THEN buffer ELSE out,
         pc' = "read" => pc = "read" /\ (ReachedAt(idx, Place)
                                           => ReachedAt(idx, Place')),
         pc' = "finish" => pc = "read" /\ (ReachedAt(idx, Place)
                                             => Len(Frames) <= idx),
         Ended(Frames)'
  PROVE  IInv(S)'
<1>1. PICK F : F = Frames
  OBVIOUS
<1>2. /\ Inv(S) /\ FramesIn(S, F) /\ InStep(F) /\ job \in Jobs
      /\ exit = "none" /\ idx \in Nat
  BY <1>1, Reads
<1>3. OnTrack(F) /\ Len(F) \in Nat
  BY <1>2 DEF InStep, FramesIn
<1>4. /\ CounterRefused(F)' = CounterRefused(F) /\ Frames' = F
      /\ \A n, k : ReachedAt(n, k)' = ReachedAt(n, k)
  BY <1>1, OfSame
<1>5. pc = "finish" => idx >= Len(F)
  BY <1>3 DEF OnTrack
<1>6. pc' = "finish" \/ exit' = "ok" => idx >= Len(F)
  <2>1. exit' = "ok" => pc = "finish"
    OBVIOUS
  <2>2. pc' = "finish" => idx >= Len(F)
    <3>1. SUFFICES ASSUME pc' = "finish" PROVE idx >= Len(F)
      OBVIOUS
    <3>2. CASE ReachedAt(idx, Place)
      BY <1>1, <1>2, <1>3, <3>1, <3>2
    <3>3. CASE ~ReachedAt(idx, Place)
      BY <1>2, <1>3, <3>1, <3>3 DEF OnTrack
    <3> QED  BY <3>2, <3>3
  <2> QED  BY <1>5, <2>1, <2>2
<1>7. OnTrack(F)'
  BY <1>3, <1>4, <1>6 DEF OnTrack
<1>8. Ended(F)'
  BY <1>4
<1>9. InStep(F)'
  <2>1. \/ out' = out /\ exit' # "ok"
        \/ /\ exit' # "none" /\ idx >= Len(F)
           /\ out' = IF job.sink = "buffer" THEN buffer ELSE out
    BY <1>5
  <2>2. pc # "emit" /\ pc' # "emit" /\ exit' \in {"none", "ok", "data"}
    OBVIOUS
  <2> QED  BY <1>2, <1>7, <1>8, <2>1, <2>2, QuietInStep
<1>10. Inv(S)'
  <2>1. out' = out \/ (out' = buffer /\ exit' # "none")
    OBVIOUS
  <2>2. /\ pc # "emit" /\ pc' \in {"load", "header", "read", "finish", "exit"}
        /\ exit' \in {"none", "ok", "config", "data"}
    OBVIOUS
  <2> QED  BY <1>2, <2>1, <2>2, NothingCounted
<1> QED  BY <1>1, <1>9, <1>10, StaysInStep

-----------------------------------------------------------------------------
\* The command stays where it is in its input.
LEMMA SituatedSame ==
  ASSUME Situated, job' = job, rest' = rest,
         pc # "load" \/ (exit' = "config" /\ pc' = "exit"),
         exit # "config"
  PROVE  Situated' /\ Place' = Place
BY DEF Situated, Place, Plan

\* Each step keeps the invariant.  First those of a record in progress.
LEMMA EmitKeeps ==
  ASSUME NEW S, RowsTyped(S), IInv(S), EmitRow \/ EndRecord
  PROVE  IInv(S)'
<1>1. /\ pc = "emit" /\ job' = job /\ rest' = rest
      /\ pc' \notin {"load", "header"}
  BY DEF EmitRow, EndRecord, Emitted, Proceed, Abort
<1>2. PICK F : F = Frames
  OBVIOUS
<1>3. /\ Inv(S) /\ FramesIn(S, F) /\ InStep(F) /\ Situated /\ exit = "none"
  BY <1>1, <1>2, Reads
<1>4. Situated'
  BY <1>1, <1>3, SituatedSame, Zenon
<1>5. Inv(S)' /\ InStep(F)'
  BY <1>3, EmitRowStep, EndRecordStep, EmitInStep, EndInStep
<1> QED  BY <1>1, <1>2, <1>4, <1>5, StaysInStep

\* The end of the input or the limit.
LEMMA EndKeeps ==
  ASSUME NEW S, RowsTyped(S), IInv(S), EndOfStream \/ EndOfLines \/ LimitLine
  PROVE  IInv(S)'
<1>1. /\ pc = "read" /\ pc' = "finish"
      /\ UNCHANGED <<job, idx, pending, before, audit, buffer, out, exit>>
      /\ rest' = rest \/ (rest # <<>> /\ rest' = Tail(rest))
  BY DEF EndOfStream, EndOfLines, LimitLine, Reading, AtLine, Proceed
<1>2. Situated /\ exit = "none" /\ idx \in Nat
  BY <1>1, Reads
<1>3. Situated'
  BY <1>1, <1>2, SituatedSame, ReadOn
<1>4. ReachedAt(idx, Place) => Len(Frames) <= idx
  BY <1>2, ReadingEnds
<1>5. Ended(Frames)'
  BY <1>1, <1>2 DEF Ended
<1> QED  BY <1>1, <1>2, <1>3, <1>4, <1>5, QuietKeeps

\* Lines without a record.
LEMMA LineKeeps ==
  ASSUME NEW S, RowsTyped(S), IInv(S), BlankLine \/ UnreadableLine
  PROVE  IInv(S)'
<1>1. CASE BlankLine
  <2>1. /\ pc = "read" /\ pc' = "read"
        /\ UNCHANGED <<job, idx, pending, before, audit, buffer, out, exit>>
    BY <1>1 DEF BlankLine, AtLine, Proceed
  <2>2. Situated /\ exit = "none"
    BY <2>1, Reads
  <2>3. Situated' /\ (ReachedAt(idx, Place) => ReachedAt(idx, Place'))
    BY <1>1, <2>2, BlankLineIs
  <2>4. Ended(Frames)'
    BY <2>1, <2>2 DEF Ended
  <2> QED  BY <2>1, <2>2, <2>3, <2>4, QuietKeeps
<1>2. CASE UnreadableLine
  <2>1. /\ AtLine({"unreadable"}) /\ pc = "read"
        /\ pc' = "exit" /\ exit' = "data"
        /\ UNCHANGED <<job, rest, idx, pending, before, audit, buffer, out>>
    BY <1>2 DEF UnreadableLine, AtLine, Abort
  <2>2. Situated /\ exit = "none"
    BY <2>1, Reads
  <2>3. Situated'
    BY <2>1, <2>2, SituatedSame
  <2>4. Unreadable
    <3>1. /\ LineJob(job) /\ Place + 1 \in 1 .. Len(job.input)
          /\ job.input[Place + 1].kind = "unreadable"
      BY <2>1, <2>2, LineHere
    <3> QED  BY <3>1 DEF Unreadable, LineJob
  <2>5. Ended(Frames)'
    BY <2>1, <2>4 DEF Ended, Unreadable
  <2> QED  BY <2>1, <2>2, <2>3, <2>5, QuietKeeps
<1> QED  BY <1>1, <1>2

\* The status tells why the command fails.
LEMMA FinishKeeps ==
  ASSUME NEW S, RowsTyped(S), IInv(S), Finish
  PROVE  IInv(S)'
<1>1. /\ pc = "finish" /\ pc' = "exit"
      /\ out' = IF job.sink = "buffer" THEN buffer ELSE out
      /\ exit' = IF job.verify /\ Status = "failed" THEN "data" ELSE "ok"
      /\ UNCHANGED <<job, rest, idx, pending, before, audit, buffer>>
  BY DEF Finish
<1>2. Inv(S) /\ Typed(S) /\ Situated /\ exit = "none"
  BY <1>1, Reads
<1>3. Situated'
  BY <1>1, <1>2, SituatedSame
<1>4. RecordsAddUp(audit, 0) /\ audit \in Audits(S)
  BY <1>1, <1>2 DEF Inv, Typed
<1>5. Status = "failed" =>
        \/ audit.fields_invalid # 0
        \/ audit.fields_seen # 0 /\ job.strict /\ ~Plan.full
  <2>1. audit.fields_invalid = 0 => audit.records_invalid = 0
    BY <1>4 DEF RecordsAddUp, Audits
  <2> QED  BY <2>1 DEF Status, NothingSeen, NothingInvalid
<1>6. Status' = Status /\ Plan' = Plan
  BY <1>1 DEF Status, NothingSeen, NothingInvalid, Plan
<1>7. Ended(Frames)'
  BY <1>1, <1>5, <1>6 DEF Ended
<1> QED  BY <1>1, <1>2, <1>3, <1>7, QuietKeeps

\* Records that are refused, and records that are taken up.
LEMMA RecordKeeps ==
  ASSUME NEW S, RowsTyped(S), IInv(S),
         \/ TornHeader \/ RefuseCounter \/ TornRecord \/ ReadRecord
         \/ BadLine \/ HexLine \/ NamedLine
  PROVE  IInv(S)'
<1>1. Situated
  BY DEF IInv
<1>2. /\ "E_RECORD_LENGTH" \in FrameErrors /\ "E_OCCURS_COUNT" \in FrameErrors
      /\ "E_LINE" \in FrameErrors
  BY DEF FrameErrors
<1>3. /\ Situated'
      /\ \/ Refused("E_RECORD_LENGTH", "finish")
         \/ Refused("E_RECORD_LENGTH", "read")
         \/ Refused("E_OCCURS_COUNT", "read")
         \/ Refused("E_LINE", "read")
         \/ \E record : Taken(record)
  BY <1>1, TornHeaderIs, RefuseCounterIs, TornRecordIs, ReadRecordIs,
     BadLineIs, HexLineIs, NamedLineIs, Zenon
<1>4. CASE Refused("E_RECORD_LENGTH", "finish")
  BY <1>2, <1>3, <1>4, RefusedKeeps
<1>5. CASE Refused("E_RECORD_LENGTH", "read")
  BY <1>2, <1>3, <1>5, RefusedKeeps
<1>6. CASE Refused("E_OCCURS_COUNT", "read")
  BY <1>2, <1>3, <1>6, RefusedKeeps
<1>7. CASE Refused("E_LINE", "read")
  BY <1>2, <1>3, <1>7, RefusedKeeps
<1>8. CASE \E record : Taken(record)
  BY <1>3, <1>8, TakenKeeps
<1> QED  BY <1>3, <1>4, <1>5, <1>6, <1>7, <1>8

\* The start of the command.
LEMMA StartKeeps ==
  ASSUME NEW S, RowsTyped(S), IInv(S),
         Load \/ RefuseJob \/ ReadHeader \/ NoHeader
  PROVE  IInv(S)'
<1>1. /\ pc \in {"load", "header"}
      /\ UNCHANGED <<job, idx, pending, before, audit, buffer, out>>
      /\ pc' \in {"header", "read", "finish", "exit"}
      /\ exit' \in {exit, "config", "data"}
      /\ pc' = "exit" => exit' \in {"config", "data"}
      /\ pc' # "exit" => exit' = exit
  BY DEF Load, RefuseJob, ReadHeader, NoHeader, Proceed, Abort
<1>2. /\ Inv(S) /\ Typed(S) /\ Situated /\ Fresh /\ exit = "none"
      /\ job \in Jobs
  BY <1>1 DEF IInv, Inv, Typed
<1>3. Inv(S)'
  <2>1. /\ pc # "emit" /\ out' = out
        /\ pc' \in {"load", "header", "read", "finish", "exit"}
        /\ exit' \in {"none", "ok", "config", "data"}
        /\ exit' = "none" <=> pc' # "exit"
    BY <1>1, <1>2
  <2> QED  BY <1>1, <1>2, <2>1, NothingCounted
<1>4. CASE RefuseJob
  <2>1. pc' = "exit" /\ exit' = "config" /\ rest' = rest
    BY <1>4 DEF RefuseJob
  <2>2. Situated'
    BY <1>1, <1>2, <2>1, SituatedSame
  <2> QED  BY <1>3, <2>1, <2>2 DEF IInv
<1>5. CASE Load
  <2>1. /\ Situated' /\ (pc' = "header" => Fresh')
        /\ pc' = "read" => ReachedAt(0, 0) /\ Place' = 0
    BY <1>2, <1>5, LoadIs
  <2>2. /\ pc' \in {"header", "read"} /\ exit' = "none" /\ Plan.ok
        /\ UNCHANGED <<job, rest>>
    BY <1>2, <1>5 DEF Load, Accepted, Proceed
  <2>3. CASE pc' = "header"
    BY <1>3, <2>1, <2>3 DEF IInv
  <2>4. CASE pc' = "read"
    <3>1. PICK F : F = Frames
      OBVIOUS
    <3>2. FramesIn(S, F)
      <4>1. Frames \in Seq(FrameSet(S))
        BY <1>2, <2>2, FramesTyped DEF Frames, Plan
      <4> QED  BY <1>2, <3>1, <4>1 DEF FramesIn
    <3>3. InStep(F)'
      BY <1>1, <1>2, <2>1, <2>2, <2>4, <3>2, StartInStep
    <3> QED  BY <1>1, <1>3, <2>1, <2>4, <3>1, <3>3, StaysInStep
  <2> QED  BY <2>2, <2>3, <2>4
<1>6. CASE ReadHeader
  <2>1. Situated' /\ ReachedAt(0, Place')
    BY <1>2, <1>6, ReadHeaderIs
  <2>2. pc = "header" /\ pc' = "read" /\ exit' = "none"
    BY <1>2, <1>6 DEF ReadHeader, Proceed
  <2>3. PICK F : F = Frames
    OBVIOUS
  <2>4. FramesIn(S, F)
    BY <1>2, <2>2, <2>3, FramesHere
  <2>5. InStep(F)'
    BY <1>1, <1>2, <2>1, <2>2, <2>4, StartInStep
  <2> QED  BY <1>1, <1>3, <2>1, <2>2, <2>3, <2>5, StaysInStep
<1>7. CASE NoHeader
  <2>1. /\ pc = "header" /\ rest' = rest
        /\ rest = <<>> => pc' = "finish" /\ exit' = exit
        /\ rest # <<>> => /\ pc' = "exit" /\ exit' = "data"
                          /\ Head(rest).kind # "header"
    BY <1>7 DEF NoHeader, Proceed, Abort
  <2>2. Situated'
    BY <1>1, <1>2, <2>1, SituatedSame
  <2>3. job.encoding = "csv" /\ Plan.ok /\ Place = 0 /\ rest = job.input
    BY <1>2, <2>1 DEF Fresh, Situated
  <2>4. LineJob(job)
    BY <1>2, <2>3 DEF LineJob, Plan
  <2>5. rest # <<>> => Headless
    <3>1. rest # <<>> => Head(rest) = job.input[1]
      BY <1>2, <2>3, RestIs
    <3> QED  BY <2>1, <2>3, <3>1 DEF Headless
  <2>6. rest = <<>> => Len(Frames) <= 0
    <3>1. rest = <<>> => Len(job.input) = 0
      BY <2>3
    <3>2. LinesAt(job, 0, 0)
      BY <2>4, LinesStart
    <3> QED  BY <2>4, <3>1, <3>2, LinesEnd DEF Frames
  <2>7. PICK F : F = Frames
    OBVIOUS
  <2>8. FramesIn(S, F)
    BY <1>2, <2>1, <2>7, FramesHere
  <2>9. rest = <<>> => Len(F) = 0
    BY <2>6, <2>7, <2>8 DEF FramesIn
  <2>10. InStep(F)'
    BY <1>1, <1>2, <2>1, <2>5, <2>8, <2>9, StartInStep
  <2> QED  BY <1>1, <1>3, <2>1, <2>2, <2>7, <2>10, StaysInStep
<1> QED  BY <1>4, <1>5, <1>6, <1>7

\* What depends on the variables only stays when they do.
LEMMA StutterKeeps ==
  ASSUME NEW S, IInv(S), UNCHANGED vars
  PROVE  IInv(S)'
<1> USE DEF vars
<1>1. Inv(S)'
  BY DEF IInv, Inv, Typed, RowsAddUp, RecordsAddUp, InProgress,
         WrittenAddUp, Written, Atomic, AllValid
<1>2. Situated' /\ Place' = Place
  BY DEF IInv, Situated, Place, Plan
<1>3. Fresh' = Fresh
  BY <1>2 DEF Fresh
<1>4. PICK F : F = Frames
  OBVIOUS
<1>5. /\ Frames' = F /\ CounterRefused(F)' = CounterRefused(F)
      /\ Atomic' = Atomic /\ \A n, k : ReachedAt(n, k)' = ReachedAt(n, k)
  BY <1>4, OfSame
<1>6. InStep(F) => InStep(F)'
  <2>1. Bounded(F)' = Bounded(F) /\ OnTrack(F)' = OnTrack(F)
    BY <1>2, <1>5 DEF Bounded, OnTrack
  <2>2. Current(F)' = Current(F)
    BY <1>5 DEF Current, Good
  <2>3. \A n : OfFirst(F, n)' = OfFirst(F, n)
    BY <1>5 DEF OfFirst, Passed
  <2>4. OfCurrent(F)' = OfCurrent(F) /\ Written' = Written
        /\ Complete' = Complete
    BY DEF OfCurrent, Written, Complete
  <2>5. Output(F)' = Output(F) /\ HeldBack(F)' = HeldBack(F)
    BY <2>3, <2>4 DEF Output, HeldBack
  <2>6. Counted(F)' = Counted(F)
    BY DEF Counted, Good
  <2>7. Ended(F)' = Ended(F)
    BY DEF Ended, Status, NothingSeen, NothingInvalid, Plan, Unreadable,
           Headless, Overflowing
  <2> QED  BY <2>1, <2>2, <2>5, <2>6, <2>7 DEF InStep
<1>7. InStep(Frames) => InStep(Frames)'
  BY <1>4, <1>5, <1>6
<1> QED  BY <1>1, <1>2, <1>3, <1>7 DEF IInv

\* It holds at the beginning
LEMMA InitIInv == ASSUME NEW S, Init PROVE IInv(S)
<1>1. Inv(S) /\ Situated
  BY InitInv, InitSituated
<1>2. Fresh
  BY <1>1 DEF Init, Fresh, Place, Situated
<1> QED  BY <1>1, <1>2 DEF IInv, Init

\* and of every step.
LEMMA NextIInv ==
  ASSUME NEW S, RowsTyped(S), IInv(S), [Next]_vars
  PROVE  IInv(S)'
BY EmitKeeps, EndKeeps, LineKeeps, FinishKeeps, RecordKeeps, StartKeeps,
   StutterKeeps DEF Next

-----------------------------------------------------------------------------
(* What the invariant says of the output and of the verdict.               *)

\* What is written is of the frames, since it is in step with them.
LEMMA InvGivesOutput ==
  ASSUME NEW S, NEW F, FramesIn(S, F), Typed(S), InStep(F)
  PROVE  OutputOf(F)
<1>1. /\ Bounded(F) /\ OnTrack(F) /\ Output(F) /\ HeldBack(F)
      /\ idx \in Nat /\ Len(F) \in Nat /\ F \in Seq(FrameSet(S))
      /\ exit = "none" <=> pc # "exit"
  BY DEF InStep, FramesIn, Typed
<1>2. CASE Adrift(F)
  <2>1. idx > Len(F) \/ (pc = "emit" /\ idx = Len(F))
    BY <1>1, <1>2 DEF Adrift
  <2> QED  BY <1>1, <1>2, <2>1 DEF Output, OutputOf
<1>3. CASE ~Adrift(F)
  <2>1. idx <= Len(F) /\ (pc = "emit" => idx < Len(F))
    BY <1>1, <1>3 DEF Bounded, Adrift
  <2>2. Complete => Written = OfFirst(F, idx) \o OfCurrent(F)
    <3>1. CASE pc = "emit"
      BY <1>1, <2>1, <3>1 DEF Output
    <3>2. CASE pc # "emit"
      <4>1. OfFirst(F, idx) \in Seq(Entry(S))
        BY <1>1, <2>1, OfFrames
      <4>2. OfFirst(F, idx) \o <<>> = OfFirst(F, idx)
        BY <4>1, ConcatEmptySeq
      <4>3. OfCurrent(F) = <<>>
        BY <3>2 DEF OfCurrent
      <4> QED  BY <1>1, <2>1, <3>2, <4>2, <4>3 DEF Output
    <3> QED  BY <3>1, <3>2
  <2>3. exit = "ok" => idx = Len(F) /\ (job.sink # "audit" => out = Written)
    <3>1. exit = "ok" => idx >= Len(F)
      BY <1>1 DEF OnTrack
    <3>2. exit = "ok" => out = Written
      BY <1>1 DEF HeldBack, Written
    <3> QED  BY <1>1, <2>1, <3>1, <3>2
  <2>4. job.sink = "buffer" => out \in {<<>>, OfFirst(F, Len(F))}
    BY <1>1, <2>1 DEF HeldBack
  <2> QED  BY <1>3, <2>1, <2>2, <2>3, <2>4 DEF OutputOf
<1> QED  BY <1>2, <1>3

\* A command that ended has counted all the frames, or stopped at the first
\* bad one.
LEMMA InvGivesVerdict ==
  ASSUME NEW S, NEW F, FramesIn(S, F), Inv(S), InStep(F),
         pc = "exit", exit # "config", job.verify
  PROVE  VerdictOf(F)
<1>1. /\ OnTrack(F) /\ Counted(F) /\ Ended(F) /\ idx \in Nat /\ Len(F) \in Nat
      /\ F \in Seq(FrameSet(S)) /\ exit \in {"ok", "data"}
      /\ RowsAddUp(audit, job.samples) /\ audit \in Audits(S)
  BY DEF InStep, FramesIn, Inv, Typed
<1>2. DOMAIN F = 1 .. Len(F)
  BY <1>1
<1>3. audit.fields_invalid # 0 => audit.fields_seen # 0
  BY <1>1 DEF RowsAddUp, Audits
<1>4. ASSUME exit = "ok" PROVE Passes(F) \/ NoRows(F)
  <2>1. \A i \in 1 .. Len(F) : i <= idx
    BY <1>1, <1>4 DEF OnTrack
  <2>2. Status # "failed"
    BY <1>1, <1>4 DEF Ended
  <2>3. CASE NothingSeen
    <3>1. audit.fields_seen = 0
      BY <1>1, <2>3 DEF NothingSeen, Counted
    <3> QED  BY <1>1, <1>2, <2>1, <3>1 DEF Counted, NoRows
  <2>4. CASE ~NothingSeen
    <3>1. audit.fields_invalid = 0 /\ (job.strict => Plan.full)
      BY <2>2, <2>4 DEF Status, NothingInvalid
    <3> QED  BY <1>1, <1>2, <2>1, <3>1 DEF Counted, Passes
  <2> QED  BY <2>3, <2>4
<1>5. ASSUME Passes(F) \/ NoRows(F), exit # "ok"
      PROVE  Unreadable \/ Headless \/ Overflowing
  <2>1. \/ audit.fields_invalid # 0 \/ Unreadable \/ Headless \/ Overflowing
        \/ audit.fields_seen # 0 /\ job.strict /\ ~Plan.full
    BY <1>1, <1>5 DEF Ended
  <2>2. audit.fields_seen # 0 => ~NoRows(F)
    BY <1>1, <1>2 DEF Counted, NoRows
  <2>3. audit.fields_invalid # 0 => ~Passes(F)
    BY <1>1, <1>2 DEF Counted, Passes
  <2>4. job.strict /\ ~Plan.full => ~Passes(F)
    BY DEF Passes
  <2> QED  BY <1>3, <1>5, <2>1, <2>2, <2>3, <2>4
<1> QED  BY <1>4, <1>5 DEF VerdictOf

\* The invariant implies the properties.
LEMMA InvGivesAll ==
  ASSUME NEW S, RowsTyped(S), IInv(S)
  PROVE  ReportAddsUp /\ OutputIsOfInput /\ VerdictIsOfInput
<1>1. Inv(S) /\ Typed(S) /\ Situated
  BY DEF IInv, Inv
<1>2. ASSUME pc \notin {"load", "header"}, exit # "config"
      PROVE  /\ OutputOf(Frames)
             /\ pc = "exit" /\ job.verify => VerdictOf(Frames)
  <2>1. PICK F : F = Frames
    OBVIOUS
  <2>2. FramesIn(S, F) /\ InStep(F)
    BY <1>1, <1>2, <2>1, FramesHere DEF IInv
  <2> QED  BY <1>1, <1>2, <2>1, <2>2, InvGivesOutput, InvGivesVerdict
<1>3. ReportAddsUp
  BY <1>1, InvGivesReport
<1>4. OutputIsOfInput
  BY <1>2 DEF OutputIsOfInput
<1>5. VerdictIsOfInput
  BY <1>2 DEF VerdictIsOfInput
<1> QED  BY <1>3, <1>4, <1>5

-----------------------------------------------------------------------------
\* All rows there may be: those of the records jobs may decode, and those a
\* record is refused with as a whole.
AllRows ==
  {ErrorOf(code) : code \in FrameErrors} \cup
  UNION {UNION {{RowsOf(j, record)[i] : i \in DOMAIN RowsOf(j, record)} :
                  record \in Decodable(j)} : j \in {k \in Jobs : k.plan.ok}}

\* They are enough for the records of every job.
LEMMA AllRowsAre ==
  /\ RowsTyped(AllRows)
  /\ \A row \in AllRows :
       \/ \E code \in FrameErrors : row = ErrorOf(code)
       \/ \E j \in Jobs : /\ j.plan.ok
                          /\ \E record \in Decodable(j) :
                               \E i \in DOMAIN RowsOf(j, record) :
                                 row = RowsOf(j, record)[i]
<1> DEFINE Of(j, record) ==
             {RowsOf(j, record)[i] : i \in DOMAIN RowsOf(j, record)}
<1>1. ASSUME NEW j \in Jobs, j.plan.ok, NEW record \in Decodable(j)
      PROVE  Of(j, record) \subseteq AllRows
  <2> DEFINE InJob(k) == UNION {Of(k, r) : r \in Decodable(k)}
             jobs == {k \in Jobs : k.plan.ok}
  <2>1. Of(j, record) \subseteq InJob(j)
    OBVIOUS
  <2>2. j \in jobs
    BY <1>1
  <2>3. AllRows = {ErrorOf(code) : code \in FrameErrors}
                    \cup UNION {InJob(k) : k \in jobs}
    BY DEF AllRows
  <2> HIDE DEF InJob, jobs, Of
  <2>4. InJob(j) \subseteq UNION {InJob(k) : k \in jobs}
    BY <2>2
  <2> QED  BY <2>1, <2>3, <2>4
<1>2. ASSUME NEW j \in Jobs, j.plan.ok, NEW record \in Decodable(j)
      PROVE  RowsOf(j, record) \in Seq(AllRows)
  <2>1. RowsOf(j, record) \in Seq(Of(j, record))
    BY <1>2, RowsAssumption DEF IsSequence
  <2>2. Of(j, record) \subseteq AllRows
    BY <1>1, <1>2
  <2> HIDE DEF Of
  <2> QED  BY <2>1, <2>2
<1>3. ASSUME NEW row \in AllRows
      PROVE  \/ \E code \in FrameErrors : row = ErrorOf(code)
             \/ \E j \in Jobs : /\ j.plan.ok
                                /\ \E record \in Decodable(j) :
                                     \E i \in DOMAIN RowsOf(j, record) :
                                       row = RowsOf(j, record)[i]
  <2> DEFINE InJob(k) == UNION {Of(k, r) : r \in Decodable(k)}
             jobs == {k \in Jobs : k.plan.ok}
             errors == {ErrorOf(code) : code \in FrameErrors}
  <2>1. AllRows = errors \cup UNION {InJob(k) : k \in jobs}
    BY DEF AllRows
  <2>2. CASE row \in errors
    BY <2>2
  <2>3. CASE row \in UNION {InJob(k) : k \in jobs}
    <3> HIDE DEF InJob
    <3>1. PICK j \in jobs : row \in InJob(j)
      BY <2>3
    <3>2. j \in Jobs /\ j.plan.ok
      BY <3>1
    <3> HIDE DEF Of
    <3>3. PICK record \in Decodable(j) : row \in Of(j, record)
      BY <3>1 DEF InJob
    <3>4. \E i \in DOMAIN RowsOf(j, record) : row = RowsOf(j, record)[i]
      BY <3>3 DEF Of
    <3> QED  BY <3>2, <3>4
  <2> HIDE DEF errors, InJob, jobs
  <2> QED  BY <2>1, <2>2, <2>3
<1>4. ASSUME NEW row \in AllRows PROVE row.valid \in BOOLEAN
  <2>1. CASE \E code \in FrameErrors : row = ErrorOf(code)
    BY <2>1 DEF ErrorOf
  <2>2. CASE \E j \in Jobs : /\ j.plan.ok
                             /\ \E record \in Decodable(j) :
                                  \E i \in DOMAIN RowsOf(j, record) :
                                    row = RowsOf(j, record)[i]
    BY <2>2, RowsAssumption, Zenon
  <2> QED  BY <1>3, <2>1, <2>2
<1>5. \A code \in FrameErrors : ErrorOf(code) \in AllRows
  BY DEF AllRows
<1>6. RowsTyped(AllRows)
  BY <1>2, <1>4, <1>5 DEF RowsTyped
<1> QED  BY <1>3, <1>6

\* The invariant holds in every state of every job.
LEMMA SpecIInv == Spec => []IInv(AllRows)
<1>1. Init => IInv(AllRows)
  BY InitIInv
<1>2. IInv(AllRows) /\ [Next]_vars => IInv(AllRows)'
  BY AllRowsAre, NextIInv
<1> QED  BY <1>1, <1>2, PTL DEF Spec

\* The audit adds up in every state of every job.
THEOREM ReportHolds == Spec => []ReportAddsUp
<1>1. IInv(AllRows) => ReportAddsUp
  BY AllRowsAre, InvGivesAll
<1> QED  BY <1>1, SpecIInv, PTL

\* For every job, over every input and whatever its records decode to, the
\* rows written are at every step those of the input, in its order.
THEOREM OutputHolds == Spec => []OutputIsOfInput
<1>1. IInv(AllRows) => OutputIsOfInput
  BY AllRowsAre, InvGivesAll
<1> QED  BY <1>1, SpecIInv, PTL

\* A verification ends well exactly when every record of its input does.
THEOREM VerdictHolds == Spec => []VerdictIsOfInput
<1>1. IInv(AllRows) => VerdictIsOfInput
  BY AllRowsAre, InvGivesAll
<1> QED  BY <1>1, SpecIInv, PTL

-----------------------------------------------------------------------------
(* One packed field: what decodes is rebuilt to the same bytes.            *)

\* The number so far, after each digit.
Accums(digits) ==
  CHOOSE accum : accum = [i \in 0 .. Len(digits) |->
    IF i = 0 THEN 0 ELSE accum[i - 1] * 10 + digits[i]]

\* They are as they are defined,
LEMMA AccumsAre ==
  ASSUME NEW digits \in Seq(0 .. 9)
  PROVE  LET A == Accums(digits) IN
         /\ ValueOf(digits) = A[Len(digits)]
         /\ A \in [0 .. Len(digits) -> Nat] /\ A[0] = 0
         /\ \A i \in 1 .. Len(digits) : A[i] = A[i - 1] * 10 + digits[i]
<1> DEFINE n == Len(digits)
           Is(f) == f = [i \in 0 .. n |->
                           IF i = 0 THEN 0 ELSE f[i - 1] * 10 + digits[i]]
           G == [x \in Nat |-> [i \in 1 .. n |-> x * 10 + digits[i]]]
<1>1. n \in Nat /\ \A i \in 1 .. n : digits[i] \in 0 .. 9
  OBVIOUS
<1>2. G \in Steppers(n, Nat)
  <2>1. \A x \in Nat : \A i \in 1 .. n : x * 10 + digits[i] \in Nat
    BY <1>1
  <2> QED  BY <2>1 DEF Steppers
<1> HIDE DEF G
<1>3. \E f : Stepped(n, Nat, 0, G, f)
  BY ONLY <1>1, <1>2, StepsExist
<1>4. PICK f : Stepped(n, Nat, 0, G, f)
  BY <1>3
<1>5. f \in [0 .. n -> Nat] /\ f[0] = 0
      /\ \A i \in 1 .. n : f[i] = G[f[i - 1]][i]
  BY <1>4 DEF Stepped
<1>6. ASSUME NEW i \in 1 .. n PROVE f[i] = f[i - 1] * 10 + digits[i]
  <2>1. i - 1 \in 0 .. n
    BY <1>1
  <2>2. f[i - 1] \in Nat
    BY <1>5, <2>1
  <2> QED  BY <1>5, <2>2 DEF G
<1>7. Is(f)
  <2>1. \A i \in 0 .. n : i # 0 => i \in 1 .. n
    BY <1>1
  <2>2. \A i \in 0 .. n :
          f[i] = IF i = 0 THEN 0 ELSE f[i - 1] * 10 + digits[i]
    BY <1>5, <1>6, <2>1
  <2> QED  BY <1>5, <2>2
<1>8. Is(Accums(digits))
  <2>1. Accums(digits) = CHOOSE g : Is(g)
    BY DEF Accums
  <2> HIDE DEF Is
  <2> QED  BY <1>7, <2>1
<1>9. ValueOf(digits) = Accums(digits)[n]
  BY DEF ValueOf, Accums
<1> DEFINE A == Accums(digits)
<1> HIDE DEF A
<1>10. A[0] = 0
  BY <1>1, <1>8 DEF A
<1>11. ASSUME NEW i \in 1 .. n PROVE A[i] = A[i - 1] * 10 + digits[i]
  <2>1. i \in 0 .. n /\ i # 0
    OBVIOUS
  <2> QED  BY <1>8, <2>1 DEF A
<1>12. \A i \in 0 .. n : A[i] \in Nat
  <2> DEFINE T == {i \in 0 .. n : A[i] \in Nat}
  <2>1. 0 \in T
    BY <1>1, <1>10
  <2>2. ASSUME NEW k \in 0 .. n, k \in T, k < n PROVE k + 1 \in T
    <3>1. k + 1 \in 1 .. n /\ (k + 1) - 1 = k /\ k + 1 \in 0 .. n
      BY <1>1, <2>2
    <3>2. A[k + 1] = A[k] * 10 + digits[k + 1]
      BY <1>11, <3>1
    <3>3. digits[k + 1] \in 0 .. 9 /\ A[k] \in Nat
      BY <1>1, <2>2, <3>1
    <3>4. \A a \in Nat : \A d \in 0 .. 9 : a * 10 + d \in Nat
      OBVIOUS
    <3>5. A[k + 1] \in Nat
      BY <3>2, <3>3, <3>4
    <3> QED  BY <3>1, <3>5
  <2> HIDE DEF T
  <2>3. \A k \in 0 .. n : k \in T
    BY ONLY <1>1, <2>1, <2>2, UpTo
  <2> QED  BY <2>3 DEF T
<1>13. A \in [0 .. n -> Nat]
  <2>1. A = [i \in 0 .. n |-> IF i = 0 THEN 0 ELSE A[i - 1] * 10 + digits[i]]
    BY <1>8 DEF A
  <2>2. A = [i \in 0 .. n |-> A[i]]
    BY <2>1, Zenon
  <2> QED  BY <1>12, <2>2
<1> QED  BY <1>9, <1>10, <1>11, <1>13 DEF A

\* The powers of ten up to one of them.
Powers(exp) ==
  CHOOSE power : power = [k \in 0 .. exp |->
    IF k = 0 THEN 1 ELSE 10 * power[k - 1]]

\* so are these,
LEMMA PowersAre ==
  ASSUME NEW n \in Nat
  PROVE  LET P == Powers(n) IN
         /\ Pow10(n) = P[n]
         /\ P[0] = 1 /\ \A i \in 1 .. n : P[i] = 10 * P[i - 1]
<1> DEFINE Is(f) == f = [i \in 0 .. n |-> IF i = 0 THEN 1 ELSE 10 * f[i - 1]]
           G == [x \in Nat |-> [i \in 1 .. n |-> 10 * x]]
<1>1. G \in Steppers(n, Nat) /\ 1 \in Nat
  <2>1. \A x \in Nat : 10 * x \in Nat
    OBVIOUS
  <2> QED  BY <2>1 DEF Steppers
<1> HIDE DEF G
<1>2. \E f : Stepped(n, Nat, 1, G, f)
  BY ONLY n \in Nat, <1>1, StepsExist
<1>3. PICK f : Stepped(n, Nat, 1, G, f)
  BY <1>2
<1>4. f \in [0 .. n -> Nat] /\ f[0] = 1
      /\ \A i \in 1 .. n : f[i] = G[f[i - 1]][i]
  BY <1>3 DEF Stepped
<1>5. ASSUME NEW i \in 1 .. n PROVE f[i] = 10 * f[i - 1]
  <2>1. i - 1 \in 0 .. n
    OBVIOUS
  <2>2. f[i - 1] \in Nat
    BY <1>4, <2>1
  <2> QED  BY <1>4, <2>2 DEF G
<1>6. Is(f)
  <2>1. \A i \in 0 .. n : i # 0 => i \in 1 .. n
    OBVIOUS
  <2>2. \A i \in 0 .. n : f[i] = IF i = 0 THEN 1 ELSE 10 * f[i - 1]
    BY <1>4, <1>5, <2>1
  <2> QED  BY <1>4, <2>2
<1>7. Is(Powers(n))
  <2>1. Powers(n) = CHOOSE g : Is(g)
    BY DEF Powers
  <2> HIDE DEF Is
  <2> QED  BY <1>6, <2>1
<1>8. Pow10(n) = Powers(n)[n]
  BY DEF Pow10, Powers
<1> DEFINE P == Powers(n)
<1> HIDE DEF P
<1>9. P[0] = 1
  BY <1>7 DEF P
<1>10. ASSUME NEW i \in 1 .. n PROVE P[i] = 10 * P[i - 1]
  <2>1. i \in 0 .. n /\ i # 0
    OBVIOUS
  <2> QED  BY <1>7, <2>1 DEF P
<1> QED  BY <1>8, <1>9, <1>10 DEF P

\* What is left of a number, after each digit that is taken from its end.
Lefts(v, width) ==
  CHOOSE left : left = [k \in 0 .. width |->
    IF k = 0 THEN v ELSE left[k - 1] \div 10]

\* and these.
LEMMA LeftsAre ==
  ASSUME NEW v \in Nat, NEW n \in Nat
  PROVE  LET L == Lefts(v, n) IN
         /\ DigitsOf(v, n) = [i \in 1 .. n |-> L[n - i] % 10]
         /\ L[0] = v /\ \A i \in 1 .. n : L[i] = L[i - 1] \div 10
<1> DEFINE Is(f) == f = [i \in 0 .. n |->
                           IF i = 0 THEN v ELSE f[i - 1] \div 10]
           G == [x \in Nat |-> [i \in 1 .. n |-> x \div 10]]
<1>1. G \in Steppers(n, Nat)
  <2>1. \A x \in Nat : x \div 10 \in Nat
    OBVIOUS
  <2> QED  BY <2>1 DEF Steppers
<1> HIDE DEF G
<1>2. \E f : Stepped(n, Nat, v, G, f)
  BY ONLY n \in Nat, v \in Nat, <1>1, StepsExist
<1>3. PICK f : Stepped(n, Nat, v, G, f)
  BY <1>2
<1>4. f \in [0 .. n -> Nat] /\ f[0] = v
      /\ \A i \in 1 .. n : f[i] = G[f[i - 1]][i]
  BY <1>3 DEF Stepped
<1>5. ASSUME NEW i \in 1 .. n PROVE f[i] = f[i - 1] \div 10
  <2>1. i - 1 \in 0 .. n
    OBVIOUS
  <2>2. f[i - 1] \in Nat
    BY <1>4, <2>1
  <2> QED  BY <1>4, <2>2 DEF G
<1>6. Is(f)
  <2>1. \A i \in 0 .. n : i # 0 => i \in 1 .. n
    OBVIOUS
  <2>2. \A i \in 0 .. n : f[i] = IF i = 0 THEN v ELSE f[i - 1] \div 10
    BY <1>4, <1>5, <2>1
  <2> QED  BY <1>4, <2>2
<1>7. Is(Lefts(v, n))
  <2>1. Lefts(v, n) = CHOOSE g : Is(g)
    BY DEF Lefts
  <2> HIDE DEF Is
  <2> QED  BY <1>6, <2>1
<1>8. DigitsOf(v, n) = [i \in 1 .. n |-> Lefts(v, n)[n - i] % 10]
  BY DEF DigitsOf, Lefts
<1> DEFINE L == Lefts(v, n)
<1> HIDE DEF L
<1>9. L[0] = v
  BY <1>7 DEF L
<1>10. ASSUME NEW i \in 1 .. n PROVE L[i] = L[i - 1] \div 10
  <2>1. i \in 0 .. n /\ i # 0
    OBVIOUS
  <2> QED  BY <1>7, <2>1 DEF L
<1> QED  BY <1>8, <1>9, <1>10 DEF L

\* The digits of the value of some digits are those digits, and the value is
\* within their number.
LEMMA DigitsOfValue ==
  ASSUME NEW digits \in Seq(0 .. 9)
  PROVE  LET v == ValueOf(digits) IN
         /\ v \in Nat /\ v < Pow10(Len(digits))
         /\ DigitsOf(v, Len(digits)) = digits
<1> DEFINE n == Len(digits)
           A == Accums(digits)
           v == ValueOf(digits)
           P == Powers(n)
           L == Lefts(v, n)
<1>1. n \in Nat /\ \A i \in 1 .. n : digits[i] \in 0 .. 9
  OBVIOUS
<1>2. /\ v = A[n] /\ A[0] = 0
      /\ \A i \in 0 .. n : A[i] \in Nat
      /\ \A i \in 1 .. n : A[i] = A[i - 1] * 10 + digits[i]
  BY AccumsAre
<1>3. Pow10(n) = P[n] /\ P[0] = 1 /\ \A i \in 1 .. n : P[i] = 10 * P[i - 1]
  BY <1>1, PowersAre
<1>4. v \in Nat
  BY <1>1, <1>2
<1> HIDE DEF v
<1>5. /\ DigitsOf(v, n) = [i \in 1 .. n |-> L[n - i] % 10]
      /\ L[0] = v /\ \A i \in 1 .. n : L[i] = L[i - 1] \div 10
  BY <1>1, <1>4, LeftsAre
<1> HIDE DEF A, P, L
<1>6. v < Pow10(n)
  <2> DEFINE T == {i \in 0 .. n : P[i] \in Nat /\ A[i] < P[i]}
  <2>1. 0 \in T
    BY <1>1, <1>2, <1>3
  <2>2. ASSUME NEW k \in 0 .. n, k \in T, k < n PROVE k + 1 \in T
    <3>1. k + 1 \in 1 .. n /\ (k + 1) - 1 = k /\ k + 1 \in 0 .. n
      BY <1>1, <2>2
    <3>2. A[k + 1] = A[k] * 10 + digits[k + 1] /\ P[k + 1] = 10 * P[k]
      BY <1>2, <1>3, <3>1
    <3>3. /\ digits[k + 1] \in 0 .. 9 /\ A[k] \in Nat
          /\ P[k] \in Nat /\ A[k] < P[k]
      BY <1>1, <1>2, <2>2, <3>1
    <3>4. \A a, b \in Nat : \A d \in 0 .. 9 :
            a < b => 10 * b \in Nat /\ a * 10 + d < 10 * b
      OBVIOUS
    <3>5. P[k + 1] \in Nat /\ A[k + 1] < P[k + 1]
      BY <3>2, <3>3, <3>4
    <3> QED  BY <3>1, <3>5
  <2> HIDE DEF T
  <2>3. \A k \in 0 .. n : k \in T
    BY ONLY <1>1, <2>1, <2>2, UpTo
  <2>4. n \in T
    BY <1>1, <2>3
  <2> QED  BY <1>2, <1>3, <2>4 DEF T
<1>7. ASSUME NEW i \in 1 .. n
      PROVE  i - 1 \in 0 .. n /\ A[i] \div 10 = A[i - 1]
             /\ A[i] % 10 = digits[i]
  <2>1. i - 1 \in 0 .. n /\ A[i] = A[i - 1] * 10 + digits[i]
    BY <1>1, <1>2
  <2>2. A[i - 1] \in Nat /\ digits[i] \in 0 .. 9
    BY <1>1, <1>2, <2>1
  <2>3. \A a \in Nat : \A d \in 0 .. 9 :
          (a * 10 + d) \div 10 = a /\ (a * 10 + d) % 10 = d
    OBVIOUS
  <2> QED  BY <2>1, <2>2, <2>3
<1>8. \A k \in 0 .. n : L[k] = A[n - k]
  <2> DEFINE T == {k \in 0 .. n : L[k] = A[n - k]}
  <2>1. 0 \in T
    <3>1. n - 0 = n /\ 0 \in 0 .. n
      BY <1>1
    <3> QED  BY <1>2, <1>5, <3>1
  <2>2. ASSUME NEW k \in 0 .. n, k \in T, k < n PROVE k + 1 \in T
    <3>1. /\ k + 1 \in 1 .. n /\ (k + 1) - 1 = k /\ k + 1 \in 0 .. n
          /\ n - k \in 1 .. n /\ n - (k + 1) = (n - k) - 1
      BY <1>1, <2>2
    <3>2. L[k + 1] = L[k] \div 10
      BY <1>5, <3>1
    <3>3. A[n - k] \div 10 = A[n - (k + 1)]
      BY <1>7, <3>1
    <3> QED  BY <2>2, <3>1, <3>2, <3>3
  <2> HIDE DEF T
  <2>3. \A k \in 0 .. n : k \in T
    BY ONLY <1>1, <2>1, <2>2, UpTo
  <2> QED  BY <2>3 DEF T
<1>9. ASSUME NEW i \in 1 .. n PROVE L[n - i] % 10 = digits[i]
  <2>1. n - i \in 0 .. n /\ n - (n - i) = i
    BY <1>1
  <2> QED  BY <1>7, <1>8, <2>1
<1>10. DigitsOf(v, n) = digits
  <2>1. digits = [i \in 1 .. n |-> digits[i]]
    OBVIOUS
  <2> QED  BY <1>5, <1>9, <2>1
<1> QED  BY <1>4, <1>6, <1>10 DEF v

\* Two nibbles make a byte, and each byte gives its two.
LEMMA NibblesAre ==
  ASSUME NEW bytes \in Seq(0 .. 255)
  PROVE  /\ Nibbles(bytes) \in Seq(0 .. 15)
         /\ Len(Nibbles(bytes)) = 2 * Len(bytes)
         /\ InBytes(Nibbles(bytes)) = bytes
<1> DEFINE L == Len(bytes)
<1>1. L \in Nat /\ \A i \in 1 .. L : bytes[i] \in 0 .. 255
  BY LenProperties, ElementOfSeq
<1> DEFINE N == Nibbles(bytes)
           high(b) == b \div 16
           low(b) == b % 16
<1>2. \A b \in 0 .. 255 : /\ high(b) \in 0 .. 15 /\ low(b) \in 0 .. 15
                          /\ 16 * high(b) + low(b) = b
  OBVIOUS
<1>3. ASSUME NEW i \in 1 .. L
      PROVE  /\ 2 * i - 1 \in 1 .. 2 * L /\ 2 * i \in 1 .. 2 * L
             /\ N[2 * i - 1] = high(bytes[i]) /\ N[2 * i] = low(bytes[i])
  <2>1. /\ 2 * i - 1 \in 1 .. 2 * L /\ 2 * i \in 1 .. 2 * L
        /\ ((2 * i - 1) + 1) \div 2 = i /\ (2 * i + 1) \div 2 = i
        /\ (2 * i - 1) % 2 = 1 /\ (2 * i) % 2 # 1
    BY <1>1
  <2> QED  BY <2>1 DEF Nibbles
<1>4. ASSUME NEW k \in 1 .. 2 * L PROVE N[k] \in 0 .. 15
  <2>1. (k + 1) \div 2 \in 1 .. L
    BY <1>1
  <2>2. bytes[(k + 1) \div 2] \in 0 .. 255
    BY <1>1, <2>1
  <2>3. N[k] = IF k % 2 = 1 THEN high(bytes[(k + 1) \div 2])
                            ELSE low(bytes[(k + 1) \div 2])
    BY DEF Nibbles
  <2> DEFINE b == bytes[(k + 1) \div 2]
  <2> HIDE DEF N, high, low, b
  <2>4. high(b) \in 0 .. 15 /\ low(b) \in 0 .. 15
    BY <1>2, <2>2 DEF b
  <2>5. N[k] = high(b) \/ N[k] = low(b)
    BY <2>3 DEF b
  <2> QED  BY <2>4, <2>5
<1>5. N \in [1 .. 2 * L -> 0 .. 15] /\ 2 * L \in Nat
  <2> DEFINE n == 2 * L
  <2>1. \E f : N = [k \in 1 .. n |-> f[k]]
    <3> WITNESS N
    <3> QED  BY DEF Nibbles
  <2>2. \A k \in 1 .. n : N[k] \in 0 .. 15
    BY <1>4
  <2> HIDE DEF N, n
  <2>3. N \in [1 .. n -> 0 .. 15]
    BY <2>1, <2>2
  <2> QED  BY <1>1, <2>3 DEF n
<1> HIDE DEF N
<1>6. N \in Seq(0 .. 15) /\ Len(N) = 2 * L
  <2> DEFINE n == 2 * L
  <2>1. N \in [1 .. n -> 0 .. 15] /\ n \in Nat
    BY <1>5
  <2> HIDE DEF n
  <2>2. N \in Seq(0 .. 15) /\ Len(N) = n
    BY ONLY <2>1
  <2> QED  BY <2>2 DEF n
<1>7. (2 * L) \div 2 = L
  BY <1>1
<1>8. InBytes(N) = [i \in 1 .. L |-> 16 * N[2 * i - 1] + N[2 * i]]
  BY <1>6, <1>7 DEF InBytes
<1>9. ASSUME NEW i \in 1 .. L PROVE 16 * N[2 * i - 1] + N[2 * i] = bytes[i]
  <2>1. bytes[i] \in 0 .. 255
    BY <1>1
  <2> HIDE DEF high, low
  <2> QED  BY <1>2, <1>3, <2>1
<1>10. bytes = [i \in 1 .. L |-> bytes[i]]
  OBVIOUS
<1>11. InBytes(N) = bytes
  <2> HIDE DEF L
  <2> QED  BY <1>8, <1>9, <1>10
<1> QED  BY <1>6, <1>11 DEF N

\* Padding, digits and a sign put together.
LEMMA Joined ==
  ASSUME NEW S, NEW s \in Seq(S), NEW t \in Seq(S), NEW x \in S
  PROVE  LET all == s \o t \o <<x>> IN
         /\ all \in Seq(S) /\ Len(all) = Len(s) + Len(t) + 1
         /\ \A i \in 1 .. Len(s) : all[i] = s[i]
         /\ \A i \in 1 .. Len(t) : all[Len(s) + i] = t[i]
         /\ all[Len(s) + Len(t) + 1] = x
<1> DEFINE head == s \o t
           last == <<x>>
           m == Len(s)
           n == Len(t)
<1>1. m \in Nat /\ n \in Nat
  OBVIOUS
<1>2. /\ head \in Seq(S) /\ Len(head) = m + n
      /\ \A i \in 1 .. m + n :
           head[i] = IF i <= m THEN s[i] ELSE t[i - m]
  BY ConcatProperties
<1>3. last \in Seq(S) /\ Len(last) = 1 /\ last[1] = x
  OBVIOUS
<1> HIDE DEF head, last
<1>4. /\ head \o last \in Seq(S)
      /\ Len(head \o last) = Len(head) + Len(last)
      /\ \A i \in 1 .. Len(head) + Len(last) :
           (head \o last)[i] = IF i <= Len(head) THEN head[i]
                                                ELSE last[i - Len(head)]
  <2>1. head \in Seq(S) /\ last \in Seq(S)
    BY <1>2, <1>3
  <2> QED  BY ONLY <2>1, ConcatProperties
<1> HIDE DEF m, n
<1>5. \A i \in 1 .. m + n + 1 :
        (head \o last)[i] = IF i <= m + n THEN head[i] ELSE last[i - (m + n)]
  BY <1>2, <1>3, <1>4
<1>6. ASSUME NEW i \in 1 .. m PROVE (head \o last)[i] = s[i]
  <2>1. /\ i \in 1 .. m + n /\ i \in 1 .. m + n + 1
        /\ i <= m + n /\ i <= m
    BY <1>1
  <2> QED  BY <1>2, <1>5, <2>1
<1>7. ASSUME NEW i \in 1 .. n PROVE (head \o last)[m + i] = t[i]
  <2>1. /\ m + i \in 1 .. m + n /\ ~(m + i <= m) /\ (m + i) - m = i
        /\ m + i \in 1 .. m + n + 1 /\ m + i <= m + n
    BY <1>1
  <2> QED  BY <1>2, <1>5, <2>1
<1>8. (head \o last)[m + n + 1] = x
  <2>1. /\ m + n + 1 \in 1 .. m + n + 1 /\ ~(m + n + 1 <= m + n)
        /\ (m + n + 1) - (m + n) = 1
    BY <1>1
  <2> QED  BY <1>3, <1>5, <2>1
<1> QED  BY <1>2, <1>3, <1>4, <1>6, <1>7, <1>8 DEF head, last, m, n

\* What decodes verifies: for any number of digits and either sign mode,
\* the value that bytes decode to and their sign nibble give back the same
\* bytes, zero with a negative sign among them.
THEOREM DecodedVerifies ==
  ASSUME NEW shape \in Shapes, NEW bytes \in Seq(0 .. 255),
         DecodePacked(bytes, shape).ok
  PROVE  VerifyPacked(bytes, shape)
<1> DEFINE w == shape.digits
           p == Len(Pad(shape))
           N == Nibbles(bytes)
           L == Len(bytes)
           D == DigitNibbles(bytes, shape)
           sign == SignNibble(bytes)
           value == Signed(ValueOf(D), sign, shape)
           loss == DecodePacked(bytes, shape)
<1>1. /\ w \in Nat \ {0} /\ shape.signed \in BOOLEAN
      /\ shape.mode \in {"pfd", "nopfd"}
  BY DEF Shapes
<1>2. /\ L = ExpectedLen(w)
      /\ loss = Outcome(bytes, shape, D, sign) /\ loss.ok
  BY DEF DecodePacked
<1>3. /\ ~(Pad(shape) # <<>> /\ bytes[1] \div 16 # 0)
      /\ \A i \in DOMAIN D : ~(D[i] > 9)
      /\ sign \in Positive(shape) \cup Negative(shape)
      /\ loss = [ok |-> TRUE, sign |-> sign, value |-> value]
  <2> DEFINE padded == Pad(shape) # <<>> /\ bytes[1] \div 16 # 0
             wrong == \E i \in DOMAIN D : D[i] > 9
             unsigned == sign \notin Positive(shape) \cup Negative(shape)
             error(code) == [ok |-> FALSE, code |-> code]
             read == [ok |-> TRUE, sign |-> sign, value |-> value]
  <2>1. loss = IF padded THEN error("E_PADDING")
               ELSE IF wrong THEN error("E_DIGIT")
               ELSE IF unsigned THEN error("E_SIGN") ELSE read
    BY <1>2 DEF Outcome
  <2>2. loss.ok
    BY <1>2
  <2> HIDE DEF loss, padded, wrong, unsigned, value
  <2>3. ~padded /\ ~wrong /\ ~unsigned /\ loss = read
    BY <2>1, <2>2
  <2> QED  BY <2>3 DEF padded, wrong, unsigned
<1> HIDE DEF loss
<1>4. /\ p \in {0, 1} /\ 2 * L = p + w + 1 /\ L \in Nat \ {0}
      /\ Pad(shape) = IF p = 1 THEN <<0>> ELSE <<>>
  BY <1>1, <1>2 DEF Pad, ExpectedLen
<1>5. N \in Seq(0 .. 15) /\ Len(N) = 2 * L /\ InBytes(N) = bytes
  BY NibblesAre
<1>6. sign = N[2 * L] /\ sign \in 0 .. 15
  <2>1. 2 * L \in 1 .. 2 * L /\ (2 * L + 1) \div 2 = L /\ (2 * L) % 2 # 1
    BY <1>4
  <2>2. N[2 * L] = sign
    BY <2>1 DEF Nibbles, SignNibble
  <2> QED  BY <1>5, <2>1, <2>2
<1>7. p = 1 => N[1] = 0
  <2>1. 1 \in 1 .. 2 * L /\ (1 + 1) \div 2 = 1 /\ 1 % 2 = 1
    BY <1>4
  <2>2. N[1] = bytes[1] \div 16
    BY <2>1 DEF Nibbles
  <2>3. p = 1 => Pad(shape) # <<>>
    <3>1. SUFFICES ASSUME Pad(shape) = <<>> PROVE p # 1
      OBVIOUS
    <3>2. Len(Pad(shape)) = 0
      BY <3>1
    <3> QED  BY <3>2
  <2>4. p = 1 => bytes[1] \div 16 = 0
    BY <1>3, <2>3
  <2> HIDE DEF N, p
  <2> QED  BY <2>2, <2>4
<1>8. /\ D = SubSeq(N, p + 1, p + w)
  BY DEF DigitNibbles
<1> HIDE DEF N, L, D, p, sign
<1>9. /\ D \in Seq(0 .. 15) /\ Len(D) = w
      /\ \A i \in 1 .. w : D[i] = N[p + i]
  <2>1. p + 1 \in 1 .. Len(N) + 1 /\ p + w \in 0 .. Len(N)
        /\ p + 1 <= p + w + 1 /\ (p + w) - (p + 1) + 1 = w
    BY <1>1, <1>4, <1>5
  <2>2. \A i \in 1 .. w : p + i \in 1 .. Len(N) /\ (p + 1) + i - 1 = p + i
    BY <1>1, <1>4, <1>5
  <2> HIDE DEF w
  <2>3. D \in [1 .. w -> 0 .. 15] /\ \A i \in 1 .. w : D[i] = N[p + i]
    <3>1. D = [i \in 1 .. w |-> N[p + i]]
      BY <1>1, <1>4, <1>5, <1>8, <2>1, <2>2, SubSeqProperties
    <3>2. \A i \in 1 .. w : N[p + i] \in 0 .. 15
      BY <1>5, <2>2, ElementOfSeq
    <3> QED  BY <3>1, <3>2
  <2> QED  BY ONLY <1>1, <2>3
<1>10. D \in Seq(0 .. 9)
  <2>1. \A i \in 1 .. w : D[i] \in 0 .. 15 /\ ~(D[i] > 9)
    BY <1>3, <1>9
  <2>2. \A i \in 1 .. w : D[i] \in 0 .. 9
    BY <2>1
  <2>3. D \in [1 .. w -> 0 .. 9] /\ w \in Nat
    BY <1>1, <1>9, <2>2
  <2> QED  BY ONLY <2>3
<1>11. /\ ValueOf(D) \in Nat /\ ValueOf(D) < Pow10(w)
       /\ DigitsOf(ValueOf(D), w) = D
  BY <1>9, <1>10, DigitsOfValue
<1>12. /\ Magnitude(value) = ValueOf(D)
       /\ value < 0 => shape.signed
       /\ SignFits(sign, shape, value)
  <2>1. CASE sign \in Negative(shape)
    BY <1>11, <2>1 DEF Negative, Signed, Magnitude, SignFits
  <2>2. CASE sign \notin Negative(shape)
    BY <1>3, <1>11, <2>2 DEF Positive, Signed, Magnitude, SignFits
  <2> QED  BY <2>1, <2>2
<1>13. Pad(shape) \o D \o <<sign>> = N
  <2> DEFINE pad == Pad(shape)
  <2>1. pad \in Seq(0 .. 15) /\ Len(pad) = p /\ (p = 1 => pad[1] = 0)
    <3>1. CASE p = 0
      BY <1>4, <3>1
    <3>2. CASE p = 1
      BY <1>4, <3>2
    <3> QED  BY <1>4, <3>1, <3>2
  <2> HIDE DEF pad, w
  <2>2. /\ pad \o D \o <<sign>> \in Seq(0 .. 15)
        /\ Len(pad \o D \o <<sign>>) = p + w + 1
        /\ \A i \in 1 .. p : (pad \o D \o <<sign>>)[i] = pad[i]
        /\ \A i \in 1 .. w : (pad \o D \o <<sign>>)[p + i] = D[i]
        /\ (pad \o D \o <<sign>>)[p + w + 1] = sign
    <3>1. /\ pad \in Seq(0 .. 15) /\ D \in Seq(0 .. 15) /\ sign \in 0 .. 15
          /\ Len(pad) = p /\ Len(D) = w
      BY <1>6, <1>9, <2>1 DEF w
    <3> DEFINE all == pad \o D \o <<sign>>
    <3>2. /\ all \in Seq(0 .. 15) /\ Len(all) = Len(pad) + Len(D) + 1
          /\ \A i \in 1 .. Len(pad) : all[i] = pad[i]
          /\ \A i \in 1 .. Len(D) : all[Len(pad) + i] = D[i]
          /\ all[Len(pad) + Len(D) + 1] = sign
      <4> DEFINE S == 0 .. 15
      <4>1. pad \in Seq(S) /\ D \in Seq(S) /\ sign \in S
        BY <3>1
      <4> HIDE DEF S
      <4>2. /\ all \in Seq(S) /\ Len(all) = Len(pad) + Len(D) + 1
            /\ \A i \in 1 .. Len(pad) : all[i] = pad[i]
            /\ \A i \in 1 .. Len(D) : all[Len(pad) + i] = D[i]
            /\ all[Len(pad) + Len(D) + 1] = sign
        BY ONLY <4>1, Joined
      <4> QED  BY <4>2 DEF S
    <3> HIDE DEF all
    <3>3. /\ Len(all) = p + w + 1 /\ \A i \in 1 .. p : all[i] = pad[i]
          /\ \A i \in 1 .. w : all[p + i] = D[i] /\ all[p + w + 1] = sign
      BY <3>1, <3>2
    <3> QED  BY <3>2, <3>3 DEF all
  <2> DEFINE all == pad \o D \o <<sign>>
  <2> HIDE DEF all
  <2>3. ASSUME NEW i \in 1 .. p + w + 1
        PROVE  all[i] = N[i]
    <3>1. CASE i <= p
      <4>1. i = 1 /\ p = 1 /\ i \in 1 .. p
        BY <1>1, <1>4, <3>1
      <4>2. all[i] = pad[i]
        BY <2>2, <4>1 DEF all
      <4> QED  BY <1>7, <2>1, <4>1, <4>2
    <3>2. CASE i > p /\ i <= p + w
      <4>1. i - p \in 1 .. w /\ p + (i - p) = i
        BY <1>1, <1>4, <3>2
      <4>2. all[p + (i - p)] = D[i - p] /\ D[i - p] = N[p + (i - p)]
        BY <1>9, <2>2, <4>1 DEF all
      <4> QED  BY <4>1, <4>2
    <3>3. CASE i = p + w + 1
      <4>1. all[i] = sign
        BY <2>2, <3>3 DEF all
      <4>2. i = 2 * L
        BY <1>4, <3>3
      <4> QED  BY <1>6, <4>1, <4>2
    <3>4. i <= p \/ (i > p /\ i <= p + w) \/ i = p + w + 1
      BY <1>1, <1>4
    <3> QED  BY <3>1, <3>2, <3>3, <3>4
  <2>4. all \in Seq(0 .. 15) /\ Len(all) = p + w + 1 /\ Len(N) = p + w + 1
    BY <1>4, <1>5, <2>2 DEF all, w
  <2>5. all = N
    BY <1>5, <2>3, <2>4, SeqEqual
  <2> QED  BY <2>5 DEF all, pad
<1>14. Packed(ValueOf(D), sign, shape) = bytes
  BY <1>5, <1>11, <1>13 DEF Packed
<1>15. Rebuilt(loss, shape) = bytes
  BY <1>3, <1>11, <1>12, <1>14 DEF Rebuilt
<1> QED  BY <1>3, <1>15 DEF VerifyPacked, Verified, loss

\* The other way: the value of the digits of a number is that number, when
\* there are enough of them.
LEMMA ValueOfDigits ==
  ASSUME NEW v \in Nat, NEW n \in Nat, v < Pow10(n)
  PROVE  LET digits == DigitsOf(v, n) IN
         /\ digits \in Seq(0 .. 9) /\ Len(digits) = n
         /\ ValueOf(digits) = v
<1> DEFINE D == DigitsOf(v, n)
           A == Accums(D)
           P == Powers(n)
           L == Lefts(v, n)
<1>1. Pow10(n) = P[n] /\ P[0] = 1 /\ \A i \in 1 .. n : P[i] = 10 * P[i - 1]
  BY PowersAre
<1>2. /\ D = [i \in 1 .. n |-> L[n - i] % 10]
      /\ L[0] = v /\ \A i \in 1 .. n : L[i] = L[i - 1] \div 10
  BY LeftsAre
<1> HIDE DEF L, P, D
<1>3. \A i \in 0 .. n : P[i] \in Nat
  <2> DEFINE T == {i \in 0 .. n : P[i] \in Nat}
  <2>1. 0 \in T
    BY <1>1
  <2>2. ASSUME NEW k \in 0 .. n, k \in T, k < n PROVE k + 1 \in T
    <3>1. k + 1 \in 1 .. n /\ (k + 1) - 1 = k /\ k + 1 \in 0 .. n
      BY <2>2
    <3>2. P[k + 1] = 10 * P[k]
      BY <1>1, <3>1
    <3> QED  BY <2>2, <3>1, <3>2
  <2> HIDE DEF T
  <2>3. \A k \in 0 .. n : k \in T
    BY ONLY n \in Nat, <2>1, <2>2, UpTo
  <2> QED  BY <2>3 DEF T
<1>4. \A k \in 0 .. n : L[k] \in Nat /\ L[k] < P[n - k]
  <2> DEFINE T == {k \in 0 .. n : L[k] \in Nat /\ L[k] < P[n - k]}
  <2>1. 0 \in T
    <3>1. n - 0 = n /\ 0 \in 0 .. n
      OBVIOUS
    <3> QED  BY <1>1, <1>2, <3>1
  <2>2. ASSUME NEW k \in 0 .. n, k \in T, k < n PROVE k + 1 \in T
    <3>1. /\ k + 1 \in 1 .. n /\ (k + 1) - 1 = k /\ k + 1 \in 0 .. n
          /\ n - k \in 1 .. n /\ (n - k) - 1 = n - (k + 1)
          /\ n - (k + 1) \in 0 .. n
      BY <2>2
    <3>2. L[k + 1] = L[k] \div 10
      BY <1>2, <3>1
    <3>3. P[n - k] = 10 * P[n - (k + 1)]
      BY <1>1, <3>1
    <3>4. P[n - (k + 1)] \in Nat
      BY <1>3, <3>1
    <3>5. \A a, b \in Nat : a < 10 * b => a \div 10 \in Nat /\ a \div 10 < b
      OBVIOUS
    <3> QED  BY <2>2, <3>1, <3>2, <3>3, <3>4, <3>5
  <2> HIDE DEF T
  <2>3. \A k \in 0 .. n : k \in T
    BY ONLY n \in Nat, <2>1, <2>2, UpTo
  <2> QED  BY <2>3 DEF T
<1>5. D \in Seq(0 .. 9) /\ Len(D) = n
  <2>1. ASSUME NEW i \in 1 .. n PROVE L[n - i] % 10 \in 0 .. 9
    <3>1. n - i \in 0 .. n
      OBVIOUS
    <3>2. L[n - i] \in Nat
      BY <1>4, <3>1
    <3> QED  BY <3>2
  <2>2. D \in [1 .. n -> 0 .. 9]
    BY <1>2, <2>1
  <2> QED  BY ONLY <2>2, n \in Nat
<1>6. /\ ValueOf(D) = A[n] /\ A[0] = 0
      /\ \A i \in 1 .. n : A[i] = A[i - 1] * 10 + D[i]
  BY <1>5, AccumsAre
<1> HIDE DEF A
<1>7. \A i \in 0 .. n : A[i] = L[n - i]
  <2> DEFINE T == {i \in 0 .. n : A[i] = L[n - i]}
  <2>1. 0 \in T
    <3>1. n - 0 = n /\ n - n = 0 /\ 0 \in 0 .. n /\ n \in 0 .. n
      OBVIOUS
    <3>2. L[n] \in Nat /\ L[n] < 1
      BY <1>1, <1>4, <3>1
    <3>3. L[n] = 0
      BY <3>2
    <3> QED  BY <1>6, <3>1, <3>3
  <2>2. ASSUME NEW k \in 0 .. n, k \in T, k < n PROVE k + 1 \in T
    <3>1. /\ k + 1 \in 1 .. n /\ (k + 1) - 1 = k /\ k + 1 \in 0 .. n
          /\ n - k \in 1 .. n /\ (n - k) - 1 = n - (k + 1)
          /\ n - (k + 1) \in 0 .. n
      BY <2>2
    <3>2. A[k + 1] = A[k] * 10 + D[k + 1]
      BY <1>6, <3>1
    <3>3. D[k + 1] = L[n - (k + 1)] % 10
      BY <1>2, <3>1
    <3>4. L[n - k] = L[n - (k + 1)] \div 10
      BY <1>2, <3>1
    <3>5. L[n - (k + 1)] \in Nat
      BY <1>4, <3>1
    <3>6. \A a \in Nat : (a \div 10) * 10 + (a % 10) = a
      OBVIOUS
    <3>7. (L[n - (k + 1)] \div 10) * 10 + (L[n - (k + 1)] % 10)
            = L[n - (k + 1)]
      BY <3>5, <3>6
    <3>8. A[k] = L[n - (k + 1)] \div 10
      BY <2>2, <3>4
    <3> DEFINE l == L[n - (k + 1)]
    <3>9. A[k + 1] = (l \div 10) * 10 + (l % 10)
      BY <3>2, <3>3, <3>8
    <3> HIDE DEF l
    <3>10. A[k + 1] = l
      BY <3>7, <3>9 DEF l
    <3> QED  BY <3>1, <3>10 DEF l
  <2> HIDE DEF T
  <2>3. \A k \in 0 .. n : k \in T
    BY ONLY n \in Nat, <2>1, <2>2, UpTo
  <2> QED  BY <2>3 DEF T
<1>8. A[n] = v
  <2>1. n - n = 0 /\ n \in 0 .. n
    OBVIOUS
  <2> QED  BY <1>2, <1>7, <2>1
<1> QED  BY <1>5, <1>6, <1>8 DEF D

\* Nibbles in pairs are those of the bytes they make.
LEMMA BytesAre ==
  ASSUME NEW L \in Nat, NEW N \in Seq(0 .. 15), Len(N) = 2 * L
  PROVE  /\ InBytes(N) \in Seq(0 .. 255) /\ Len(InBytes(N)) = L
         /\ Nibbles(InBytes(N)) = N
<1> DEFINE B == InBytes(N)
<1>1. \A k \in 1 .. 2 * L : N[k] \in 0 .. 15
  BY ElementOfSeq
<1>2. B = [i \in 1 .. L |-> 16 * N[2 * i - 1] + N[2 * i]]
  <2>1. (2 * L) \div 2 = L
    OBVIOUS
  <2> QED  BY <2>1 DEF InBytes
<1> HIDE DEF B
<1>3. \A a, b \in 0 .. 15 : /\ 16 * a + b \in 0 .. 255
                            /\ (16 * a + b) \div 16 = a
                            /\ (16 * a + b) % 16 = b
  OBVIOUS
<1>4. ASSUME NEW i \in 1 .. L
      PROVE  /\ B[i] \in 0 .. 255
             /\ B[i] \div 16 = N[2 * i - 1] /\ B[i] % 16 = N[2 * i]
  <2>1. 2 * i - 1 \in 1 .. 2 * L /\ 2 * i \in 1 .. 2 * L
    OBVIOUS
  <2>2. N[2 * i - 1] \in 0 .. 15 /\ N[2 * i] \in 0 .. 15
    BY <1>1, <2>1
  <2>3. B[i] = 16 * N[2 * i - 1] + N[2 * i]
    BY <1>2
  <2> DEFINE a == N[2 * i - 1]
             b == N[2 * i]
  <2>4. a \in 0 .. 15 /\ b \in 0 .. 15 /\ B[i] = 16 * a + b
    BY <2>2, <2>3
  <2> HIDE DEF a, b
  <2>5. B[i] \in 0 .. 255 /\ B[i] \div 16 = a /\ B[i] % 16 = b
    BY <1>3, <2>4
  <2> QED  BY <2>5 DEF a, b
<1>5. B \in Seq(0 .. 255) /\ Len(B) = L
  <2>1. B \in [1 .. L -> 0 .. 255]
    BY <1>2, <1>4
  <2> QED  BY ONLY <2>1, L \in Nat
<1>6. Nibbles(B) \in Seq(0 .. 15) /\ Len(Nibbles(B)) = 2 * L
  BY <1>5, NibblesAre
<1>7. ASSUME NEW k \in 1 .. 2 * L PROVE Nibbles(B)[k] = N[k]
  <2> DEFINE i == (k + 1) \div 2
  <2>1. /\ i \in 1 .. L
        /\ k % 2 = 1 => 2 * i - 1 = k
        /\ k % 2 # 1 => 2 * i = k
    OBVIOUS
  <2>2. k \in 1 .. 2 * Len(B)
    BY <1>5
  <2>3. Nibbles(B)[k] = IF k % 2 = 1 THEN B[i] \div 16 ELSE B[i] % 16
    BY <2>2 DEF Nibbles
  <2> HIDE DEF i
  <2> QED  BY <1>4, <2>1, <2>3
<1>8. Nibbles(B) = N
  BY <1>6, <1>7, SeqEqual
<1> QED  BY <1>5, <1>8 DEF B

\* And what is encoded decodes to the same value and sign: any number that
\* fits the digits, with any sign nibble that fits the number and that the
\* sign mode reads.
THEOREM EncodedDecodes ==
  ASSUME NEW shape \in Shapes, NEW value \in Int,
         NEW sign \in Positive(shape) \cup Negative(shape),
         Magnitude(value) < Pow10(shape.digits),
         value < 0 => shape.signed, SignFits(sign, shape, value)
  PROVE  LET loss == [ok |-> TRUE, sign |-> sign, value |-> value]
         IN  DecodePacked(Rebuilt(loss, shape), shape) = loss
<1> DEFINE loss == [ok |-> TRUE, sign |-> sign, value |-> value]
           w == shape.digits
           pad == Pad(shape)
           p == Len(pad)
           D == DigitsOf(Magnitude(value), w)
           N == pad \o D \o <<sign>>
           B == InBytes(N)
           L == ExpectedLen(w)
<1>1. /\ w \in Nat \ {0} /\ shape.signed \in BOOLEAN
      /\ shape.mode \in {"pfd", "nopfd"}
  BY DEF Shapes
<1>2. Rebuilt(loss, shape) = B
  BY DEF Rebuilt, Packed
<1>3. /\ p \in {0, 1} /\ 2 * L = p + w + 1 /\ L \in Nat \ {0}
      /\ pad = IF p = 1 THEN <<0>> ELSE <<>>
  BY <1>1 DEF Pad, ExpectedLen
<1>4. Magnitude(value) \in Nat /\ sign \in 0 .. 15
  BY DEF Magnitude, Positive, Negative
<1>5. D \in Seq(0 .. 9) /\ Len(D) = w /\ ValueOf(D) = Magnitude(value)
  BY <1>1, <1>4, ValueOfDigits
<1> HIDE DEF D
<1>6. /\ D \in Seq(0 .. 15)
      /\ \A i \in 1 .. w : D[i] \in 0 .. 9
  <2>1. \A i \in 1 .. w : D[i] \in 0 .. 9 /\ D[i] \in 0 .. 15
    BY <1>5, ElementOfSeq
  <2>2. D \in [1 .. w -> 0 .. 15] /\ w \in Nat
    <3>1. D = [i \in 1 .. w |-> D[i]]
      BY <1>5
    <3> QED  BY <1>1, <2>1, <3>1
  <2>3. D \in Seq(0 .. 15)
    <3> DEFINE S == 0 .. 15
    <3>1. D \in [1 .. w -> S] /\ w \in Nat
      BY <2>2
    <3> HIDE DEF S, w
    <3>2. D \in Seq(S)
      BY ONLY <3>1
    <3> QED  BY <3>2 DEF S
  <2> QED  BY <2>1, <2>3
<1> HIDE DEF p, pad, L, N
<1>7. pad \in Seq(0 .. 15) /\ (p = 1 => pad[1] = 0)
  <2>1. CASE p = 0
    <3>1. pad = <<>>
      BY <1>3, <2>1
    <3> QED  BY <2>1, <3>1
  <2>2. CASE p = 1
    <3>1. pad = <<0>>
      BY <1>3, <2>2
    <3> QED  BY <3>1
  <2> QED  BY <1>3, <2>1, <2>2
<1>8. p = 0 => pad = <<>>
  BY <1>3
<1>9. /\ N \in Seq(0 .. 15) /\ Len(N) = p + w + 1
      /\ \A i \in 1 .. p : N[i] = pad[i]
      /\ \A i \in 1 .. w : N[p + i] = D[i]
      /\ N[p + w + 1] = sign
  <2>1. Len(pad) = p
    BY DEF p
  <2>2. /\ N \in Seq(0 .. 15) /\ Len(N) = Len(pad) + Len(D) + 1
        /\ \A i \in 1 .. Len(pad) : N[i] = pad[i]
        /\ \A i \in 1 .. Len(D) : N[Len(pad) + i] = D[i]
        /\ N[Len(pad) + Len(D) + 1] = sign
    <3> DEFINE S == 0 .. 15
    <3>1. pad \in Seq(S) /\ D \in Seq(S) /\ sign \in S
      BY <1>4, <1>6, <1>7
    <3> HIDE DEF S
    <3>2. /\ N \in Seq(S) /\ Len(N) = Len(pad) + Len(D) + 1
          /\ \A i \in 1 .. Len(pad) : N[i] = pad[i]
          /\ \A i \in 1 .. Len(D) : N[Len(pad) + i] = D[i]
          /\ N[Len(pad) + Len(D) + 1] = sign
      BY ONLY <3>1, Joined DEF N
    <3> QED  BY <3>2 DEF S
  <2> HIDE DEF w
  <2> QED  BY <1>5, <2>1, <2>2
<1>10. B \in Seq(0 .. 255) /\ Len(B) = L /\ Nibbles(B) = N
  BY <1>3, <1>9, BytesAre
<1> HIDE DEF B
<1>11. SignNibble(B) = sign
  <2>1. 2 * L \in 1 .. 2 * L /\ (2 * L + 1) \div 2 = L /\ (2 * L) % 2 # 1
    BY <1>3
  <2>2. Nibbles(B)[2 * L] = B[L] % 16
    BY <1>10, <2>1 DEF Nibbles
  <2>3. N[2 * L] = sign
    BY <1>3, <1>9
  <2> QED  BY <1>10, <2>2, <2>3 DEF SignNibble
<1>12. p = 1 => B[1] \div 16 = 0
  <2>1. 1 \in 1 .. 2 * L /\ (1 + 1) \div 2 = 1 /\ 1 % 2 = 1
    BY <1>3
  <2>2. Nibbles(B)[1] = B[1] \div 16
    BY <1>10, <2>1 DEF Nibbles
  <2>3. p = 1 => N[1] = 0
    BY <1>7, <1>9
  <2> QED  BY <1>10, <2>2, <2>3
<1>13. DigitNibbles(B, shape) = D
  <2>1. DigitNibbles(B, shape) = SubSeq(N, p + 1, p + w)
    BY <1>10 DEF DigitNibbles, p, pad
  <2>2. /\ p + 1 \in Int /\ p + w \in Int /\ p + 1 <= p + w
        /\ (p + w) - (p + 1) + 1 = w
        /\ \A i \in (p + 1) .. (p + w) : i \in 1 .. p + w + 1
        /\ \A i \in 1 .. w : (p + 1) + i - 1 = p + i
    BY <1>1, <1>3
  <2>3. \A i \in (p + 1) .. (p + w) : N[i] \in 0 .. 15
    BY <1>9, <2>2, ElementOfSeq
  <2> DEFINE from == p + 1
             to == p + w
             part == SubSeq(N, from, to)
  <2>4. from \in Int /\ to \in Int /\ \A i \in from .. to : N[i] \in 0 .. 15
    BY <2>2, <2>3
  <2> HIDE DEF from, to, w
  <2>5. /\ part \in Seq(0 .. 15)
        /\ Len(part) = IF from <= to THEN to - from + 1 ELSE 0
        /\ \A i \in 1 .. to - from + 1 : part[i] = N[from + i - 1]
    BY ONLY <2>4, SubSeqProperties
  <2> HIDE DEF part
  <2>6. Len(part) = w /\ \A i \in 1 .. w : part[i] = N[p + i]
    BY <2>2, <2>5 DEF from, to
  <2>7. part = D
    <3>1. \A i \in 1 .. w : part[i] = D[i]
      BY <1>9, <2>6
    <3> QED  BY <1>5, <1>6, <2>5, <2>6, <3>1, SeqEqual
  <2> QED  BY <2>1, <2>7 DEF part, from, to
<1>14. Signed(ValueOf(D), sign, shape) = value
  <2>1. CASE sign \in Negative(shape)
    BY <1>5, <2>1 DEF Negative, Signed, Magnitude, SignFits
  <2>2. CASE sign \notin Negative(shape)
    BY <1>5, <2>2 DEF Positive, Signed, Magnitude, SignFits
  <2> QED  BY <2>1, <2>2
<1>15. /\ ~(Pad(shape) # <<>> /\ B[1] \div 16 # 0)
       /\ ~(\E i \in DOMAIN D : D[i] > 9)
  <2>1. ~(pad # <<>> /\ B[1] \div 16 # 0)
    BY <1>3, <1>8, <1>12
  <2>2. DOMAIN D = 1 .. w
    BY <1>5
  <2>3. \A i \in 1 .. w : ~(D[i] > 9)
    BY <1>6
  <2> QED  BY <2>1, <2>2, <2>3 DEF pad
<1>16. Outcome(B, shape, D, sign) = loss
  BY <1>14, <1>15 DEF Outcome
<1>17. DecodePacked(B, shape) = loss
  BY <1>10, <1>11, <1>13, <1>16 DEF DecodePacked, L
<1> QED  BY <1>2, <1>17

-----------------------------------------------------------------------------
(* The fields of a record that was framed.                                *)

\* Of finitely many numbers there is a greatest.
LEMMA GreatestOf ==
  ASSUME NEW n \in Nat, NEW f \in [1 .. n -> Nat], NEW h \in Nat
  PROVE  LET S == {f[i] : i \in 1 .. n} \cup {h}
         IN  Max(S) \in S /\ \A x \in S : x <= Max(S)
<1> DEFINE S(k) == {f[i] : i \in 1 .. k} \cup {h}
           T == {k \in 0 .. n : \E m \in S(k) : \A x \in S(k) : x <= m}
<1>1. 0 \in T
  <2>1. S(0) = {h}
    OBVIOUS
  <2> QED  BY <2>1
<1>2. ASSUME NEW k \in 0 .. n, k \in T, k < n PROVE k + 1 \in T
  <2>1. PICK m \in S(k) : \A x \in S(k) : x <= m
    BY <1>2
  <2>2. k + 1 \in 1 .. n /\ f[k + 1] \in Nat
    BY <1>2
  <2>3. S(k + 1) = S(k) \cup {f[k + 1]}
    <3>1. 1 .. k + 1 = 1 .. k \cup {k + 1}
      OBVIOUS
    <3> QED  BY <3>1
  <2>4. S(k) \in SUBSET Nat
    BY <1>2
  <2> HIDE DEF S
  <2>5. CASE f[k + 1] <= m
    <3>1. m \in S(k + 1) /\ \A x \in S(k + 1) : x <= m
      BY <2>1, <2>3, <2>5
    <3> QED  BY <2>2, <3>1
  <2>6. CASE ~(f[k + 1] <= m)
    <3>1. \A x \in S(k) : x <= f[k + 1]
      BY <2>1, <2>2, <2>4, <2>6
    <3>2. /\ f[k + 1] \in S(k + 1)
          /\ \A x \in S(k + 1) : x <= f[k + 1]
      BY <2>2, <2>3, <3>1
    <3> QED  BY <2>2, <3>2
  <2> QED  BY <2>5, <2>6
<1> HIDE DEF T
<1>3. \A k \in 0 .. n : k \in T
  BY <1>1, <1>2, UpTo
<1> USE DEF T
<1>4. \E m \in S(n) : \A x \in S(n) : x <= m
  <2>1. n \in 0 .. n
    OBVIOUS
  <2>2. n \in T
    BY <1>3, <2>1
  <2> QED  BY <2>2
<1>5. S(n) \in SUBSET Nat
  OBVIOUS
<1> HIDE DEF S
<1>6. \E m \in S(n) : \A y \in S(n) : m >= y
  BY <1>4, <1>5
<1>7. Max(S(n)) \in S(n) /\ \A y \in S(n) : Max(S(n)) >= y
  BY <1>6 DEF Max
<1> USE DEF S
<1> QED  BY <1>5, <1>7

\* A row refused for its bytes.
OfItsBytes(row) ==
  ~row.valid => row.code \in {"E_PADDING", "E_DIGIT", "E_SIGN"}

\* A field has a byte at least.
LEMMA CodecLength ==
  ASSUME NEW codec \in Codecs
  PROVE  ByteLen(codec) \in Nat \ {0}
<1>1. CASE codec \in Shapes
  BY <1>1 DEF ByteLen, ExpectedLen, Shapes
<1>2. CASE codec \notin Shapes
  BY <1>2 DEF ByteLen, Codecs
<1> QED  BY <1>1, <1>2

\* In order, each item ends where the last one does or before.
LEMMA InOrderFits ==
  ASSUME NEW items, NEW length \in Nat, FitsInOrder(items, length),
         NEW i \in DOMAIN items
  PROVE  ItemEnd(items[i]) <= length
<1> DEFINE n == Len(items)
<1>1. n \in Nat /\ i \in 1 .. n /\ n \in DOMAIN items /\ n > 0
  BY DEF FitsInOrder, IsItems
<1>2. /\ ItemEnd(items[i]) \in Nat /\ ItemEnd(items[n]) \in Nat
      /\ items[n].offset \in Nat /\ ItemEnd(items[n]) <= length
  BY <1>1 DEF FitsInOrder, IsItems, IsItem
<1>3. items[n].offset <= ItemEnd(items[n])
  BY <1>1 DEF FitsInOrder, IsItems, IsItem
<1>4. CASE i = n
  BY <1>2, <1>4
<1>5. CASE i # n
  <2>1. i < n
    BY <1>1, <1>5
  <2>2. ItemEnd(items[i]) <= items[n].offset
    BY <1>1, <2>1 DEF FitsInOrder, InOrder
  <2> QED  BY <1>2, <1>3, <2>2
<1> QED  BY <1>4, <1>5


\* A field the record reaches is refused for its bytes only.
LEMMA ReachedField ==
  ASSUME NEW field, IsPlaced(field), NEW base \in Nat,
         NEW record \in Seq(0 .. 255), NEW verify \in BOOLEAN,
         base + field.offset + ByteLen(field.codec) <= Len(record)
  PROVE  OfItsBytes(DecodeField(field, base, record, verify))
<1> DEFINE codec == field.codec
           at == base + field.offset
           bytes == BytesAt(at, codec, record)
           outcome == DecodeBytes(bytes, codec)
           same == verify => SameBytes(bytes, codec)
           row == DecodeField(field, base, record, verify)
<1>1. codec \in Codecs /\ at \in Nat /\ ByteLen(codec) \in Nat \ {0}
  BY CodecLength DEF IsPlaced
<1>2. row = FieldRow(field, at, same, outcome)
  BY <1>1 DEF DecodeField, FieldAt, Reaches
<1>3. bytes \in Seq(0 .. 255) /\ Len(bytes) = ByteLen(codec)
  <2> DEFINE n == ByteLen(codec)
  <2>1. n \in Nat \ {0} /\ at \in Nat /\ at + n <= Len(record)
    BY <1>1
  <2>2. bytes = SubSeq(record, at + 1, at + n)
    BY DEF BytesAt
  <2> HIDE DEF at, n, bytes
  <2>3. /\ at + 1 \in Int /\ at + n \in Int
        /\ at + 1 <= at + n /\ (at + n) - (at + 1) + 1 = n
        /\ \A i \in at + 1 .. at + n : i \in 1 .. Len(record)
    BY <2>1
  <2>4. \A i \in at + 1 .. at + n : record[i] \in 0 .. 255
    BY <2>3, ElementOfSeq
  <2>5. /\ SubSeq(record, at + 1, at + n) \in Seq(0 .. 255)
        /\ Len(SubSeq(record, at + 1, at + n)) =
             IF at + 1 <= at + n THEN (at + n) - (at + 1) + 1 ELSE 0
    BY <2>3, <2>4, SubSeqProperties
  <2> QED  BY <2>2, <2>3, <2>5 DEF n
<1> HIDE DEF bytes, at
<1>4. CASE codec \in Shapes
  <2>1. codec.type = "packed" /\ outcome = DecodePacked(bytes, codec)
    BY <1>4 DEF Shapes, DecodeBytes
  <2>2. Len(bytes) = ExpectedLen(codec.digits)
    BY <1>3, <2>1 DEF ByteLen
  <2>3. outcome = Outcome(bytes, codec, DigitNibbles(bytes, codec),
                          SignNibble(bytes))
    BY <2>1, <2>2 DEF DecodePacked
  <2>4. \/ outcome.ok = TRUE
        \/ outcome.ok = FALSE
             /\ outcome.code \in {"E_PADDING", "E_DIGIT", "E_SIGN"}
    BY <2>3 DEF Outcome
  <2>5. outcome.ok => same
    BY <1>3, <1>4, <2>1, DecodedVerifies DEF SameBytes
  <2> HIDE DEF outcome, same
  <2>6. CASE ~outcome.ok
    BY <1>2, <2>4, <2>6 DEF FieldRow, ErrorRow, OfItsBytes
  <2>7. CASE outcome.ok
    BY <1>2, <2>5, <2>7 DEF FieldRow, OfItsBytes
  <2> QED  BY <2>6, <2>7
<1>5. CASE codec \notin Shapes
  <2>1. codec.type \in {"binary", "bytes"}
    BY <1>1, <1>5 DEF Codecs
  <2>2. outcome.ok = TRUE
    BY <2>1 DEF DecodeBytes
  <2>3. same
    BY <2>1 DEF SameBytes
  <2> HIDE DEF outcome, same
  <2> QED  BY <1>2, <2>2, <2>3 DEF FieldRow, OfItsBytes
<1> QED  BY <1>4, <1>5

\* The count of each item of a plan, as far as it has one.
Counts(plan, bytes) ==
  [i \in DOMAIN plan.items |->
     IF plan.items[i].kind = "occurs"
       THEN OccursCount(plan.items[i], bytes) ELSE 0]

\* A count is refused, or it is one that the table may have.
LEMMA CountType ==
  ASSUME NEW plan, IsPlan(plan), NEW bytes, NEW i \in DOMAIN plan.items
  PROVE  \/ Counts(plan, bytes)[i] = RefusedCount
         \/ /\ Counts(plan, bytes)[i] \in Nat
            /\ plan.items[i].kind = "occurs" =>
                 Counts(plan, bytes)[i]
                   \in plan.items[i].min .. plan.items[i].max
<1> DEFINE item == plan.items[i]
<1>1. IsItem(item)
  BY DEF IsPlan, IsItems
<1>2. CASE item.kind = "occurs"
  <2>1. item.min \in Nat /\ item.max \in Nat
    BY <1>1, <1>2 DEF IsItem
  <2>2. Counts(plan, bytes)[i] = OccursCount(item, bytes)
    BY <1>2 DEF Counts
  <2> HIDE DEF item
  <2>3. \/ OccursCount(item, bytes) = RefusedCount
        \/ OccursCount(item, bytes) \in item.min .. item.max
    BY DEF OccursCount, CountIn
  <2> QED  BY <2>1, <2>2, <2>3 DEF item
<1>3. CASE item.kind # "occurs"
  BY <1>3 DEF Counts
<1> QED  BY <1>2, <1>3

\* A record of a plan with a table, that has a length, reaches every item,
\* and no count was refused.
LEMMA TableReaches ==
  ASSUME NEW plan, IsPlan(plan), NEW bytes,
         ActualLength(plan, bytes) # RefusedLength
  PROVE  \A i \in DOMAIN plan.items :
           /\ Counts(plan, bytes)[i] \in Nat
           /\ plan.items[i].kind = "occurs" =>
                Counts(plan, bytes)[i]
                  \in plan.items[i].min .. plan.items[i].max
           /\ ActualEnd(plan.items[i], Counts(plan, bytes)[i])
                <= ActualLength(plan, bytes)
<1> DEFINE C == Counts(plan, bytes)
           n == Len(plan.items)
           f == [i \in 1 .. n |-> ActualEnd(plan.items[i], C[i])]
           S == {f[i] : i \in 1 .. n} \cup {plan.header}
<1>1. /\ n \in Nat /\ DOMAIN plan.items = 1 .. n /\ plan.header \in Nat
      /\ \A i \in 1 .. n : IsItem(plan.items[i])
  BY DEF IsPlan, IsItems
<1>2. ActualLength(plan, bytes) = LastEnd(plan.items, C, plan.header)
  BY DEF ActualLength, Counts
<1>3. /\ RefusedCount \notin Range(C)
      /\ ActualLength(plan, bytes) =
           Max({ActualEnd(plan.items[i], C[i]) : i \in DOMAIN plan.items}
                 \cup {plan.header})
  BY <1>2 DEF LastEnd
<1>4. DOMAIN C = 1 .. n
  BY <1>1 DEF Counts
<1>5. \A i \in 1 .. n : C[i] # RefusedCount
  BY <1>3, <1>4 DEF Range
<1>6. ASSUME NEW i \in 1 .. n
      PROVE  /\ C[i] \in Nat
             /\ plan.items[i].kind = "occurs" =>
                  C[i] \in plan.items[i].min .. plan.items[i].max
             /\ ActualEnd(plan.items[i], C[i]) \in Nat
  <2>1. /\ C[i] \in Nat
        /\ plan.items[i].kind = "occurs" =>
             C[i] \in plan.items[i].min .. plan.items[i].max
    BY <1>1, <1>5, CountType
  <2>2. IsItem(plan.items[i])
    BY <1>1
  <2> HIDE DEF C
  <2>3. CASE plan.items[i].kind = "occurs"
    <3>1. /\ plan.items[i].offset \in Nat /\ plan.items[i].size \in Nat
      BY <2>2, <2>3 DEF IsItem
    <3>2. ActualEnd(plan.items[i], C[i])
            = plan.items[i].offset + C[i] * plan.items[i].size
      BY <2>3 DEF ActualEnd
    <3> QED  BY <2>1, <3>1, <3>2
  <2>4. CASE plan.items[i].kind # "occurs"
    BY <2>1, <2>2, <2>4 DEF IsItem, ActualEnd
  <2> QED  BY <2>1, <2>3, <2>4
<1> HIDE DEF C
<1>7. f \in [1 .. n -> Nat]
  BY <1>6
<1>8. S = {ActualEnd(plan.items[i], C[i]) : i \in DOMAIN plan.items}
            \cup {plan.header}
  BY <1>1
<1>9. Max(S) = ActualLength(plan, bytes)
  BY <1>3, <1>8
<1> HIDE DEF f
<1>10. \A x \in S : x <= Max(S)
  BY <1>1, <1>7, GreatestOf
<1>11. \A i \in 1 .. n : f[i] \in S
  OBVIOUS
<1>12. \A i \in 1 .. n : f[i] = ActualEnd(plan.items[i], C[i])
  BY DEF f
<1> HIDE DEF S
<1> QED  BY <1>1, <1>6, <1>9, <1>10, <1>11, <1>12 DEF C

\* A record is as long as its header says: with the bytes that hold the
\* counters, or more of them, the length is the same.
LEMMA HeaderTells ==
  ASSUME NEW plan, IsPlan(plan), NEW record \in Seq(0 .. 255),
         plan.header <= Len(record)
  PROVE  RecordLength(plan, SubSeq(record, 1, plan.header))
           = RecordLength(plan, record)
<1> DEFINE head == SubSeq(record, 1, plan.header)
<1>1. plan.header \in Nat
  BY DEF IsPlan
<1>2. /\ head \in Seq(0 .. 255) /\ Len(head) = plan.header
      /\ \A k \in 1 .. plan.header : head[k] = record[k]
  <2>1. \A k \in 1 .. plan.header : k \in 1 .. Len(record)
    BY <1>1
  <2>2. \A k \in 1 .. plan.header : record[k] \in 0 .. 255
    BY <2>1, ElementOfSeq
  <2>3. /\ head \in Seq(0 .. 255)
        /\ Len(head) = IF 1 <= plan.header THEN plan.header - 1 + 1 ELSE 0
        /\ \A k \in 1 .. plan.header - 1 + 1 : head[k] = record[1 + k - 1]
    BY <1>1, <2>2, SubSeqProperties
  <2> HIDE DEF head
  <2> QED  BY <1>1, <2>3
<1> HIDE DEF head
<1>3. ASSUME NEW i \in DOMAIN plan.items, plan.items[i].kind = "occurs"
      PROVE  OccursCount(plan.items[i], head)
               = OccursCount(plan.items[i], record)
  <2> DEFINE counter == plan.items[i].counter
             n == ByteLen(counter.codec)
             at == 0 + counter.offset
  <2>1. /\ counter.offset \in Nat /\ n \in Nat \ {0}
        /\ counter.offset + n <= plan.header
    BY <1>3, CodecLength DEF IsPlan, IsItems, IsItem, IsPlaced
  <2>2. at \in Nat /\ at + n <= plan.header
    BY <2>1
  <2>3. Reaches(at, counter.codec, head) /\ Reaches(at, counter.codec, record)
    BY <1>1, <1>2, <2>1, <2>2 DEF Reaches
  <2> HIDE DEF at
  <2>4. \A k \in at + 1 .. at + n : head[k] = record[k]
    BY <1>1, <1>2, <2>1, <2>2
  <2>5. BytesAt(at, counter.codec, head) = BytesAt(at, counter.codec, record)
    <3> DEFINE a == SubSeq(head, at + 1, at + n)
               b == SubSeq(record, at + 1, at + n)
    <3>1. /\ a = [k \in 1 .. (at + n) - (at + 1) + 1 |-> head[k + (at + 1) - 1]]
          /\ b = [k \in 1 .. (at + n) - (at + 1) + 1
                    |-> record[k + (at + 1) - 1]]
      BY <2>1, <2>2 DEF SubSeq
    <3>2. \A k \in 1 .. (at + n) - (at + 1) + 1 :
            k + (at + 1) - 1 \in at + 1 .. at + n
      BY <2>1, <2>2
    <3> HIDE DEF n
    <3>3. a = b
      BY <2>4, <3>1, <3>2, Zenon
    <3> QED  BY <3>3 DEF BytesAt, n
  <2>6. FieldAt(counter, at, head, FALSE) = FieldAt(counter, at, record, FALSE)
    BY <2>3, <2>5 DEF FieldAt
  <2> QED  BY <2>6 DEF OccursCount, DecodeField, at
<1>4. CASE plan.occurs
  <2>1. Counts(plan, head) = Counts(plan, record)
    BY <1>3 DEF Counts
  <2>2. /\ ActualLength(plan, head)
             = LastEnd(plan.items, Counts(plan, head), plan.header)
        /\ ActualLength(plan, record)
             = LastEnd(plan.items, Counts(plan, record), plan.header)
    BY DEF ActualLength, Counts
  <2> QED  BY <1>4, <2>1, <2>2 DEF RecordLength, head
<1>5. CASE ~plan.occurs
  BY <1>5 DEF RecordLength
<1> QED  BY <1>4, <1>5

\* A record that is as long as its header tells is refused for its bytes
\* only.  If its layout has a table, or is listed in the order in which it
\* lies, every field of it decodes or is refused for its own bytes; so does
\* every field of an occurrence or a variant listed in order.  No count is
\* refused, and no overlay lies past the end.
THEOREM FramedFieldsDecode ==
  ASSUME NEW plan, IsPlan(plan), NEW record \in Seq(0 .. 255),
         NEW verify \in BOOLEAN, plan.header <= Len(record),
         RecordLength(plan, SubSeq(record, 1, plan.header)) = Len(record),
         plan.occurs \/ FitsInOrder(plan.items, plan.length),
         NEW i \in DOMAIN plan.items
  PROVE  LET item == plan.items[i]
             decodes(items, base) ==
               \A j \in DOMAIN items : items[j].kind = "field" =>
                 OfItsBytes(DecodeField(items[j], base, record, verify))
         IN  CASE item.kind = "field" ->
                    OfItsBytes(DecodeField(item, 0, record, verify))
               [] item.kind = "occurs" ->
                    /\ OccursCount(item, record) \in item.min .. item.max
                    /\ FitsInOrder(item.items, item.size) =>
                         \A k \in 1 .. OccursCount(item, record) :
                           decodes(item.items,
                                   item.offset + (k - 1) * item.size)
               [] item.kind = "redefines" ->
                    /\ item.offset + item.length <= Len(record)
                    /\ \A variant \in Range(item.variants) :
                         FitsInOrder(variant.items, item.length) =>
                           decodes(variant.items, item.offset)
               [] OTHER -> TRUE
<1> DEFINE item == plan.items[i]
           count == Counts(plan, record)[i]
           decodes(items, base) ==
             \A j \in DOMAIN items : items[j].kind = "field" =>
               OfItsBytes(DecodeField(items[j], base, record, verify))
<1>1. IsItem(item) /\ plan.length \in Nat /\ Len(record) \in Nat
  BY DEF IsPlan, IsItems
<1>2. RecordLength(plan, record) = Len(record)
  BY HeaderTells
<1>3. plan.occurs =>
        /\ ActualLength(plan, record) = Len(record)
        /\ ActualLength(plan, record) # RefusedLength
  BY <1>1, <1>2 DEF RecordLength, RefusedLength
<1>4. item.kind # "occurs" => ItemEnd(item) <= Len(record)
  <2>1. CASE plan.occurs
    BY <1>3, <2>1, TableReaches DEF ActualEnd
  <2>2. CASE ~plan.occurs
    <3>1. plan.length = Len(record)
      BY <1>2, <2>2 DEF RecordLength
    <3>2. ItemEnd(item) <= plan.length
      BY <1>1, <2>2, InOrderFits
    <3> QED  BY <3>1, <3>2
  <2> QED  BY <2>1, <2>2
<1>5. item.kind = "occurs" =>
        /\ OccursCount(item, record) \in item.min .. item.max
        /\ item.offset + OccursCount(item, record) * item.size <= Len(record)
  <2>1. SUFFICES ASSUME item.kind = "occurs"
                 PROVE  /\ OccursCount(item, record) \in item.min .. item.max
                        /\ item.offset + OccursCount(item, record) * item.size
                             <= Len(record)
    OBVIOUS
  <2>2. plan.occurs
    BY <2>1 DEF IsPlan
  <2>3. Counts(plan, record)[i] = OccursCount(item, record)
    BY <2>1 DEF Counts
  <2>4. /\ OccursCount(item, record) \in item.min .. item.max
        /\ ActualEnd(item, OccursCount(item, record))
             <= ActualLength(plan, record)
    BY <1>3, <2>1, <2>2, <2>3, TableReaches
  <2> QED  BY <1>3, <2>1, <2>2, <2>4 DEF ActualEnd
<1>6. ASSUME NEW items, NEW base \in Nat, NEW length \in Nat,
             FitsInOrder(items, length), base + length <= Len(record)
      PROVE  decodes(items, base)
  <2>1. SUFFICES ASSUME NEW j \in DOMAIN items, items[j].kind = "field"
                 PROVE  OfItsBytes(DecodeField(items[j], base, record, verify))
    OBVIOUS
  <2>2. IsPlaced(items[j]) /\ ItemEnd(items[j]) <= length
    BY <1>6, <2>1, InOrderFits DEF FitsInOrder, IsItems, IsItem
  <2>3. /\ ItemEnd(items[j]) = items[j].offset + ByteLen(items[j].codec)
        /\ items[j].offset \in Nat /\ ByteLen(items[j].codec) \in Nat
    BY <2>1, <2>2, CodecLength DEF ItemEnd, IsPlaced
  <2>4. base + items[j].offset + ByteLen(items[j].codec) <= Len(record)
    BY <1>1, <1>6, <2>2, <2>3
  <2> QED  BY <2>2, <2>4, ReachedField
<1>7. CASE item.kind = "field"
  <2>1. IsPlaced(item) /\ ItemEnd(item) = item.offset + ByteLen(item.codec)
    BY <1>1, <1>7 DEF IsItem, ItemEnd
  <2>2. item.offset \in Nat /\ ByteLen(item.codec) \in Nat
    BY <2>1, CodecLength DEF IsPlaced
  <2>3. 0 + item.offset + ByteLen(item.codec) <= Len(record)
    BY <1>4, <1>7, <2>1, <2>2
  <2>4. OfItsBytes(DecodeField(item, 0, record, verify))
    BY <2>1, <2>3, ReachedField
  <2> QED  BY <1>7, <2>4
<1>8. CASE item.kind = "occurs"
  <2> DEFINE n == OccursCount(item, record)
  <2>1. /\ item.offset \in Nat /\ item.size \in Nat
        /\ item.min \in Nat /\ item.max \in Nat
        /\ n \in item.min .. item.max
        /\ item.offset + n * item.size <= Len(record)
    BY <1>1, <1>5, <1>8 DEF IsItem
  <2>2. ASSUME FitsInOrder(item.items, item.size), NEW k \in 1 .. n
        PROVE  decodes(item.items, item.offset + (k - 1) * item.size)
    <3> DEFINE base == item.offset + (k - 1) * item.size
               size == item.size
               offset == item.offset
    <3>1. /\ n \in Nat /\ size \in Nat /\ offset \in Nat /\ Len(record) \in Nat
          /\ offset + n * size <= Len(record)
          /\ base = offset + (k - 1) * size
      BY <1>1, <2>1
    <3> HIDE DEF n, size, offset, base
    <3>2. k \in Nat /\ k >= 1 /\ k <= n
      BY <3>1
    <3>3. k * size <= n * size
      BY <3>1, <3>2
    <3>4. (k - 1) * size + size = k * size /\ (k - 1) * size \in Nat
      BY <3>1, <3>2
    <3>5. base \in Nat /\ base + size <= Len(record)
      BY <3>1, <3>3, <3>4
    <3>6. decodes(item.items, base)
      BY <1>6, <2>2, <3>1, <3>5 DEF size
    <3> QED  BY <3>6 DEF base
  <2> QED  BY <1>8, <2>1, <2>2
<1>9. CASE item.kind = "redefines"
  <2>1. /\ item.offset \in Nat /\ item.length \in Nat
        /\ item.offset + item.length <= Len(record)
    BY <1>1, <1>4, <1>9 DEF IsItem, ItemEnd
  <2>2. \A variant \in Range(item.variants) :
          FitsInOrder(variant.items, item.length) =>
            decodes(variant.items, item.offset)
    BY <1>6, <2>1
  <2> QED  BY <1>9, <2>1, <2>2
<1>10. CASE item.kind \notin {"field", "occurs", "redefines"}
  BY <1>10
<1> QED  BY <1>7, <1>8, <1>9, <1>10
=============================================================================
