--------------------------- MODULE TapeFile_proofs ---------------------------
(***************************************************************************)
(* For every set of records and every tape: vector and image stay together *)
(* as VectorIsTape says, a failure shows in the status, and on a good host *)
(* the tape is the abstract SequentialFile.                                *)
(*                                                                         *)
(* VectorIsTape is inductive.  What keeps it is that each request that     *)
(* changes the vector writes the whole image in the same step, and that a  *)
(* spoilt image is a beginning of the vector or is rejected as a whole.    *)
(* Printed, of the line of the page, counts along the records since OPEN.  *)
(*                                                                         *)
(* The last section proves the file in memory, MemoryFile, as an instance: *)
(* its records are the tape's, and so are the lemmas it needs.             *)
(***************************************************************************)
EXTENDS TapeFile, FiniteSetTheorems, SequenceTheorems, TLAPS

Images == {NoImage, BadImage} \cup Seq(Stored)

-----------------------------------------------------------------------------
(* A sequence is a beginning of another one when it is no longer and has   *)
(* the same records.                                                       *)
LEMMA PrefixIs ==
  ASSUME NEW s \in Seq(Stored), NEW t \in Seq(Stored),
         Len(s) <= Len(t), \A i \in 1..Len(s) : s[i] = t[i]
  PROVE  IsPrefix(s, t)
<1>1. \A i \in 1..Len(s) : s[i] \in Stored /\ t[i] \in Stored
  BY ElementOfSeq
<1>2. /\ SubSeq(s, 1, Len(s)) \in Seq(Stored)
      /\ Len(SubSeq(s, 1, Len(s))) = Len(s)
      /\ \A i \in 1..Len(s) : SubSeq(s, 1, Len(s))[i] = s[i]
  BY <1>1, SubSeqProperties
<1>3. /\ SubSeq(t, 1, Len(s)) \in Seq(Stored)
      /\ Len(SubSeq(t, 1, Len(s))) = Len(s)
      /\ \A i \in 1..Len(s) : SubSeq(t, 1, Len(s))[i] = t[i]
  BY <1>1, SubSeqProperties
<1>4. SubSeq(s, 1, Len(s)) = SubSeq(t, 1, Len(s))
  BY <1>2, <1>3, SeqEqual
<1> QED  BY <1>4 DEF IsPrefix

(* The converse.                                                           *)
LEMMA PrefixHas ==
  ASSUME NEW s \in Seq(Stored), NEW t \in Seq(Stored), IsPrefix(s, t)
  PROVE  Len(s) <= Len(t) /\ \A i \in 1..Len(s) : s[i] = t[i]
<1>1. Len(s) <= Len(t) /\ SubSeq(s, 1, Len(s)) = SubSeq(t, 1, Len(s))
  BY DEF IsPrefix
<1>2. \A i \in 1..Len(s) : s[i] \in Stored /\ t[i] \in Stored
  BY <1>1, ElementOfSeq
<1>3. /\ \A i \in 1..Len(s) : SubSeq(s, 1, Len(s))[i] = s[i]
      /\ \A i \in 1..Len(s) : SubSeq(t, 1, Len(s))[i] = t[i]
  BY <1>1, <1>2, SubSeqProperties
<1> QED  BY <1>1, <1>3

(* What a write that was cut short leaves is a beginning.                  *)
LEMMA CutIsPrefix ==
  ASSUME NEW t \in Seq(Stored), NEW k \in 0..Len(t)
  PROVE  SubSeq(t, 1, k) \in Seq(Stored) /\ IsPrefix(SubSeq(t, 1, k), t)
<1>1. \A i \in 1..k : t[i] \in Stored
  BY ElementOfSeq
<1>2. /\ SubSeq(t, 1, k) \in Seq(Stored)
      /\ Len(SubSeq(t, 1, k)) = k
      /\ \A i \in 1..k : SubSeq(t, 1, k)[i] = t[i]
  BY <1>1, SubSeqProperties
<1> DEFINE c == SubSeq(t, 1, k)
<1>3. /\ c \in Seq(Stored) /\ Len(c) <= Len(t)
      /\ \A i \in 1..Len(c) : c[i] = t[i]
  BY <1>2
<1> HIDE DEF c
<1>4. IsPrefix(c, t)
  BY <1>3, PrefixIs
<1> QED  BY <1>3, <1>4 DEF c

(* A beginning stays one when a record is added.                           *)
LEMMA PrefixGrows ==
  ASSUME NEW s \in Seq(Stored), NEW t \in Seq(Stored), IsPrefix(s, t),
         NEW r \in Stored
  PROVE  IsPrefix(s, Append(t, r))
<1>1. Len(s) <= Len(t) /\ \A i \in 1..Len(s) : s[i] = t[i]
  BY PrefixHas
<1>2. /\ Append(t, r) \in Seq(Stored) /\ Len(Append(t, r)) = Len(t) + 1
      /\ \A i \in 1..Len(t) : Append(t, r)[i] = t[i]
  BY AppendProperties
<1> DEFINE a == Append(t, r)
<1>3. /\ a \in Seq(Stored) /\ Len(s) <= Len(a)
      /\ \A i \in 1..Len(s) : s[i] = a[i]
  BY <1>1, <1>2
<1> HIDE DEF a
<1>4. IsPrefix(s, a)
  BY <1>3, PrefixIs
<1> QED  BY <1>4 DEF a

(* A readable tape is its image, any other is empty.                       *)
LEMMA TapeType ==
  ASSUME image \in Images
  PROVE  /\ Tape \in Seq(Stored)
         /\ Readable => Tape = image /\ image \in Seq(Stored)
         /\ ~Readable => Tape = <<>>
  BY EmptySeq DEF Tape, Readable, Images

(* A spoilt image is what it was, rejected, or a beginning of the vector.  *)
LEMMA SpoiltFromIs ==
  ASSUME NEW request, NEW old \in Images, SpoilFrom(request, old),
         records' \in Seq(Stored)
  PROVE  /\ request \in use.errors /\ image' \in Images
         /\ \/ image' = old \/ image' = BadImage
            \/ image' \in Seq(Stored) /\ IsPrefix(image', records')
<1>1. \/ image' = old \/ image' = BadImage
      \/ \E k \in 0..Len(records') : image' = SubSeq(records', 1, k)
  BY DEF SpoilFrom
<1>2. \A k \in 0..Len(records') :
         /\ SubSeq(records', 1, k) \in Seq(Stored)
         /\ IsPrefix(SubSeq(records', 1, k), records')
  BY CutIsPrefix
<1> QED  BY <1>1, <1>2 DEF SpoilFrom, Images

(* The same of a request that writes the image once.                       *)
LEMMA SpoiltIs ==
  ASSUME NEW request, SpoilImage(request), records' \in Seq(Stored),
         image \in Images
  PROVE  /\ request \in use.errors /\ image' \in Images
         /\ \/ image' = image \/ image' = BadImage
            \/ image' \in Seq(Stored) /\ IsPrefix(image', records')
  BY SpoiltFromIs DEF SpoilImage

(* Every record and every advance may be stored.                           *)
LEMMA AdvanceIsStored ==
  ASSUME NEW n \in Skips
  PROVE  Advance(n) \in Stored
  BY DEF Advance, Stored

(* The line after an advance.                                              *)
LEMMA LineType ==
  ASSUME current_line \in Nat \ {0}, NEW n \in Skips
  PROVE  LineAfter(n) \in Nat \ {0}
  BY TapeFileAssumption DEF LineAfter, AtLeast1, PAGE

(* The two records of WRITE ADVANCING.                                     *)
LEMMA BothIs ==
  ASSUME NEW t \in Seq(Stored), NEW x \in Stored, NEW y \in Stored
  PROVE  t \o <<x, y>> = Append(Append(t, x), y)
<1> DEFINE u == Append(t, x)
           w == t \o <<x, y>>
<1>1. /\ u \in Seq(Stored) /\ Len(u) = Len(t) + 1
      /\ \A i \in 1..Len(t) : u[i] = t[i]
      /\ u[Len(t) + 1] = x
  BY AppendProperties
<1> HIDE DEF u
<1>2. /\ Append(u, y) \in Seq(Stored) /\ Len(Append(u, y)) = Len(u) + 1
      /\ \A i \in 1..Len(u) : Append(u, y)[i] = u[i]
      /\ Append(u, y)[Len(u) + 1] = y
  BY <1>1, AppendProperties
<1>p. <<x, y>> \in Seq(Stored) /\ Len(<<x, y>>) = 2
      /\ <<x, y>>[1] = x /\ <<x, y>>[2] = y
  OBVIOUS
<1>3. /\ w \in Seq(Stored) /\ Len(w) = Len(t) + 2
      /\ \A i \in 1..Len(w) :
           w[i] = IF i <= Len(t) THEN t[i] ELSE <<x, y>>[i - Len(t)]
  BY <1>p, ConcatProperties
<1> DEFINE a == Append(u, y)
<1> HIDE DEF w, a
<1>n. Len(t) \in Nat
  BY LenProperties
<1>4. a \in Seq(Stored) /\ Len(a) = Len(t) + 2
  BY <1>1, <1>2, <1>n DEF a
<1>5. ASSUME NEW i \in 1..Len(w) PROVE w[i] = a[i]
  <2>1. CASE i <= Len(t)
    BY <1>1, <1>2, <1>3, <1>n, <2>1 DEF a
  <2>2. CASE i = Len(t) + 1
    <3>1. w[i] = <<x, y>>[1]
      BY <1>3, <1>5, <1>n, <2>2
    <3>2. a[i] = x
      BY <1>1, <1>2, <1>n, <2>2 DEF a
    <3> QED  BY <1>p, <3>1, <3>2
  <2>3. CASE i = Len(t) + 2
    <3>1. w[i] = <<x, y>>[2]
      BY <1>3, <1>5, <1>n, <2>3
    <3>2. a[i] = y
      BY <1>1, <1>2, <1>n, <2>3 DEF a
    <3> QED  BY <1>p, <3>1, <3>2
  <2> QED  BY <1>3, <1>n, <2>1, <2>2, <2>3
<1>6. w = a
  BY <1>3, <1>4, <1>5, SeqEqual
<1> QED  BY <1>6 DEF w, a, u

-----------------------------------------------------------------------------
(* The parts of VectorIsTape: the types of what a request may change, and  *)
(* how image and vector belong together.                                   *)
Together(u, i, m, v) ==
  "open" \notin u.errors =>
    /\ m \in {"OUTPUT", "EXTEND"} =>
         i \in {NoImage, BadImage} \/ IsPrefix(i, v)
    /\ u.errors = {} /\ m # "CLOSED" =>
         v = IF i \in {NoImage, BadImage} THEN <<>> ELSE i

LEMMA Parts ==
  VectorIsTape <=> TypeOK /\ Together(use, image, open_mode, records)
  BY DEF VectorIsTape, Together, Tape, Readable

(* A vector and the image it has been written to.                          *)
LEMMA WrittenTogether ==
  ASSUME NEW u, NEW m, NEW v \in Seq(Stored)
  PROVE  Together(u, v, m, v)
<1>1. IsPrefix(v, v)
  BY PrefixIs
<1>2. v \notin {NoImage, BadImage}
  BY TapeFileAssumption
<1> QED  BY <1>1, <1>2 DEF Together

(* The tape and an EXTEND or INPUT that has read it.                       *)
LEMMA ReadTogether ==
  ASSUME NEW u, NEW m, image \in Images
  PROVE  Together(u, image, m, Tape)
<1>1. Readable => IsPrefix(image, Tape)
  BY TapeType, PrefixIs
<1> QED  BY <1>1 DEF Together, Tape, Readable

(* WRITE ADVANCING, whichever of its two writes fails.                     *)
LEMMA AdvancingStep ==
  ASSUME TypeOK, Together(use, image, open_mode, records),
         NEW r \in Record, NEW n \in Skips, NEW before \in BOOLEAN,
         WriteAdvancing(r, n, before), ~Refused
  PROVE  TypeOK' /\ Together(use', image', open_mode', records')
<1> DEFINE one == IF before THEN Advance(n) ELSE r
           two == IF before THEN r ELSE Advance(n)
           half == Append(records, one)
           whole == Append(half, two)
<1>1. one \in Stored /\ two \in Stored
  BY AdvanceIsStored DEF Stored
<1>2. /\ use \in Profiles /\ image \in Images /\ records \in Seq(Stored)
      /\ open_mode \in {"CLOSED", "INPUT", "OUTPUT", "EXTEND"}
      /\ current_line \in Nat \ {0} /\ start \in Nat
      /\ LineAfter(n) \in Nat \ {0}
  BY LineType DEF TypeOK, Images
<1>3. records \o <<one, two>> = whole
  BY <1>1, <1>2, BothIs
<1>4. /\ open_mode \in {"OUTPUT", "EXTEND"}
      /\ cursor' = Len(records') /\ UNCHANGED <<open_mode, start>>
      /\ \/ /\ records' = whole /\ image' = records' /\ Reply("ok", "00")
            /\ current_line' = LineAfter(n)
         \/ /\ records' = half
            /\ SpoilFrom("write", image) /\ Reply("error", "30")
            /\ UNCHANGED current_line
         \/ /\ records' = whole
            /\ SpoilFrom("write", half) /\ Reply("error", "30")
            /\ current_line' \in {LineAfter(n), current_line}
  BY <1>3 DEF WriteAdvancing, WriteImage, SpoilImage
<1> HIDE DEF one, two
<1>5. half \in Seq(Stored)
  BY <1>1, <1>2, AppendProperties
<1>6. whole \in Seq(Stored)
  BY <1>1, <1>5, AppendProperties
<1>7. IsPrefix(half, whole)
  <2> HIDE DEF half
  <2>1. IsPrefix(half, half)
    <3>1. Len(half) \in Nat
      BY <1>5, LenProperties
    <3> QED  BY <1>5, <3>1, PrefixIs
  <2> QED  BY <1>1, <1>5, <2>1, PrefixGrows
<1>8. ASSUME IsPrefix(image, records), image \in Seq(Stored)
      PROVE  IsPrefix(image, half)
  BY <1>1, <1>2, <1>8, PrefixGrows
<1> HIDE DEF half, whole
<1>9. records' \in Seq(Stored) /\ Len(records') \in Nat
  BY <1>4, <1>5, <1>6, LenProperties
<1>10. /\ use' = use /\ open_mode' = open_mode /\ cursor' \in Nat
       /\ current_line' \in Nat \ {0} /\ start' \in Nat
       /\ last_status' \in {"00", "30"} /\ outcome' \in {"ok", "error"}
       /\ got' = {}
  BY <1>2, <1>4, <1>9 DEF Reply
<1>11. CASE image' = records'
  <2>1. TypeOK'
    BY <1>2, <1>9, <1>10, <1>11 DEF TypeOK
  <2> QED  BY <1>9, <1>11, <2>1, WrittenTogether
<1>12. CASE records' = half /\ SpoilFrom("write", image)
  <2>1. /\ "write" \in use.errors /\ image' \in Images
        /\ \/ image' = image \/ image' = BadImage
           \/ image' \in Seq(Stored) /\ IsPrefix(image', records')
    BY <1>2, <1>9, <1>12, SpoiltFromIs
  <2>2. "open" \notin use.errors =>
          image' \in {NoImage, BadImage} \/ IsPrefix(image', records')
    BY <1>2, <1>4, <1>8, <1>12, <2>1 DEF Together, Images
  <2>3. TypeOK'
    BY <1>2, <1>9, <1>10, <2>1 DEF TypeOK, Images
  <2> QED  BY <1>10, <2>1, <2>2, <2>3 DEF Together
<1>13. CASE records' = whole /\ SpoilFrom("write", half)
  <2>0. half \in Images
    BY <1>5 DEF Images
  <2>1. /\ "write" \in use.errors /\ image' \in Images
        /\ \/ image' = half \/ image' = BadImage
           \/ image' \in Seq(Stored) /\ IsPrefix(image', records')
    BY <2>0, <1>9, <1>13, SpoiltFromIs
  <2>2. image' \in {NoImage, BadImage} \/ IsPrefix(image', records')
    BY <1>7, <1>13, <2>1
  <2>3. TypeOK'
    BY <1>2, <1>9, <1>10, <2>1 DEF TypeOK, Images
  <2> QED  BY <1>10, <2>1, <2>2, <2>3 DEF Together
<1> QED  BY <1>4, <1>11, <1>12, <1>13

(* Every request keeps VectorIsTape.                                       *)
LEMMA VectorStep == VectorIsTape /\ [Next]_vars => VectorIsTape'
<1> SUFFICES ASSUME VectorIsTape, [Next]_vars PROVE VectorIsTape'
  OBVIOUS
<1>1. TypeOK /\ Together(use, image, open_mode, records)
  BY Parts
<1>2. /\ use \in Profiles /\ image \in Images /\ records \in Seq(Stored)
      /\ open_mode \in {"CLOSED", "INPUT", "OUTPUT", "EXTEND"}
      /\ cursor \in Nat /\ current_line \in Nat \ {0} /\ start \in Nat
  BY <1>1 DEF TypeOK, Images
<1>3. <<>> \in Seq(Stored) /\ Len(<<>>) = 0 /\ Len(records) \in Nat
  BY <1>2, EmptySeq
<1>s. SUFFICES TypeOK' /\ Together(use', image', open_mode', records')
  BY DEF VectorIsTape, Together, Tape, Readable
<1> USE DEF Reply, FailsWithoutStatus, page
<1>4. CASE Open
  <2>f. records' \in Seq(Stored) =>
          current_line' \in Nat \ {0} /\ start' \in Nat
    BY <1>4, LenProperties DEF Open, FirstLine
  <2>1. CASE OpenIo
    BY <1>1, <2>f, <2>1 DEF OpenIo, TypeOK, Together
  <2>2. CASE OpenInput
    <3>1. CASE Readable
      <4>1. /\ records' = Tape /\ image' = image /\ open_mode' = "INPUT"
            /\ use' = use
        BY <2>2, <3>1, <1>2, TapeType DEF OpenInput
      <4>2. Together(use', image', open_mode', records')
        BY <1>2, <4>1, ReadTogether
      <4>3. TypeOK'
        BY <1>1, <1>2, <2>f, <2>2, <3>1, <4>1, TapeType DEF OpenInput, TypeOK
      <4> QED  BY <4>2, <4>3
    <3>2. CASE ~Readable
      BY <1>1, <2>f, <2>2, <3>2 DEF OpenInput, TypeOK, Together
    <3> QED  BY <3>1, <3>2
  <2>3. CASE OpenOutput
    <3>0. records' = <<>> /\ cursor' = 0 /\ use' = use
      BY <2>3 DEF OpenOutput
    <3>1. CASE image' = records' /\ open_mode' = "OUTPUT" /\ Reply("ok", "00")
      <4>1. TypeOK'
        BY <1>1, <1>3, <2>f, <3>0, <3>1 DEF TypeOK
      <4> QED  BY <1>3, <3>0, <3>1, <4>1, WrittenTogether
    <3>2. CASE SpoilImage("open") /\ FailsWithoutStatus
                 /\ UNCHANGED open_mode
      <4>1. "open" \in use.errors /\ image' \in Images
        BY <1>2, <1>3, <3>0, <3>2, SpoiltIs
      <4>2. TypeOK'
        BY <1>1, <1>3, <2>f, <3>0, <3>2, <4>1 DEF TypeOK, Images
      <4> QED  BY <3>0, <4>1, <4>2 DEF Together
    <3> QED  BY <2>3, <3>1, <3>2 DEF OpenOutput, WriteImage
  <2>4. CASE OpenExtend
    <3>1. CASE image # BadImage
      <4>1. /\ records' = Tape /\ image' = image /\ open_mode' = "EXTEND"
            /\ use' = use /\ cursor' = Len(records')
        BY <2>4, <3>1 DEF OpenExtend, ExtendFrom
      <4>2. Tape \in Seq(Stored) /\ Len(Tape) \in Nat
        BY <1>2, TapeType
      <4>3. TypeOK'
        BY <1>1, <2>f, <2>4, <3>1, <4>1, <4>2 DEF OpenExtend, TypeOK
      <4> QED  BY <1>2, <4>1, <4>3, ReadTogether
    <3>2. CASE image = BadImage
      BY <1>1, <2>f, <2>4, <3>2 DEF OpenExtend, TypeOK, Together
    <3> QED  BY <3>1, <3>2
  <2> QED  BY <1>4, <2>1, <2>2, <2>3, <2>4 DEF Open
<1>r. ASSUME Refused
      PROVE  TypeOK' /\ Together(use', image', open_mode', records')
  BY <1>1, <1>r DEF Refused, TypeOK
<1>5. ASSUME NEW n \in RecLens, Read(n)
      PROVE  TypeOK' /\ Together(use', image', open_mode', records')
  <2>1. CASE Refused
    BY <2>1, <1>r
  <2>2. CASE ~Refused
    BY <1>1, <1>5, <2>2 DEF Read, TypeOK
  <2> QED  BY <2>1, <2>2
<1>6. ASSUME NEW r \in Record, Write(r)
      PROVE  TypeOK' /\ Together(use', image', open_mode', records')
  <2>1. CASE Refused
    BY <2>1, <1>r
  <2>0. r \in Stored
    BY DEF Stored
  <2>2. CASE ~Refused
    <3>1. /\ records' = Append(records, r) /\ cursor' = Len(records')
          /\ open_mode' = open_mode /\ use' = use
          /\ UNCHANGED page
          /\ open_mode \in {"OUTPUT", "EXTEND"}
          /\ \/ image' = records' /\ Reply("ok", "00")
             \/ SpoilImage("write") /\ Reply("error", "30")
      BY <1>6, <2>2 DEF Write, WriteImage
    <3>2. records' \in Seq(Stored) /\ Len(records') \in Nat
      BY <1>2, <2>0, <3>1, AppendProperties
    <3>3. CASE image' = records' /\ Reply("ok", "00")
      <4>1. TypeOK'
        BY <1>1, <3>1, <3>2, <3>3 DEF TypeOK
      <4> QED  BY <3>2, <3>3, <4>1, WrittenTogether
    <3>4. CASE SpoilImage("write") /\ Reply("error", "30")
      <4>1. /\ "write" \in use.errors /\ image' \in Images
            /\ \/ image' = image \/ image' = BadImage
               \/ image' \in Seq(Stored) /\ IsPrefix(image', records')
        BY <1>2, <3>2, <3>4, SpoiltIs
      <4>2. "open" \notin use.errors =>
              image' \in {NoImage, BadImage} \/ IsPrefix(image', records')
        BY <1>1, <1>2, <2>0, <3>1, <4>1, PrefixGrows DEF Together, Images
      <4>3. TypeOK'
        BY <1>1, <3>1, <3>2, <3>4, <4>1 DEF TypeOK, Images
      <4> QED  BY <3>1, <4>1, <4>2, <4>3 DEF Together
    <3> QED  BY <3>1, <3>3, <3>4
  <2> QED  BY <2>1, <2>2
<1>w. ASSUME NEW r \in Record, NEW n \in Skips, NEW before \in BOOLEAN,
             WriteAdvancing(r, n, before)
      PROVE  TypeOK' /\ Together(use', image', open_mode', records')
  <2>1. CASE Refused
    BY <2>1, <1>r
  <2>2. CASE ~Refused
    BY <1>1, <1>2, <1>w, <2>2, AdvancingStep
  <2> QED  BY <2>1, <2>2
<1>7. CASE RewriteOrDelete
  BY <1>7, <1>r DEF RewriteOrDelete
<1>8. CASE Close \/ ResetLifecycle
  <2>1. /\ records' = records /\ use' = use /\ cursor' \in Nat
        /\ current_line' \in Nat \ {0} /\ start' \in Nat
    BY <1>2, <1>3, <1>8 DEF Close, ResetLifecycle, FirstLine
  <2>2. CASE image' = records' /\ open_mode' = "CLOSED"
    <3>1. TypeOK'
      BY <1>1, <1>2, <1>8, <2>1, <2>2 DEF TypeOK, Close, ResetLifecycle
    <3> QED  BY <1>2, <2>1, <2>2, <3>1, WrittenTogether
  <2>3. CASE SpoilImage("close") /\ FailsWithoutStatus /\ UNCHANGED open_mode
    <3>1. /\ "close" \in use.errors /\ image' \in Images
          /\ \/ image' = image \/ image' = BadImage
             \/ image' \in Seq(Stored) /\ IsPrefix(image', records')
      BY <1>2, <2>1, <2>3, SpoiltIs
    <3>2. TypeOK'
      BY <1>1, <1>8, <2>1, <2>3, <3>1 DEF TypeOK, Images
    <3> QED  BY <1>1, <2>1, <2>3, <3>1, <3>2 DEF Together
  <2> QED  BY <1>8, <2>2, <2>3 DEF Close, ResetLifecycle, WriteImage
<1>9. CASE UNCHANGED vars
  BY <1>1, <1>9 DEF vars, TypeOK
<1> QED  BY <1>4, <1>5, <1>6, <1>w, <1>7, <1>8, <1>9 DEF Next

(* A tape open for output is spoilt as a whole or a beginning of what was  *)
(* written, whichever writes of its image fail, and on a good host it is   *)
(* the vector.                                                             *)
THEOREM VectorIsAlwaysTape == Spec => []VectorIsTape
<1>1. Init => VectorIsTape
  <2> SUFFICES ASSUME Init PROVE VectorIsTape
    OBVIOUS
  <2>1. <<>> \in Seq(Stored)
    BY EmptySeq
  <2> QED  BY <2>1, TapeFileAssumption DEF Init, VectorIsTape, TypeOK
<1> QED  BY <1>1, VectorStep, PTL DEF Spec

-----------------------------------------------------------------------------
(* The tape of a tidy program on a good host is what the program has in    *)
(* its vector, as long as the file is open.                                *)
LEMMA OpenIsTape ==
  ASSUME VectorIsTape, use.errors = {}
  PROVE  open_mode # "CLOSED" => records = Tape
  BY DEF VectorIsTape

(* What a good host has written is read back as it is.                     *)
LEMMA WrittenIsTape ==
  ASSUME image' = records', records' \in Seq(Stored)
  PROVE  Tape' = records'
  BY TapeFileAssumption DEF Tape, Readable

(* A request that fails leaves a status other than success, but for an     *)
(* OPEN, CLOSE or reset that meets an error of the host or a bad image.    *)
THEOREM FailuresShow == Spec => []StatusTellsFailure
<1>1. Init => StatusTellsFailure
  BY DEF Init, StatusTellsFailure
<1>2. StatusTellsFailure /\ [Next]_vars => StatusTellsFailure'
  <2> SUFFICES ASSUME StatusTellsFailure, [Next]_vars
               PROVE  StatusTellsFailure'
    OBVIOUS
  <2> USE DEF Reply, FailsWithoutStatus, StatusTellsFailure
  <2>r. ASSUME Refused PROVE StatusTellsFailure'
    BY <2>r DEF Refused
  <2>1. CASE Open
    BY <2>1 DEF Open, OpenIo, OpenInput, OpenOutput, OpenExtend, SpoilImage,
                SpoilFrom
  <2>2. ASSUME NEW n \in RecLens, Read(n) PROVE StatusTellsFailure'
    BY <2>2, <2>r DEF Read
  <2>3. ASSUME NEW r \in Record, Write(r) PROVE StatusTellsFailure'
    BY <2>3, <2>r DEF Write
  <2>w. ASSUME NEW r \in Record, NEW n \in Skips, NEW before \in BOOLEAN,
               WriteAdvancing(r, n, before)
        PROVE  StatusTellsFailure'
    <3>1. CASE Refused
      BY <2>r, <3>1
    <3>2. CASE ~Refused
      <4>1. Reply("ok", "00") \/ Reply("error", "30")
        BY <2>w, <3>2 DEF WriteAdvancing
      <4> QED  BY <4>1
    <3> QED  BY <3>1, <3>2
  <2>4. CASE RewriteOrDelete
    BY <2>4, <2>r DEF RewriteOrDelete
  <2>5. CASE Close
    BY <2>5 DEF Close, SpoilImage, SpoilFrom
  <2>6. CASE ResetLifecycle
    BY <2>6 DEF ResetLifecycle, SpoilImage, SpoilFrom
  <2>7. CASE UNCHANGED vars
    BY <2>7 DEF vars
  <2> QED  BY <2>1, <2>2, <2>3, <2>w, <2>4, <2>5, <2>6, <2>7 DEF Next
<1> QED  BY <1>1, <1>2, PTL DEF Spec

(* Closing, or the reset of an INITIAL program, writes back what is on the *)
(* tape.                                                                   *)
LEMMA CloseKeeps ==
  ASSUME VectorIsTape, use.tidy, use.errors = {}, Close \/ ResetLifecycle
  PROVE  Tape' = Tape /\ open_mode' = "CLOSED" /\ got' = {} /\ use' = use
         /\ last_status' \in {"00", last_status}
<1>1. /\ records' = records /\ image' = records' /\ open_mode # "CLOSED"
      /\ open_mode' = "CLOSED" /\ got' = {} /\ use' = use
      /\ last_status' \in {"00", last_status}
  BY DEF Close, ResetLifecycle, SpoilImage, SpoilFrom, WriteImage, Reply
<1>2. records = Tape /\ records \in Seq(Stored)
  BY <1>1, OpenIsTape DEF VectorIsTape, TypeOK
<1> QED  BY <1>1, <1>2, WrittenIsTape

(* CLOSE and the reset of a program leave the records of a tape the        *)
(* program has opened as they are.                                         *)
THEOREM ClosingIsSafe == Spec => ClosingKeepsTape
<1>1. VectorIsTape /\ [Next]_vars =>
        [use.tidy /\ use.errors = {} /\ (Close \/ ResetLifecycle)
           => Tape' = Tape]_vars
  BY CloseKeeps
<1> QED  BY <1>1, VectorIsAlwaysTape, PTL DEF Spec, ClosingKeepsTape

-----------------------------------------------------------------------------
(* A request that is served or refused on a good tape is a request of the  *)
(* abstract file.                                                          *)
LEMMA StepRefines ==
  ASSUME VectorIsTape, [Next]_vars,
         use.tidy, use.errors = {}, image # BadImage
  PROVE  File!Next \/ UNCHANGED File!vars
<1> USE DEF File!NoRecord, File!OpenModes, File!ReadModes, File!WriteModes,
            File!Refusals, Reply
<1>1. /\ image \in Images /\ records \in Seq(Stored) /\ cursor \in Nat
      /\ open_mode # "CLOSED" => records = Tape
      /\ Readable <=> image # NoImage
  BY OpenIsTape DEF VectorIsTape, TypeOK, Images, Readable
<1>2. ASSUME image' = image PROVE Tape' = Tape
  BY <1>2 DEF Tape, Readable
<1>3. \A request, old : ~SpoilFrom(request, old) /\ ~SpoilImage(request)
  BY DEF SpoilImage, SpoilFrom
<1>r. ASSUME Refused PROVE File!Next
  <2>1. File!Refuse
    BY <1>r, <1>2 DEF Refused, File!Refuse
  <2> QED  BY <2>1 DEF File!Next
<1>4. CASE Open
  <2>1. CASE OpenIo
    <3>1. File!Refuse
      BY <2>1, <1>2 DEF OpenIo, File!Refuse
    <3> QED  BY <3>1 DEF File!Next
  <2>2. CASE OpenInput
    <3>1. CASE Readable
      <4>1. File!Open("INPUT")
        BY <2>2, <3>1, <1>2 DEF OpenInput, File!Open
      <4> QED  BY <4>1 DEF File!Next
    <3>2. CASE ~Readable
      <4>1. File!Refuse
        BY <2>2, <3>2, <1>2 DEF OpenInput, File!Refuse
      <4> QED  BY <4>1 DEF File!Next
    <3> QED  BY <3>1, <3>2
  <2>3. CASE OpenOutput
    <3>1. /\ records' = <<>> /\ image' = records' /\ open_mode' = "OUTPUT"
          /\ last_status' = "00" /\ got' = {}
      BY <2>3, <1>3 DEF OpenOutput, WriteImage
    <3>2. Tape' = <<>>
      BY <3>1 DEF Tape
    <3>3. File!Open("OUTPUT")
      BY <3>1, <3>2 DEF File!Open
    <3> QED  BY <3>3 DEF File!Next
  <2>4. CASE OpenExtend
    <3>1. File!Open("EXTEND")
      BY <2>4, <1>2 DEF OpenExtend, File!Open
    <3> QED  BY <3>1 DEF File!Next
  <2> QED  BY <1>4, <2>1, <2>2, <2>3, <2>4 DEF Open
<1>5. ASSUME NEW n \in RecLens, Read(n) PROVE File!Next
  <2>1. CASE Refused
    BY <2>1, <1>r
  <2>2. CASE ~Refused
    <3>1. open_mode = "INPUT" /\ open_mode' = "INPUT" /\ Tape' = Tape
          /\ records = Tape
      BY <1>1, <1>2, <1>5, <2>2 DEF Read
    <3>2. CASE cursor < Len(records)
      <4>1. /\ cursor' = cursor + 1 /\ got' # {} /\ last_status' = "00"
        <5>1. ~(cursor >= Len(records))
          BY <1>1, <3>2
        <5>2. /\ cursor' = cursor + 1 /\ last_status' = "00"
              /\ got' = {Normalize(records[cursor + 1], n)}
          BY <1>5, <2>2, <5>1 DEF Read
        <5> QED  BY <5>2
      <4>2. File!Read
        BY <1>1, <3>1, <3>2, <4>1 DEF File!Read
      <4> QED  BY <4>2 DEF File!Next
    <3>3. CASE ~(cursor < Len(records))
      <4>1. cursor' = cursor /\ got' = {} /\ last_status' = "10"
        BY <1>5, <2>2, <3>3 DEF Read
      <4>2. Len(records) \in Nat /\ cursor >= Len(records)
        BY <1>1, <3>3
      <4>3. File!ReadAtEnd
        BY <3>1, <4>1, <4>2 DEF File!ReadAtEnd
      <4> QED  BY <4>3 DEF File!Next
    <3> QED  BY <3>2, <3>3
  <2> QED  BY <2>1, <2>2
<1>6. ASSUME NEW r \in Record, Write(r) PROVE File!Next
  <2>1. CASE Refused
    BY <2>1, <1>r
  <2>0. r \in Stored
    BY DEF Stored
  <2>2. CASE ~Refused
    <3>1. /\ records' = Append(records, r) /\ image' = records'
          /\ open_mode \in {"OUTPUT", "EXTEND"} /\ open_mode' = open_mode
          /\ last_status' = "00" /\ got' = {}
      BY <1>6, <2>2, <1>3 DEF Write, WriteImage
    <3>2. records' \in Seq(Stored)
      BY <1>1, <2>0, <3>1, AppendProperties
    <3>3. Tape' = Append(Tape, r)
      BY <1>1, <3>1, <3>2, WrittenIsTape
    <3>4. File!Write(r)
      BY <3>1, <3>3 DEF File!Write
    <3> QED  BY <2>0, <3>4 DEF File!Next
  <2> QED  BY <2>1, <2>2
<1>w. ASSUME NEW r \in Record, NEW n \in Skips, NEW before \in BOOLEAN,
             WriteAdvancing(r, n, before)
      PROVE  File!Next
  <2>1. CASE Refused
    BY <2>1, <1>r
  <2>2. CASE ~Refused
    <3> DEFINE one == IF before THEN Advance(n) ELSE r
               two == IF before THEN r ELSE Advance(n)
    <3>0. one \in Stored /\ two \in Stored
      BY AdvanceIsStored DEF Stored
    <3>1. /\ records' = records \o <<one, two>> /\ image' = records'
          /\ open_mode \in {"OUTPUT", "EXTEND"} /\ open_mode' = open_mode
          /\ last_status' = "00" /\ got' = {}
      BY <1>w, <2>2, <1>3 DEF WriteAdvancing, WriteImage
    <3> HIDE DEF one, two
    <3>2. records' \in Seq(Stored)
      <4>1. <<one, two>> \in Seq(Stored)
        BY <3>0
      <4> QED  BY <1>1, <3>1, <4>1, ConcatProperties
    <3>3. Tape' = Tape \o <<one, two>>
      BY <1>1, <3>1, <3>2, WrittenIsTape
    <3>4. File!WriteBoth(one, two)
      BY <3>1, <3>3 DEF File!WriteBoth
    <3> QED  BY <3>0, <3>4 DEF File!Next
  <2> QED  BY <2>1, <2>2
<1>7. CASE RewriteOrDelete
  BY <1>7, <1>r DEF RewriteOrDelete
<1>8. CASE Close \/ ResetLifecycle
  <2>1. File!Close
    BY <1>8, CloseKeeps DEF File!Close
  <2> QED  BY <2>1 DEF File!Next
<1>9. CASE UNCHANGED vars
  BY <1>9, <1>2 DEF vars, File!vars
<1> QED  BY <1>4, <1>5, <1>6, <1>w, <1>7, <1>8, <1>9 DEF Next

(* What READ delivers is a record of the tape, fitted to the length.       *)
LEMMA ReadDelivers ==
  ASSUME VectorIsTape, use.errors = {}, NEW n \in RecLens, Read(n), got' # {}
  PROVE  \E r \in Stored : got' = {Normalize(r, n)} /\ r = Tape[cursor + 1]
<1>1. /\ open_mode = "INPUT" /\ cursor < Len(records)
      /\ got' = {Normalize(records[cursor + 1], n)}
  BY DEF Read, Refused, Reply
<1>2. records = Tape /\ records \in Seq(Stored) /\ cursor \in Nat
  BY <1>1, OpenIsTape DEF VectorIsTape, TypeOK
<1>3. cursor + 1 \in 1..Len(records)
  BY <1>1, <1>2
<1>4. records[cursor + 1] \in Stored
  BY <1>2, <1>3, ElementOfSeq
<1> QED  BY <1>1, <1>2, <1>4

(* On a good host the tape of a tidy program implements the abstract       *)
(* sequential file, for every set of records and all record lengths.       *)
THEOREM TapeFileRefines == Spec => RefinesSequentialFile
<1>1. VectorIsTape /\ [Next]_vars =>
        [/\ use.tidy /\ use.errors = {} /\ image # BadImage =>
               File!Next \/ UNCHANGED File!vars
         /\ \A n \in RecLens : Read(n) /\ got' # {} /\ use.errors = {} =>
               \E r \in Stored :
                 got' = {Normalize(r, n)} /\ r = Tape[cursor + 1]]_vars
  BY StepRefines, ReadDelivers
<1> QED  BY <1>1, VectorIsAlwaysTape, PTL DEF Spec, RefinesSequentialFile
-----------------------------------------------------------------------------
(* Pages.  Records of text: none of their bytes controls the printer.      *)
RecordsAreText ==
  /\ NewLine # FormFeed
  /\ \A r \in Record : \A i \in DOMAIN r : r[i] \notin {NewLine, FormFeed}

(* The line feeds of one more record, which is the last of n.              *)
NewLinesAt(r, n) == {<<n, j>> : j \in {k \in DOMAIN r : r[k] = NewLine}}

(* Nothing is printed at first.                                            *)
LEMMA NothingPrinted == LineFeedsAt(<<>>) = {}
  BY DEF LineFeedsAt

(* A form feed leaves all line feeds before it behind.                     *)
LEMMA FormFeedAt ==
  ASSUME NEW s \in Seq(Stored)
  PROVE  LineFeedsAt(Append(s, <<FormFeed>>)) = {}
<1> DEFINE a == Append(s, <<FormFeed>>)
<1>1. <<FormFeed>> \in Stored
  BY DEF Stored
<1>2. /\ DOMAIN a = 1..(Len(s) + 1) /\ Len(a) = Len(s) + 1
      /\ Len(s) \in Nat /\ a[Len(s) + 1] = <<FormFeed>>
  BY <1>1
<1> HIDE DEF a
<1>3. \A i \in DOMAIN a : Len(s) + 1 \in i..Len(a)
  BY <1>2
<1>4. {k \in DOMAIN a : \A l \in k..Len(a) : a[l] # <<FormFeed>>} = {}
  BY <1>2, <1>3
<1>5. LineFeedsAt(a) = {}
  BY <1>4 DEF LineFeedsAt
<1> QED  BY <1>5 DEF a

(* Any other record adds its own.                                          *)
LEMMA RecordAt ==
  ASSUME NEW s \in Seq(Stored), NEW r \in Stored, r # <<FormFeed>>
  PROVE  LineFeedsAt(Append(s, r))
           = LineFeedsAt(s) \cup NewLinesAt(r, Len(s) + 1)
<1> DEFINE a == Append(s, r)
           Behind(t) ==
             {k \in DOMAIN t : \A l \in k..Len(t) : t[l] # <<FormFeed>>}
           Of(t, i) ==
             {<<i, j>> : j \in {k \in DOMAIN t[i] : t[i][k] = NewLine}}
<1>1. /\ DOMAIN a = 1..(Len(s) + 1) /\ Len(a) = Len(s) + 1
      /\ DOMAIN s = 1..Len(s) /\ Len(s) \in Nat
      /\ a[Len(s) + 1] = r /\ \A i \in 1..Len(s) : a[i] = s[i]
  OBVIOUS
<1> HIDE DEF a
<1>2. Behind(a) = Behind(s) \cup {Len(s) + 1}
  <2>1. ASSUME NEW k \in Behind(a), k # Len(s) + 1 PROVE k \in Behind(s)
    <3>1. k \in DOMAIN s /\ \A l \in k..Len(s) : l \in k..Len(a) /\ a[l] = s[l]
      BY <1>1, <2>1
    <3> QED  BY <2>1, <3>1
  <2>2. ASSUME NEW k \in Behind(s) PROVE k \in Behind(a)
    <3>1. k \in DOMAIN a
      BY <1>1
    <3>2. ASSUME NEW l \in k..Len(a) PROVE a[l] # <<FormFeed>>
      <4>1. CASE l = Len(s) + 1
        BY <1>1, <4>1
      <4>2. CASE l # Len(s) + 1
        <5>1. l \in k..Len(s) /\ l \in 1..Len(s)
          BY <1>1, <4>2
        <5> QED  BY <1>1, <5>1
      <4> QED  BY <4>1, <4>2
    <3> QED  BY <3>1, <3>2
  <2>3. Len(s) + 1 \in Behind(a)
    <3>1. Len(s) + 1 \in DOMAIN a
      BY <1>1
    <3>2. \A l \in (Len(s) + 1)..Len(a) : l = Len(s) + 1
      BY <1>1
    <3> QED  BY <1>1, <3>1, <3>2
  <2> HIDE DEF Behind
  <2> QED  BY <2>1, <2>2, <2>3
<1>3. \A i \in Behind(s) : Of(a, i) = Of(s, i)
  <2>1. \A i \in Behind(s) : i \in 1..Len(s)
    BY <1>1
  <2> QED  BY <1>1, <2>1
<1>4. Of(a, Len(s) + 1) = NewLinesAt(r, Len(s) + 1)
  BY <1>1 DEF NewLinesAt
<1>5. /\ LineFeedsAt(a) = UNION {Of(a, i) : i \in Behind(a)}
      /\ LineFeedsAt(s) = UNION {Of(s, i) : i \in Behind(s)}
  BY DEF LineFeedsAt
<1> HIDE DEF Behind, Of
<1>6. LineFeedsAt(a) = LineFeedsAt(s) \cup NewLinesAt(r, Len(s) + 1)
  BY <1>2, <1>3, <1>4, <1>5
<1> QED  BY <1>6 DEF a

(* They are at the records of the sequence.                                *)
LEMMA LineFeedsInside ==
  ASSUME NEW s \in Seq(Stored), NEW p \in LineFeedsAt(s)
  PROVE  p[1] \in 1..Len(s)
<1>1. PICK i \in DOMAIN s : p \in {<<i, j>> :
          j \in {k \in DOMAIN s[i] : s[i][k] = NewLine}}
  BY DEF LineFeedsAt
<1>2. p[1] = i
  BY <1>1
<1> QED  BY <1>2

(* A record of text adds none.                                             *)
LEMMA TextKeepsLine ==
  ASSUME RecordsAreText, NEW s \in Seq(Stored), NEW r \in Record
  PROVE  LineFeedsAt(Append(s, r)) = LineFeedsAt(s)
<1>1. r \in Stored /\ r # <<FormFeed>>
  <2>1. DOMAIN <<FormFeed>> = {1} /\ <<FormFeed>>[1] = FormFeed
    OBVIOUS
  <2> QED  BY <2>1 DEF RecordsAreText, Stored
<1>2. NewLinesAt(r, Len(s) + 1) = {}
  BY DEF NewLinesAt, RecordsAreText
<1> QED  BY <1>1, <1>2, RecordAt

(* An advance by n lines adds n.                                           *)
LEMMA AdvanceAddsLines ==
  ASSUME RecordsAreText, NEW s \in Seq(Stored), NEW n \in Skips,
         IsFiniteSet(LineFeedsAt(s))
  PROVE  LET t == LineFeedsAt(Append(s, LineFeeds(n)))
         IN  IsFiniteSet(t)
             /\ Cardinality(t) = Cardinality(LineFeedsAt(s)) + AtLeast1(n)
<1> DEFINE r == LineFeeds(n)
           m == AtLeast1(n)
           l == Len(s) + 1
           old == LineFeedsAt(s)
           new == {l} \X (1..m)
<1>1. m \in Nat \ {0} /\ l \in Nat /\ l \notin 1..Len(s)
  BY TapeFileAssumption DEF AtLeast1, PAGE
<1>2. DOMAIN r = 1..m /\ \A k \in 1..m : r[k] = NewLine
  BY DEF LineFeeds
<1>3. r \in Stored /\ r # <<FormFeed>>
  <2>1. <<FormFeed>>[1] = FormFeed /\ 1 \in 1..m
    BY <1>1
  <2>2. r[1] = NewLine
    BY <1>2, <2>1
  <2> QED  BY <2>1, <2>2 DEF RecordsAreText, Stored
<1> HIDE DEF r, m, l
<1>4. NewLinesAt(r, l) = new
  <2>1. {k \in DOMAIN r : r[k] = NewLine} = 1..m
    BY <1>2
  <2> QED  BY <2>1 DEF NewLinesAt
<1>5. LineFeedsAt(Append(s, r)) = old \cup new
  BY <1>3, <1>4, RecordAt DEF l
<1>6. IsFiniteSet(new) /\ Cardinality(new) = m
  <2>1. IsFiniteSet({l}) /\ Cardinality({l}) = 1
    BY FS_Singleton
  <2>2. IsFiniteSet(1..m) /\ Cardinality(1..m) = m
    <3>1. 1 \in Int /\ m \in Int
      BY <1>1
    <3>2. /\ IsFiniteSet(1..m)
          /\ Cardinality(1..m) = IF 1 > m THEN 0 ELSE m - 1 + 1
      BY <3>1, FS_Interval
    <3> QED  BY <1>1, <3>2
  <2>3. IsFiniteSet(new) /\ Cardinality(new) = 1 * m
    BY <2>1, <2>2, FS_Product
  <2> QED  BY <1>1, <2>3
<1>7. old \cap new = {}
  <2>1. \A p \in new : p[1] = l
    OBVIOUS
  <2>2. \A p \in old : p[1] \in 1..Len(s)
    BY LineFeedsInside
  <2> QED  BY <1>1, <2>1, <2>2
<1> HIDE DEF new, old
<1>8. /\ IsFiniteSet(old \cup new)
      /\ Cardinality(old \cup new)
           = Cardinality(old) + Cardinality(new) - Cardinality(old \cap new)
  BY <1>6, FS_Union DEF old
<1>9. Cardinality(old \cap new) = 0 /\ Cardinality(old) \in Nat
  BY <1>7, FS_EmptySet, FS_CardinalityType DEF old
<1> QED  BY <1>1, <1>5, <1>6, <1>8, <1>9 DEF r, m, old

(* The printer is on this line after records s.                            *)
PrinterAt(s, line) == IsFiniteSet(LineFeedsAt(s)) /\ line = LineOf(s)

(* One advance, of lines or to a new page.                                 *)
LEMMA AdvancePrints ==
  ASSUME RecordsAreText, NEW s \in Seq(Stored), NEW n \in Skips,
         PrinterAt(s, current_line)
  PROVE  PrinterAt(Append(s, Advance(n)), LineAfter(n))
<1>1. CASE NeedsPage(n)
  <2>1. LineFeedsAt(Append(s, Advance(n))) = {}
    BY <1>1, FormFeedAt DEF Advance
  <2>2. LineAfter(n) = 1
    BY <1>1 DEF LineAfter
  <2> QED  BY <2>1, <2>2, FS_EmptySet DEF PrinterAt, LineOf
<1>2. CASE ~NeedsPage(n)
  <2> DEFINE t == LineFeedsAt(Append(s, LineFeeds(n)))
  <2>1. /\ IsFiniteSet(t)
        /\ Cardinality(t) = Cardinality(LineFeedsAt(s)) + AtLeast1(n)
    BY AdvanceAddsLines DEF PrinterAt
  <2>2. Cardinality(LineFeedsAt(s)) \in Nat /\ AtLeast1(n) \in Nat
    BY FS_CardinalityType, TapeFileAssumption DEF PrinterAt, AtLeast1, PAGE
  <2>3. /\ LineAfter(n) = current_line + AtLeast1(n)
        /\ Advance(n) = LineFeeds(n)
    BY <1>2 DEF LineAfter, Advance
  <2> HIDE DEF t
  <2>4. LineAfter(n) = 1 + Cardinality(t)
    BY <2>1, <2>2, <2>3 DEF PrinterAt, LineOf
  <2> QED  BY <2>1, <2>3, <2>4 DEF PrinterAt, LineOf, t
<1> QED  BY <1>1, <1>2

(* A record of text.                                                       *)
LEMMA TextPrints ==
  ASSUME RecordsAreText, NEW s \in Seq(Stored), NEW r \in Record, NEW line,
         PrinterAt(s, line)
  PROVE  PrinterAt(Append(s, r), line)
  BY TextKeepsLine DEF PrinterAt, LineOf

(* The records since the OPEN, when one more is written.                   *)
LEMMA SinceAppend ==
  ASSUME NEW s \in Seq(Stored), NEW n \in Nat, n <= Len(s), NEW r \in Stored
  PROVE  /\ SubSeq(s, n + 1, Len(s)) \in Seq(Stored)
         /\ SubSeq(Append(s, r), n + 1, Len(s) + 1)
              = Append(SubSeq(s, n + 1, Len(s)), r)
<1> DEFINE a == Append(s, r)
           u == SubSeq(s, n + 1, Len(s))
           v == SubSeq(a, n + 1, Len(s) + 1)
           l == Len(s)
<1>1. /\ a \in Seq(Stored) /\ Len(a) = l + 1 /\ l \in Nat
      /\ a[l + 1] = r /\ \A i \in 1..l : a[i] = s[i]
  BY AppendProperties, LenProperties
<1>2. \A i \in (n + 1)..l : s[i] \in Stored
  BY ElementOfSeq
<1>3. /\ u \in Seq(Stored) /\ Len(u) = l - n
      /\ \A i \in 1..(l - n) : u[i] = s[n + i]
  <2>1. /\ u \in Seq(Stored)
        /\ Len(u) = IF n + 1 <= l THEN l - (n + 1) + 1 ELSE 0
        /\ \A i \in 1..(l - (n + 1) + 1) : u[i] = s[(n + 1) + i - 1]
    BY <1>1, <1>2, SubSeqProperties
  <2> QED  BY <1>1, <2>1
<1> HIDE DEF a
<1>4. /\ v \in Seq(Stored) /\ Len(v) = l + 1 - n
      /\ \A i \in 1..(l + 1 - n) : v[i] = a[n + i]
  <2>1. \A i \in (n + 1)..(l + 1) : a[i] \in Stored
    BY <1>1, ElementOfSeq
  <2>2. /\ v \in Seq(Stored)
        /\ Len(v) = IF n + 1 <= l + 1 THEN (l + 1) - (n + 1) + 1 ELSE 0
        /\ \A i \in 1..((l + 1) - (n + 1) + 1) : v[i] = a[(n + 1) + i - 1]
    BY <1>1, <2>1, SubSeqProperties
  <2> QED  BY <1>1, <2>2
<1> HIDE DEF u, v
<1> DEFINE w == Append(u, r)
<1>5. /\ w \in Seq(Stored) /\ Len(w) = l - n + 1
      /\ w[l - n + 1] = r /\ \A i \in 1..(l - n) : w[i] = u[i]
  BY <1>3, AppendProperties
<1> HIDE DEF w, l
<1>6. ASSUME NEW i \in 1..Len(v) PROVE v[i] = w[i]
  <2>1. CASE i = l - n + 1
    <3>1. n + i = l + 1
      BY <1>1, <2>1
    <3> QED  BY <1>1, <1>4, <1>5, <1>6, <2>1, <3>1
  <2>2. CASE i # l - n + 1
    <3>1. i \in 1..(l - n) /\ n + i \in 1..l
      BY <1>1, <1>4, <2>2
    <3> QED  BY <1>1, <1>3, <1>4, <1>5, <3>1
  <2> QED  BY <2>1, <2>2
<1>7. v = w
  BY <1>1, <1>4, <1>5, <1>6, SeqEqual
<1> QED  BY <1>3, <1>7 DEF u, v, w, a, l

(* On a good host, in a file open for output, current_line is the line the *)
(* printer is on, counted from the OPEN, and within the page.              *)
Since == SubSeq(records, start + 1, Len(records))

Printed ==
  use.errors = {} /\ open_mode \in {"OUTPUT", "EXTEND"} =>
    /\ start <= Len(records)
    /\ PrinterAt(Since, current_line)
    /\ use.linage > 0 => current_line <= use.linage

(* After an OPEN, and in a file that has just been closed.                 *)
LEMMA FirstLinePrints ==
  ASSUME records' \in Seq(Stored), FirstLine, use \in Profiles, use' = use
  PROVE  Printed'
<1> DEFINE r == records'
<1>1. Len(r) \in Nat /\ start' = Len(r) /\ current_line' = 1
  BY LenProperties DEF FirstLine
<1> HIDE DEF r
<1>n. r \in Seq(Stored)
  BY DEF r
<1>2. Since' = <<>>
  <2> DEFINE l == Len(r)
  <2>1. \A i \in (l + 1)..l : r[i] \in Stored
    BY <1>1
  <2>2. /\ SubSeq(r, l + 1, l) \in Seq(Stored)
        /\ Len(SubSeq(r, l + 1, l)) = IF l + 1 <= l THEN l - (l + 1) + 1 ELSE 0
    BY <1>1, <1>n, <2>1, SubSeqProperties
  <2>3. SubSeq(r, l + 1, l) = <<>>
    BY <1>1, <2>2, EmptySeq
  <2> QED  BY <1>1, <2>3 DEF Since, r
<1>3. PrinterAt(Since', 1)
  <2>1. LineFeedsAt(Since') = {}
    BY <1>2, NothingPrinted
  <2> QED  BY <2>1, FS_EmptySet DEF PrinterAt, LineOf
<1>4. use.linage \in Nat
  BY TapeFileAssumption
<1> QED  BY <1>1, <1>3, <1>4 DEF Printed, r

(* Every request keeps Printed.                                            *)
LEMMA PrintedStep ==
  ASSUME RecordsAreText, TypeOK, Printed, [Next]_vars
  PROVE  Printed'
<1>1. /\ use \in Profiles /\ records \in Seq(Stored)
      /\ start \in Nat /\ current_line \in Nat \ {0}
      /\ image \in Images
  BY DEF TypeOK, Images
<1>2. use' = use
  BY DEF Next, Open, OpenIo, OpenInput, OpenOutput, OpenExtend, Read, Write,
         WriteAdvancing, RewriteOrDelete, Refused, Close, ResetLifecycle,
         Reply, FailsWithoutStatus, vars
<1>3. SUFFICES ASSUME use.errors = {}, open_mode' \in {"OUTPUT", "EXTEND"}
               PROVE  Printed'
  BY <1>2 DEF Printed
<1>4. \A request, old : ~SpoilFrom(request, old) /\ ~SpoilImage(request)
  BY <1>3 DEF SpoilFrom, SpoilImage
<1>5. ASSUME UNCHANGED <<records, open_mode, current_line, start>>
      PROVE  Printed'
  BY <1>2, <1>5 DEF Printed, Since
<1>6. CASE Open
  <2>1. records' \in {records, image, Tape, <<>>} /\ FirstLine
    BY <1>6 DEF Open, OpenIo, OpenInput, OpenOutput, OpenExtend, ExtendFrom
  <2>2. records' \in Seq(Stored)
    <3>1. CASE OpenInput
      BY <1>1, <1>6, <3>1, TapeType DEF OpenInput
    <3>2. CASE ~OpenInput
      BY <1>1, <1>6, <3>2, TapeType, EmptySeq
         DEF Open, OpenIo, OpenOutput, OpenExtend, ExtendFrom
    <3> QED  BY <3>1, <3>2
  <2> QED  BY <1>1, <1>2, <2>1, <2>2, FirstLinePrints
<1>r. ASSUME Refused PROVE Printed'
  BY <1>5, <1>r DEF Refused, page
<1>7. ASSUME NEW n \in RecLens, Read(n) PROVE Printed'
  <2>1. UNCHANGED <<records, open_mode, current_line, start>>
    BY <1>7 DEF Read, Refused, page
  <2> QED  BY <1>5, <2>1
<1>8. ASSUME NEW r \in Record, Write(r), ~Refused PROVE Printed'
  <2>1. /\ open_mode \in {"OUTPUT", "EXTEND"} /\ open_mode' = open_mode
        /\ records' = Append(records, r)
        /\ current_line' = current_line /\ start' = start
    BY <1>8 DEF Write, page
  <2>2. /\ start <= Len(records) /\ PrinterAt(Since, current_line)
        /\ use.linage > 0 => current_line <= use.linage
    BY <1>3, <2>1 DEF Printed
  <2>3. r \in Stored
    BY DEF Stored
  <2>4. /\ Since \in Seq(Stored)
        /\ SubSeq(Append(records, r), start + 1, Len(records) + 1)
             = Append(Since, r)
    BY <1>1, <2>2, <2>3, SinceAppend DEF Since
  <2>5. Len(records') = Len(records) + 1 /\ Len(records) \in Nat
    BY <1>1, <2>1, <2>3, AppendProperties, LenProperties
  <2>6. Since' = Append(Since, r)
    BY <2>1, <2>4, <2>5 DEF Since
  <2>7. PrinterAt(Since', current_line)
    BY <2>2, <2>4, <2>6, TextPrints
  <2>8. start' <= Len(records')
    BY <1>1, <2>1, <2>2, <2>5
  <2> QED  BY <1>2, <2>1, <2>2, <2>7, <2>8 DEF Printed
<1>9. ASSUME NEW r \in Record, NEW n \in Skips, NEW before \in BOOLEAN,
             WriteAdvancing(r, n, before), ~Refused
      PROVE  Printed'
  <2> DEFINE one == IF before THEN Advance(n) ELSE r
             two == IF before THEN r ELSE Advance(n)
             half == Append(records, one)
             whole == Append(half, two)
  <2>1. /\ open_mode \in {"OUTPUT", "EXTEND"} /\ open_mode' = open_mode
        /\ records' = records \o <<one, two>>
        /\ current_line' = LineAfter(n) /\ start' = start
    BY <1>4, <1>9 DEF WriteAdvancing
  <2>2. /\ start <= Len(records) /\ PrinterAt(Since, current_line)
        /\ use.linage > 0 => current_line <= use.linage
    BY <1>3, <2>1 DEF Printed
  <2>3. r \in Stored /\ Advance(n) \in Stored
    BY AdvanceIsStored DEF Stored
  <2>4. one \in Stored /\ two \in Stored
    BY <2>3
  <2>5. PrinterAt(Append(Append(Since, one), two), LineAfter(n))
    <3>0. Since \in Seq(Stored)
      BY <1>1, <2>2, <2>3, SinceAppend DEF Since
    <3>1. CASE before
      <4>1. PrinterAt(Append(Since, Advance(n)), LineAfter(n))
        BY <2>2, <3>0, AdvancePrints
      <4>2. Append(Since, Advance(n)) \in Seq(Stored)
        BY <2>3, <3>0, AppendProperties
      <4>3. PrinterAt(Append(Append(Since, Advance(n)), r), LineAfter(n))
        BY <4>1, <4>2, TextPrints
      <4> QED  BY <3>1, <4>3
    <3>2. CASE ~before
      <4>1. PrinterAt(Append(Since, r), current_line)
        BY <2>2, <3>0, TextPrints
      <4>2. Append(Since, r) \in Seq(Stored)
        BY <2>3, <3>0, AppendProperties
      <4>3. PrinterAt(Append(Append(Since, r), Advance(n)), LineAfter(n))
        BY <4>1, <4>2, AdvancePrints
      <4> QED  BY <3>2, <4>3
    <3> QED  BY <3>1, <3>2
  <2>6. records' = whole
    BY <1>1, <2>1, <2>4, BothIs
  <2> HIDE DEF one, two
  <2>7. /\ half \in Seq(Stored) /\ Len(half) = Len(records) + 1
        /\ Len(records) \in Nat
    BY <1>1, <2>4, AppendProperties, LenProperties
  <2>8. SubSeq(half, start + 1, Len(half)) = Append(Since, one)
    BY <1>1, <2>2, <2>4, <2>7, SinceAppend DEF Since
  <2> HIDE DEF half
  <2>9. /\ whole \in Seq(Stored) /\ Len(whole) = Len(half) + 1
    BY <2>4, <2>7, AppendProperties
  <2>10. start <= Len(half) /\ start <= Len(whole)
    BY <1>1, <2>2, <2>7, <2>9
  <2>11. SubSeq(whole, start + 1, Len(half) + 1)
           = Append(Append(Since, one), two)
    BY <1>1, <2>4, <2>7, <2>8, <2>10, SinceAppend
  <2>12. Since' = Append(Append(Since, one), two)
    BY <2>1, <2>6, <2>9, <2>11 DEF Since
  <2>13. use.linage > 0 => LineAfter(n) <= use.linage
    BY <1>1, TapeFileAssumption DEF LineAfter, NeedsPage, AtLeast1, PAGE
  <2> QED  BY <1>2, <2>1, <2>5, <2>6, <2>10, <2>12, <2>13 DEF Printed
<1>10. CASE RewriteOrDelete
  BY <1>10, <1>r DEF RewriteOrDelete
<1>11. CASE Close \/ ResetLifecycle
  BY <1>3, <1>4, <1>11 DEF Close, ResetLifecycle
<1>12. CASE UNCHANGED vars
  BY <1>5, <1>12 DEF vars, page
<1> QED  BY <1>6, <1>r, <1>7, <1>8, <1>9, <1>10, <1>11, <1>12 DEF Next

(* The count the program keeps is the line the printer is on, and no page  *)
(* is longer than LINAGE, for records of any text, in any order of WRITEs  *)
(* with and without ADVANCING, before and after.                           *)
THEOREM PagesAlwaysFit ==
  ASSUME RecordsAreText
  PROVE  Spec => []PagesFit
<1>1. Init => Printed
  BY DEF Init, Printed
<1>2. TypeOK /\ Printed /\ [Next]_vars => Printed'
  BY PrintedStep
<1>3. Printed => PagesFit
  BY DEF Printed, PagesFit, PrinterAt, Since
<1>4. VectorIsTape => TypeOK
  BY DEF VectorIsTape
<1> QED  BY <1>1, <1>2, <1>3, <1>4, VectorIsAlwaysTape, PTL DEF Spec

-----------------------------------------------------------------------------
(* MemoryFile, the backing in memory.  It has the records, the cursor and  *)
(* the mode of a tape; what a tape does not have is declared here.  The    *)
(* current record stays the one last read, and every step is a step of     *)
(* the abstract SequentialFile.                                            *)
(*                                                                         *)
(* CurrentIsInPlace is inductive together with the types: what keeps it is *)
(* that WRITE only appends, and that whatever replaces, removes or         *)
(* reorders records forgets the current one in the same step.              *)
VARIABLES last_record_index, last_record_len, current

Memory == INSTANCE MemoryFile

(* Removing one record of a sequence of records leaves a shorter sequence  *)
(* of records: what DELETE does to the vector (records.remove).            *)
LEMMA RemoveAtType ==
  ASSUME NEW S, NEW s \in Seq(S), NEW i \in 1..Len(s)
  PROVE  Memory!RemoveAt(s, i) \in Seq(S)
  BY DEF Memory!RemoveAt

(* MemoryFile starts with well-typed state and no current record.          *)
LEMMA MemoryInit == Memory!Init => Memory!CurrentIsInPlace
<1> SUFFICES ASSUME Memory!Init PROVE Memory!CurrentIsInPlace
  OBVIOUS
<1>1. PICK n \in 0..MaxRecords : records \in [1..n -> Record]
  BY DEF Memory!Init
<1>2. n \in Nat
  BY TapeFileAssumption
<1>3. records \in Seq(Record)
  BY <1>1, <1>2, SeqDef
<1> QED  BY <1>3
     DEF Memory!Init, Memory!TypeOK, Memory!CurrentIsInPlace, Memory!NoIndex,
         Memory!NoLen

(* The type invariant is inductive once the current record is known to be  *)
(* in the file: REWRITE and DELETE index the vector by it.                 *)
LEMMA MemoryTypeStep ==
  Memory!CurrentIsInPlace /\ [Memory!Next]_(Memory!vars) => Memory!TypeOK'
<1> SUFFICES ASSUME Memory!CurrentIsInPlace, [Memory!Next]_(Memory!vars)
             PROVE Memory!TypeOK'
  OBVIOUS
<1> USE DEF Memory!TypeOK, Memory!CurrentIsInPlace, Memory!NoIndex,
            Memory!NoLen, Memory!Refused, Memory!Forget
<1>1. CASE \E m \in {"INPUT", "OUTPUT", "IO", "EXTEND"} : Memory!Open(m)
  BY <1>1, EmptySeq DEF Memory!Open
<1>2. CASE Memory!Read
  <2>1. CASE Memory!ReadRefused
    BY <2>1 DEF Memory!ReadRefused
  <2>2. CASE Memory!ReadRecord
    <3>1. records[cursor + 1] \in Record
      BY <2>2, ElementOfSeq DEF Memory!ReadRecord
    <3>2. Len(records[cursor + 1]) \in Nat
      BY <3>1, TapeFileAssumption
    <3> QED  BY <2>2, <3>2 DEF Memory!ReadRecord
  <2>3. CASE Memory!ReadAtEnd
    BY <2>3 DEF Memory!ReadAtEnd
  <2> QED  BY <1>2, <2>1, <2>2, <2>3 DEF Memory!Read
<1>3. ASSUME NEW r \in Record, Memory!Write(r) PROVE Memory!TypeOK'
  <2>1. Append(records, r) \in Seq(Record)
    BY AppendProperties
  <2> QED  BY <1>3, <2>1 DEF Memory!Write
<1>4. ASSUME NEW r \in Record, Memory!Rewrite(r) PROVE Memory!TypeOK'
  BY <1>4, ExceptSeq DEF Memory!Rewrite, Memory!HasCurrent
<1>5. CASE Memory!Delete
  BY <1>5, RemoveAtType
       DEF Memory!Delete, Memory!CanDelete, Memory!HasCurrent,
           Memory!AfterDelete
<1>6. CASE Memory!Close
  BY <1>6 DEF Memory!Close
<1>7. CASE Memory!ResetLifecycle
  BY <1>7 DEF Memory!ResetLifecycle
<1>8. CASE UNCHANGED Memory!vars
  BY <1>8 DEF Memory!vars
<1> QED  BY <1>1, <1>2, <1>3, <1>4, <1>5, <1>6, <1>7, <1>8 DEF Memory!Next

(* No request separates the current record from the record last read.      *)
LEMMA MemoryCurrentStep ==
  Memory!CurrentIsInPlace /\ [Memory!Next]_(Memory!vars) =>
    Memory!CurrentIsInPlace'
<1> SUFFICES ASSUME Memory!CurrentIsInPlace, [Memory!Next]_(Memory!vars)
             PROVE  Memory!CurrentIsInPlace'
  OBVIOUS
<1>t. Memory!TypeOK'
  BY MemoryTypeStep
<1> USE <1>t DEF Memory!TypeOK, Memory!CurrentIsInPlace, Memory!NoIndex,
                 Memory!NoLen, Memory!Refused, Memory!Forget
<1>1. CASE \E m \in {"INPUT", "OUTPUT", "IO", "EXTEND"} : Memory!Open(m)
  BY <1>1 DEF Memory!Open
<1>2. CASE Memory!Read
  <2>1. CASE Memory!ReadRefused
    BY <2>1 DEF Memory!ReadRefused
  <2>2. CASE Memory!ReadRecord
    \* The record at the cursor becomes the current one.
    BY <2>2 DEF Memory!ReadRecord
  <2>3. CASE Memory!ReadAtEnd
    BY <2>3 DEF Memory!ReadAtEnd
  <2> QED  BY <1>2, <2>1, <2>2, <2>3 DEF Memory!Read
<1>3. ASSUME NEW r \in Record, Memory!Write(r) PROVE Memory!CurrentIsInPlace'
  \* Append leaves the records before the end where they are.
  BY <1>3, AppendProperties DEF Memory!Write
<1>4. ASSUME NEW r \in Record, Memory!Rewrite(r) PROVE Memory!CurrentIsInPlace'
  BY <1>4 DEF Memory!Rewrite
<1>5. CASE Memory!Delete
  BY <1>5 DEF Memory!Delete
<1>6. CASE Memory!Close
  BY <1>6 DEF Memory!Close
<1>7. CASE Memory!ResetLifecycle
  BY <1>7 DEF Memory!ResetLifecycle
<1>8. CASE UNCHANGED Memory!vars
  BY <1>8 DEF Memory!vars
<1> QED  BY <1>1, <1>2, <1>3, <1>4, <1>5, <1>6, <1>7, <1>8 DEF Memory!Next

(* In every reachable state the types are right, and the record a REWRITE  *)
(* replaces or a DELETE removes is the one the last successful READ        *)
(* delivered, still in its place.                                          *)
THEOREM MemoryCurrentIsInPlace == Memory!Spec => []Memory!CurrentIsInPlace
  BY MemoryInit, MemoryCurrentStep, PTL DEF Memory!Spec

(* The initial states map to initial states of the abstract file.          *)
LEMMA MemoryInitRefines == Memory!Init => Memory!File!Init
  BY DEF Memory!Init, Memory!File!Init, Memory!File!NoRecord, Memory!NoIndex

(* Every request on the in-memory file is a request on the abstract file,  *)
(* served or refused, or leaves the abstract file as it is.                *)
LEMMA MemoryStepRefines ==
  Memory!CurrentIsInPlace /\ [Memory!Next]_(Memory!vars) =>
    [Memory!File!Next]_(Memory!File!vars)
<1> SUFFICES ASSUME Memory!CurrentIsInPlace, [Memory!Next]_(Memory!vars)
             PROVE  Memory!File!Next \/ UNCHANGED Memory!File!vars
  OBVIOUS
<1> USE DEF Memory!TypeOK, Memory!CurrentIsInPlace, Memory!NoIndex,
            Memory!NoLen, Memory!Forget,
            Memory!File!NoRecord, Memory!File!OpenModes,
            Memory!File!ReadModes, Memory!File!WriteModes, Memory!File!Refusals
<1>r. ASSUME Memory!Refused PROVE Memory!File!Next
  <2>1. Memory!File!Refuse
    BY <1>r DEF Memory!Refused, Memory!File!Refuse
  <2> QED  BY <2>1 DEF Memory!File!Next
<1>1. ASSUME NEW m \in {"INPUT", "OUTPUT", "IO", "EXTEND"}, Memory!Open(m)
      PROVE  Memory!File!Next
  <2>1. Memory!File!Open(m)
    BY <1>1 DEF Memory!Open, Memory!File!Open
  <2> QED  BY <2>1 DEF Memory!File!Next
<1>2. CASE Memory!Read
  <2>1. CASE Memory!ReadRefused
    BY <2>1, <1>r DEF Memory!ReadRefused
  <2>2. CASE Memory!ReadRecord
    <3>1. Memory!File!Read
      BY <2>2 DEF Memory!ReadRecord, Memory!File!Read
    <3> QED  BY <3>1 DEF Memory!File!Next
  <2>3. CASE Memory!ReadAtEnd
    <3>1. Memory!File!ReadAtEnd
      BY <2>3 DEF Memory!ReadAtEnd, Memory!File!ReadAtEnd
    <3> QED  BY <3>1 DEF Memory!File!Next
  <2> QED  BY <1>2, <2>1, <2>2, <2>3 DEF Memory!Read
<1>3. ASSUME NEW r \in Record, Memory!Write(r) PROVE Memory!File!Next
  <2>1. CASE Memory!Refused
    BY <2>1, <1>r
  <2>2. CASE ~Memory!Refused
    <3>1. Memory!File!Write(r)
      BY <1>3, <2>2 DEF Memory!Write, Memory!File!Write
    <3> QED  BY <3>1 DEF Memory!File!Next
  <2> QED  BY <2>1, <2>2
<1>4. ASSUME NEW r \in Record, Memory!Rewrite(r) PROVE Memory!File!Next
  <2>1. CASE Memory!Refused
    BY <2>1, <1>r
  <2>2. CASE ~Memory!Refused
    <3>1. Memory!File!Rewrite(r)
      BY <1>4, <2>2 DEF Memory!Rewrite, Memory!HasCurrent, Memory!File!Rewrite
    <3> QED  BY <3>1 DEF Memory!File!Next
  <2> QED  BY <2>1, <2>2
<1>5. CASE Memory!Delete
  <2>1. CASE Memory!Refused
    BY <2>1, <1>r
  <2>2. CASE ~Memory!Refused
    <3>1. Memory!File!Delete
      BY <1>5, <2>2
           DEF Memory!Delete, Memory!CanDelete, Memory!HasCurrent,
               Memory!AfterDelete, Memory!File!Delete,
                        Memory!RemoveAt, Memory!File!RemoveAt
    <3> QED  BY <3>1 DEF Memory!File!Next
  <2> QED  BY <2>1, <2>2
<1>6. CASE Memory!Close
  <2>1. Memory!File!Close
    BY <1>6 DEF Memory!Close, Memory!File!Close
  <2> QED  BY <2>1 DEF Memory!File!Next
<1>7. CASE Memory!ResetLifecycle
  <2>1. Memory!File!Close
    BY <1>7 DEF Memory!ResetLifecycle, Memory!File!Close
  <2> QED  BY <2>1 DEF Memory!File!Next
<1>8. CASE UNCHANGED Memory!vars
  BY <1>8 DEF Memory!vars, Memory!File!vars
<1> QED  BY <1>1, <1>2, <1>3, <1>4, <1>5, <1>6, <1>7, <1>8 DEF Memory!Next

(* The in-memory file implements the abstract sequential file.             *)
THEOREM MemoryFileRefines == Memory!Spec => Memory!RefinesSequentialFile
<1>1. Memory!Spec => []Memory!CurrentIsInPlace
  BY MemoryCurrentIsInPlace
<1> QED  BY <1>1, MemoryInitRefines, MemoryStepRefines, PTL
         DEF Memory!Spec, Memory!RefinesSequentialFile, Memory!File!Spec
=============================================================================
