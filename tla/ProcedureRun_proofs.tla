------------------------- MODULE ProcedureRun_proofs -------------------------
(***************************************************************************)
(* What the analysis says of a text holds of every run of it: for texts of *)
(* any length, with any names and statements, and PERFORMs of any depth.   *)
(* The lemmas first say what the definitions of ProcedureText give for one *)
(* statement of one paragraph; a step of the run then follows from those.  *)
(***************************************************************************)
EXTENDS ProcedureRun, WellFoundedInduction, SequenceTheorems, TLAPS

(* A set of numbers that is not empty has a least one.                     *)
LEMMA Least ==
    ASSUME NEW S \in SUBSET Nat, S # {}
    PROVE  \E m \in S : \A k \in S : m <= k
  <1> DEFINE R == OpToRel(<, Nat)
  <1>1. IsWellFoundedOn(R, Nat)
    BY NatLessThanWellFounded
  <1>2. \A x, y \in Nat : x < y => <<x, y>> \in R
    BY DEF OpToRel
  <1> HIDE DEF R
  <1>3. PICK m \in S : \A k \in S : ~(<<k, m>> \in R)
    BY <1>1, WFMin
  <1>4. ASSUME NEW k \in S PROVE m <= k
    <2>1. ~(<<k, m>> \in R) /\ k \in Nat /\ m \in Nat
      BY <1>3
    <2>2. ~(k < m)
      BY <1>2, <2>1
    <2>3. QED
      BY <2>1, <2>2
  <1>5. QED
    BY <1>4

-----------------------------------------------------------------------------
(* What a text is made of.                                                 *)
LEMMA TextParts ==
    ASSUME NEW t \in Texts
    PROVE  /\ t \in Seq(Paragraph(Names)) /\ t # <<>>
           /\ DOMAIN t = 1..Len(t) /\ Len(t) \in Nat \ {0}
           /\ 1 \in DOMAIN t
           /\ \A i \in DOMAIN t :
                /\ t[i].body \in Seq(Statement(Names))
                /\ DOMAIN t[i].body = 1..Len(t[i].body)
                /\ Len(t[i].body) \in Nat
  <1>1. t \in Seq(Paragraph(Names)) /\ t # <<>>
    BY TextsAssumption
  <1>2. DOMAIN t = 1..Len(t) /\ Len(t) \in Nat \ {0}
    BY <1>1, EmptySeq
  <1>3. ASSUME NEW i \in DOMAIN t
        PROVE  t[i].body \in Seq(Statement(Names))
    <2>1. t[i] \in Paragraph(Names)
      BY <1>1, <1>2
    <2> DEFINE Bodies == Seq(Statement(Names))
    <2>2. t[i] \in [name : Names, body : Bodies]
      BY <2>1 DEF Paragraph
    <2> HIDE DEF Bodies
    <2>3. t[i].body \in Bodies
      BY <2>2
    <2>4. QED
      BY <2>3 DEF Bodies
  <1>4. \A i \in DOMAIN t : /\ DOMAIN t[i].body = 1..Len(t[i].body)
                            /\ Len(t[i].body) \in Nat
    <2> DEFINE S == Statement(Names)
    <2> HIDE DEF S
    <2>1. \A b \in Seq(S) : DOMAIN b = 1..Len(b) /\ Len(b) \in Nat
      OBVIOUS
    <2>2. QED
      BY <1>3, <2>1 DEF S
  <1>5. 1 \in DOMAIN t
    BY <1>2
  <1>6. QED
    BY <1>1, <1>2, <1>3, <1>4, <1>5

(* What a statement is made of.                                            *)
LEMMA StatementParts ==
    ASSUME NEW s \in Statement(Names)
    PROVE  /\ s.to \in Seq(Names) /\ s.nested \in BOOLEAN
           /\ DOMAIN s.to = 1..Len(s.to) /\ Len(s.to) \in Nat
           /\ s.op \in Operations
           /\ s.op = "perform" => Len(s.to) \in {1, 2}
           /\ s.op = "goto" => Len(s.to) \in {0, 1}
           /\ s.op = "alter" => Len(s.to) = 2
  <1>1. s \in [op : Operations, to : Seq(Names), nested : BOOLEAN]
    BY DEF Statement
  <1>2. QED
    BY <1>1 DEF Statement

(* A name is found exactly when some paragraph has it.                     *)
LEMMA FindNamed ==
    ASSUME NEW t \in Texts, NEW n
    PROVE  \/ Find(t, n) = 0 /\ Named(t, n) = {}
           \/ Find(t, n) \in DOMAIN t /\ t[Find(t, n)].name = n
  <1>1. Named(t, n) \in SUBSET Nat
    BY TextParts DEF Named
  <1>2. CASE Named(t, n) = {}
    BY <1>2 DEF Find
  <1>3. CASE Named(t, n) # {}
    <2>1. \E i \in Named(t, n) : \A j \in Named(t, n) : i <= j
      BY <1>1, <1>3, Least
    <2>2. Find(t, n) \in Named(t, n)
      BY <1>3, <2>1 DEF Find
    <2>3. QED
      BY <2>2 DEF Named
  <1>4. QED
    BY <1>2, <1>3

(* The numbers of paragraphs start at 1, so 0 is none of them.             *)
LEMMA ZeroIsNone ==
    ASSUME NEW t \in Texts PROVE 0 \notin DOMAIN t
  BY TextParts

(* Where the names are distinct a paragraph is found by its own.           *)
LEMMA FindOwn ==
    ASSUME NEW t \in Texts, NEW i \in DOMAIN t
    PROVE  /\ Find(t, t[i].name) \in DOMAIN t
           /\ DistinctNames(t) => Find(t, t[i].name) = i
  <1>1. i \in Named(t, t[i].name)
    BY DEF Named
  <1>2. /\ Find(t, t[i].name) \in DOMAIN t
        /\ t[Find(t, t[i].name)].name = t[i].name
    BY <1>1, FindNamed
  <1>3. QED
    BY <1>2 DEF DistinctNames

(* The transfer of a block is the first statement that ends it, or none.   *)
LEMMA TransferIs ==
    ASSUME NEW body \in Seq(Statement(Names))
    PROVE  \/ /\ Transfer(body) = FallsThrough
              /\ \A k \in DOMAIN body : ~EndsOps(body[k])
           \/ \E k \in DOMAIN body :
                /\ Transfer(body) = body[k] /\ EndsOps(body[k])
                /\ \A j \in 1..(k - 1) : ~EndsOps(body[j])
  <1> DEFINE S == {k \in DOMAIN body : EndsOps(body[k])}
  <1>1. DOMAIN body = 1..Len(body) /\ Len(body) \in Nat
    OBVIOUS
  <1>2. S \in SUBSET Nat
    BY <1>1
  <1>3. CASE S = {}
    BY <1>3 DEF Transfer
  <1>4. CASE S # {}
    <2>1. PICK m \in S : \A k \in S : m <= k
      BY <1>2, <1>4, Least
    <2>2. ASSUME NEW j \in 1..(m - 1) PROVE ~EndsOps(body[j])
      <3>1. m \in 1..Len(body) /\ j \in 1..Len(body) /\ ~(m <= j)
        BY <1>1, <2>1
      <3>2. j \notin S
        BY <2>1, <3>1
      <3>3. QED
        BY <1>1, <3>1, <3>2
    <2> DEFINE First(k) == /\ EndsOps(body[k])
                           /\ \A j \in 1..(k - 1) : ~EndsOps(body[j])
    <2>3. \E k \in DOMAIN body : First(k)
      BY <2>1, <2>2
    <2>4. Transfer(body) = body[CHOOSE k \in DOMAIN body : First(k)]
      BY <1>4 DEF Transfer
    <2> HIDE DEF First
    <2>5. PICK c : c \in DOMAIN body /\ First(c) /\ Transfer(body) = body[c]
      BY <2>3, <2>4
    <2>6. QED
      BY <2>5 DEF First
  <1>5. QED
    BY <1>3, <1>4

-----------------------------------------------------------------------------
(* The paragraphs the search reaches hold the first one,                   *)
LEMMA EntryReached ==
    ASSUME NEW t PROVE 1 \notin Unreachable(t)
  BY DEF Unreachable

(* and the successors of each of them.                                     *)
LEMMA ReachStep ==
    ASSUME NEW t, NEW i \in DOMAIN t, i \notin Unreachable(t),
           NEW j \in DOMAIN t, j \in Successors(t, i)
    PROVE  j \notin Unreachable(t)
  <1>1. ASSUME NEW S \in SUBSET DOMAIN t, 1 \in S, Closed(t, S)
        PROVE  j \in S
    <2>1. i \in S
      BY <1>1 DEF Unreachable
    <2>2. Successors(t, i) \subseteq S
      BY <1>1, <2>1 DEF Closed
    <2>3. QED
      BY <2>2
  <1>2. QED
    BY <1>1 DEF Unreachable

(* What a statement leads to that has no end of the block before it is a   *)
(* successor of its paragraph.                                             *)
LEMMA LedTo ==
    ASSUME NEW t, NEW i \in DOMAIN t, NEW k \in DOMAIN t[i].body,
           \A j \in 1..(k - 1) : ~EndsOps(t[i].body[j]),
           NEW x \in LeadsTo(t, t[i].body[k])
    PROVE  x \in Successors(t, i)
  <1>1. \A j \in 1..(k - 1) : ~IsTerminal(t, t[i].body[j])
    BY DEF IsTerminal, EndsOps
  <1>2. QED
    BY <1>1 DEF Successors

(* The next paragraph is a successor of one without a terminal statement.  *)
LEMMA FallsOn ==
    ASSUME NEW t, NEW i \in DOMAIN t, i + 1 \in DOMAIN t,
           \A k \in DOMAIN t[i].body : ~IsTerminal(t, t[i].body[k])
    PROVE  i + 1 \in Successors(t, i)
  <1> DEFINE body == t[i].body
             looked == {k \in DOMAIN body :
                          \A j \in 1..(k - 1) : ~IsTerminal(t, body[j])}
             led == UNION {LeadsTo(t, body[k]) : k \in looked}
             next == IF \E k \in DOMAIN body : IsTerminal(t, body[k])
                     THEN {} ELSE {i + 1} \cap DOMAIN t
  <1>1. Successors(t, i) = led \cup next
    BY DEF Successors
  <1>2. i + 1 \in next
    OBVIOUS
  <1> HIDE DEF led, next
  <1>3. QED
    BY <1>1, <1>2

(* A block that may run: it exists, and no warning says that it cannot.    *)
MayRun(t, w, i) == i \in DOMAIN t /\ (Analysed(t) => i \notin w)

(* A resolved name that a statement leads to is that of such a block.      *)
LEMMA LedToMayRun ==
    ASSUME NEW t \in Texts, NEW i, MayRun(t, Unreachable(t), i),
           NEW k \in DOMAIN t[i].body,
           \A j \in 1..(k - 1) : ~EndsOps(t[i].body[j]),
           NEW n, Find(t, n) # 0, Find(t, n) \in LeadsTo(t, t[i].body[k])
    PROVE  MayRun(t, Unreachable(t), Find(t, n))
  <1>1. Find(t, n) \in DOMAIN t
    BY FindNamed
  <1>2. Find(t, n) \in Successors(t, i)
    BY LedTo DEF MayRun
  <1>3. QED
    BY <1>1, <1>2, ReachStep DEF MayRun

(* Where the statements of an accepted text lead.                          *)
LEMMA TargetsMayRun ==
    ASSUME NEW t \in Texts, Accepted(t),
           NEW i, MayRun(t, Unreachable(t), i),
           NEW k \in DOMAIN t[i].body,
           \A j \in 1..(k - 1) : ~EndsOps(t[i].body[j])
    PROVE  LET s == t[i].body[k] IN
           /\ s.op \in {"goto", "depending"} =>
                \A m \in DOMAIN s.to :
                    MayRun(t, Unreachable(t), Find(t, s.to[m]))
           /\ s.op = "alter" => MayRun(t, Unreachable(t), Find(t, s.to[2]))
           /\ s.op = "perform" =>
                /\ MayRun(t, Unreachable(t), Find(t, s.to[1]))
                /\ Find(t, s.to[Len(s.to)]) \in DOMAIN t
  <1> DEFINE s == t[i].body[k]
             leads == LeadsTo(t, s)
  <1>1. i \in DOMAIN t
    BY DEF MayRun
  <1>2. s \in Statement(Names)
    <2> DEFINE S == Statement(Names)
    <2>1. t[i].body \in Seq(S)
      BY <1>1, TextParts
    <2> HIDE DEF S
    <2>2. t[i].body[k] \in S
      BY <2>1
    <2>3. QED
      BY <2>2 DEF S
  <1>3. /\ DOMAIN s.to = 1..Len(s.to) /\ Len(s.to) \in Nat
        /\ s.op = "perform" => Len(s.to) \in {1, 2}
        /\ s.op = "alter" => Len(s.to) = 2
    BY <1>2, StatementParts
  <1>4. ~Unresolved(t, s)
    BY <1>1 DEF Accepted, IsWrong
  <1>5. \A m \in DOMAIN s.to :
          Find(t, s.to[m]) # 0 /\ Find(t, s.to[m]) \in DOMAIN t
    BY <1>4, FindNamed DEF Unresolved
  <1>6. \A m \in DOMAIN s.to : Find(t, s.to[m]) \in leads =>
            MayRun(t, Unreachable(t), Find(t, s.to[m]))
    BY <1>5, LedToMayRun
  <1> HIDE DEF s
  <1>7. s.op \in {"goto", "depending"} =>
          \A m \in DOMAIN s.to : Find(t, s.to[m]) \in leads
    BY <1>5 DEF LeadsTo
  <1>8. s.op = "alter" => 2 \in DOMAIN s.to /\ Find(t, s.to[2]) \in leads
    <2>1. ASSUME s.op = "alter" PROVE 2 \in DOMAIN s.to
      <3>1. Len(s.to) = 2 /\ DOMAIN s.to = 1..2
        BY <1>3, <2>1
      <3>2. QED
        BY <3>1
    <2>2. QED
      BY <2>1, <1>5 DEF LeadsTo
  <1>9. s.op = "perform" => /\ 1 \in DOMAIN s.to /\ Len(s.to) \in DOMAIN s.to
                            /\ Find(t, s.to[1]) \in leads
    <2>1. s.op = "perform" => 1 \in DOMAIN s.to /\ Len(s.to) \in DOMAIN s.to
      BY <1>3
    <2>2. \A a, b \in DOMAIN t : a \in RangeOf(a, b)
      BY TextParts DEF RangeOf
    <2>3. QED
      BY <2>1, <2>2, <1>5 DEF LeadsTo
  <1>10. QED
    BY <1>5, <1>6, <1>7, <1>8, <1>9 DEF s

(* A block that has no end, or only a `GO TO .`, may go on to the next.    *)
LEMMA NextMayRun ==
    ASSUME NEW t \in Texts, NEW i, MayRun(t, Unreachable(t), i),
           i + 1 \in DOMAIN t,
           LET s == Transfer(t[i].body)
           IN  s.op \notin {"goback", "stop"} /\ (s.op = "goto" => s.to = <<>>)
    PROVE  MayRun(t, Unreachable(t), Find(t, t[i + 1].name))
  <1> DEFINE body == t[i].body
  <1>1. i \in DOMAIN t
    BY DEF MayRun
  <1>2. body \in Seq(Statement(Names)) /\ DOMAIN body = 1..Len(body)
    BY <1>1, TextParts
  <1>3. Find(t, t[i + 1].name) \in DOMAIN t
    BY FindOwn
  <1>4. ASSUME Analysed(t)
        PROVE  \A k \in DOMAIN body : ~IsTerminal(t, body[k])
    <2>1. CASE \A k \in DOMAIN body : ~EndsOps(body[k])
      BY <2>1 DEF IsTerminal, EndsOps
    <2>2. CASE \E k \in DOMAIN body :
                 /\ Transfer(body) = body[k] /\ EndsOps(body[k])
                 /\ \A j \in 1..(k - 1) : ~EndsOps(body[j])
      <3>1. PICK k \in DOMAIN body :
                 /\ Transfer(body) = body[k] /\ EndsOps(body[k])
                 /\ \A j \in 1..(k - 1) : ~EndsOps(body[j])
        BY <2>2
      <3>2. IsSlot(body[k])
        BY <3>1 DEF EndsOps, IsSlot
      <3>3. k = Len(body)
        BY <1>1, <1>4, <3>2 DEF Analysed, SlotsAreAlone
      <3>4. ~IsTerminal(t, body[k])
        BY <3>2 DEF IsSlot, IsTerminal
      <3>5. ASSUME NEW j \in DOMAIN body, j # k PROVE ~IsTerminal(t, body[j])
        <4>1. j \in 1..(k - 1)
          BY <1>1, <1>2, <3>3, <3>5, TextParts
        <4>2. QED
          BY <3>1, <4>1 DEF IsTerminal, EndsOps
      <3>6. QED
        BY <3>4, <3>5
    <2>3. QED
      BY <1>2, <2>1, <2>2, TransferIs
  <1>5. ASSUME Analysed(t) PROVE Find(t, t[i + 1].name) \notin Unreachable(t)
    <2>1. Find(t, t[i + 1].name) = i + 1
      BY <1>5, FindOwn DEF Analysed
    <2>2. i + 1 \in Successors(t, i)
      BY <1>1, <1>4, <1>5, FallsOn
    <2>3. QED
      BY <1>1, <1>5, <2>1, <2>2, ReachStep DEF MayRun
  <1>6. QED
    BY <1>3, <1>5 DEF MayRun

-----------------------------------------------------------------------------
(* A frame that is as it should be: it runs a block that may run, and in a *)
(* forward PERFORM THRU of distinct names, which the check has let pass,   *)
(* one of its blocks.                                                      *)
Inside(t, f) ==
    f.kind = "range" /\ DistinctNames(t) /\ f.from < f.thru =>
        f.from <= f.at /\ f.at <= f.thru /\ ~Escapes(t, f.from, f.thru)

GoodFrame(t, w, f) ==
    /\ f \in Frame
    /\ MayRun(t, w, f.at)
    /\ Inside(t, f)

Good(t, w, s) ==
    /\ s \in Seq(Frame) /\ s # <<>>
    /\ s[1].kind = "body"
    /\ \A k \in 1..Len(s) : GoodFrame(t, w, s[k])

(* Such a stack with one more frame,                                       *)
LEMMA GoodPush ==
    ASSUME NEW t, NEW w, NEW s, Good(t, w, s), NEW f, GoodFrame(t, w, f)
    PROVE  Good(t, w, Append(s, f))
  <1>1. s \in Seq(Frame) /\ f \in Frame /\ Len(s) \in Nat \ {0}
    BY EmptySeq DEF Good, GoodFrame
  <1>2. /\ Append(s, f) \in Seq(Frame)
        /\ Len(Append(s, f)) = Len(s) + 1
        /\ \A k \in 1..Len(s) : Append(s, f)[k] = s[k]
        /\ Append(s, f)[Len(s) + 1] = f
    BY <1>1
  <1>3. ASSUME NEW k \in 1..(Len(s) + 1)
        PROVE  GoodFrame(t, w, Append(s, f)[k])
    <2>1. CASE k \in 1..Len(s)
      BY <1>2, <2>1 DEF Good
    <2>2. CASE k = Len(s) + 1
      BY <1>2, <2>2
    <2>3. QED
      BY <2>1, <2>2, <1>1
  <1>4. Append(s, f) # <<>>
    BY <1>1, <1>2, EmptySeq
  <1>5. Append(s, f)[1].kind = "body"
    BY <1>1, <1>2 DEF Good
  <1>6. QED
    BY <1>2, <1>3, <1>4, <1>5 DEF Good

(* cut to its first n frames,                                              *)
LEMMA GoodCut ==
    ASSUME NEW t, NEW w, NEW s, Good(t, w, s), NEW n \in 1..Len(s)
    PROVE  /\ Good(t, w, SubSeq(s, 1, n)) /\ Len(SubSeq(s, 1, n)) = n
           /\ \A k \in 1..n : SubSeq(s, 1, n)[k] = s[k]
  <1>1. s \in Seq(Frame) /\ Len(s) \in Nat \ {0}
    BY EmptySeq DEF Good
  <1>2. /\ SubSeq(s, 1, n) \in Seq(Frame)
        /\ Len(SubSeq(s, 1, n)) = n
        /\ \A k \in 1..n : SubSeq(s, 1, n)[k] = s[k]
    <2>1. \A k \in 1..n : s[k] \in Frame
      BY <1>1
    <2>2. /\ SubSeq(s, 1, n) \in Seq(Frame)
          /\ Len(SubSeq(s, 1, n)) = IF 1 <= n THEN n - 1 + 1 ELSE 0
          /\ \A k \in 1..(n - 1 + 1) : SubSeq(s, 1, n)[k] = s[1 + k - 1]
      BY <1>1, <2>1, SubSeqProperties
    <2>3. QED
      BY <2>2, <1>1
  <1>3. SubSeq(s, 1, n) # <<>>
    BY <1>2, EmptySeq
  <1>4. QED
    BY <1>1, <1>2, <1>3 DEF Good

(* or with another innermost frame of the same kind.                       *)
LEMMA GoodReplace ==
    ASSUME NEW t, NEW w, NEW s, Good(t, w, s), NEW f, GoodFrame(t, w, f),
           f.kind = s[Len(s)].kind
    PROVE  Good(t, w, [s EXCEPT ![Len(s)] = f])
  <1>1. s \in Seq(Frame) /\ f \in Frame /\ Len(s) \in Nat \ {0}
    BY EmptySeq DEF Good, GoodFrame
  <1> DEFINE r == [s EXCEPT ![Len(s)] = f]
  <1>2. /\ r \in Seq(Frame) /\ Len(r) = Len(s)
        /\ \A k \in 1..(Len(s) - 1) : r[k] = s[k]
        /\ r[Len(s)] = f
    BY <1>1
  <1> HIDE DEF r
  <1>3. ASSUME NEW k \in 1..Len(s) PROVE GoodFrame(t, w, r[k])
    <2>1. CASE k \in 1..(Len(s) - 1)
      BY <1>2, <2>1 DEF Good
    <2>2. CASE k = Len(s)
      BY <1>2, <2>2
    <2>3. QED
      BY <1>1, <2>1, <2>2
  <1>4. r # <<>>
    BY <1>1, <1>2, EmptySeq
  <1>5. r[1].kind = "body"
    <2>1. CASE Len(s) = 1
      BY <1>2, <2>1 DEF Good
    <2>2. CASE Len(s) # 1
      BY <1>1, <1>2, <2>2 DEF Good
    <2>3. QED
      BY <2>1, <2>2
  <1>6. Good(t, w, r)
    BY <1>2, <1>3, <1>4, <1>5 DEF Good
  <1>7. QED
    BY <1>6 DEF r

(* The innermost frame.                                                    *)
LEMMA GoodTop ==
    ASSUME NEW t, NEW w, NEW s, Good(t, w, s)
    PROVE  /\ Len(s) \in Nat \ {0} /\ Len(s) \in 1..Len(s)
           /\ GoodFrame(t, w, s[Len(s)]) /\ s[Len(s)] \in Frame
  <1>1. s \in Seq(Frame) /\ Len(s) \in Nat \ {0}
    BY EmptySeq DEF Good
  <1>2. QED
    BY <1>1 DEF Good, GoodFrame

(* Going on with the next statement changes nothing of this,               *)
LEMMA GoodOnwards ==
    ASSUME NEW t, NEW w, NEW s, Good(t, w, s)
    PROVE  Good(t, w, Onwards(s)) /\ Len(Onwards(s)) = Len(s)
  <1> DEFINE e == s[Len(s)]
             f == [e EXCEPT !.pc = e.pc + 1]
  <1>1. e \in Frame /\ GoodFrame(t, w, e)
    BY GoodTop
  <1> HIDE DEF e
  <1>2. /\ f \in Frame /\ f.at = e.at /\ f.kind = e.kind
        /\ f.from = e.from /\ f.thru = e.thru
    BY <1>1 DEF Frame
  <1> HIDE DEF f
  <1>3. GoodFrame(t, w, f)
    BY <1>1, <1>2 DEF GoodFrame, Inside
  <1>4. Good(t, w, [s EXCEPT ![Len(s)] = f])
    BY <1>2, <1>3, GoodReplace DEF e
  <1>5. Onwards(s) = [s EXCEPT ![Len(s)] = f]
    BY DEF Onwards, f, e
  <1>6. Len([s EXCEPT ![Len(s)] = f]) = Len(s)
    BY <1>2 DEF Good
  <1>7. QED
    BY <1>4, <1>5, <1>6

(* and so does going on with another block that may run.                   *)
LEMMA GoodAtBlock ==
    ASSUME NEW t, NEW w, NEW s, Good(t, w, s), NEW i \in Nat, MayRun(t, w, i),
           Inside(t, [s[Len(s)] EXCEPT !.at = i])
    PROVE  Good(t, w, AtBlock(s, i)) /\ Len(AtBlock(s, i)) = Len(s)
  <1> DEFINE e == s[Len(s)]
             c == [e EXCEPT !.at = i]
             f == [e EXCEPT !.at = i, !.pc = 1]
  <1>1. e \in Frame /\ GoodFrame(t, w, e) /\ Inside(t, c)
    BY GoodTop
  <1> HIDE DEF e
  <1>2. /\ f \in Frame /\ f.at = i /\ f.kind = e.kind
        /\ f.from = e.from /\ f.thru = e.thru
        /\ c.at = i /\ c.kind = e.kind /\ c.from = e.from /\ c.thru = e.thru
    BY <1>1 DEF Frame
  <1> HIDE DEF f, c
  <1>3. GoodFrame(t, w, f)
    BY <1>1, <1>2 DEF GoodFrame, Inside
  <1>4. Good(t, w, [s EXCEPT ![Len(s)] = f])
    BY <1>2, <1>3, GoodReplace DEF e
  <1>5. AtBlock(s, i) = [s EXCEPT ![Len(s)] = f]
    BY DEF AtBlock, f, e
  <1>6. Len([s EXCEPT ![Len(s)] = f]) = Len(s)
    BY <1>2 DEF Good
  <1>7. QED
    BY <1>4, <1>5, <1>6

(* A GO TO has an innermost frame to end in: the procedure keeps any.      *)
LEMMA LandsAt ==
    ASSUME NEW t, NEW w, NEW s, Good(t, w, s), NEW i \in Nat
    PROVE  \E k \in 1..Len(s) :
             /\ Calls!Keeps(s[k], i)
             /\ \A j \in (k + 1)..Len(s) : ~Calls!Keeps(s[j], i)
             /\ Calls!Land(s, i) =
                  Append(SubSeq(s, 1, k - 1), [s[k] EXCEPT !.at = i])
  <1> DEFINE n == Len(s)
             Ok(k) == /\ Calls!Keeps(s[k], i)
                      /\ \A j \in (k + 1)..n : ~Calls!Keeps(s[j], i)
             S == {m \in Nat : m < n /\ Calls!Keeps(s[n - m], i)}
  <1>1. n \in Nat \ {0} /\ DOMAIN s = 1..n
    BY EmptySeq DEF Good
  <1>2. n - 1 \in S
    <2>1. Calls!Keeps(s[1], i)
      BY DEF Good, Calls!Keeps
    <2>2. n - (n - 1) = 1 /\ n - 1 \in Nat /\ n - 1 < n
      BY <1>1
    <2>3. QED
      BY <2>1, <2>2
  <1>3. S \in SUBSET Nat /\ S # {}
    BY <1>2
  <1>4. PICK m \in S : \A x \in S : m <= x
    BY <1>3, Least
  <1>5. n - m \in DOMAIN s /\ Ok(n - m)
    <2>1. n - m \in 1..n /\ Calls!Keeps(s[n - m], i)
      BY <1>1, <1>4
    <2>2. ASSUME NEW j \in (n - m + 1)..n, Calls!Keeps(s[j], i)
          PROVE  FALSE
      <3>1. n - j \in Nat /\ n - j < m /\ n - (n - j) = j /\ n - j < n
        BY <1>1, <1>4, <2>2
      <3>2. n - j \in S
        BY <3>1, <2>2
      <3>3. m <= n - j
        BY <1>4, <3>2
      <3>4. QED
        BY <3>1, <3>3, <1>4
    <2>3. QED
      BY <1>1, <2>1, <2>2
  <1> DEFINE c == CHOOSE k \in DOMAIN s : Ok(k)
  <1>6. Calls!Land(s, i) = Append(SubSeq(s, 1, c - 1), [s[c] EXCEPT !.at = i])
    BY DEF Calls!Land
  <1> HIDE DEF Ok
  <1>7. c \in DOMAIN s /\ Ok(c)
    BY <1>5
  <1> HIDE DEF c
  <1>8. QED
    BY <1>1, <1>6, <1>7 DEF Ok

(* The stack after a GO TO a block that may run is as it should be; a GO   *)
(* TO that the innermost frame keeps leaves none.                          *)
LEMMA GoodLand ==
    ASSUME NEW t, NEW w, NEW s, Good(t, w, s), NEW i \in Nat, MayRun(t, w, i)
    PROVE  /\ Good(t, w, AtBlock(Calls!Land(s, i), i))
           /\ Calls!Keeps(s[Len(s)], i) =>
                Len(AtBlock(Calls!Land(s, i), i)) = Len(s)
  <1>1. PICK k \in 1..Len(s) :
             /\ Calls!Keeps(s[k], i)
             /\ \A j \in (k + 1)..Len(s) : ~Calls!Keeps(s[j], i)
             /\ Calls!Land(s, i) =
                  Append(SubSeq(s, 1, k - 1), [s[k] EXCEPT !.at = i])
    BY LandsAt
  <1>2. s \in Seq(Frame) /\ Len(s) \in Nat \ {0} /\ k \in Nat \ {0}
    BY EmptySeq DEF Good
  <1> DEFINE c == SubSeq(s, 1, k)
             e == s[k]
             f == [e EXCEPT !.at = i]
             r == [c EXCEPT ![Len(c)] = f]
  <1>3. /\ Good(t, w, c) /\ Len(c) = k /\ c \in Seq(Frame)
        /\ \A j \in 1..k : c[j] = s[j]
    BY GoodCut DEF Good
  <1>4. e \in Frame /\ GoodFrame(t, w, e) /\ Calls!Keeps(e, i) /\ c[k] = e
    BY <1>1, <1>2, <1>3 DEF Good
  <1> HIDE DEF e
  <1>5. /\ f \in Frame /\ f.at = i /\ f.kind = e.kind
        /\ f.from = e.from /\ f.thru = e.thru
        /\ e.from \in Nat /\ e.thru \in Nat
    BY <1>4 DEF Frame
  <1>6. [f EXCEPT !.at = i] = f
    BY <1>4 DEF Frame
  <1> HIDE DEF f
  <1>7. Inside(t, f)
    BY <1>4, <1>5 DEF GoodFrame, Inside, Calls!Keeps, Calls!Between
  <1>8. GoodFrame(t, w, f)
    BY <1>5, <1>7 DEF GoodFrame
  <1> HIDE DEF c
  <1>9. Good(t, w, r) /\ Len(r) = k /\ r[k] = f
    <2>1. c[Len(c)] = e
      BY <1>3, <1>4
    <2>2. Good(t, w, r)
      BY <1>3, <1>5, <1>8, <2>1, GoodReplace
    <2>3. QED
      BY <1>2, <1>3, <1>5, <2>2
  <1>10. Calls!Land(s, i) = r
    <2>1. Calls!Land(s, i) = Append(SubSeq(s, 1, k - 1), f)
      BY <1>1 DEF e, f
    <2> DEFINE p == SubSeq(s, 1, k - 1)
    <2>2. /\ p \in Seq(Frame) /\ Len(p) = k - 1
          /\ \A j \in 1..(k - 1) : p[j] = s[j]
      <3>1. \A j \in 1..(k - 1) : s[j] \in Frame
        BY <1>2
      <3>2. k - 1 \in Nat /\ k - 1 <= Len(s)
        BY <1>2
      <3>3. /\ p \in Seq(Frame)
            /\ Len(p) = IF 1 <= k - 1 THEN k - 1 - 1 + 1 ELSE 0
            /\ \A j \in 1..(k - 1 - 1 + 1) : p[j] = s[1 + j - 1]
        BY <1>2, <3>1, <3>2, SubSeqProperties
      <3>4. QED
        BY <3>2, <3>3
    <2> HIDE DEF p
    <2>3. Append(p, f) \in Seq(Frame) /\ Len(Append(p, f)) = k
      BY <1>2, <1>5, <2>2
    <2>4. \A j \in 1..k : Append(p, f)[j] = IF j = k THEN f ELSE s[j]
      BY <1>2, <1>5, <2>2
    <2>5. r \in Seq(Frame) /\ Len(r) = k
      BY <1>9 DEF Good
    <2>6. \A j \in 1..k : r[j] = IF j = k THEN f ELSE s[j]
      BY <1>2, <1>3, <1>5
    <2> HIDE DEF r
    <2>7. Append(p, f) = r
      BY <2>3, <2>4, <2>5, <2>6, SeqEqual
    <2>8. QED
      BY <2>1, <2>7 DEF p
  <1> HIDE DEF r
  <1>11. /\ Good(t, w, AtBlock(r, i)) /\ Len(AtBlock(r, i)) = k
    BY <1>6, <1>7, <1>9, GoodAtBlock
  <1>12. Calls!Keeps(s[Len(s)], i) => k = Len(s)
    <2>1. CASE k = Len(s)
      BY <2>1
    <2>2. CASE k # Len(s)
      <3>1. Len(s) \in (k + 1)..Len(s)
        BY <1>2, <2>2
      <3>2. QED
        BY <1>1, <3>1
    <2>3. QED
      BY <2>1, <2>2
  <1>13. QED
    BY <1>10, <1>11, <1>12

-----------------------------------------------------------------------------
(* The statement that runs is one of its block, with no end of the block   *)
(* before it, or the block has no end and its transfer is to the next one. *)
LEMMA CurrentIs ==
    ASSUME text \in Texts, phase = "running", Good(text, warned, stack)
    PROVE  /\ Top \in Frame /\ GoodFrame(text, warned, Top)
           /\ Top.at \in DOMAIN text /\ MayRun(text, warned, Top.at)
           /\ Inside(text, Top)
           /\ \/ Current = FallsThrough
              \/ \E k \in DOMAIN Statements :
                   /\ Current = Statements[k]
                   /\ \A j \in 1..(k - 1) : ~EndsOps(Statements[j])
           /\ Current = FallsThrough \/ (EndsOps(Current) <=> ~InOps)
           /\ ~InOps => Current = Transfer(Statements)
  <1>1. Top \in Frame /\ GoodFrame(text, warned, Top)
    BY GoodTop DEF Top, Depth
  <1>2. /\ Top.at \in DOMAIN text /\ MayRun(text, warned, Top.at)
        /\ Inside(text, Top)
    BY <1>1 DEF GoodFrame, MayRun
  <1>3. Statements \in Seq(Statement(Names)) /\ DOMAIN Statements \subseteq Nat
    BY <1>2, TextParts DEF Statements
  <1>4. CASE InOps
    <2>1. /\ Top.pc \in DOMAIN Statements /\ Current = Statements[Top.pc]
          /\ \A j \in 1..Top.pc : ~EndsOps(Statements[j])
      BY <1>4 DEF InOps, Current, IsOp
    <2>2. Top.pc \in Nat /\ Top.pc # 0
      BY <1>2, <2>1, TextParts DEF Statements
    <2>3. /\ \A j \in 1..(Top.pc - 1) : ~EndsOps(Statements[j])
          /\ ~EndsOps(Current)
      BY <2>1, <2>2
    <2>4. QED
      BY <1>1, <1>2, <1>4, <2>1, <2>3
  <1>5. CASE ~InOps
    <2>1. Current = Transfer(Statements)
      BY <1>5 DEF Current
    <2> HIDE DEF Current, Statements
    <2>2. \/ Current = FallsThrough
          \/ \E k \in DOMAIN Statements :
               /\ Current = Statements[k] /\ EndsOps(Current)
               /\ \A j \in 1..(k - 1) : ~EndsOps(Statements[j])
      BY <1>3, <2>1, TransferIs
    <2>3. QED
      BY <1>1, <1>2, <1>5, <2>1, <2>2
  <1>6. QED
    BY <1>4, <1>5

(* A GO TO that is no slot's, in a forward PERFORM THRU: the check has     *)
(* seen it, and its targets are inside.                                    *)
LEMMA SeenByCheck ==
    ASSUME text \in Texts, phase = "running", Good(text, warned, stack),
           DistinctNames(text), Top.kind = "range", Top.from < Top.thru,
           Current.op \in {"goto", "depending"}, ~Current.nested
    PROVE  /\ Current.to # <<>>
           /\ \A m \in DOMAIN Current.to :
                Find(text, Current.to[m]) \in Top.from..Top.thru
  <1>1. /\ Top \in Frame /\ Inside(text, Top)
        /\ \/ Current = FallsThrough
           \/ \E k \in DOMAIN Statements : Current = Statements[k]
    BY CurrentIs
  <1>2. PICK k \in DOMAIN Statements : Current = Statements[k]
    BY <1>1 DEF FallsThrough
  <1>3. /\ Top.from \in Nat /\ Top.thru \in Nat /\ Top.at \in Nat
        /\ Top.from <= Top.at /\ Top.at <= Top.thru
        /\ ~Escapes(text, Top.from, Top.thru)
    BY <1>1 DEF Frame, Inside
  <1>4. Top.at \in Top.from..Top.thru
    BY <1>3
  <1>5. QED
    BY <1>2, <1>3, <1>4 DEF Escapes, Statements

-----------------------------------------------------------------------------
(* What holds while the program runs: its text was accepted, the warnings  *)
(* are those of the analysis, every frame is as it should be, and what is  *)
(* altered leads to blocks that may run.                                   *)
Running ==
    /\ Accepted(text)
    /\ warned = Unreachable(text)
    /\ Good(text, warned, stack)
    /\ \A n \in DOMAIN alter : MayRun(text, warned, Find(text, alter[n]))

Inv ==
    /\ text \in Texts
    /\ phase \in Phases /\ warned \subseteq DOMAIN text
    /\ phase = "source" => DOMAIN alter = {}
    /\ IF phase = "running" THEN Running ELSE stack = <<>>
    /\ AcceptedRuns

(* A step that only gives the program another stack keeps it,              *)
LEMMA RunKeeps ==
    ASSUME Inv, phase = "running", NEW s, Good(text, warned, s), Run(s)
    PROVE  Inv'
  <1>1. Running /\ text \in Texts
    BY DEF Inv
  <1>2. /\ text' = text /\ phase' = phase /\ warned' = warned
        /\ alter' = alter /\ stack' = s
    BY DEF Run
  <1>3. Running'
    BY <1>1, <1>2 DEF Running
  <1>4. AcceptedRuns'
    BY <1>2 DEF AcceptedRuns
  <1>5. QED
    BY <1>1, <1>2, <1>3, <1>4 DEF Inv

(* and so does one that ends it, when a failure has one of its two causes. *)
LEMMA EndKeeps ==
    ASSUME Inv, NEW how \in {"ended", "failed"}, End(how),
           how = "failed" => Has(text, IsDynamic) \/ Has(text, IsNestedSlot)
    PROVE  Inv'
  <1>1. /\ text' = text /\ phase' = how /\ stack' = <<>> /\ warned' = warned
        /\ phase' \in {"ended", "failed"}
    BY DEF End
  <1>2. AcceptedRuns'
    BY <1>1 DEF AcceptedRuns
  <1>3. QED
    BY <1>1, <1>2 DEF Inv, Phases

(* A GO TO a block that may run keeps it.                                  *)
LEMMA GoKeeps ==
    ASSUME Inv, phase = "running", NEW i, MayRun(text, warned, i),
           IF i = 0 THEN End("failed")
           ELSE Run(AtBlock(Calls!Land(stack, i), i))
    PROVE  Inv'
  <1>1. Good(text, warned, stack) /\ text \in Texts
    BY DEF Inv, Running
  <1>2. i \in Nat /\ i # 0
    BY <1>1, TextParts DEF MayRun
  <1>3. Good(text, warned, AtBlock(Calls!Land(stack, i), i))
    BY <1>1, <1>2, GoodLand
  <1>4. QED
    BY <1>2, <1>3, RunKeeps

-----------------------------------------------------------------------------
(* The steps, one lemma each for those that need more than the above.      *)
LEMMA CompileKeeps == ASSUME Inv, Compile PROVE Inv'
  <1>1. text \in Texts /\ DOMAIN alter = {} /\ phase = "source"
    BY DEF Inv, Compile
  <1>2. CASE ~Accepted(text)
    <2>1. /\ text' = text /\ phase' = "rejected" /\ stack' = stack
          /\ warned' = warned
      BY <1>2 DEF Compile
    <2>2. stack = <<>>
      BY <1>1 DEF Inv
    <2>3. QED
      BY <1>1, <2>1, <2>2 DEF Inv, AcceptedRuns, Phases
  <1>3. CASE Accepted(text)
    <2>1. /\ text' = text /\ phase' = "running" /\ alter' = alter
          /\ warned' = Unreachable(text) /\ stack' = <<Body>>
      BY <1>3 DEF Compile
    <2>2. MayRun(text, Unreachable(text), 1)
      BY <1>1, EntryReached, TextParts DEF MayRun
    <2> DEFINE b == Body
    <2>3. b \in Frame /\ b.kind = "body" /\ b.at = 1
      BY DEF Body, Frame
    <2>4. GoodFrame(text, Unreachable(text), b)
      BY <2>2, <2>3 DEF GoodFrame, Inside
    <2> HIDE DEF b
    <2>5. Good(text, Unreachable(text), <<b>>)
      <3>1. <<b>> \in Seq(Frame) /\ Len(<<b>>) = 1 /\ <<b>>[1] = b
        BY <2>3
      <3>2. \A k \in 1..Len(<<b>>) : <<b>>[k] = b
        BY <3>1
      <3>3. <<b>> # <<>>
        BY <3>1, EmptySeq
      <3>4. QED
        BY <2>3, <2>4, <3>1, <3>2, <3>3 DEF Good
    <2>6. Running'
      BY <1>1, <1>3, <2>1, <2>5 DEF Running, b
    <2>7. Unreachable(text) \subseteq DOMAIN text
      BY DEF Unreachable
    <2>8. QED
      BY <1>1, <2>1, <2>6, <2>7 DEF Inv, AcceptedRuns, Phases
  <1>4. QED
    BY <1>2, <1>3

LEMMA PerformKeeps == ASSUME Inv, Perform PROVE Inv'
  <1> DEFINE i == Find(text, Current.to[1])
             j == Find(text, Current.to[Len(Current.to)])
  <1>1. /\ phase = "running" /\ Running /\ text \in Texts
        /\ Good(text, warned, stack) /\ warned = Unreachable(text)
    BY DEF Inv, Running, Perform, InOps
  <1>2. PICK k \in DOMAIN Statements :
          /\ Current = Statements[k] /\ Current.op = "perform"
          /\ \A m \in 1..(k - 1) : ~EndsOps(Statements[m])
    BY <1>1, CurrentIs DEF Perform, FallsThrough
  <1>3. Top.at \in DOMAIN text /\ MayRun(text, warned, Top.at)
    BY <1>1, CurrentIs
  <1>4. MayRun(text, warned, i) /\ j \in DOMAIN text
    BY <1>1, <1>2, <1>3, TargetsMayRun DEF Running, Statements
  <1>5. i \in Nat /\ j \in Nat /\ i # 0
    BY <1>1, <1>4, TextParts DEF MayRun
  <1>6. ~BadThru(text, Current)
    BY <1>1, <1>2, <1>3 DEF Running, Accepted, IsWrong, Statements
  <1>7. Len(Current.to) \in {1, 2}
    <2> DEFINE S == Statement(Names)
    <2>1. Statements \in Seq(S)
      BY <1>1, <1>3, TextParts DEF Statements
    <2> HIDE DEF S
    <2>2. Statements[k] \in S
      BY <2>1
    <2>3. QED
      BY <1>2, <2>2, StatementParts DEF S
  <1>8. i < j => ~Escapes(text, i, j)
    <2>1. CASE Len(Current.to) = 1
      BY <1>5, <2>1
    <2>2. CASE Len(Current.to) = 2
      BY <1>2, <1>6, <2>2 DEF BadThru
    <2>3. QED
      BY <1>7, <2>1, <2>2
  <1>9. Run(Append(Onwards(stack), Performing(i, j)))
    BY <1>5 DEF Perform
  <1> DEFINE f == Performing(i, j)
  <1> HIDE DEF i, j
  <1>10. /\ f \in Frame /\ f.at = i /\ f.from = i /\ f.thru = j
    BY <1>5 DEF Performing, Frame
  <1>11. GoodFrame(text, warned, f)
    BY <1>4, <1>5, <1>8, <1>10 DEF GoodFrame, Inside
  <1> HIDE DEF f
  <1>12. Good(text, warned, Append(Onwards(stack), f))
    BY <1>1, <1>11, GoodOnwards, GoodPush
  <1>13. QED
    BY <1>1, <1>9, <1>12, RunKeeps DEF f

LEMMA DynamicKeeps == ASSUME Inv, DynamicPerform PROVE Inv'
  <1>1. /\ phase = "running" /\ Running /\ text \in Texts
        /\ Good(text, warned, stack)
    BY DEF Inv, Running, DynamicPerform, InOps
  <1>2. Has(text, IsDynamic)
    BY <1>1, CurrentIs
       DEF DynamicPerform, FallsThrough, Has, IsDynamic, Statements
  <1>3. CASE End("failed")
    BY <1>2, <1>3, EndKeeps
  <1>4. ASSUME NEW i \in DOMAIN text,
               Run(Append(Onwards(stack),
                          Performing(Find(text, text[i].name),
                                     Find(text, text[i].name))))
        PROVE  Inv'
    <2> DEFINE first == Find(text, text[i].name)
               f == Performing(first, first)
    <2>1. first \in DOMAIN text /\ first \in Nat
      BY <1>1, FindOwn, TextParts
    <2> HIDE DEF first
    <2>2. f \in Frame /\ f.at = first /\ f.from = first /\ f.thru = first
      BY <2>1 DEF Performing, Frame
    <2> HIDE DEF f
    <2>3. GoodFrame(text, warned, f)
      BY <1>2, <2>1, <2>2 DEF GoodFrame, Inside, MayRun, Analysed
    <2>4. Good(text, warned, Append(Onwards(stack), f))
      BY <1>1, <2>3, GoodOnwards, GoodPush
    <2>5. QED
      BY <1>1, <1>4, <2>4, RunKeeps DEF f, first
  <1>5. QED
    BY <1>3, <1>4 DEF DynamicPerform

LEMMA AlterKeeps == ASSUME Inv, Alter PROVE Inv'
  <1>1. /\ phase = "running" /\ Running /\ text \in Texts
        /\ Good(text, warned, stack) /\ warned = Unreachable(text)
    BY DEF Inv, Running, Alter, InOps
  <1>2. PICK k \in DOMAIN Statements :
          /\ Current = Statements[k] /\ Current.op = "alter"
          /\ \A m \in 1..(k - 1) : ~EndsOps(Statements[m])
    BY <1>1, CurrentIs DEF Alter, FallsThrough
  <1>3. Top.at \in DOMAIN text /\ MayRun(text, warned, Top.at)
    BY <1>1, CurrentIs
  <1>4. MayRun(text, warned, Find(text, Current.to[2]))
    BY <1>1, <1>2, <1>3, TargetsMayRun DEF Running, Statements
  <1>5. /\ text' = text /\ phase' = phase /\ warned' = warned
        /\ stack' = Onwards(stack)
        /\ alter' = [n \in DOMAIN alter \cup {Current.to[1]} |->
                       IF n = Current.to[1] THEN Current.to[2] ELSE alter[n]]
    BY DEF Alter
  <1>6. \A n \in DOMAIN alter' : MayRun(text, warned, Find(text, alter'[n]))
    BY <1>1, <1>4, <1>5 DEF Running
  <1>7. Good(text, warned, Onwards(stack))
    BY <1>1, GoodOnwards
  <1>8. Running'
    BY <1>1, <1>5, <1>6, <1>7 DEF Running
  <1>9. QED
    BY <1>1, <1>5, <1>8 DEF Inv, AcceptedRuns

LEMMA GoToKeeps == ASSUME Inv, GoTo PROVE Inv'
  <1>1. /\ phase = "running" /\ Running /\ text \in Texts
        /\ Good(text, warned, stack) /\ warned = Unreachable(text)
    BY DEF Inv, Running, GoTo
  <1>2. PICK m \in DOMAIN Current.to : GoToName(Current.to[m])
    BY DEF GoTo
  <1>3. PICK k \in DOMAIN Statements :
          /\ Current = Statements[k] /\ Current.op \in {"goto", "depending"}
          /\ \A x \in 1..(k - 1) : ~EndsOps(Statements[x])
    BY <1>1, CurrentIs DEF GoTo, FallsThrough
  <1>4. Top.at \in DOMAIN text /\ MayRun(text, warned, Top.at)
    BY <1>1, CurrentIs
  <1>5. MayRun(text, warned, Find(text, Current.to[m]))
    BY <1>1, <1>3, <1>4, TargetsMayRun DEF Running, Statements
  <1> DEFINE i == Find(text, Resolve(Current.to[m]))
  <1>6. MayRun(text, warned, i)
    BY <1>1, <1>5 DEF Resolve, Running
  <1>7. IF i = 0 THEN End("failed")
        ELSE Run(AtBlock(Calls!Land(stack, i), i))
    BY <1>2 DEF GoToName
  <1> HIDE DEF i
  <1>8. QED
    BY <1>1, <1>6, <1>7, GoKeeps

LEMMA GoToDotKeeps == ASSUME Inv, GoToDot PROVE Inv'
  <1>1. /\ phase = "running" /\ text \in Texts /\ Good(text, warned, stack)
    BY DEF Inv, Running, GoToDot, InOps
  <1>2. PICK k \in DOMAIN Statements : Current = Statements[k]
    BY <1>1, CurrentIs DEF GoToDot, FallsThrough
  <1>3. ~EndsOps(Current)
    BY <1>1, CurrentIs DEF GoToDot, FallsThrough
  <1>4. IsNestedSlot(Current)
    BY <1>3 DEF GoToDot, EndsOps, IsNestedSlot
  <1>5. Has(text, IsNestedSlot)
    BY <1>1, <1>2, <1>4, CurrentIs DEF Has, Statements
  <1>6. QED
    BY <1>5, EndKeeps DEF GoToDot

LEMMA AlteredKeeps == ASSUME Inv, AlteredGoTo PROVE Inv'
  <1> DEFINE i == Find(text, alter[Name])
  <1>1. phase = "running" /\ MayRun(text, warned, i)
    BY DEF Inv, Running, AlteredGoTo, AtTransfer
  <1>2. IF i = 0 THEN End("failed")
        ELSE Run(AtBlock(Calls!Land(stack, i), i))
    BY DEF AlteredGoTo
  <1> HIDE DEF i
  <1>3. QED
    BY <1>1, <1>2, GoKeeps

LEMMA FallKeeps == ASSUME Inv, FallThrough PROVE Inv'
  <1> DEFINE i == Find(text, text[Top.at + 1].name)
  <1>1. /\ phase = "running" /\ text \in Texts
        /\ Good(text, warned, stack) /\ warned = Unreachable(text)
    BY DEF Inv, Running, FallThrough, Leaves, AtTransfer
  <1>2. /\ Top \in Frame /\ Top.at \in DOMAIN text
        /\ MayRun(text, warned, Top.at) /\ Inside(text, Top)
    BY <1>1, CurrentIs
  <1>3. Top.at + 1 \in DOMAIN text
    BY DEF FallThrough, HasNext
  <1>4. /\ Current = Transfer(text[Top.at].body)
        /\ Current.op \notin {"goback", "stop"}
        /\ Current.op = "goto" => Current.to = <<>>
    BY <1>1, CurrentIs
       DEF FallThrough, Leaves, AtTransfer, InOps, HasNext, Statements
  <1>5. MayRun(text, warned, i)
    <2> DEFINE c == Transfer(text[Top.at].body)
    <2>1. c.op \notin {"goback", "stop"} /\ (c.op = "goto" => c.to = <<>>)
      BY <1>4
    <2>2. QED
      BY <1>1, <1>2, <1>3, <2>1, NextMayRun
  <1>6. i \in Nat /\ (DistinctNames(text) => i = Top.at + 1)
    BY <1>1, <1>3, FindOwn, TextParts
  <1> HIDE DEF i
  <1> DEFINE c == [Top EXCEPT !.at = i]
  <1>7. /\ c.kind = Top.kind /\ c.from = Top.from /\ c.thru = Top.thru
        /\ c.at = i /\ Top.at \in Nat /\ Top.thru \in Nat /\ Top.from \in Nat
    BY <1>2 DEF Frame
  <1>8. ~(Top.kind = "range" /\ Top.at = Top.thru)
    BY DEF FallThrough, AtThrough
  <1> HIDE DEF c
  <1>9. Inside(text, c)
    BY <1>2, <1>6, <1>7, <1>8 DEF Inside
  <1>10. Good(text, warned, AtBlock(stack, i))
    BY <1>1, <1>5, <1>6, <1>9, GoodAtBlock DEF c, Top, Depth
  <1>11. Run(AtBlock(stack, i))
    BY DEF FallThrough, i
  <1>12. QED
    BY <1>1, <1>10, <1>11, RunKeeps

LEMMA ReturnKeeps == ASSUME Inv, Return PROVE Inv'
  <1>1. phase = "running" /\ Good(text, warned, stack)
    BY DEF Inv, Running, Return, Leaves, AtTransfer
  <1>2. CASE Depth = 1
    <2>1. End("ended")
      BY <1>2 DEF Return
    <2>2. QED
      BY <2>1, EndKeeps
  <1>3. CASE Depth # 1
    <2>1. Run(SubSeq(stack, 1, Depth - 1))
      BY <1>3 DEF Return
    <2>2. Depth - 1 \in 1..Len(stack)
      BY <1>1, <1>3, GoodTop DEF Depth
    <2>3. QED
      BY <1>1, <2>1, <2>2, GoodCut, RunKeeps
  <1>4. QED
    BY <1>2, <1>3

LEMMA InvKept == Inv /\ [Next]_vars => Inv'
  <1> SUFFICES ASSUME Inv, [Next]_vars PROVE Inv'
    OBVIOUS
  <1>1. CASE Compile
    BY <1>1, CompileKeeps
  <1>2. CASE Pass
    <2>1. /\ phase = "running" /\ Run(Onwards(stack))
          /\ Good(text, warned, stack)
      BY <1>2 DEF Pass, InOps, Inv, Running
    <2>2. QED
      BY <2>1, GoodOnwards, RunKeeps
  <1>3. CASE Perform
    BY <1>3, PerformKeeps
  <1>4. CASE DynamicPerform
    BY <1>4, DynamicKeeps
  <1>5. CASE Alter
    BY <1>5, AlterKeeps
  <1>6. CASE GoTo
    BY <1>6, GoToKeeps
  <1>7. CASE GoToNowhere
    <2>1. /\ phase = "running" /\ Run(Onwards(stack))
          /\ Good(text, warned, stack)
      BY <1>7 DEF GoToNowhere, InOps, Inv, Running
    <2>2. QED
      BY <2>1, GoodOnwards, RunKeeps
  <1>8. CASE GoToDot
    BY <1>8, GoToDotKeeps
  <1>9. CASE AlteredGoTo
    BY <1>9, AlteredKeeps
  <1>10. CASE StopRun
    <2>1. End("ended")
      BY <1>10 DEF StopRun
    <2>2. QED
      BY <2>1, EndKeeps
  <1>11. CASE FallThrough
    BY <1>11, FallKeeps
  <1>12. CASE Return
    BY <1>12, ReturnKeeps
  <1>13. CASE UNCHANGED vars
    <2>1. /\ text' = text /\ phase' = phase /\ warned' = warned
          /\ stack' = stack /\ alter' = alter
      BY <1>13 DEF vars
    <2>2. QED
      BY <2>1 DEF Inv, Running, AcceptedRuns
  <1>14. QED
    BY <1>1, <1>2, <1>3, <1>4, <1>5, <1>6, <1>7, <1>8, <1>9, <1>10,
       <1>11, <1>12, <1>13 DEF Next

LEMMA InvHolds == Spec => []Inv
  <1>1. Init => Inv
    <2> SUFFICES ASSUME Init PROVE Inv
      OBVIOUS
    <2>1. DOMAIN alter = {}
      BY DEF Init
    <2>2. QED
      BY <2>1 DEF Init, Inv, Phases, AcceptedRuns
  <1>2. QED
    BY <1>1, InvKept, PTL DEF Spec

-----------------------------------------------------------------------------
(* The stack is one of frames at paragraphs of the text, and is there      *)
(* exactly while the program runs.                                         *)
THEOREM TypesHold == Spec => []TypeOK
  <1>1. ASSUME Inv, phase = "running" PROVE TypeOK
    <2>1. stack \in Seq(Frame) /\ stack # <<>>
      BY <1>1 DEF Inv, Running, Good
    <2>2. \A k \in 1..Len(stack) : stack[k].at \in DOMAIN text
      BY <1>1 DEF Inv, Running, Good, GoodFrame, MayRun
    <2>3. QED
      BY <1>1, <2>1, <2>2 DEF Inv, TypeOK
  <1>2. ASSUME Inv, phase # "running" PROVE TypeOK
    <2>1. stack = <<>> /\ stack \in Seq(Frame) /\ Len(stack) = 0
      BY <1>2 DEF Inv
    <2>2. QED
      BY <1>2, <2>1 DEF Inv, TypeOK
  <1>3. Inv => TypeOK
    BY <1>1, <1>2
  <1>4. QED
    BY <1>3, InvHolds, PTL

(* No run comes to a paragraph that the analysis warned cannot be reached, *)
(* whatever its conditions and numbers are: the search of the analysis     *)
(* follows every way the blocks of the code generator can go.              *)
THEOREM WarningsHold == Spec => []WarnedNeverRuns
  <1>1. Inv => WarnedNeverRuns
    <2>1. ASSUME Inv, phase = "running" PROVE WarnedNeverRuns
      BY <2>1 DEF Inv, Running, Good, GoodFrame, MayRun, WarnedNeverRuns
    <2>2. ASSUME Inv, phase # "running" PROVE WarnedNeverRuns
      <3>1. Len(stack) = 0
        BY <2>2 DEF Inv
      <3>2. QED
        BY <3>1 DEF WarnedNeverRuns
    <2>3. QED
      BY <2>1, <2>2
  <1>2. QED
    BY <1>1, InvHolds, PTL

(* No GO TO, PERFORM or ALTER of an accepted text ends in a block that     *)
(* does not exist: the checks of the names cover the altered targets too.  *)
THEOREM AcceptedTextsRun == Spec => []AcceptedRuns
  <1>1. Inv => AcceptedRuns
    BY DEF Inv
  <1>2. QED
    BY <1>1, InvHolds, PTL

(* One step of it.                                                         *)
LEMMA ThruStep ==
    ASSUME Inv, Next, DistinctNames(text),
           phase = "running", phase' = "running",
           Top.kind = "range", Top.from < Top.thru,
           Current.op \in {"goto", "depending"}, ~Current.nested,
           \A k \in DOMAIN Current.to : Current.to[k] \notin DOMAIN alter
    PROVE  ~(Len(stack') < Len(stack))
  <1>1. /\ text \in Texts /\ Good(text, warned, stack) /\ Running
        /\ Len(stack) \in Nat
    BY GoodTop DEF Inv, Running
  <1>2. /\ Current.to # <<>>
        /\ \A m \in DOMAIN Current.to :
             Find(text, Current.to[m]) \in Top.from..Top.thru
    BY <1>1, SeenByCheck
  <1>3. CASE GoTo
    <2>1. PICK m \in DOMAIN Current.to : GoToName(Current.to[m])
      BY <1>3 DEF GoTo
    <2> DEFINE i == Find(text, Current.to[m])
    <2>2. Resolve(Current.to[m]) = Current.to[m]
      BY DEF Resolve
    <2>3. IF i = 0 THEN End("failed")
          ELSE Run(AtBlock(Calls!Land(stack, i), i))
      BY <2>1, <2>2 DEF GoToName
    <2>4. i # 0
      BY <2>3 DEF End
    <2>5. i \in DOMAIN text
      BY <1>1, <2>4, FindNamed
    <2>6. i \in Nat /\ i \in Top.from..Top.thru
      BY <1>1, <1>2, <2>5, TextParts
    <2>7. MayRun(text, warned, i)
      <3>1. PICK k \in DOMAIN Statements :
              /\ Current = Statements[k]
              /\ \A x \in 1..(k - 1) : ~EndsOps(Statements[x])
        BY <1>1, CurrentIs DEF FallsThrough
      <3>2. QED
        BY <1>1, <3>1, CurrentIs, TargetsMayRun DEF Running, Statements
    <2> HIDE DEF i
    <2>8. Calls!Keeps(stack[Len(stack)], i)
      <3>1. Top \in Frame /\ Top = stack[Len(stack)]
        BY <1>1, CurrentIs DEF Top, Depth
      <3>2. Top.from <= i /\ i <= Top.thru
        BY <2>6, <3>1 DEF Frame
      <3>3. QED
        BY <3>1, <3>2 DEF Calls!Keeps, Calls!Between
    <2>9. Len(AtBlock(Calls!Land(stack, i), i)) = Len(stack)
      BY <1>1, <2>6, <2>7, <2>8, GoodLand
    <2>10. QED
      BY <1>1, <2>3, <2>4, <2>9 DEF Run
  <1>4. CASE GoToNowhere
    <2>1. Len(stack') = Len(stack)
      BY <1>1, <1>4, GoodOnwards DEF GoToNowhere, Run
    <2>2. QED
      BY <1>1, <2>1
  <1>5. CASE Compile
    BY <1>5 DEF Compile
  <1>6. CASE Pass \/ Perform \/ DynamicPerform \/ Alter
    BY <1>6 DEF Pass, Perform, DynamicPerform, Alter
  <1>7. CASE GoToDot \/ AlteredGoTo
    BY <1>2, <1>7 DEF GoToDot, AlteredGoTo
  <1>8. CASE StopRun
    BY <1>8 DEF StopRun
  <1>9. CASE FallThrough \/ Return
    BY <1>2, <1>9 DEF FallThrough, Return, Leaves
  <1>10. QED
    BY <1>3, <1>4, <1>5, <1>6, <1>7, <1>8, <1>9 DEF Next

(* A PERFORM THRU that passed the check is left early only by a GO TO the  *)
(* check does not look at: a nested one, or one to an altered paragraph.   *)
THEOREM ThruChecked == Spec => ThruIsLeftUnseen
  <1> DEFINE P == /\ DistinctNames(text)
                  /\ phase = "running" /\ phase' = "running"
                  /\ Top.kind = "range" /\ Top.from < Top.thru
                  /\ Current.op \in {"goto", "depending"}
                  /\ Len(stack') < Len(stack)
             Q == \/ Current.nested
                  \/ \E k \in DOMAIN Current.to :
                        Current.to[k] \in DOMAIN alter
  <1>1. Inv /\ [Next]_vars => [P => Q]_vars
    <2> SUFFICES ASSUME Inv, Next, P, ~Q PROVE FALSE
      OBVIOUS
    <2>1. QED
      BY ThruStep
  <1>2. QED
    BY <1>1, InvHolds, PTL DEF Spec, ThruIsLeftUnseen
=============================================================================
