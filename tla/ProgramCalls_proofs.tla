------------------------ MODULE ProgramCalls_proofs ------------------------
(***************************************************************************)
(* What holds of a run unit whatever the programs, their texts, the depth  *)
(* of their calls and the nesting of their SORTs:                          *)
(*                                                                         *)
(*   - names are static.  NamesAreStatic speaks of all activations at      *)
(*     once; what it needs besides is that each of them binds just the     *)
(*     names of its program's parameters (FramesMatch): a caller's binding *)
(*     can hide a name, but never stand between a parameter and its        *)
(*     argument;                                                           *)
(*   - a statement changes only cells that its program can name (the       *)
(*     invariant Storage): what is bound by reference is never a number    *)
(*     that is only passed as a copy (BindingsShared), and such a number   *)
(*     keeps its value, so that the reset of an INITIAL program does not   *)
(*     change it either (StoreOK);                                         *)
(*   - a SORT delivers its records in their order (SortsServe): what its   *)
(*     program has got is a beginning of what is due, even when programs   *)
(*     that it calls execute SORTs of their own in between.                *)
(*                                                                         *)
(* Sums, concatenations and orders are recursive functions of the model;   *)
(* what they compute is shown by the least number at which it would fail.  *)
(***************************************************************************)
EXTENDS ProgramCalls, FiniteSetTheorems, WellFoundedInduction, TLAPS

\* The activations and their scopes, as sequences of one length.
FramesMatch ==
    /\ \E S : stack \in Seq(S)
    /\ \E S : scopes \in Seq(S)
    /\ Len(scopes) = Len(stack)
    /\ \A d \in DOMAIN stack :
          /\ stack[d].program \in Programs
          /\ DOMAIN stack[d].binds = FormalNames(stack[d].program)

Inv == FramesMatch /\ NamesAreStatic

\* A sequence with one more element: its parts are the same.
LEMMA AppendParts ==
    ASSUME NEW s, NEW x, \E S : s \in Seq(S)
    PROVE  /\ \E S : Append(s, x) \in Seq(S)
           /\ Len(Append(s, x)) = Len(s) + 1
           /\ DOMAIN Append(s, x) = DOMAIN s \cup {Len(s) + 1}
           /\ Len(s) \in Nat /\ DOMAIN s = 1..Len(s)
           /\ Append(s, x)[Len(s) + 1] = x
           /\ \A d \in DOMAIN s :
                 /\ Append(s, x)[d] = s[d]
                 /\ SubSeq(Append(s, x), 1, d) = SubSeq(s, 1, d)
           /\ SubSeq(Append(s, x), 1, Len(s) + 1) = Append(s, x)
<1>1. PICK S : s \in Seq(S)
  OBVIOUS
<1> DEFINE T == S \cup {x}
<1>2. s \in Seq(T) /\ x \in T
  BY <1>1
<1>3. Append(s, x) \in Seq(T)
  BY <1>2
<1> HIDE DEF T
<1>4. /\ Len(Append(s, x)) = Len(s) + 1
      /\ Len(s) \in Nat /\ DOMAIN s = 1..Len(s)
      /\ DOMAIN Append(s, x) = 1..(Len(s) + 1)
      /\ Append(s, x)[Len(s) + 1] = x
  BY <1>2, <1>3
<1>5. DOMAIN Append(s, x) = DOMAIN s \cup {Len(s) + 1}
  BY <1>4
<1>6. ASSUME NEW d \in DOMAIN s
      PROVE  /\ Append(s, x)[d] = s[d]
             /\ SubSeq(Append(s, x), 1, d) = SubSeq(s, 1, d)
  <2>1. \A e \in 1..d : Append(s, x)[e] = s[e]
    BY <1>2, <1>4
  <2> QED  BY <2>1, <1>2, <1>3, <1>4
<1>7. SubSeq(Append(s, x), 1, Len(s) + 1) = Append(s, x)
  BY <1>3, <1>4
<1> QED  BY <1>3, <1>4, <1>5, <1>6, <1>7

\* A sequence without its last element: its parts are the same.
LEMMA FrontParts ==
    ASSUME NEW s, \E S : s \in Seq(S), s # <<>>
    PROVE  LET f == SubSeq(s, 1, Len(s) - 1) IN
           /\ \E S : f \in Seq(S)
           /\ Len(f) = Len(s) - 1
           /\ DOMAIN f \subseteq DOMAIN s
           /\ \A d \in DOMAIN f : /\ f[d] = s[d]
                                  /\ SubSeq(f, 1, d) = SubSeq(s, 1, d)
<1>1. PICK S : s \in Seq(S)
  OBVIOUS
<1> DEFINE f == SubSeq(s, 1, Len(s) - 1)
<1>2. Len(s) \in Nat \ {0} /\ DOMAIN s = 1..Len(s)
  BY <1>1
<1>3. /\ f \in Seq(S) /\ Len(f) = Len(s) - 1 /\ DOMAIN f = 1..(Len(s) - 1)
      /\ \A d \in 1..(Len(s) - 1) : f[d] = s[d]
  BY <1>1, <1>2
<1> HIDE DEF f
<1>4. ASSUME NEW d \in DOMAIN f
      PROVE  SubSeq(f, 1, d) = SubSeq(s, 1, d)
  BY <1>1, <1>2, <1>3
<1>5. DOMAIN f \subseteq DOMAIN s
  BY <1>2, <1>3
<1>6. QED  BY <1>2, <1>3, <1>4, <1>5, Zenon DEF f
-----------------------------------------------------------------------------
\* The main program has no parameters, so it is bound by no one.
LEMMA MainHasNoFormals == FormalNames(Main) = {}
<1>1. DOMAIN Formals[Main] = {}
  BY CallAssumption
<1> QED  BY <1>1 DEF FormalNames

\* One activation: a sequence of length one.
LEMMA OneElement ==
    ASSUME NEW x
    PROVE  /\ \E S : <<x>> \in Seq(S)
           /\ Len(<<x>>) = 1 /\ DOMAIN <<x>> = {1} /\ <<x>>[1] = x
           /\ SubSeq(<<x>>, 1, 1) = <<x>>
<1>1. <<x>> \in Seq({x})
  OBVIOUS
<1>2. Len(<<x>>) = 1 /\ DOMAIN <<x>> = {1} /\ <<x>>[1] = x
  OBVIOUS
<1>3. Append(<<>>, x) = <<x>> /\ <<>> \in Seq({}) /\ Len(<<>>) + 1 = 1
  OBVIOUS
<1>4. SubSeq(<<x>>, 1, 1) = <<x>>
  BY <1>3, AppendParts
<1> QED  BY <1>1, <1>2, <1>4

\* Start pushes the main program, whose names are its own items.
LEMMA StartKeeps ==
    ASSUME Start
    PROVE  Inv'
<1> DEFINE x == Activation(Main, <<>>)
           y == [names |-> [n \in Own(Main) |-> OwnBinding(Main, n)],
                 clear |-> Own(Main)]
<1>1. stack' = <<x>> /\ scopes' = <<y>>
  BY DEF Start
<1>2. x.program = Main /\ x.binds = <<>> /\ DOMAIN x.binds = {}
  BY DEF Activation
<1>3. y.clear = Own(Main)
      /\ \A n \in Own(Main) : y.names[n] = OwnBinding(Main, n)
  OBVIOUS
<1> HIDE DEF x, y
<1>4. FramesMatch'
  BY <1>1, <1>2, OneElement, MainHasNoFormals, CallAssumption DEF FramesMatch
<1>5. ASSUME NEW n
      PROVE  Denotes(<<x>>, n) = OwnBinding(Main, n)
  <2>1. Binders(<<x>>, n) = {}
    BY <1>2, OneElement DEF Binders
  <2> QED  BY <2>1, <1>2, OneElement DEF Denotes
<1>6. \A d \in DOMAIN <<x>> : \A n \in <<y>>[d].clear :
         Denotes(SubSeq(<<x>>, 1, d), n) = <<y>>[d].names[n]
  <2>1. <<y>>[1] = y /\ SubSeq(<<x>>, 1, 1) = <<x>> /\ DOMAIN <<x>> = {1}
    BY OneElement
  <2>2. ASSUME NEW n \in y.clear
        PROVE  Denotes(<<x>>, n) = y.names[n]
    BY <1>3, <1>5
  <2> QED  BY <2>1, <2>2
<1>7. NamesAreStatic'
  BY <1>1, <1>6, Zenon DEF NamesAreStatic
<1> QED  BY <1>4, <1>7 DEF Inv

\* Dropping the innermost activation leaves what the others' names denote.
LEMMA EndKeeps ==
    ASSUME Inv, stack # <<>>,
           stack' = SubSeq(stack, 1, Len(stack) - 1),
           scopes' = SubSeq(scopes, 1, Len(stack) - 1)
    PROVE  Inv'
<1>1. FramesMatch /\ NamesAreStatic
  BY DEF Inv
<1>2. scopes # <<>>
  BY <1>1 DEF FramesMatch
<1>3. /\ \E S : stack' \in Seq(S)
      /\ Len(stack') = Len(stack) - 1 /\ DOMAIN stack' \subseteq DOMAIN stack
      /\ \A d \in DOMAIN stack' :
            stack'[d] = stack[d] /\ SubSeq(stack', 1, d) = SubSeq(stack, 1, d)
  BY <1>1, FrontParts DEF FramesMatch
<1>4. /\ \E S : scopes' \in Seq(S)
      /\ Len(scopes') = Len(scopes) - 1
      /\ \A d \in DOMAIN scopes' : scopes'[d] = scopes[d]
  BY <1>1, <1>2, FrontParts DEF FramesMatch
<1>5. Len(scopes') = Len(stack')
  BY <1>1, <1>3, <1>4 DEF FramesMatch
<1>6. FramesMatch'
  BY <1>1, <1>3, <1>4, <1>5 DEF FramesMatch
<1>7. DOMAIN stack' = DOMAIN scopes'
  BY <1>3, <1>4, <1>5
<1>8. ASSUME NEW d \in DOMAIN stack', NEW n \in scopes'[d].clear
      PROVE  Denotes(SubSeq(stack', 1, d), n) = scopes'[d].names[n]
  <2>1. /\ d \in DOMAIN stack /\ scopes'[d] = scopes[d]
        /\ SubSeq(stack', 1, d) = SubSeq(stack, 1, d)
    BY <1>3, <1>4, <1>7
  <2>2. Denotes(SubSeq(stack, 1, d), n) = scopes[d].names[n]
    BY <1>1, <2>1 DEF NamesAreStatic
  <2> QED  BY <2>1, <2>2
<1>9. NamesAreStatic'
  BY <1>8 DEF NamesAreStatic
<1> QED  BY <1>6, <1>9 DEF Inv

\* An error ends all activations.
LEMMA AbendKeeps ==
    ASSUME Abend
    PROVE  Inv'
<1>1. stack' = <<>> /\ scopes' = <<>>
  BY DEF Abend
<1>2. <<>> \in Seq({}) /\ Len(<<>>) = 0 /\ DOMAIN <<>> = {}
  OBVIOUS
<1> QED  BY <1>1, <1>2 DEF Inv, FramesMatch, NamesAreStatic

-----------------------------------------------------------------------------
(* CALL *)

\* In a stack with one more activation, a name that the new one binds denotes
\* what it is bound to; another one that no activation binds is its own item.
LEMMA DenotesInNew ==
    ASSUME NEW st, NEW x, NEW n, \E S : st \in Seq(S)
    PROVE  /\ n \in DOMAIN x.binds => Denotes(Append(st, x), n) = x.binds[n]
           /\ n \notin DOMAIN x.binds /\ Binders(st, n) = {}
                 => Denotes(Append(st, x), n) = OwnBinding(x.program, n)
<1> DEFINE new == Append(st, x)
           l == Len(st) + 1
<1>1. /\ Len(new) = l /\ DOMAIN new = DOMAIN st \cup {l} /\ new[l] = x
      /\ l \in Nat /\ DOMAIN st = 1..(l - 1)
      /\ \A d \in DOMAIN st : new[d] = st[d]
  BY AppendParts
<1> HIDE DEF new, l
<1>2. Binders(new, n) = Binders(st, n)
                           \cup IF n \in DOMAIN x.binds THEN {l} ELSE {}
  BY <1>1 DEF Binders
<1>3. ASSUME n \in DOMAIN x.binds
      PROVE  Denotes(new, n) = x.binds[n]
  <2>1. l \in Binders(new, n) /\ \A j \in Binders(new, n) : j \in 1..l
    BY <1>1, <1>2, <1>3 DEF Binders
  <2>2. ASSUME NEW i \in Binders(new, n), \A j \in Binders(new, n) : j <= i
        PROVE  i = l
    <3>1. l <= i
      BY <2>1, <2>2
    <3>2. i \in 1..l
      BY <2>1
    <3> QED  BY <1>1, <3>1, <3>2
  <2>3. \A j \in Binders(new, n) : j <= l
    BY <1>1, <2>1
  <2>4. (CHOOSE i \in Binders(new, n) : \A j \in Binders(new, n) : j <= i) = l
    BY <2>1, <2>2, <2>3
  <2> QED  BY <1>1, <2>1, <2>4 DEF Denotes
<1>4. ASSUME n \notin DOMAIN x.binds, Binders(st, n) = {}
      PROVE  Denotes(new, n) = OwnBinding(x.program, n)
  <2>1. Binders(new, n) = {}
    BY <1>2, <1>4
  <2> QED  BY <1>1, <2>1 DEF Denotes
<1> QED  BY <1>3, <1>4 DEF new

\* An argument whose name nothing hides is bound to what it means.
LEMMA ArgumentIsMeant ==
    ASSUME Inv, stack # <<>>, NEW c, NEW i,
           \/ NeedsTemp(Top.program, c, i)
           \/ c.using[i] \in scopes[Len(scopes)].clear
    PROVE  Argument(c, i) = Meant(c, i)
<1>1. CASE NeedsTemp(Top.program, c, i)
  BY <1>1, Zenon DEF Argument, Meant
<1>2. CASE /\ ~NeedsTemp(Top.program, c, i)
           /\ c.using[i] \in scopes[Len(scopes)].clear
  <2>1. PICK S : stack \in Seq(S)
    BY DEF Inv, FramesMatch
  <2>2. Len(stack) \in DOMAIN stack /\ Len(scopes) = Len(stack)
    BY <2>1 DEF Inv, FramesMatch
  <2>3. SubSeq(stack, 1, Len(stack)) = stack
    BY <2>1
  <2>4. Denotes(stack, c.using[i]) = scopes[Len(scopes)].names[c.using[i]]
    BY <1>2, <2>2, <2>3 DEF Inv, NamesAreStatic
  <2> QED  BY <1>2, <2>4, Zenon DEF Argument, Meant
<1> QED  BY <1>1, <1>2

\* A CALL adds one activation, whose clear names are static.
LEMMA EnterKeeps ==
    ASSUME Inv, stack # <<>>, NEW q \in Programs, NEW c, EnterProgram(q, c)
    PROVE  Inv'
<1> DEFINE x == Activation(q, [n \in FormalNames(q) |->
                        Bound(q, n, Argument(c, ParameterOf(q, n)))])
           y == ScopeOf(q, c)
<1>1. stack' = Append(stack, x) /\ scopes' = Append(scopes, y)
  BY DEF EnterProgram
<1>2. /\ x.program = q /\ DOMAIN x.binds = FormalNames(q)
      /\ \A n \in FormalNames(q) :
            x.binds[n] = Bound(q, n, Argument(c, ParameterOf(q, n)))
  BY DEF Activation
<1>3. /\ \A n \in Own(q) : y.names[n] = OwnBinding(q, n)
      /\ \A n \in FormalNames(q) : n \notin Own(q) =>
            y.names[n] = Bound(q, n, Meant(c, ParameterOf(q, n)))
      /\ y.clear = {n \in Own(q) : Binders(stack, n) = {}}
                   \cup {n \in FormalNames(q) :
                          \/ NeedsTemp(Top.program, c, ParameterOf(q, n))
                          \/ c.using[ParameterOf(q, n)]
                                \in scopes[Len(scopes)].clear}
  BY DEF ScopeOf, Names
<1>4. Own(q) \cap FormalNames(q) = {}
  BY CallAssumption
<1> HIDE DEF x, y
<1>5. /\ \E S : stack \in Seq(S)
      /\ \E S : scopes \in Seq(S)
      /\ Len(scopes) = Len(stack)
  BY DEF Inv, FramesMatch
<1>6. /\ \E S : stack' \in Seq(S)
      /\ Len(stack') = Len(stack) + 1
      /\ DOMAIN stack' = DOMAIN stack \cup {Len(stack) + 1}
      /\ stack'[Len(stack) + 1] = x
      /\ SubSeq(stack', 1, Len(stack) + 1) = stack'
      /\ \A d \in DOMAIN stack : /\ stack'[d] = stack[d]
                                 /\ SubSeq(stack', 1, d) = SubSeq(stack, 1, d)
  BY <1>1, <1>5, AppendParts
<1>7. /\ \E S : scopes' \in Seq(S)
      /\ Len(scopes') = Len(scopes) + 1
      /\ scopes'[Len(stack) + 1] = y
      /\ \A d \in DOMAIN scopes : scopes'[d] = scopes[d]
      /\ DOMAIN scopes = DOMAIN stack
  <2>1. DOMAIN scopes = 1..Len(scopes) /\ DOMAIN stack = 1..Len(stack)
    BY <1>5, AppendParts
  <2>2. scopes'[Len(scopes) + 1] = y
    BY <1>1, <1>5, AppendParts
  <2>3. scopes'[Len(stack) + 1] = y
    BY <1>5, <2>2
  <2>4. /\ \E S : scopes' \in Seq(S)
        /\ Len(scopes') = Len(scopes) + 1
        /\ \A d \in DOMAIN scopes : scopes'[d] = scopes[d]
    BY <1>1, <1>5, AppendParts
  <2>5. DOMAIN scopes = DOMAIN stack
    BY <1>5, <2>1
  <2> QED  BY <2>3, <2>4, <2>5
<1>8. FramesMatch'
  BY <1>2, <1>5, <1>6, <1>7 DEF Inv, FramesMatch
<1>9. ASSUME NEW n \in y.clear
      PROVE  Denotes(stack', n) = y.names[n]
  <2>1. CASE n \in FormalNames(q)
    <3>1. Argument(c, ParameterOf(q, n)) = Meant(c, ParameterOf(q, n))
      BY <1>3, <1>4, <1>9, <2>1, ArgumentIsMeant
    <3>2. x.binds[n] = y.names[n]
      BY <1>2, <1>3, <1>4, <2>1, <3>1
    <3> QED  BY <1>1, <1>2, <1>5, <2>1, <3>2, DenotesInNew
  <2>2. CASE n \notin FormalNames(q)
    <3>1. n \in Own(q) /\ Binders(stack, n) = {}
      BY <1>3, <1>9, <2>2
    <3> QED  BY <1>1, <1>2, <1>3, <1>5, <2>2, <3>1, DenotesInNew
  <2> QED  BY <2>1, <2>2
<1>10. ASSUME NEW d \in DOMAIN stack', NEW n \in scopes'[d].clear
       PROVE  Denotes(SubSeq(stack', 1, d), n) = scopes'[d].names[n]
  <2>1. CASE d = Len(stack) + 1
    BY <1>6, <1>7, <1>9, <1>10, <2>1
  <2>2. CASE d \in DOMAIN stack
    <3>1. scopes'[d] = scopes[d]
      BY <1>7, <2>2
    <3>2. Denotes(SubSeq(stack, 1, d), n) = scopes[d].names[n]
      BY <1>10, <2>2, <3>1 DEF Inv, NamesAreStatic
    <3> QED  BY <1>6, <2>2, <3>1, <3>2
  <2> QED  BY <1>6, <2>1, <2>2
<1>11. NamesAreStatic'
  BY <1>10 DEF NamesAreStatic
<1> QED  BY <1>8, <1>11 DEF Inv

-----------------------------------------------------------------------------
\* A statement that neither calls nor ends keeps what the names denote.
LEMMA SameStackKeeps ==
    ASSUME Inv, UNCHANGED <<stack, scopes>>
    PROVE  Inv'
BY DEF Inv, FramesMatch, NamesAreStatic

\* Every step of the run unit.
LEMMA StepKeeps ==
    ASSUME Inv, [Next]_vars
    PROVE  Inv'
<1>1. CASE Start
  BY <1>1, StartKeeps
<1>2. CASE EndProgram
  BY <1>2, EndKeeps DEF EndProgram
<1>3. CASE Move
  BY <1>3, SameStackKeeps DEF Move
<1>4. CASE MoveLiteral
  BY <1>4, SameStackKeeps DEF MoveLiteral
<1>5. CASE CallLiteral
  <2>1. PICK c \in Calls[Top.program] :
           ~c.dynamic /\ (Abend \/ EnterProgram(c.target, c))
    BY <1>5, Zenon DEF CallLiteral
  <2>2. stack # <<>>
    BY <1>5 DEF CallLiteral
  <2>3. Top.program \in Programs
    BY <2>2, AppendParts DEF Inv, FramesMatch, Top
  <2>4. c.target \in Programs
    BY <2>1, <2>3, CallAssumption
  <2> QED  BY <2>1, <2>2, <2>4, AbendKeeps, EnterKeeps
<1>6. CASE CallDynamic
  <2>1. PICK c \in Calls[Top.program] :
           \/ Abend
           \/ UNCHANGED <<stack, scopes>>
           \/ c.target \in Programs /\ EnterProgram(c.target, c)
    BY <1>6 DEF CallDynamic
  <2> QED  BY <1>6, <2>1, AbendKeeps, SameStackKeeps, EnterKeeps
           DEF CallDynamic
<1>7. CASE Sort
  BY <1>7, SameStackKeeps DEF Sort
<1>8. CASE Release
  <2>1. Abend \/ UNCHANGED <<stack, scopes>>
    BY <1>8 DEF Release
  <2> QED  BY <2>1, AbendKeeps, SameStackKeeps
<1>9. CASE EndInput
  <2>1. Abend \/ UNCHANGED <<stack, scopes>>
    BY <1>9 DEF EndInput
  <2> QED  BY <2>1, AbendKeeps, SameStackKeeps
<1>10. CASE Return
  <2>1. Abend \/ UNCHANGED <<stack, scopes>>
    BY <1>10 DEF Return
  <2> QED  BY <2>1, AbendKeeps, SameStackKeeps
<1>11. CASE LeaveSort
  BY <1>11, SameStackKeeps DEF LeaveSort
<1>12. CASE UNCHANGED vars
  BY <1>12, SameStackKeeps DEF vars
<1> QED
  BY <1>1, <1>2, <1>3, <1>4, <1>5, <1>6, <1>7, <1>8, <1>9, <1>10, <1>11,
     <1>12 DEF Next

\* Nothing runs at first.
LEMMA InitHolds == Init => Inv
<1>1. <<>> \in Seq({}) /\ Len(<<>>) = 0 /\ DOMAIN <<>> = {}
  OBVIOUS
<1> QED  BY <1>1 DEF Init, Inv, FramesMatch, NamesAreStatic

\* For any programs, texts and depth: a name that no caller uses for a
\* parameter means, in every activation, its program's own item, or the cell
\* that its caller's argument means there.
THEOREM NamesHold == Spec => []NamesAreStatic
<1>1. Inv => NamesAreStatic
  BY DEF Inv
<1> QED  BY <1>1, InitHolds, StepKeeps, PTL DEF Spec

-----------------------------------------------------------------------------
\* What SORT delivers.  Induction first, over a set of numbers: the least
\* element of a set of them,
LEMMA LeastNat ==
    ASSUME NEW T \in SUBSET Nat, T # {}
    PROVE  \E n \in T : \A m \in T : n <= m
<1> DEFINE R == OpToRel(<, Nat)
<1>1. IsWellFoundedOn(R, Nat)
  BY NatLessThanWellFounded
<1>2. \A x, y \in Nat : x < y => <<x, y>> \in R
  BY DEF OpToRel
<1> HIDE DEF R
<1>3. PICK x \in T : \A y \in T : ~ (<<y, x>> \in R)
  BY <1>1, WFMin
<1>4. ASSUME NEW y \in T PROVE x <= y
  <2>1. ~(y < x)
    BY <1>2, <1>3
  <2> QED  BY <2>1
<1> QED  BY <1>4

\* so that what holds of 0 and passes on to the next holds up to n.
LEMMA UpTo ==
    ASSUME NEW n \in Nat, NEW T, 0 \in T,
           \A k \in 0..n : k \in T /\ k < n => k + 1 \in T
    PROVE  \A k \in 0..n : k \in T
<1> DEFINE Rest == {k \in 0..n : k \notin T}
<1>1. SUFFICES ASSUME Rest # {} PROVE FALSE
  OBVIOUS
<1>2. Rest \in SUBSET Nat
  OBVIOUS
<1> HIDE DEF Rest
<1>3. PICK k \in Rest : \A m \in Rest : k <= m
  BY <1>1, <1>2, LeastNat
<1> USE DEF Rest
<1>4. k \in 0..n /\ k # 0
  OBVIOUS
<1>5. k - 1 \in 0..n /\ ~(k <= k - 1)
  BY <1>4
<1>6. k - 1 \in T
  BY <1>3, <1>5
<1>7. k - 1 < n /\ (k - 1) + 1 = k
  BY <1>4
<1> QED  BY <1>5, <1>6, <1>7

\* A function of 0..n given by its first value b and its steps G.
Steppers(n, X) == [X -> [1..n -> X]]

Stepped(n, X, b, G, f) == /\ f \in [0..n -> X] /\ f[0] = b
                          /\ \A i \in 1..n : f[i] = G[f[i - 1]][i]

\* There is such a function.
LEMMA StepsExist ==
    ASSUME NEW n \in Nat, NEW X, NEW b \in X, NEW G \in Steppers(n, X)
    PROVE  \E f : Stepped(n, X, b, G, f)
<1> USE DEF Steppers
<1> DEFINE Good(f, k) == /\ f \in [0..k -> X] /\ f[0] = b
                         /\ \A i \in 1..k : f[i] = G[f[i - 1]][i]
           T == {k \in 0..n : \E f : Good(f, k)}
<1>1. 0 \in T
  <2>1. Good([i \in 0..0 |-> b], 0)
    OBVIOUS
  <2>2. 0 \in 0..n
    OBVIOUS
  <2> HIDE DEF Good
  <2> QED  BY <2>1, <2>2
<1>2. ASSUME NEW k \in 0..n, k \in T, k < n
      PROVE  k + 1 \in T
  <2>1. PICK f : Good(f, k)
    BY <1>2
  <2> DEFINE g == [i \in 0..(k + 1) |-> IF i = k + 1 THEN G[f[k]][i] ELSE f[i]]
  <2>2. k + 1 \in 1..n /\ f[k] \in X
    BY <1>2, <2>1
  <2>3. G[f[k]][k + 1] \in X
    BY <2>2
  <2>4. g \in [0..(k + 1) -> X]
    BY <2>1, <2>3
  <2>5. g[0] = b
    BY <2>1
  <2>6. ASSUME NEW i \in 1..(k + 1) PROVE g[i] = G[g[i - 1]][i]
    <3>1. CASE i = k + 1
      <4>1. i - 1 = k /\ i \in 0..(k + 1) /\ k \in 0..(k + 1) /\ k # k + 1
        BY <3>1
      <4> QED  BY <3>1, <4>1
    <3>2. CASE i # k + 1
      <4>1. /\ i \in 1..k /\ i \in 0..(k + 1) /\ i - 1 \in 0..(k + 1)
            /\ i - 1 # k + 1
        BY <3>2
      <4>2. g[i] = f[i] /\ g[i - 1] = f[i - 1]
        BY <3>2, <4>1
      <4> HIDE DEF g
      <4> QED  BY <2>1, <4>1, <4>2
    <3> QED  BY <3>1, <3>2
  <2> HIDE DEF g
  <2>7. Good(g, k + 1)
    BY <2>4, <2>5, <2>6
  <2>8. k + 1 \in 0..n
    BY <2>2
  <2> HIDE DEF Good
  <2> QED  BY <2>7, <2>8
<1> HIDE DEF T
<1>3. \A k \in 0..n : k \in T
  BY <1>1, <1>2, UpTo
<1>4. n \in T
  BY <1>3
<1>5. PICK f : Good(f, n)
  BY <1>4 DEF T
<1> QED  BY <1>5 DEF Stepped

-----------------------------------------------------------------------------
\* The order of a SORT.  Keys that decode are numbers.
RanksAreNumbers == \A b : Rank(b) = BadKey \/ Rank(b) \in Int

Records(in) == \E S : in \in Seq(S)

\* What the code has checked before it sorts.
Comparable(in, key) == key.given => Sortable(in, key)

\* It is a strict order of the records, in which any two are comparable.
LEMMA EarlierOrders ==
    ASSUME RanksAreNumbers, NEW in, Records(in), NEW key, Comparable(in, key)
    PROVE  /\ \A i \in DOMAIN in : ~Earlier(in, i, i, key)
           /\ \A i, j \in DOMAIN in :
                 i # j => Earlier(in, i, j, key) \/ Earlier(in, j, i, key)
           /\ \A i, j, k \in DOMAIN in :
                 Earlier(in, i, j, key) /\ Earlier(in, j, k, key)
                    => Earlier(in, i, k, key)
<1>0. DOMAIN in = 1..Len(in) /\ Len(in) \in Nat
  BY DEF Records
<1>1. CASE ~key.given
  <2>1. \A i, j \in DOMAIN in : Earlier(in, i, j, key) <=> i < j
    BY <1>1 DEF Earlier
  <2> QED  BY <1>0, <2>1
<1>2. CASE key.given
  <2> DEFINE v(i) == KeyValue(in[i], key)
  <2>1. \A i \in DOMAIN in : v(i) \in Int
    BY <1>2 DEF Comparable, Sortable, RanksAreNumbers, KeyValue
  <2>2. \A i, j \in DOMAIN in : Earlier(in, i, j, key) <=>
           IF key.descending
           THEN v(j) < v(i) \/ (~(v(i) < v(j)) /\ i < j)
           ELSE v(i) < v(j) \/ (~(v(j) < v(i)) /\ i < j)
    BY <1>2 DEF Earlier, Before
  <2> HIDE DEF v
  <2>3. CASE key.descending
    <3>1. \A i, j \in DOMAIN in : Earlier(in, i, j, key) <=>
             v(j) < v(i) \/ (~(v(i) < v(j)) /\ i < j)
      BY <2>2, <2>3
    <3> QED  BY <1>0, <2>1, <3>1
  <2>4. CASE ~key.descending
    <3>1. \A i, j \in DOMAIN in : Earlier(in, i, j, key) <=>
             v(i) < v(j) \/ (~(v(j) < v(i)) /\ i < j)
      BY <2>2, <2>4
    <3> QED  BY <1>0, <2>1, <3>1
  <2> QED  BY <2>3, <2>4
<1> QED  BY <1>1, <1>2

\* The records ahead of one, and its position among all.
Ahead(in, i, key) == {j \in DOMAIN in : Earlier(in, j, i, key)}

Position(in, i, key) == 1 + Cardinality(Ahead(in, i, key))

\* Positions are those of the sequence, in the order of the records,
LEMMA PositionsOrdered ==
    ASSUME RanksAreNumbers, NEW in, Records(in), NEW key, Comparable(in, key)
    PROVE  /\ \A i \in DOMAIN in : Position(in, i, key) \in 1..Len(in)
           /\ \A i, j \in DOMAIN in :
                 Earlier(in, i, j, key)
                    <=> Position(in, i, key) < Position(in, j, key)
<1>0. DOMAIN in = 1..Len(in) /\ Len(in) \in Nat
  BY DEF Records
<1>1. IsFiniteSet(DOMAIN in) /\ Cardinality(DOMAIN in) = Len(in)
  <2>1. 1 \in Int /\ Len(in) \in Int
    BY <1>0
  <2>2. /\ IsFiniteSet(1..Len(in))
        /\ Cardinality(1..Len(in)) = IF 1 > Len(in) THEN 0 ELSE Len(in) - 1 + 1
    BY <2>1, FS_Interval
  <2> QED  BY <1>0, <2>2
<1>2. ASSUME NEW i \in DOMAIN in
      PROVE  /\ Ahead(in, i, key) \in SUBSET DOMAIN in
             /\ i \notin Ahead(in, i, key)
             /\ IsFiniteSet(Ahead(in, i, key))
             /\ Cardinality(Ahead(in, i, key)) \in Nat
  <2>1. Ahead(in, i, key) \in SUBSET DOMAIN in /\ i \notin Ahead(in, i, key)
    BY EarlierOrders DEF Ahead
  <2> QED  BY <1>1, <2>1, FS_Subset, FS_CardinalityType
<1>3. ASSUME NEW i \in DOMAIN in
      PROVE  Position(in, i, key) \in 1..Len(in)
  <2> DEFINE A == Ahead(in, i, key)
             B == DOMAIN in \ {i}
  <2>1. IsFiniteSet(B) /\ Cardinality(B) = Len(in) - 1
    BY <1>1, FS_RemoveElement
  <2>2. A \in SUBSET B
    BY <1>2
  <2>3. Cardinality(A) <= Cardinality(B)
    BY <2>1, <2>2, FS_Subset
  <2>4. Cardinality(A) \in Nat
    BY <1>2
  <2> QED  BY <1>0, <2>1, <2>3, <2>4 DEF Position
<1>4. ASSUME NEW i \in DOMAIN in, NEW j \in DOMAIN in, Earlier(in, i, j, key)
      PROVE  Position(in, i, key) < Position(in, j, key)
  <2> DEFINE A == Ahead(in, i, key)
             B == Ahead(in, j, key)
  <2>1. A \in SUBSET B
    BY <1>4, EarlierOrders DEF Ahead
  <2>2. i \in B /\ i \notin A
    BY <1>2, <1>4 DEF Ahead
  <2>3. IsFiniteSet(B) /\ Cardinality(A) \in Nat /\ Cardinality(B) \in Nat
    BY <1>2
  <2>4. Cardinality(A) <= Cardinality(B) /\ Cardinality(A) # Cardinality(B)
    BY <2>1, <2>2, <2>3, FS_Subset
  <2> QED  BY <2>3, <2>4 DEF Position
<1>5. ASSUME NEW i \in DOMAIN in, NEW j \in DOMAIN in,
             Position(in, i, key) < Position(in, j, key)
      PROVE  Earlier(in, i, j, key)
  <2>0. Position(in, i, key) \in Int /\ Position(in, j, key) \in Int
    BY <1>0, <1>3
  <2>1. i # j
    BY <1>5, <2>0
  <2>2. ~Earlier(in, j, i, key)
    BY <1>4, <1>5, <2>0
  <2> QED  BY <2>1, <2>2, EarlierOrders
<1> QED  BY <1>3, <1>4, <1>5

\* and every position is that of one record.
LEMMA PositionsOnto ==
    ASSUME RanksAreNumbers, NEW in, Records(in), NEW key, Comparable(in, key)
    PROVE  /\ \A i, j \in DOMAIN in :
                 Position(in, i, key) = Position(in, j, key) => i = j
           /\ \A n \in 1..Len(in) :
                 \E i \in DOMAIN in : Position(in, i, key) = n
<1> DEFINE P(i) == Position(in, i, key)
<1>0. DOMAIN in = 1..Len(in) /\ Len(in) \in Nat
  BY DEF Records
<1>1. \A i \in DOMAIN in : P(i) \in 1..Len(in)
  BY PositionsOrdered
<1>2. \A i, j \in DOMAIN in : P(i) = P(j) => i = j
  <2>1. \A i, j \in DOMAIN in : P(i) = P(j) => ~(P(i) < P(j)) /\ ~(P(j) < P(i))
    BY <1>0, <1>1
  <2> QED  BY <2>1, PositionsOrdered, EarlierOrders
<1> HIDE DEF P
<1> DEFINE D == 1..Len(in)
           f == [i \in D |-> P(i)]
<1>3. IsFiniteSet(D)
  <2>1. 1 \in Int /\ Len(in) \in Int
    BY <1>0
  <2> QED  BY <2>1, FS_Interval
<1>4. f \in Injection(D, D)
  BY <1>0, <1>1, <1>2 DEF Injection, IsInjective
<1> HIDE DEF f
<1>5. f \in Surjection(D, D)
  BY <1>3, <1>4, FS_Injection
<1>6. \A n \in D : \E i \in D : f[i] = n
  BY <1>5 DEF Surjection
<1>7. \A n \in 1..Len(in) : \E i \in DOMAIN in : P(i) = n
  BY <1>0, <1>6 DEF f
<1> QED  BY <1>2, <1>7 DEF P

\* The sets of records that DueFirst is the last of.
DueSteps(f, in, n, key) ==
    /\ f[0] = {} /\ f[n] = DueFirst(in, n, key)
    /\ \A i \in 1..n :
          f[i] = f[i - 1] \cup {FirstOf(in, DOMAIN in \ f[i - 1], key)}

\* There are such sets.
LEMMA DueFirstIs ==
    ASSUME NEW in, NEW n \in Nat, NEW key
    PROVE  \E f : DueSteps(f, in, n, key)
<1> DEFINE X == SUBSET {FirstOf(in, s, key) : s \in SUBSET DOMAIN in}
           G == [s \in X |-> [i \in 1..n |->
                    s \cup {FirstOf(in, DOMAIN in \ s, key)}]]
           Is(f) == f = [i \in 0..n |-> IF i = 0 THEN {} ELSE f[i - 1] \cup
                           {FirstOf(in, DOMAIN in \ f[i - 1], key)}]
           F == CHOOSE f : Is(f)
<1>1. \E f : Is(f)
  <2>1. ASSUME NEW s \in X
        PROVE  s \cup {FirstOf(in, DOMAIN in \ s, key)} \in X
    <3>1. DOMAIN in \ s \in SUBSET DOMAIN in
      OBVIOUS
    <3> QED  BY <3>1
  <2>2. {} \in X
    OBVIOUS
  <2> HIDE DEF X
  <2>3. G \in Steppers(n, X)
    BY <2>1 DEF Steppers
  <2>4. \A s \in X, i \in 1..n :
           G[s][i] = s \cup {FirstOf(in, DOMAIN in \ s, key)}
    OBVIOUS
  <2> HIDE DEF G
  <2>5. PICK f \in [0..n -> X] :
           f[0] = {} /\ \A i \in 1..n : f[i] = G[f[i - 1]][i]
    <3> DEFINE b == {}
    <3>1. n \in Nat /\ b \in X
      BY <2>2
    <3> HIDE DEF b
    <3>2. PICK f : Stepped(n, X, b, G, f)
      BY ONLY <2>3, <3>1, StepsExist, Zenon
    <3> QED  BY <3>2 DEF Stepped, b
  <2>6. ASSUME NEW i \in 0..n
        PROVE  f[i] = IF i = 0 THEN {} ELSE f[i - 1] \cup
                        {FirstOf(in, DOMAIN in \ f[i - 1], key)}
    <3>1. CASE i = 0
      BY <2>5, <3>1
    <3>2. CASE i # 0
      <4>1. i \in 1..n /\ i - 1 \in 0..n
        BY <3>2
      <4>2. f[i - 1] \in X
        BY <4>1
      <4> QED  BY <2>4, <2>5, <3>2, <4>1, <4>2
    <3> QED  BY <3>1, <3>2
  <2>7. Is(f)
    BY <2>6
  <2> HIDE DEF Is
  <2> QED  BY <2>7
<1>2. DueFirst(in, n, key) = F[n]
  BY DEF DueFirst
<1>3. Is(F)
  <2> HIDE DEF Is
  <2> QED  BY <1>1
<1> HIDE DEF F
<1>4. F[0] = {}
  <2>1. 0 \in 0..n
    OBVIOUS
  <2> QED  BY <1>3, <2>1
<1>5. ASSUME NEW i \in 1..n
      PROVE  F[i] = F[i - 1] \cup {FirstOf(in, DOMAIN in \ F[i - 1], key)}
  <2>1. i \in 0..n /\ i # 0
    OBVIOUS
  <2> QED  BY <1>3, <2>1
<1>6. DueSteps(F, in, n, key)
  BY <1>2, <1>4, <1>5 DEF DueSteps
<1> QED  BY <1>6

\* Among the records from a position on, the one at that position is first.
LEMMA FirstIs ==
    ASSUME RanksAreNumbers, NEW in, Records(in), NEW key, Comparable(in, key),
           NEW n \in 1..Len(in)
    PROVE  LET s == {i \in DOMAIN in : ~(Position(in, i, key) < n)}
           IN  /\ FirstOf(in, s, key) \in DOMAIN in
               /\ Position(in, FirstOf(in, s, key), key) = n
<1> DEFINE P(i) == Position(in, i, key)
           s == {i \in DOMAIN in : ~(P(i) < n)}
           First(i) == i \in s /\ \A j \in s \ {i} : Earlier(in, i, j, key)
<1>0. /\ Len(in) \in Nat
      /\ \A i \in DOMAIN in : P(i) \in 1..Len(in)
      /\ \A i, j \in DOMAIN in : Earlier(in, i, j, key) <=> P(i) < P(j)
      /\ \A i, j \in DOMAIN in : P(i) = P(j) => i = j
  <2>1. Len(in) \in Nat
    BY DEF Records
  <2> QED  BY <2>1, PositionsOrdered, PositionsOnto
<1>1. PICK k \in DOMAIN in : P(k) = n
  BY PositionsOnto
<1> HIDE DEF P
<1>2. First(k)
  <2>1. ASSUME NEW j \in s \ {k}
        PROVE  Earlier(in, k, j, key)
    <3>1. P(j) # n
      BY <1>0, <1>1
    <3>2. P(k) < P(j)
      BY <1>0, <1>1, <3>1
    <3> QED  BY <1>0, <3>2
  <2>2. k \in s
    BY <1>0, <1>1
  <2> QED  BY <2>1, <2>2
<1>3. ASSUME NEW i, First(i)
      PROVE  i = k
  <2>1. i \in DOMAIN in /\ k \in DOMAIN in
    BY <1>3
  <2>2. SUFFICES ASSUME i # k PROVE FALSE
    OBVIOUS
  <2>3. Earlier(in, i, k, key) /\ Earlier(in, k, i, key)
    BY <1>2, <1>3, <2>2
  <2> QED  BY <1>0, <2>1, <2>3
<1>4. FirstOf(in, s, key) = k
  <2>1. FirstOf(in, s, key) = CHOOSE i : First(i)
    BY DEF FirstOf
  <2> HIDE DEF First
  <2> QED  BY <1>2, <1>3, <2>1
<1>5. /\ FirstOf(in, s, key) \in DOMAIN in
      /\ P(FirstOf(in, s, key)) = n
  BY <1>1, <1>4
<1> QED  BY <1>5 DEF P

\* The records that are due first are those at the first positions,
LEMMA DueFirstAre ==
    ASSUME RanksAreNumbers, NEW in, Records(in), NEW key, Comparable(in, key),
           NEW n \in 0..Len(in)
    PROVE  DueFirst(in, n, key) =
              {i \in DOMAIN in : Position(in, i, key) < n + 1}
<1> DEFINE P(i) == Position(in, i, key)
           Upto(m) == {i \in DOMAIN in : P(i) < m + 1}
<1>0. /\ Len(in) \in Nat /\ n \in Nat
      /\ \A i \in DOMAIN in : P(i) \in 1..Len(in)
      /\ \A i, j \in DOMAIN in : P(i) = P(j) => i = j
  <2>1. Len(in) \in Nat
    BY DEF Records
  <2> QED  BY <2>1, PositionsOrdered, PositionsOnto
<1>1. PICK f : /\ f[0] = {} /\ f[n] = DueFirst(in, n, key)
               /\ \A i \in 1..n :
                     f[i] = f[i - 1] \cup
                        {FirstOf(in, DOMAIN in \ f[i - 1], key)}
  <2>1. n \in Nat
    BY <1>0
  <2>2. \E f : /\ f[0] = {} /\ f[n] = DueFirst(in, n, key)
               /\ \A i \in 1..n :
                     f[i] = f[i - 1] \cup
                        {FirstOf(in, DOMAIN in \ f[i - 1], key)}
    <3>1. \E f : DueSteps(f, in, n, key)
      BY ONLY <2>1, DueFirstIs, Zenon
    <3> QED  BY <3>1 DEF DueSteps
  <2> QED  BY ONLY <2>2
<1> DEFINE T == {m \in 0..n : f[m] = Upto(m)}
<1>2. 0 \in T
  <2>1. Upto(0) = {}
    <3> HIDE DEF P
    <3> QED  BY <1>0
  <2> QED  BY <1>0, <1>1, <2>1
<1>3. ASSUME NEW m \in 0..n, m \in T, m < n
      PROVE  m + 1 \in T
  <2> DEFINE l == m + 1
             s == {i \in DOMAIN in : ~(P(i) < l)}
             e == FirstOf(in, s, key)
  <2>1. l \in 1..Len(in) /\ l \in 1..n /\ l - 1 = m /\ f[m] = Upto(m)
    BY <1>0, <1>3
  <2>2. e \in DOMAIN in /\ P(e) = l
    <3> HIDE DEF l
    <3> QED  BY <2>1, FirstIs
  <2>3. DOMAIN in \ f[m] = s
    BY <2>1
  <2>4. f[l] = f[m] \cup {e}
    <3> HIDE DEF l, e, s
    <3>1. f[l] = f[l - 1] \cup {FirstOf(in, DOMAIN in \ f[l - 1], key)}
      BY <1>1, <2>1
    <3> QED  BY <2>1, <2>3, <3>1 DEF e
  <2> HIDE DEF e
  <2>5. \A i \in DOMAIN in : P(i) < l + 1 <=> P(i) < l \/ i = e
    <3> HIDE DEF P
    <3> QED  BY <1>0, <2>1, <2>2
  <2>6. f[l] = Upto(l)
    <3> HIDE DEF P
    <3> QED  BY <2>1, <2>2, <2>4, <2>5
  <2>7. l \in 0..n
    BY <2>1
  <2> QED  BY <2>6, <2>7
<1> HIDE DEF T
<1>4. \A m \in 0..n : m \in T
  BY <1>0, <1>2, <1>3, UpTo
<1>5. n \in T
  BY <1>0, <1>4
<1>6. f[n] = Upto(n)
  BY <1>5 DEF T
<1> QED  BY <1>1, <1>6

\* so that the n-th to be due is the one at position n.
LEMMA DueIs ==
    ASSUME RanksAreNumbers, NEW in, Records(in), NEW key, Comparable(in, key),
           NEW n \in 1..Len(in)
    PROVE  Due(in, n, key) \in DOMAIN in
              /\ Position(in, Due(in, n, key), key) = n
<1> DEFINE m == n - 1
           s == {i \in DOMAIN in : ~(Position(in, i, key) < n)}
<1>1. m \in 0..Len(in) /\ m + 1 = n
  BY DEF Records
<1> HIDE DEF m
<1>2. DueFirst(in, m, key) = {i \in DOMAIN in : Position(in, i, key) < m + 1}
  BY <1>1, DueFirstAre
<1>3. DOMAIN in \ DueFirst(in, m, key) = s
  BY <1>1, <1>2
<1>4. Due(in, n, key) = FirstOf(in, s, key)
  BY <1>3 DEF Due, m
<1> HIDE DEF s
<1>5. /\ FirstOf(in, s, key) \in DOMAIN in
      /\ Position(in, FirstOf(in, s, key), key) = n
  BY FirstIs DEF s
<1> QED  BY <1>4, <1>5

-----------------------------------------------------------------------------
\* What a SORT holds for its OUTPUT procedure,
Sorted(in, key) == IF key.given THEN SortedBy(in, key) ELSE in

\* is the released records, each once, in the order in which they are due.
LEMMA SortedIsDue ==
    ASSUME RanksAreNumbers, NEW S, NEW in \in Seq(S), NEW key,
           Comparable(in, key)
    PROVE  /\ Sorted(in, key) \in Seq(S)
           /\ Len(Sorted(in, key)) = Len(in)
           /\ \A n \in 1..Len(in) : Sorted(in, key)[n] = in[Due(in, n, key)]
<1>0. /\ Records(in) /\ DOMAIN in = 1..Len(in) /\ Len(in) \in Nat
      /\ \A i \in DOMAIN in : in[i] \in S
  BY DEF Records
<1>1. ASSUME NEW n \in 1..Len(in)
      PROVE  Due(in, n, key) \in DOMAIN in
                /\ Position(in, Due(in, n, key), key) = n
  BY <1>0, DueIs
<1>2. CASE ~key.given
  <2>1. ASSUME NEW i \in DOMAIN in
        PROVE  Position(in, i, key) = i
    <3> DEFINE m == i - 1
    <3>1. Ahead(in, i, key) = 1..m
      BY <1>0, <1>2 DEF Ahead, Earlier
    <3>2. 1 \in Int /\ m \in Int /\ m + 1 = i /\ m >= 0
      BY <1>0
    <3> HIDE DEF m
    <3>3. Cardinality(1..m) = IF 1 > m THEN 0 ELSE m - 1 + 1
      BY <3>2, FS_Interval
    <3> QED  BY <3>1, <3>2, <3>3 DEF Position
  <2> QED  BY <1>0, <1>1, <1>2, <2>1 DEF Sorted
<1>3. CASE key.given
  <2> DEFINE At1(n) == CHOOSE i \in DOMAIN in : Place(in, i, key) = n
  <2>1. \A i \in DOMAIN in : Place(in, i, key) = Position(in, i, key)
    BY <1>3 DEF Place, Position, Ahead, Earlier
  <2>2. ASSUME NEW n \in 1..Len(in)
        PROVE  At1(n) = Due(in, n, key)
    <3>1. /\ Due(in, n, key) \in DOMAIN in
          /\ Place(in, Due(in, n, key), key) = n
      BY <1>1, <2>1
    <3>2. At1(n) \in DOMAIN in /\ Place(in, At1(n), key) = n
      BY <3>1
    <3> HIDE DEF At1
    <3>3. Position(in, At1(n), key) = Position(in, Due(in, n, key), key)
      BY <1>1, <2>1, <3>2
    <3> QED  BY <1>0, <3>1, <3>2, <3>3, PositionsOnto
  <2>3. Sorted(in, key) = [n \in 1..Len(in) |-> in[At1(n)]]
    BY <1>0, <1>3 DEF Sorted, SortedBy
  <2> HIDE DEF At1
  <2>4. Sorted(in, key) = [n \in 1..Len(in) |-> in[Due(in, n, key)]]
    BY <2>2, <2>3
  <2>5. \A n \in 1..Len(in) : in[Due(in, n, key)] \in S
    BY <1>0, <1>1
  <2> QED  BY <1>0, <2>4, <2>5
<1> QED  BY <1>2, <1>3

-----------------------------------------------------------------------------
\* The bytes of cells.  A store has byte sequences in the cells K.
Stores(c, K, B) == \A k \in K : c[k] \in Seq(B)

\* The sums that Total is the last of.
Sums(f, c, ks) == /\ f \in [0..Len(ks) -> Nat]
                  /\ f[0] = 0
                  /\ \A i \in 1..Len(ks) : f[i] = f[i - 1] + Len(c[ks[i]])

\* There are such sums,
LEMMA TotalIs ==
    ASSUME NEW K, NEW B, NEW c, Stores(c, K, B), NEW ks \in Seq(K)
    PROVE  \E f : Sums(f, c, ks) /\ f[Len(ks)] = Total(c, ks)
<1> DEFINE n == Len(ks)
           G == [s \in Nat |-> [i \in 1..n |-> s + Len(c[ks[i]])]]
           Is(f) == f = [i \in 0..n |->
                           IF i = 0 THEN 0 ELSE f[i - 1] + Len(c[ks[i]])]
           F == CHOOSE f : Is(f)
<1>0. n \in Nat /\ \A i \in 1..n : Len(c[ks[i]]) \in Nat
  BY DEF Stores
<1>1. Total(c, ks) = F[n]
  BY DEF Total
<1> HIDE DEF n
<1>2. G \in Steppers(n, Nat)
  BY <1>0 DEF Steppers
<1>3. \A s \in Nat, i \in 1..n : G[s][i] = s + Len(c[ks[i]])
  OBVIOUS
<1> HIDE DEF G
<1>4. PICK f \in [0..n -> Nat] :
         f[0] = 0 /\ \A i \in 1..n : f[i] = G[f[i - 1]][i]
  <2> DEFINE b == 0
             X == Nat
  <2>1. n \in Nat /\ b \in X /\ G \in Steppers(n, X)
    BY <1>0, <1>2
  <2> HIDE DEF b, X
  <2>2. PICK f : Stepped(n, X, b, G, f)
    BY ONLY <2>1, StepsExist, Zenon
  <2> QED  BY <2>2 DEF Stepped, b, X
<1>5. ASSUME NEW i \in 0..n
      PROVE  f[i] = IF i = 0 THEN 0 ELSE f[i - 1] + Len(c[ks[i]])
  <2>1. CASE i = 0
    BY <1>4, <2>1
  <2>2. CASE i # 0
    <3>1. i \in 1..n /\ i - 1 \in 0..n
      BY <1>0, <2>2
    <3>2. f[i - 1] \in Nat
      BY <3>1
    <3> QED  BY <1>3, <1>4, <2>2, <3>1, <3>2
  <2> QED  BY <2>1, <2>2
<1>6. Is(f)
  BY <1>5
<1>7. Is(F)
  <2> HIDE DEF Is
  <2> QED  BY <1>6
<1> HIDE DEF F
<1>8. \A i \in 0..n : F[i] = IF i = 0 THEN 0 ELSE F[i - 1] + Len(c[ks[i]])
  BY <1>7
<1>9. DOMAIN F = 0..n /\ F = [i \in 0..n |-> F[i]]
  BY <1>7
<1> HIDE DEF Is
<1> DEFINE T == {i \in 0..n : F[i] \in Nat}
<1>10. \A i \in 0..n : i \in T
  <2>1. 0 \in T
    BY <1>0, <1>8
  <2>2. ASSUME NEW i \in 0..n, i \in T, i < n
        PROVE  i + 1 \in T
    <3>1. i + 1 \in 1..n /\ i + 1 \in 0..n /\ i + 1 # 0 /\ (i + 1) - 1 = i
      BY <1>0, <2>2
    <3>2. F[i + 1] = F[i] + Len(c[ks[i + 1]])
      BY <1>8, <3>1
    <3> QED  BY <1>0, <2>2, <3>1, <3>2
  <2> HIDE DEF T
  <2> QED  BY <1>0, <2>1, <2>2, UpTo
<1>11. F \in [0..n -> Nat]
  BY <1>9, <1>10
<1>12. F[0] = 0
  BY <1>0, <1>8
<1>13. ASSUME NEW i \in 1..n
       PROVE  F[i] = F[i - 1] + Len(c[ks[i]])
  <2>1. i \in 0..n /\ i # 0
    BY <1>0
  <2> QED  BY <1>8, <2>1
<1> HIDE DEF T
<1>14. Sums(F, c, ks)
  BY <1>11, <1>12, <1>13 DEF Sums, n
<1> QED  BY <1>1, <1>14 DEF n

\* only one sequence of them,
LEMMA SumsAgree ==
    ASSUME NEW c, NEW ks, NEW js, NEW f, NEW g, Sums(f, c, ks), Sums(g, c, js),
           Len(js) \in Nat, Len(ks) \in Nat, Len(js) <= Len(ks),
           \A i \in 1..Len(js) : js[i] = ks[i]
    PROVE  \A i \in 0..Len(js) : g[i] = f[i]
<1> DEFINE n == Len(js)
           T == {i \in 0..n : g[i] = f[i]}
<1>1. 0 \in T
  BY DEF Sums
<1>2. ASSUME NEW i \in 0..n, i \in T, i < n
      PROVE  i + 1 \in T
  <2> DEFINE l == i + 1
  <2>1. l \in 1..n /\ l \in 1..Len(ks) /\ l \in 0..n /\ l - 1 = i
    BY <1>2
  <2> HIDE DEF l
  <2>2. g[l] = g[l - 1] + Len(c[js[l]]) /\ f[l] = f[l - 1] + Len(c[ks[l]])
    BY <2>1 DEF Sums
  <2>3. l \in T
    BY <1>2, <2>1, <2>2
  <2> QED  BY <2>3 DEF l
<1>3. n \in Nat
  OBVIOUS
<1> HIDE DEF T
<1>4. \A i \in 0..n : i \in T
  BY <1>1, <1>2, <1>3, UpTo
<1> QED  BY <1>4 DEF T

\* and so the lengths up to the m-th cell add up.
Cut(c, ks, m) == Total(c, SubSeq(ks, 1, m))

\* They are natural numbers, the last of them the length of all cells.
LEMMA Cuts ==
    ASSUME NEW K, NEW B, NEW c, Stores(c, K, B), NEW ks \in Seq(K)
    PROVE  /\ \A m \in 0..Len(ks) : Cut(c, ks, m) \in Nat
           /\ Cut(c, ks, 0) = 0
           /\ Cut(c, ks, Len(ks)) = Total(c, ks)
           /\ \A m \in 1..Len(ks) :
                 Cut(c, ks, m) = Cut(c, ks, m - 1) + Len(c[ks[m]])
<1>0. Len(ks) \in Nat
  OBVIOUS
<1>1. PICK f : Sums(f, c, ks) /\ f[Len(ks)] = Total(c, ks)
  BY TotalIs
<1>2. ASSUME NEW m \in 0..Len(ks)
      PROVE  Cut(c, ks, m) = f[m]
  <2> DEFINE js == SubSeq(ks, 1, m)
  <2>1. /\ js \in Seq(K) /\ Len(js) = m
        /\ \A i \in 1..Len(js) : js[i] = ks[i]
    OBVIOUS
  <2> HIDE DEF js
  <2>2. PICK g : Sums(g, c, js) /\ g[Len(js)] = Total(c, js)
    BY <2>1, TotalIs
  <2>3. Len(js) \in Nat /\ Len(js) <= Len(ks) /\ m \in 0..Len(js)
    BY <2>1
  <2>4. \A i \in 0..Len(js) : g[i] = f[i]
    BY <1>0, <1>1, <2>1, <2>2, <2>3, SumsAgree
  <2>5. Total(c, js) = f[m]
    BY <2>1, <2>2, <2>3, <2>4
  <2> QED  BY <2>5 DEF Cut, js
<1>3. \A m \in 0..Len(ks) : f[m] \in Nat
  BY <1>1 DEF Sums
<1>4. ASSUME NEW m \in 1..Len(ks)
      PROVE  Cut(c, ks, m) = Cut(c, ks, m - 1) + Len(c[ks[m]])
  <2>1. m \in 0..Len(ks) /\ m - 1 \in 0..Len(ks)
    OBVIOUS
  <2>2. f[m] = f[m - 1] + Len(c[ks[m]])
    BY <1>1 DEF Sums
  <2> QED  BY <1>2, <2>1, <2>2
<1>5. Cut(c, ks, 0) = 0 /\ Cut(c, ks, Len(ks)) = Total(c, ks)
  <2>1. 0 \in 0..Len(ks) /\ Len(ks) \in 0..Len(ks)
    BY <1>0
  <2> QED  BY <1>1, <1>2, <2>1 DEF Sums
<1> QED  BY <1>2, <1>3, <1>4, <1>5

\* A cell lies within the bytes of all.
LEMMA CutsGrow ==
    ASSUME NEW K, NEW B, NEW c, Stores(c, K, B), NEW ks \in Seq(K)
    PROVE  \A m \in 0..Len(ks) : Cut(c, ks, m) <= Total(c, ks)
<1> DEFINE n == Len(ks)
           T == {j \in 0..n : Cut(c, ks, n - j) <= Total(c, ks)}
<1>0. n \in Nat
  OBVIOUS
<1>1. /\ \A m \in 0..n : Cut(c, ks, m) \in Nat
      /\ Cut(c, ks, n) = Total(c, ks)
      /\ \A m \in 1..n : Cut(c, ks, m) = Cut(c, ks, m - 1) + Len(c[ks[m]])
      /\ \A m \in 1..n : Len(c[ks[m]]) \in Nat
  <2>1. \A m \in 1..n : Len(c[ks[m]]) \in Nat
    BY DEF Stores
  <2> QED  BY <2>1, Cuts
<1> HIDE DEF n
<1>2. 0 \in T
  <2>1. n - 0 = n /\ n \in 0..n
    BY <1>0
  <2>2. Cut(c, ks, n - 0) = Total(c, ks) /\ Total(c, ks) \in Nat
    BY <1>1, <2>1
  <2> QED  BY <1>0, <2>2
<1>3. ASSUME NEW j \in 0..n, j \in T, j < n
      PROVE  j + 1 \in T
  <2> DEFINE m == n - j
             l == n - (j + 1)
  <2>1. m \in 1..n /\ m \in 0..n /\ l = m - 1 /\ l \in 0..n /\ n \in 0..n
    BY <1>0, <1>3
  <2>2. Cut(c, ks, m) <= Total(c, ks)
    BY <1>3
  <2> HIDE DEF m
  <2>3. /\ Cut(c, ks, m) = Cut(c, ks, m - 1) + Len(c[ks[m]])
        /\ Cut(c, ks, m) \in Nat /\ Cut(c, ks, m - 1) \in Nat
        /\ Len(c[ks[m]]) \in Nat /\ Total(c, ks) \in Nat
    <3>1. m - 1 \in 0..n
      BY <2>1
    <3> QED  BY <1>1, <2>1, <3>1
  <2>4. Cut(c, ks, m - 1) <= Total(c, ks)
    BY <2>2, <2>3
  <2>5. Cut(c, ks, l) <= Total(c, ks) /\ j + 1 \in 0..n
    BY <1>0, <1>3, <2>1, <2>4
  <2> QED  BY <2>5
<1> HIDE DEF T
<1>4. \A j \in 0..n : j \in T
  BY <1>0, <1>2, <1>3, UpTo
<1>5. ASSUME NEW m \in 0..n
      PROVE  Cut(c, ks, m) <= Total(c, ks)
  <2>1. n - m \in 0..n /\ n - (n - m) = m
    BY <1>0
  <2>2. n - m \in T
    BY <1>4, <2>1
  <2> QED  BY <2>1, <2>2 DEF T
<1> QED  BY <1>5 DEF n

-----------------------------------------------------------------------------
\* The prefixes that Read is the last of.
Prefixes(f, c, ks, B) == /\ f \in [0..Len(ks) -> Seq(B)]
                         /\ f[0] = <<>>
                         /\ \A i \in 1..Len(ks) : f[i] = f[i - 1] \o c[ks[i]]

\* There are such prefixes,
LEMMA ReadIs ==
    ASSUME NEW K, NEW B, NEW c, Stores(c, K, B), NEW ks \in Seq(K)
    PROVE  \E f : Prefixes(f, c, ks, B) /\ f[Len(ks)] = Read(c, ks)
<1> DEFINE n == Len(ks)
           X == Seq(B)
           G == [s \in X |-> [i \in 1..n |-> s \o c[ks[i]]]]
           Is(f) == f = [i \in 0..n |->
                           IF i = 0 THEN <<>> ELSE f[i - 1] \o c[ks[i]]]
           F == CHOOSE f : Is(f)
           b == <<>>
<1>0. n \in Nat /\ \A i \in 1..n : c[ks[i]] \in X
  BY DEF Stores
<1>1. Read(c, ks) = F[n]
  BY DEF Read
<1>2. \A s \in X, i \in 1..n : s \o c[ks[i]] \in X
  BY <1>0
<1>3. b \in X
  OBVIOUS
<1> HIDE DEF n, X, b
<1>4. G \in Steppers(n, X)
  BY <1>2 DEF Steppers
<1>5. \A s \in X, i \in 1..n : G[s][i] = s \o c[ks[i]]
  OBVIOUS
<1> HIDE DEF G
<1>6. PICK f : Stepped(n, X, b, G, f)
  BY ONLY <1>0, <1>3, <1>4, StepsExist, Zenon
<1>7. /\ f \in [0..n -> X] /\ f[0] = b
      /\ \A i \in 1..n : f[i] = f[i - 1] \o c[ks[i]]
  <2>1. ASSUME NEW i \in 1..n
        PROVE  f[i] = f[i - 1] \o c[ks[i]]
    <3>1. i - 1 \in 0..n
      BY <1>0
    <3>2. f[i - 1] \in X
      BY <1>6, <3>1 DEF Stepped
    <3> QED  BY <1>5, <1>6, <3>2 DEF Stepped
  <2> QED  BY <1>6, <2>1 DEF Stepped
<1>8. \A i \in 0..n : f[i] = IF i = 0 THEN <<>> ELSE f[i - 1] \o c[ks[i]]
  <2>1. ASSUME NEW i \in 0..n, i # 0
        PROVE  i \in 1..n
    BY <1>0, <2>1
  <2> QED  BY <1>7, <2>1 DEF b
<1>9. Is(f)
  BY <1>7, <1>8
<1>10. Is(F)
  <2> HIDE DEF Is
  <2> QED  BY <1>9
<1> HIDE DEF F
<1>11. /\ \A i \in 0..n : F[i] = IF i = 0 THEN <<>> ELSE F[i - 1] \o c[ks[i]]
       /\ DOMAIN F = 0..n /\ F = [i \in 0..n |-> F[i]]
  BY <1>10
<1> HIDE DEF Is
<1> DEFINE T == {i \in 0..n : F[i] \in X}
<1>12. \A i \in 0..n : i \in T
  <2>1. 0 \in T
    BY <1>0, <1>3, <1>11 DEF b
  <2>2. ASSUME NEW i \in 0..n, i \in T, i < n
        PROVE  i + 1 \in T
    <3> DEFINE l == i + 1
    <3>1. l \in 1..n /\ l \in 0..n /\ l # 0 /\ l - 1 = i
      BY <1>0, <2>2
    <3> HIDE DEF l
    <3>2. F[l] = F[l - 1] \o c[ks[l]]
      BY <1>11, <3>1
    <3>3. F[l] \in X
      BY <1>2, <2>2, <3>1, <3>2
    <3> QED  BY <3>1, <3>3 DEF l
  <2> HIDE DEF T
  <2> QED  BY <1>0, <2>1, <2>2, UpTo
<1>13. F \in [0..n -> X]
  BY <1>11, <1>12
<1>14. F[0] = <<>>
  BY <1>0, <1>11
<1>15. ASSUME NEW i \in 1..n
       PROVE  F[i] = F[i - 1] \o c[ks[i]]
  <2>1. i \in 0..n /\ i # 0
    BY <1>0
  <2> QED  BY <1>11, <2>1
<1> HIDE DEF T
<1>16. Prefixes(F, c, ks, B)
  BY <1>13, <1>14, <1>15 DEF Prefixes, n, X
<1> QED  BY <1>1, <1>16 DEF n

\* only one sequence of them,
LEMMA PrefixesAgree ==
    ASSUME NEW c, NEW ks, NEW js, NEW B, NEW f, NEW g,
           Prefixes(f, c, ks, B), Prefixes(g, c, js, B),
           Len(js) \in Nat, Len(ks) \in Nat, Len(js) <= Len(ks),
           \A i \in 1..Len(js) : js[i] = ks[i]
    PROVE  \A i \in 0..Len(js) : g[i] = f[i]
<1> DEFINE n == Len(js)
           T == {i \in 0..n : g[i] = f[i]}
<1>1. 0 \in T
  BY DEF Prefixes
<1>2. ASSUME NEW i \in 0..n, i \in T, i < n
      PROVE  i + 1 \in T
  <2> DEFINE l == i + 1
  <2>1. l \in 1..n /\ l \in 1..Len(ks) /\ l \in 0..n /\ l - 1 = i
    BY <1>2
  <2> HIDE DEF l
  <2>2. g[l] = g[l - 1] \o c[js[l]] /\ f[l] = f[l - 1] \o c[ks[l]]
    BY <2>1 DEF Prefixes
  <2>3. l \in T
    BY <1>2, <2>1, <2>2
  <2> QED  BY <2>3 DEF l
<1>3. n \in Nat
  OBVIOUS
<1> HIDE DEF T
<1>4. \A i \in 0..n : i \in T
  BY <1>1, <1>2, <1>3, UpTo
<1> QED  BY <1>4 DEF T

\* and so the bytes up to the m-th cell are one after the other.
Joined(c, ks, m) == Read(c, SubSeq(ks, 1, m))

Joint(c, ks, B) ==
    /\ \A m \in 0..Len(ks) : Joined(c, ks, m) \in Seq(B)
    /\ Joined(c, ks, 0) = <<>>
    /\ Joined(c, ks, Len(ks)) = Read(c, ks)
    /\ \A m \in 1..Len(ks) :
          Joined(c, ks, m) = Joined(c, ks, m - 1) \o c[ks[m]]

\* They are sequences of bytes, the last of them those of all cells.
LEMMA Joins ==
    ASSUME NEW K, NEW B, NEW c, Stores(c, K, B), NEW ks \in Seq(K)
    PROVE  Joint(c, ks, B)
<1>0. Len(ks) \in Nat
  OBVIOUS
<1>1. PICK f : Prefixes(f, c, ks, B) /\ f[Len(ks)] = Read(c, ks)
  BY ReadIs
<1>2. ASSUME NEW m \in 0..Len(ks)
      PROVE  Joined(c, ks, m) = f[m]
  <2> DEFINE js == SubSeq(ks, 1, m)
  <2>1. /\ js \in Seq(K) /\ Len(js) = m
        /\ \A i \in 1..Len(js) : js[i] = ks[i]
    OBVIOUS
  <2> HIDE DEF js
  <2>2. PICK g : Prefixes(g, c, js, B) /\ g[Len(js)] = Read(c, js)
    BY <2>1, ReadIs
  <2>3. Len(js) \in Nat /\ Len(js) <= Len(ks) /\ m \in 0..Len(js)
    BY <2>1
  <2>4. \A i \in 0..Len(js) : g[i] = f[i]
    BY <1>0, <1>1, <2>1, <2>2, <2>3, PrefixesAgree
  <2>5. Read(c, js) = f[m]
    BY <2>1, <2>2, <2>3, <2>4
  <2> QED  BY <2>5 DEF Joined, js
<1>3. \A m \in 0..Len(ks) : f[m] \in Seq(B)
  BY <1>1 DEF Prefixes
<1>4. ASSUME NEW m \in 1..Len(ks)
      PROVE  Joined(c, ks, m) = Joined(c, ks, m - 1) \o c[ks[m]]
  <2>1. m \in 0..Len(ks) /\ m - 1 \in 0..Len(ks)
    OBVIOUS
  <2>2. f[m] = f[m - 1] \o c[ks[m]]
    BY <1>1 DEF Prefixes
  <2> QED  BY <1>2, <2>1, <2>2
<1>5. Joined(c, ks, 0) = <<>> /\ Joined(c, ks, Len(ks)) = Read(c, ks)
  <2>1. 0 \in 0..Len(ks) /\ Len(ks) \in 0..Len(ks)
    BY <1>0
  <2> QED  BY <1>1, <1>2, <2>1 DEF Prefixes
<1> QED  BY <1>2, <1>3, <1>4, <1>5 DEF Joint

-----------------------------------------------------------------------------
\* A list of cells, each once.
CellList(ks, K) == /\ ks \in Seq(K)
                   /\ \A i, j \in DOMAIN ks : ks[i] = ks[j] => i = j

\* normalize_record_bytes gives as many bytes as asked for.
LEMMA NormalizedIs ==
    ASSUME NEW B, Blank \in B, NEW b \in Seq(B), NEW len \in Nat
    PROVE  Normalized(b, len) \in Seq(B) /\ Len(Normalized(b, len)) = len
<1>1. \A i \in 1..len : (IF i <= Len(b) THEN b[i] ELSE Blank) \in B
  OBVIOUS
<1>2. Normalized(b, len) \in [1..len -> B]
  BY <1>1 DEF Normalized
<1>3. Normalized(b, len) \in Seq(B)
  BY <1>2
<1>4. DOMAIN Normalized(b, len) = 1..len
  BY <1>2
<1> QED  BY <1>3, <1>4

\* What a write leaves: each cell of the list has its part of the bytes, and
\* the others are as they were.
Wrote(w, all, c, ks, B) ==
    /\ DOMAIN w = DOMAIN c
    /\ \A k \in DOMAIN c : (\A i \in DOMAIN ks : ks[i] # k) => w[k] = c[k]
    /\ \A i \in DOMAIN ks : ks[i] \in DOMAIN c =>
          /\ w[ks[i]] \in Seq(B)
          /\ Len(w[ks[i]]) = Len(c[ks[i]])
          /\ w[ks[i]] = SubSeq(all, Cut(c, ks, i - 1) + 1,
                              Cut(c, ks, i - 1) + Len(c[ks[i]]))

\* That is what Written does.
LEMMA WrittenIs ==
    ASSUME NEW K, NEW B, Blank \in B, NEW c, Stores(c, K, B),
           NEW ks, CellList(ks, K), NEW b \in Seq(B)
    PROVE  Wrote(Written(c, ks, b), Normalized(b, Total(c, ks)), c, ks, B)
<1> DEFINE w   == Written(c, ks, b)
           all == Normalized(b, Total(c, ks))
           Part(i) == SubSeq(all, Cut(c, ks, i - 1) + 1,
                             Cut(c, ks, i - 1) + Len(c[ks[i]]))
<1>1. w = [k \in DOMAIN c |->
             IF \E i \in DOMAIN ks : ks[i] = k
             THEN Part(CHOOSE i \in DOMAIN ks : ks[i] = k) ELSE c[k]]
  BY DEF Written, Cut
<1>2. ks \in Seq(K) /\ \A i, j \in DOMAIN ks : ks[i] = ks[j] => i = j
  BY DEF CellList
<1>3. /\ \A m \in 0..Len(ks) : Cut(c, ks, m) \in Nat
      /\ Cut(c, ks, Len(ks)) = Total(c, ks)
      /\ \A m \in 1..Len(ks) :
            Cut(c, ks, m) = Cut(c, ks, m - 1) + Len(c[ks[m]])
      /\ \A m \in 0..Len(ks) : Cut(c, ks, m) <= Total(c, ks)
  BY <1>2, Cuts, CutsGrow
<1>4. all \in Seq(B) /\ Len(all) = Total(c, ks)
  <2>1. Total(c, ks) \in Nat
    BY <1>2, <1>3
  <2> QED  BY <2>1, NormalizedIs
<1>5. ASSUME NEW i \in DOMAIN ks
      PROVE  Part(i) \in Seq(B) /\ Len(Part(i)) = Len(c[ks[i]])
  <2> DEFINE at == Cut(c, ks, i - 1)
             l  == Len(c[ks[i]])
             t  == Total(c, ks)
  <2>1. i \in 1..Len(ks) /\ i \in 0..Len(ks) /\ i - 1 \in 0..Len(ks)
    BY <1>2
  <2>2. l \in Nat
    BY <1>2, <2>1 DEF Stores
  <2>3. at \in Nat /\ t \in Nat /\ at + l <= t
    <3>1. Cut(c, ks, i) = at + l /\ Cut(c, ks, i) <= t
      BY <1>3, <2>1
    <3> QED  BY <1>3, <1>2, <2>1, <3>1
  <2> HIDE DEF all, at, l, t
  <2>4. \A x \in (at + 1)..(at + l) : all[x] \in B
    BY <1>4, <2>2, <2>3 DEF t
  <2>5. SubSeq(all, at + 1, at + l) \in Seq(B)
    BY <1>4, <2>2, <2>3, <2>4 DEF t
  <2>6. Len(SubSeq(all, at + 1, at + l)) = l
    BY <1>4, <2>2, <2>3 DEF t
  <2> QED  BY <2>5, <2>6 DEF at, l
<1> HIDE DEF w, all, Part
<1>6. ASSUME NEW i \in DOMAIN ks, ks[i] \in DOMAIN c
      PROVE  w[ks[i]] = Part(i)
  <2> DEFINE j == CHOOSE j \in DOMAIN ks : ks[j] = ks[i]
  <2>1. j = i
    BY <1>2
  <2> HIDE DEF j
  <2>2. w[ks[i]] = Part(j)
    BY <1>1, <1>6 DEF j
  <2> QED  BY <2>1, <2>2
<1>7. DOMAIN w = DOMAIN c
  BY <1>1
<1>8. \A k \in DOMAIN c : (\A i \in DOMAIN ks : ks[i] # k) => w[k] = c[k]
  BY <1>1
<1>9. Wrote(w, all, c, ks, B)
  BY <1>5, <1>6, <1>7, <1>8 DEF Wrote, Part
<1> QED  BY <1>9 DEF w, all

\* Two neighbouring parts of a sequence.
LEMMA PartsJoin ==
    ASSUME NEW B, NEW s \in Seq(B), NEW a \in Nat, NEW l \in Nat,
           a + l <= Len(s)
    PROVE  SubSeq(s, 1, a) \o SubSeq(s, a + 1, a + l) = SubSeq(s, 1, a + l)
<1> DEFINE p == SubSeq(s, 1, a)
           q == SubSeq(s, a + 1, a + l)
           r == SubSeq(s, 1, a + l)
<1>1. /\ p \in Seq(B) /\ Len(p) = a /\ \A i \in 1..a : p[i] = s[i]
      /\ q \in Seq(B) /\ Len(q) = l /\ \A i \in 1..l : q[i] = s[a + i]
      /\ r \in Seq(B) /\ Len(r) = a + l /\ \A i \in 1..(a + l) : r[i] = s[i]
  <2>1. p \in Seq(B) /\ Len(p) = a /\ \A i \in 1..a : p[i] = s[i]
    OBVIOUS
  <2>2. r \in Seq(B) /\ Len(r) = a + l /\ \A i \in 1..(a + l) : r[i] = s[i]
    OBVIOUS
  <2>3. q \in Seq(B)
    <3>1. \A i \in (a + 1)..(a + l) : s[i] \in B
      OBVIOUS
    <3> QED  BY <3>1
  <2>4. Len(q) = l
    OBVIOUS
  <2>5. ASSUME NEW i \in 1..l
        PROVE  q[i] = s[a + i]
    <3>1. q[i] = s[a + 1 + i - 1]
      OBVIOUS
    <3>2. a + 1 + i - 1 = a + i
      OBVIOUS
    <3> QED  BY <3>1, <3>2
  <2> QED  BY <2>1, <2>2, <2>3, <2>4, <2>5
<1> HIDE DEF p, q, r
<1>2. /\ p \o q \in Seq(B) /\ Len(p \o q) = a + l
      /\ \A i \in 1..(a + l) :
            (p \o q)[i] = IF i <= a THEN p[i] ELSE q[i - a]
  <2>1. p \in Seq(B) /\ q \in Seq(B) /\ Len(p) = a /\ Len(q) = l
    BY <1>1
  <2>2. p \o q \in Seq(B) /\ Len(p \o q) = a + l
    BY <2>1
  <2>3. ASSUME NEW i \in 1..(a + l)
        PROVE  (p \o q)[i] = IF i <= a THEN p[i] ELSE q[i - a]
    BY <2>1
  <2> QED  BY <2>2, <2>3
<1>3. ASSUME NEW i \in 1..(a + l)
      PROVE  (p \o q)[i] = r[i]
  <2>1. CASE i <= a
    BY <1>1, <1>2, <2>1
  <2>2. CASE ~(i <= a)
    <3>1. i - a \in 1..l /\ a + (i - a) = i
      BY <2>2
    <3>2. q[i - a] = s[i]
      BY <1>1, <3>1
    <3> QED  BY <1>1, <1>2, <2>2, <3>2
  <2> QED  BY <2>1, <2>2
<1>4. p \o q = r
  BY <1>1, <1>2, <1>3
<1> QED  BY <1>4 DEF p, q, r

\* A store with cells of the same lengths.
SameShape(w, c, K, B) == /\ DOMAIN w = K /\ Stores(w, K, B)
                         /\ \A k \in K : Len(w[k]) = Len(c[k])

\* A write keeps the lengths of the cells,
LEMMA WrittenStores ==
    ASSUME NEW K, NEW B, Blank \in B, NEW c, Stores(c, K, B), DOMAIN c = K,
           NEW ks, CellList(ks, K), NEW b \in Seq(B)
    PROVE  SameShape(Written(c, ks, b), c, K, B)
<1> DEFINE w == Written(c, ks, b)
<1>1. /\ DOMAIN w = K
      /\ \A k \in K : (\A i \in DOMAIN ks : ks[i] # k) => w[k] = c[k]
      /\ \A i \in DOMAIN ks : ks[i] \in K =>
            w[ks[i]] \in Seq(B) /\ Len(w[ks[i]]) = Len(c[ks[i]])
  <2> DEFINE all == Normalized(b, Total(c, ks))
  <2>1. Wrote(w, all, c, ks, B)
    BY WrittenIs
  <2> HIDE DEF w, all
  <2> QED  BY <2>1 DEF Wrote
<1> HIDE DEF w
<1>2. ASSUME NEW k \in K
      PROVE  w[k] \in Seq(B) /\ Len(w[k]) = Len(c[k])
  <2>1. CASE \A i \in DOMAIN ks : ks[i] # k
    BY <1>1, <2>1 DEF Stores
  <2>2. CASE \E i \in DOMAIN ks : ks[i] = k
    BY <1>1, <2>2
  <2> QED  BY <2>1, <2>2
<1>3. SameShape(w, c, K, B)
  BY <1>1, <1>2 DEF SameShape, Stores
<1> QED  BY <1>3 DEF w

\* and the list then reads as what was written: the source, cut or filled.
LEMMA WriteRead ==
    ASSUME NEW K, NEW B, Blank \in B, NEW c, Stores(c, K, B), DOMAIN c = K,
           NEW ks, CellList(ks, K), NEW b \in Seq(B)
    PROVE  Read(Written(c, ks, b), ks) = Normalized(b, Total(c, ks))
<1> DEFINE w   == Written(c, ks, b)
           all == Normalized(b, Total(c, ks))
           n   == Len(ks)
           T   == {m \in 0..n : Joined(w, ks, m)
                                  = SubSeq(all, 1, Cut(c, ks, m))}
<1>1. Stores(w, K, B)
  BY WrittenStores DEF SameShape
<1>2. ks \in Seq(K) /\ n \in Nat
  BY DEF CellList
<1>3. /\ \A m \in 0..n : Cut(c, ks, m) \in Nat
      /\ Cut(c, ks, 0) = 0
      /\ Cut(c, ks, n) = Total(c, ks)
      /\ \A m \in 1..n : Cut(c, ks, m) = Cut(c, ks, m - 1) + Len(c[ks[m]])
      /\ \A m \in 0..n : Cut(c, ks, m) <= Total(c, ks)
  BY <1>2, Cuts, CutsGrow
<1>4. all \in Seq(B) /\ Len(all) = Total(c, ks)
  <2>1. Total(c, ks) \in Nat
    BY <1>2, <1>3
  <2> QED  BY <2>1, NormalizedIs
<1>5. \A m \in 1..n : w[ks[m]] = SubSeq(all, Cut(c, ks, m - 1) + 1,
                                   Cut(c, ks, m - 1) + Len(c[ks[m]]))
  <2>1. \A m \in 1..n : m \in DOMAIN ks /\ ks[m] \in DOMAIN c
    BY <1>2
  <2>2. Wrote(w, all, c, ks, B)
    BY WrittenIs
  <2> HIDE DEF w, all
  <2> QED  BY <2>1, <2>2 DEF Wrote
<1> HIDE DEF w, all
<1>6. /\ Joined(w, ks, 0) = <<>>
      /\ Joined(w, ks, n) = Read(w, ks)
      /\ \A m \in 1..n : Joined(w, ks, m) = Joined(w, ks, m - 1) \o w[ks[m]]
  <2>1. Joint(w, ks, B)
    BY <1>1, <1>2, Joins
  <2> QED  BY <2>1 DEF Joint
<1> HIDE DEF n
<1>7. 0 \in T
  <2>1. SubSeq(all, 1, 0) = <<>>
    BY <1>4
  <2>2. Joined(w, ks, 0) = SubSeq(all, 1, Cut(c, ks, 0))
    BY <1>3, <1>6, <2>1
  <2>3. 0 \in 0..n
    BY <1>2
  <2> QED  BY <2>2, <2>3
<1>8. ASSUME NEW i \in 0..n, i \in T, i < n
      PROVE  i + 1 \in T
  <2> DEFINE m == i + 1
             a == Cut(c, ks, i)
             l == Len(c[ks[m]])
  <2>1. m \in 1..n /\ m \in 0..n /\ m - 1 = i
    BY <1>2, <1>8
  <2>2. a \in Nat /\ Cut(c, ks, m) = a + l /\ a + l <= Len(all)
    <3> HIDE DEF m
    <3>1. Cut(c, ks, m) = a + l
      BY <1>3, <2>1
    <3>2. Cut(c, ks, m) <= Total(c, ks)
      BY <1>3, <2>1
    <3> QED  BY <1>3, <1>4, <3>1, <3>2
  <2>3. l \in Nat
    <3> HIDE DEF m
    <3> QED  BY <1>2, <2>1 DEF n, Stores
  <2> HIDE DEF m, a, l
  <2>4. Joined(w, ks, m) = Joined(w, ks, i) \o w[ks[m]]
    BY <1>6, <2>1
  <2>5. w[ks[m]] = SubSeq(all, a + 1, a + l)
    <3>1. w[ks[m]] = SubSeq(all, Cut(c, ks, m - 1) + 1,
                       Cut(c, ks, m - 1) + Len(c[ks[m]]))
      BY <1>5, <2>1
    <3> QED  BY <2>1, <3>1 DEF a, l
  <2>6. Joined(w, ks, i) = SubSeq(all, 1, a)
    BY <1>8 DEF a
  <2>7. SubSeq(all, 1, a) \o SubSeq(all, a + 1, a + l) = SubSeq(all, 1, a + l)
    BY <1>4, <2>2, <2>3, PartsJoin
  <2>8. Joined(w, ks, m) = SubSeq(all, 1, Cut(c, ks, m))
    BY <2>2, <2>4, <2>5, <2>6, <2>7
  <2>9. m \in T
    BY <2>1, <2>8
  <2> QED  BY <2>9 DEF m
<1> HIDE DEF T
<1>9. \A m \in 0..n : m \in T
  BY <1>2, <1>7, <1>8, UpTo
<1>10. n \in T
  BY <1>2, <1>9
<1>11. Joined(w, ks, n) = SubSeq(all, 1, Total(c, ks))
  BY <1>3, <1>10 DEF T
<1>12. SubSeq(all, 1, Len(all)) = all
  BY <1>4
<1>13. Read(w, ks) = all
  BY <1>4, <1>6, <1>11, <1>12
<1> QED  BY <1>13 DEF w, all

\* What a list reads as, and how long it is.
LEMMA ReadLength ==
    ASSUME NEW K, NEW B, NEW c, Stores(c, K, B), NEW ks \in Seq(K)
    PROVE  /\ Read(c, ks) \in Seq(B)
           /\ Total(c, ks) \in Nat
<1>1. Len(ks) \in 0..Len(ks)
  OBVIOUS
<1>2. Joint(c, ks, B)
  BY Joins
<1>3. Read(c, ks) \in Seq(B)
  BY <1>1, <1>2 DEF Joint
<1>4. Total(c, ks) \in Nat
  BY <1>1, Cuts
<1> QED  BY <1>3, <1>4

-----------------------------------------------------------------------------
(* Storage *)

Cells == DOMAIN InitialCells

\* What is bound by reference is a list of cells, none of them a number that
\* is only passed as a copy.
Shared(b) == CellList(b.at, Cells \ Unshared)

\* InitialCells is made of the items and of the temporaries of all programs.
LEMMA PartsOfCells ==
    /\ \A p \in Programs : /\ DOMAIN OwnCells(p) \subseteq Cells
                           /\ DOMAIN TempCells(p) \subseteq Cells
    /\ \A k \in Cells : \E p \in Programs :
          \/ k \in DOMAIN OwnCells(p) /\ InitialCells[k] = OwnCells(p)[k]
          \/ k \in DOMAIN TempCells(p) /\ InitialCells[k] = TempCells(p)[k]
<1> DEFINE parts == {OwnCells(p) : p \in Programs}
                       \cup {TempCells(p) : p \in Programs}
           Of(k) == CHOOSE f \in parts : k \in DOMAIN f
<1>1. InitialCells = [k \in UNION {DOMAIN f : f \in parts} |-> Of(k)[k]]
  BY DEF InitialCells
<1>2. \A p \in Programs : OwnCells(p) \in parts /\ TempCells(p) \in parts
  OBVIOUS
<1>3. \A f \in parts : \E p \in Programs :
         f = OwnCells(p) \/ f = TempCells(p)
  OBVIOUS
<1> HIDE DEF parts
<1>4. Cells = UNION {DOMAIN f : f \in parts}
  BY <1>1 DEF Cells
<1>5. ASSUME NEW k \in Cells
      PROVE  Of(k) \in parts /\ k \in DOMAIN Of(k)
                /\ InitialCells[k] = Of(k)[k]
  <2>1. \E f \in parts : k \in DOMAIN f
    BY <1>4
  <2>2. Of(k) \in parts /\ k \in DOMAIN Of(k)
    BY <2>1
  <2> HIDE DEF Of
  <2>3. InitialCells[k] = Of(k)[k]
    BY <1>1, <1>4
  <2> QED  BY <2>2, <2>3
<1> HIDE DEF Of
<1>6. ASSUME NEW p \in Programs
      PROVE  DOMAIN OwnCells(p) \subseteq Cells
                /\ DOMAIN TempCells(p) \subseteq Cells
  BY <1>2, <1>4
<1>7. ASSUME NEW k \in Cells
      PROVE  \E p \in Programs :
         \/ k \in DOMAIN OwnCells(p) /\ InitialCells[k] = OwnCells(p)[k]
         \/ k \in DOMAIN TempCells(p) /\ InitialCells[k] = TempCells(p)[k]
  BY <1>3, <1>5
<1> QED  BY <1>6, <1>7

\* An item's cell: its first byte is what is set at first,
LEMMA OwnCellIs ==
    ASSUME NEW p \in Programs, NEW k \in DOMAIN OwnCells(p)
    PROVE  \E n \in DOMAIN Items[p] :
              k = Key(p, n) /\ OwnCells(p)[k] = Items[p][n]
<1> DEFINE n == CHOOSE n \in DOMAIN Items[p] : Key(p, n) = k
<1>1. k \in {Key(p, m) : m \in DOMAIN Items[p]} /\ OwnCells(p)[k] = Items[p][n]
  BY DEF OwnCells
<1>2. n \in DOMAIN Items[p] /\ Key(p, n) = k
  BY <1>1
<1> QED  BY <1>1, <1>2

\* and a temporary's, which is blank.
LEMMA TempCellIs ==
    ASSUME NEW p \in Programs, NEW k \in DOMAIN TempCells(p)
    PROVE  \E c \in Calls[p] : \E i \in DOMAIN c.using :
              /\ NeedsTemp(p, c, i) /\ k = TempKey(p, c, i)
              /\ TempCells(p)[k]
                    = [j \in 1..Formals[c.target][i].len |-> Blank]
<1> DEFINE t == CHOOSE t \in Temps(p) : TempKey(p, t[1], t[2]) = k
<1>1. /\ k \in {TempKey(p, u[1], u[2]) : u \in Temps(p)}
      /\ TempCells(p)[k]
            = [j \in 1..Formals[t[1].target][t[2]].len |-> Blank]
  BY DEF TempCells
<1>2. t \in Temps(p) /\ TempKey(p, t[1], t[2]) = k
  BY <1>1
<1> HIDE DEF t
<1>3. PICK c \in Calls[p] :
         \E i \in {j \in DOMAIN c.using : NeedsTemp(p, c, j)} : t = <<c, i>>
  BY <1>2 DEF Temps
<1>4. PICK i \in DOMAIN c.using : NeedsTemp(p, c, i) /\ t = <<c, i>>
  BY <1>3
<1> QED  BY <1>1, <1>2, <1>4

\* The parameter that an argument is for.
LEMMA LiteralParameter ==
    ASSUME NEW p \in Programs, NEW c \in Calls[p], ~c.dynamic,
           NEW i \in DOMAIN c.using
    PROVE  c.target \in Programs /\ i \in DOMAIN Formals[c.target]
<1>1. /\ c.target \in Programs
      /\ Len(c.using) = Len(Formals[c.target])
      /\ IsSequence(c.using)
  BY CallAssumption
<1>2. IsSequence(Formals[c.target])
  BY <1>1, TextAssumption
<1>3. DOMAIN c.using = 1..Len(c.using)
  BY <1>1 DEF IsSequence
<1>4. DOMAIN Formals[c.target] = 1..Len(Formals[c.target])
  BY <1>2 DEF IsSequence
<1> QED  BY <1>1, <1>3, <1>4

\* All of them are sequences of bytes.
LEMMA InitialStores == Stores(InitialCells, Cells, CellBytes)
<1>1. Blank \in CellBytes
  BY DEF CellBytes
<1>2. ASSUME NEW k \in Cells
      PROVE  InitialCells[k] \in Seq(CellBytes)
  <2>1. PICK p \in Programs :
           \/ k \in DOMAIN OwnCells(p) /\ InitialCells[k] = OwnCells(p)[k]
           \/ k \in DOMAIN TempCells(p) /\ InitialCells[k] = TempCells(p)[k]
    BY PartsOfCells
  <2>2. CASE k \in DOMAIN OwnCells(p) /\ InitialCells[k] = OwnCells(p)[k]
    <3>1. PICK n \in DOMAIN Items[p] : OwnCells(p)[k] = Items[p][n]
      BY <2>2, OwnCellIs
    <3>2. Items[p][n] \in Seq(CellBytes)
      BY TextAssumption
    <3> QED  BY <2>2, <3>1, <3>2
  <2>3. CASE k \in DOMAIN TempCells(p) /\ InitialCells[k] = TempCells(p)[k]
    <3>0. PICK c \in Calls[p] : \E i \in DOMAIN c.using :
             /\ NeedsTemp(p, c, i)
             /\ TempCells(p)[k]
                   = [j \in 1..Formals[c.target][i].len |-> Blank]
      BY <2>3, TempCellIs
    <3>1. PICK i \in DOMAIN c.using :
             /\ NeedsTemp(p, c, i)
             /\ TempCells(p)[k]
                   = [j \in 1..Formals[c.target][i].len |-> Blank]
      BY <3>0
    <3>2. c.target \in Programs /\ i \in DOMAIN Formals[c.target]
      BY <3>1, LiteralParameter DEF NeedsTemp
    <3> DEFINE l == Formals[c.target][i].len
    <3>3. l \in Nat
      BY <3>2, TextAssumption
    <3> HIDE DEF l
    <3>4. [j \in 1..l |-> Blank] \in Seq(CellBytes)
      BY <1>1, <3>3
    <3> QED  BY <2>3, <3>1, <3>4 DEF l
  <2> QED  BY <2>1, <2>2, <2>3
<1> QED  BY <1>2 DEF Stores

\* The key of an item
LEMMA KeyIs ==
    ASSUME NEW p, NEW n
    PROVE  /\ Len(Key(p, n)) = 2 /\ Key(p, n)[2] = n
           /\ Key(p, n)[1] = IF n \in External THEN "EXTERNAL" ELSE p
BY DEF Key

\* and that of a temporary, which is longer.
LEMMA TempKeyIs ==
    ASSUME NEW p, NEW c, NEW i
    PROVE  Len(TempKey(p, c, i)) = 4 /\ TempKey(p, c, i)[1] = p
BY DEF TempKey

\* The cells of an INITIAL program are set to what they were at first.
LEMMA ResetIsInitial ==
    ASSUME NEW q \in Programs, NEW k \in DOMAIN OwnCells(q), k[1] = q
    PROVE  k \in Cells /\ Len(k) = 2 /\ InitialCells[k] = OwnCells(q)[k]
<1>0. q # "EXTERNAL"
  BY CallAssumption
<1>1. PICK n \in DOMAIN Items[q] : k = Key(q, n)
  BY OwnCellIs
<1>2. Len(k) = 2 /\ k = <<q, n>> /\ n \notin External
  BY <1>0, <1>1 DEF Key
<1>3. k \in Cells
  BY PartsOfCells
<1>4. PICK p \in Programs :
         \/ k \in DOMAIN OwnCells(p) /\ InitialCells[k] = OwnCells(p)[k]
         \/ k \in DOMAIN TempCells(p) /\ InitialCells[k] = TempCells(p)[k]
  BY <1>3, PartsOfCells
<1>5. k \notin DOMAIN TempCells(p)
  <2>1. SUFFICES ASSUME k \in DOMAIN TempCells(p) PROVE FALSE
    OBVIOUS
  <2>2. \E c \in Calls[p] : \E i \in DOMAIN c.using : k = TempKey(p, c, i)
    BY <2>1, TempCellIs
  <2>3. Len(k) = 4
    BY <2>2, TempKeyIs
  <2> QED  BY <1>2, <2>3
<1>6. k \in DOMAIN OwnCells(p) /\ InitialCells[k] = OwnCells(p)[k]
  BY <1>4, <1>5
<1>7. PICK m \in DOMAIN Items[p] : k = Key(p, m)
  BY <1>6, OwnCellIs
<1>8. m = n /\ p = q
  <2>1. k[2] = m /\ k[1] = IF m \in External THEN "EXTERNAL" ELSE p
    BY <1>7, KeyIs
  <2>2. k[2] = n
    BY <1>1, KeyIs
  <2> QED  BY <1>0, <1>2, <2>1, <2>2
<1> QED  BY <1>2, <1>3, <1>6, <1>8

\* What Unshared is about.
LEMMA UnsharedIs ==
    ASSUME NEW k \in Unshared
    PROVE  \E p \in Programs : \E n \in Numeric[p] :
              /\ k = <<p, n>> /\ n \in DOMAIN Items[p] /\ k \in Cells
              /\ \A c \in Calls[p] : c.dynamic =>
                    \A i \in DOMAIN c.using : c.using[i] # n
<1>0. PICK p \in Programs : k \in {Key(p, n) : n \in {n \in Numeric[p] :
    \A c \in Calls[p] : c.dynamic => \A i \in DOMAIN c.using : c.using[i] # n}}
  BY DEF Unshared
<1>1. PICK n \in Numeric[p] :
         /\ k = Key(p, n)
         /\ \A c \in Calls[p] : c.dynamic =>
               \A i \in DOMAIN c.using : c.using[i] # n
  BY <1>0
<1>2. n \in DOMAIN Items[p] /\ n \notin External
  BY NumberAssumption
<1>3. k = <<p, n>>
  BY <1>1, <1>2 DEF Key
<1>4. k \in DOMAIN OwnCells(p)
  BY <1>1, <1>2 DEF OwnCells
<1>5. k \in Cells
  BY <1>4, PartsOfCells
<1> QED  BY <1>1, <1>2, <1>3, <1>5

\* An item that is no number of its program is shared.
LEMMA KeyShared ==
    ASSUME NEW p \in Programs, NEW n \in DOMAIN Items[p]
    PROVE  /\ Key(p, n) \in Cells
           /\ \/ n \notin Numeric[p]
              \/ \E c \in Calls[p] :
                    c.dynamic /\ \E i \in DOMAIN c.using : c.using[i] = n
              => Key(p, n) \notin Unshared
<1>1. Key(p, n) \in DOMAIN OwnCells(p)
  BY DEF OwnCells
<1>2. Key(p, n) \in Cells
  BY <1>1, PartsOfCells
<1>3. SUFFICES ASSUME Key(p, n) \in Unshared
               PROVE  /\ n \in Numeric[p]
                      /\ \A c \in Calls[p] : c.dynamic =>
                            \A i \in DOMAIN c.using : c.using[i] # n
  BY <1>2
<1>4. PICK q \in Programs : \E m \in Numeric[q] :
         /\ Key(p, n) = <<q, m>>
         /\ \A c \in Calls[q] : c.dynamic =>
               \A i \in DOMAIN c.using : c.using[i] # m
  BY <1>3, UnsharedIs
<1>5. PICK m \in Numeric[q] :
         /\ Key(p, n) = <<q, m>>
         /\ \A c \in Calls[q] : c.dynamic =>
               \A i \in DOMAIN c.using : c.using[i] # m
  BY <1>4
<1>6. Key(p, n)[1] = q /\ Key(p, n)[2] = m
  BY <1>5
<1>7. q # "EXTERNAL"
  BY CallAssumption
<1>8. n = m /\ p = q
  BY <1>6, <1>7, KeyIs
<1> QED  BY <1>5, <1>8

-----------------------------------------------------------------------------
(* Bindings *)

\* What a program's own names are bound to.
LEMMA OwnBindingIs ==
    ASSUME NEW p \in Programs, NEW n \in Own(p)
    PROVE  /\ CellList(OwnBinding(p, n).at, Cells)
           /\ n \in DOMAIN Items[p] => ~OwnBinding(p, n).group
           /\ \/ n \notin Numeric[p]
              \/ \E c \in Calls[p] :
                    c.dynamic /\ \E i \in DOMAIN c.using : c.using[i] = n
              => Shared(OwnBinding(p, n))
<1>1. CASE n \in DOMAIN Items[p]
  <2> DEFINE k == Key(p, n)
  <2>1. OwnBinding(p, n).at = <<k>> /\ ~OwnBinding(p, n).group
    BY <1>1 DEF OwnBinding
  <2>2. /\ k \in Cells
        /\ \/ n \notin Numeric[p]
           \/ \E c \in Calls[p] :
                 c.dynamic /\ \E i \in DOMAIN c.using : c.using[i] = n
           => k \notin Unshared
    BY <1>1, KeyShared
  <2> HIDE DEF k
  <2>3. \A K : k \in K => CellList(<<k>>, K)
    BY DEF CellList
  <2> QED  BY <2>1, <2>2, <2>3 DEF Shared
<1>2. CASE n \notin DOMAIN Items[p]
  <2> DEFINE g == Groups[p][n]
             ks == [j \in DOMAIN g |-> Key(p, g[j])]
  <2>1. n \in DOMAIN Groups[p]
    BY <1>2 DEF Own
  <2>2. OwnBinding(p, n).at = ks
    BY <1>2 DEF OwnBinding
  <2>3. /\ g \in Seq(DOMAIN Items[p])
        /\ \A i, j \in DOMAIN g : g[i] = g[j] => i = j
        /\ \A i \in DOMAIN g : g[i] \notin Numeric[p]
    BY <2>1, TextAssumption, NumberAssumption
  <2> HIDE DEF g
  <2>4. \A i \in DOMAIN g : Key(p, g[i]) \in Cells \ Unshared
    <3>1. \A i \in DOMAIN g : g[i] \in DOMAIN Items[p]
      BY <2>3
    <3> QED  BY <2>3, <3>1, KeyShared
  <2>5. ks \in Seq(Cells \ Unshared)
    BY <2>3, <2>4
  <2>6. ASSUME NEW i \in DOMAIN ks, NEW j \in DOMAIN ks, ks[i] = ks[j]
        PROVE  i = j
    <3>1. g[i] = g[j]
      BY <2>6, KeyIs
    <3> QED  BY <2>3, <3>1
  <2> HIDE DEF ks
  <2>7. CellList(ks, Cells \ Unshared) /\ CellList(ks, Cells)
    BY <2>5, <2>6 DEF CellList
  <2> QED  BY <1>2, <2>2, <2>7 DEF Shared
<1> QED  BY <1>1, <1>2

\* Bindings are by reference, to shared cells.
BindingsShared ==
    \A d \in DOMAIN stack : \A n \in DOMAIN stack[d].binds :
        Shared(stack[d].binds[n])

\* The innermost activation runs a program.
LEMMA TopRuns ==
    ASSUME FramesMatch, stack # <<>>
    PROVE  /\ Len(stack) \in DOMAIN stack /\ Len(stack) \in Nat
           /\ DOMAIN stack = 1..Len(stack)
           /\ Top.program \in Programs
           /\ DOMAIN Top.binds = FormalNames(Top.program)
           /\ Len(scopes) = Len(stack) /\ DOMAIN scopes = DOMAIN stack
<1>1. PICK S : stack \in Seq(S)
  BY DEF FramesMatch
<1>2. PICK U : scopes \in Seq(U)
  BY DEF FramesMatch
<1>3. Len(stack) \in DOMAIN stack
  BY <1>1
<1> QED  BY <1>1, <1>2, <1>3 DEF FramesMatch, Top

\* A name of the text denotes shared cells, or a number of the program.
LEMMA DenotesCells ==
    ASSUME FramesMatch, BindingsShared, stack # <<>>,
           NEW n \in Names(Top.program)
    PROVE  \/ Shared(Denotes(stack, n))
           \/ /\ n \in Numeric[Top.program]
              /\ n \in DOMAIN Items[Top.program]
              /\ Denotes(stack, n) = OwnBinding(Top.program, n)
<1> DEFINE i == CHOOSE i \in Binders(stack, n) :
                    \A j \in Binders(stack, n) : j <= i
<1>0. /\ Len(stack) \in DOMAIN stack /\ Len(stack) \in Nat
      /\ DOMAIN stack = 1..Len(stack)
      /\ Top.program \in Programs
      /\ DOMAIN Top.binds = FormalNames(Top.program)
  BY TopRuns
<1>1. CASE Binders(stack, n) = {}
  <2>1. Denotes(stack, n) = OwnBinding(Top.program, n)
    BY <1>1 DEF Denotes, Top
  <2>2. n \notin DOMAIN Top.binds
    BY <1>0, <1>1 DEF Binders, Top
  <2>3. n \in Own(Top.program)
    BY <1>0, <2>2 DEF Names
  <2>4. CASE n \in Numeric[Top.program]
    <3>1. n \in DOMAIN Items[Top.program]
      BY <1>0, <2>4, NumberAssumption
    <3> QED  BY <2>1, <2>4, <3>1
  <2>5. CASE n \notin Numeric[Top.program]
    BY <1>0, <2>1, <2>3, <2>5, OwnBindingIs
  <2> QED  BY <2>4, <2>5
<1>2. CASE Binders(stack, n) # {}
  <2> DEFINE B == Binders(stack, n)
  <2>1. B \subseteq 1..Len(stack)
    BY <1>0 DEF Binders
  <2> DEFINE R == {m \in 0..Len(stack) : Len(stack) - m \in B}
  <2>2. R \in SUBSET Nat /\ R # {}
    <3>1. PICK j \in B : TRUE
      BY <1>2
    <3>2. Len(stack) - j \in 0..Len(stack) /\ Len(stack) - (Len(stack) - j) = j
      BY <1>0, <2>1, <3>1
    <3> QED  BY <3>1, <3>2
  <2>3. PICK m \in R : \A l \in R : m <= l
    <3> HIDE DEF R
    <3> QED  BY <2>2, LeastNat
  <2> DEFINE k == Len(stack) - m
  <2>4. k \in B /\ \A j \in B : j <= k
    <3>1. ASSUME NEW j \in B
          PROVE  j <= k
      <4>1. j \in 1..Len(stack)
        BY <2>1
      <4>2. /\ Len(stack) - j \in 0..Len(stack)
            /\ Len(stack) - (Len(stack) - j) = j
        BY <1>0, <4>1
      <4>3. Len(stack) - j \in R
        BY <4>2
      <4>4. m <= Len(stack) - j
        BY <2>3, <4>3
      <4> QED  BY <1>0, <2>3, <4>1, <4>4
    <3> QED  BY <2>3, <3>1
  <2> HIDE DEF k, B
  <2>5. i \in Binders(stack, n)
    BY <2>4 DEF B
  <2>6. Denotes(stack, n) = stack[i].binds[n]
    BY <1>2 DEF Denotes
  <2> HIDE DEF i
  <2>7. i \in DOMAIN stack /\ n \in DOMAIN stack[i].binds
    BY <2>5 DEF Binders
  <2> QED  BY <2>6, <2>7 DEF BindingsShared
<1> QED  BY <1>1, <1>2

\* In particular it denotes a list of cells,
LEMMA AtCells ==
    ASSUME FramesMatch, BindingsShared, stack # <<>>,
           NEW n \in Names(Top.program)
    PROVE  /\ CellList(At(n), Cells)
           /\ n \notin Numeric[Top.program] => CellList(At(n), Cells \ Unshared)
<1>1. Shared(Denotes(stack, n)) => CellList(At(n), Cells \ Unshared)
  BY DEF Shared, At
<1>2. \A ks : CellList(ks, Cells \ Unshared) => CellList(ks, Cells)
  BY DEF CellList
<1>3. CASE Shared(Denotes(stack, n))
  BY <1>1, <1>2, <1>3
<1>4. CASE /\ n \in Numeric[Top.program]
           /\ n \in DOMAIN Items[Top.program]
           /\ Denotes(stack, n) = OwnBinding(Top.program, n)
  <2>1. Top.program \in Programs
    BY TopRuns
  <2>2. CellList(OwnBinding(Top.program, n).at, Cells)
    BY <1>4, <2>1, OwnBindingIs DEF Own
  <2> QED  BY <1>4, <2>2 DEF At
<1> QED  BY <1>3, <1>4, DenotesCells

\* within the reach of the activation.
LEMMA AtReach ==
    ASSUME Inv, stack # <<>>, NEW n \in Names(Top.program)
    PROVE  \A j \in DOMAIN At(n) : At(n)[j] \in Reach(Len(stack))
<1> DEFINE d == Len(stack)
<1>0. /\ d \in DOMAIN stack /\ d \in Nat /\ stack[d].program = Top.program
  BY TopRuns DEF Inv, Top
<1>1. SubSeq(stack, 1, d) = stack
  <2>1. PICK S : stack \in Seq(S)
    BY DEF Inv, FramesMatch
  <2> QED  BY <2>1
<1>2. n \in scopes[d].clear => Denotes(stack, n) = scopes[d].names[n]
  <2>1. n \in scopes[d].clear =>
           Denotes(SubSeq(stack, 1, d), n) = scopes[d].names[n]
    BY <1>0 DEF Inv, NamesAreStatic
  <2> QED  BY <1>1, <2>1
<1> HIDE DEF d
<1>3. Denotes(stack, n) \in
         {scopes[d].names[m] : m \in scopes[d].clear}
            \cup {Denotes(stack, m) :
                  m \in Names(stack[d].program) \ scopes[d].clear}
  <2>1. CASE n \in scopes[d].clear
    BY <1>2, <2>1
  <2>2. CASE n \notin scopes[d].clear
    BY <1>0, <2>2
  <2> QED  BY <2>1, <2>2
<1>4. \A j \in DOMAIN At(n) : At(n)[j] \in Reach(d)
  BY <1>3 DEF At, Reach
<1> QED  BY <1>4 DEF d

\* The parameter of a formal name.
LEMMA ParameterIs ==
    ASSUME NEW q \in Programs, NEW n \in FormalNames(q)
    PROVE  LET i == ParameterOf(q, n)
           IN  /\ i \in DOMAIN Formals[q]
               /\ Formals[q][i].name # n =>
                     \E j \in DOMAIN Formals[q][i].children :
                        Formals[q][i].children[j] = n
<1> DEFINE i == ParameterOf(q, n)
           Has(k) == \/ Formals[q][k].name = n
                     \/ \E j \in DOMAIN Formals[q][k].children :
                            Formals[q][k].children[j] = n
<1>1. PICK f \in {Formals[q][k] : k \in DOMAIN Formals[q]} :
         n \in {f.name} \cup {f.children[j] : j \in DOMAIN f.children}
  BY DEF FormalNames
<1>2. \E k \in DOMAIN Formals[q] : Has(k)
  BY <1>1
<1>3. i = CHOOSE k \in DOMAIN Formals[q] : Has(k)
  BY DEF ParameterOf
<1> HIDE DEF Has
<1>4. i \in DOMAIN Formals[q] /\ Has(i)
  BY <1>2, <1>3
<1> QED  BY <1>4 DEF Has

\* A CALL that is not refused binds the names of the parameters to shared
\* cells: a number is passed as a copy, or it is one that is shared.
LEMMA BoundShared ==
    ASSUME FramesMatch, BindingsShared, stack # <<>>,
           NEW c \in Calls[Top.program], NEW q \in Programs,
           c.dynamic \/ c.target = q, ~Refused(c, q),
           NEW n \in FormalNames(q)
    PROVE  Shared(Bound(q, n, Argument(c, ParameterOf(q, n))))
<1> DEFINE i == ParameterOf(q, n)
           f == Formals[q][i]
           b == Argument(c, i)
           p == Top.program
<1>1. p \in Programs
  BY TopRuns
<1>2. /\ i \in DOMAIN Formals[q]
      /\ f.name # n => \E j \in DOMAIN f.children : f.children[j] = n
  BY ParameterIs
<1>3. i \in DOMAIN c.using
  <2>1. Len(c.using) = Len(Formals[q]) /\ IsSequence(c.using)
    BY <1>1, CallAssumption DEF Refused
  <2>2. IsSequence(Formals[q])
    BY TextAssumption
  <2>3. DOMAIN c.using = 1..Len(c.using)
    BY <2>1 DEF IsSequence
  <2>4. DOMAIN Formals[q] = 1..Len(Formals[q])
    BY <2>2 DEF IsSequence
  <2> QED  BY <1>2, <2>1, <2>3, <2>4
<1>4. c.using[i] \in Names(p)
  BY <1>1, <1>3, CallAssumption
<1>5. f.children # <<>> => b.group /\ Len(f.children) = Len(b.at)
  BY <1>3 DEF Refused
<1>6. NeedsTemp(p, c, i) => f.children = <<>>
  BY <1>3 DEF NeedsTemp
<1>7. f.name # n => f.children # <<>>
  BY <1>2
<1>8. IsSequence(f.children)
  BY <1>2, TextAssumption
<1> HIDE DEF i, f
<1>9. CASE NeedsTemp(p, c, i)
  <2>1. f.name = n /\ b.at = <<TempKey(p, c, i)>>
    BY <1>6, <1>7, <1>9 DEF Argument
  <2>2. Bound(q, n, b) = b
    BY <2>1 DEF Bound, f, i
  <2> DEFINE k == TempKey(p, c, i)
  <2>3. k \in Cells
    <3>1. k \in DOMAIN TempCells(p)
      <4>1. <<c, i>> \in Temps(p)
        BY <1>3, <1>9 DEF Temps
      <4>2. <<c, i>>[1] = c /\ <<c, i>>[2] = i
        OBVIOUS
      <4> DEFINE t == <<c, i>>
      <4>3. t \in Temps(p) /\ k = TempKey(p, t[1], t[2])
        BY <4>1, <4>2
      <4> HIDE DEF k, t
      <4> QED  BY <4>3 DEF TempCells
    <3> QED  BY <1>1, <3>1, PartsOfCells
  <2>4. k \notin Unshared
    <3>1. Len(k) = 4
      BY TempKeyIs
    <3>2. SUFFICES ASSUME k \in Unshared PROVE FALSE
      OBVIOUS
    <3> HIDE DEF k
    <3>3. PICK r \in Programs : \E m \in Numeric[r] : k = <<r, m>>
      BY <3>2, UnsharedIs
    <3>4. PICK m \in Numeric[r] : k = <<r, m>>
      BY <3>3
    <3>5. Len(<<r, m>>) = 2
      OBVIOUS
    <3> QED  BY <3>1, <3>4, <3>5 DEF k
  <2> HIDE DEF k
  <2>5. CellList(<<k>>, Cells \ Unshared)
    BY <2>3, <2>4 DEF CellList
  <2> QED  BY <2>1, <2>2, <2>5 DEF Shared, k, i, b
<1>10. CASE ~NeedsTemp(p, c, i)
  <2>1. b = Denotes(stack, c.using[i])
    BY <1>10 DEF Argument
  <2>2. Shared(b)
    <3>1. CASE Shared(Denotes(stack, c.using[i]))
      BY <2>1, <3>1
    <3>2. CASE /\ c.using[i] \in Numeric[p]
               /\ c.using[i] \in DOMAIN Items[p]
               /\ b = OwnBinding(p, c.using[i])
      <4>1. c.using[i] \in Own(p)
        BY <3>2 DEF Own
      <4>2. CASE c.dynamic
        BY <1>1, <1>3, <3>2, <4>1, <4>2, OwnBindingIs
      <4>3. CASE ~c.dynamic
        <5>1. c.target = q
          BY <4>3
        <5>2. f.children # <<>>
          BY <1>10, <3>2, <4>3, <5>1 DEF NeedsTemp, f
        <5>3. ~b.group
          BY <1>1, <3>2, <4>1, OwnBindingIs
        <5> QED  BY <1>5, <5>2, <5>3
      <4> QED  BY <4>2, <4>3
    <3> QED  BY <1>4, <2>1, <3>1, <3>2, DenotesCells
  <2> HIDE DEF b
  <2>3. CASE f.name = n
    <3>1. Bound(q, n, b) = b
      BY <2>3 DEF Bound, f, i
    <3> QED  BY <2>2, <3>1 DEF b, i
  <2>4. CASE f.name # n
    <3> DEFINE j == CHOOSE j \in DOMAIN f.children : f.children[j] = n
    <3>1. j \in DOMAIN f.children
      BY <1>2, <2>4
    <3>2. Bound(q, n, b).at = <<b.at[j]>>
      BY <2>4 DEF Bound, f, i
    <3> HIDE DEF j
    <3>3. Len(f.children) = Len(b.at)
      BY <1>5, <1>7, <2>4
    <3>4. b.at \in Seq(Cells \ Unshared)
      BY <2>2 DEF Shared, CellList
    <3>5. DOMAIN f.children = 1..Len(f.children)
      BY <1>8 DEF IsSequence
    <3>6. b.at[j] \in Cells \ Unshared
      BY <3>1, <3>3, <3>4, <3>5
    <3> DEFINE k == b.at[j]
    <3> HIDE DEF k
    <3>7. CellList(<<k>>, Cells \ Unshared)
      BY <3>6 DEF CellList, k
    <3>8. Shared(Bound(q, n, b))
      BY <3>2, <3>7 DEF Shared, k
    <3> QED  BY <3>8 DEF b, i
  <2> QED  BY <2>3, <2>4
<1> QED  BY <1>9, <1>10

-----------------------------------------------------------------------------
(* The cells of a run unit *)

\* Every cell has bytes, as many as at first; a number keeps its value.
StoreOK(c) == /\ DOMAIN c = Cells
              /\ Stores(c, Cells, CellBytes)
              /\ \A k \in Cells : Len(c[k]) = Len(InitialCells[k])
              /\ \A k \in Unshared : c[k] = InitialCells[k]

\* What a statement of the innermost activation may change.
Allowed(k) == k \notin Unshared /\
    \/ k \in Reach(Len(stack))
    \/ /\ k[1] \in Initials /\ Len(k) = 2
       /\ \E c \in Calls[Top.program] : c.target = k[1]
    \/ k[1] = Top.program /\ Len(k) = 4

Steps(c, w) == /\ StoreOK(w)
               /\ \A k \in Cells : w[k] # c[k] => Allowed(k)

Storage == Inv /\ BindingsShared /\ StoreOK(cells)

\* Blanks are among the bytes.
LEMMA BlankIsByte == Blank \in CellBytes
BY DEF CellBytes

\* What a name reads as.
LEMMA ReadsBytes ==
    ASSUME FramesMatch, BindingsShared, stack # <<>>,
           NEW c, StoreOK(c), NEW n \in Names(Top.program)
    PROVE  Read(c, At(n)) \in Seq(CellBytes) /\ Total(c, At(n)) \in Nat
<1>1. CellList(At(n), Cells)
  BY AtCells
<1>2. At(n) \in Seq(Cells) /\ Stores(c, Cells, CellBytes)
  BY <1>1 DEF CellList, StoreOK
<1> QED  BY <1>2, ReadLength

\* A write to a name that is no number.
LEMMA WriteSteps ==
    ASSUME Inv, BindingsShared, stack # <<>>, NEW c, StoreOK(c),
           NEW n \in Names(Top.program), n \notin Numeric[Top.program],
           NEW b \in Seq(CellBytes)
    PROVE  Steps(c, Written(c, At(n), b))
<1> DEFINE ks == At(n)
           w  == Written(c, ks, b)
           K  == Cells
           all == Normalized(b, Total(c, ks))
<1>1. CellList(ks, K) /\ CellList(ks, K \ Unshared)
  BY AtCells DEF Inv
<1>2. \A j \in DOMAIN ks : ks[j] \in Reach(Len(stack))
  BY AtReach
<1> HIDE DEF ks, K
<1>3. Stores(c, K, CellBytes) /\ DOMAIN c = K
  BY DEF StoreOK, K
<1>4. /\ DOMAIN w = K /\ Stores(w, K, CellBytes)
      /\ \A k \in K : Len(w[k]) = Len(c[k])
  <2>1. SameShape(w, c, K, CellBytes)
    BY <1>1, <1>3, BlankIsByte, WrittenStores
  <2> QED  BY <2>1 DEF SameShape
<1>5. Wrote(w, all, c, ks, CellBytes)
  BY <1>1, <1>3, BlankIsByte, WrittenIs
<1> HIDE DEF w, all
<1>6. \A k \in K : (\A i \in DOMAIN ks : ks[i] # k) => w[k] = c[k]
  BY <1>3, <1>5 DEF Wrote
<1>7. ASSUME NEW k \in K, w[k] # c[k]
      PROVE  k \in Reach(Len(stack)) /\ k \notin Unshared
  <2>1. PICK i \in DOMAIN ks : ks[i] = k
    BY <1>6, <1>7
  <2>2. ks \in Seq(K \ Unshared)
    BY <1>1 DEF CellList
  <2> QED  BY <1>2, <2>1, <2>2
<1>8. \A k \in Unshared : w[k] = c[k]
  <2>1. \A k \in Unshared : k \in K
    BY UnsharedIs DEF K
  <2> QED  BY <1>7, <2>1
<1>9. StoreOK(w)
  BY <1>4, <1>8 DEF StoreOK, K
<1>10. \A k \in Cells : w[k] # c[k] => Allowed(k)
  BY <1>7 DEF Allowed, K
<1>11. Steps(c, w)
  BY <1>9, <1>10 DEF Steps
<1> QED  BY <1>11 DEF w, ks

\* One change after the other;
LEMMA TwoSteps ==
    ASSUME NEW c, NEW d, NEW e, Steps(c, d), Steps(d, e)
    PROVE  Steps(c, e)
BY DEF Steps

\* also of a step that changes nothing.
LEMMA NoStep ==
    ASSUME NEW c, StoreOK(c)
    PROVE  Steps(c, c)
BY DEF Steps

\* A MOVE between names.
LEMMA CopySteps ==
    ASSUME Inv, BindingsShared, stack # <<>>, NEW c, StoreOK(c),
           NEW m \in Names(Top.program),
           NEW n \in Names(Top.program), n \notin Numeric[Top.program]
    PROVE  Steps(c, Copied(c, m, n))
<1> DEFINE b == Read(c, At(m))
<1>1. b \in Seq(CellBytes)
  BY ReadsBytes DEF Inv
<1> HIDE DEF b
<1>2. Steps(c, Written(c, At(n), b))
  BY <1>1, WriteSteps
<1> QED  BY <1>2 DEF Copied, b

\* A CALL of an INITIAL program.
LEMMA ResetSteps ==
    ASSUME NEW c, StoreOK(c), NEW q \in Programs,
           \E d \in Calls[Top.program] : d.target = q
    PROVE  Steps(c, Reset(c, q))
<1> DEFINE w == Reset(c, q)
<1>0. DOMAIN c = Cells
  BY DEF StoreOK
<1>1. /\ DOMAIN w = Cells
      /\ \A k \in Cells : w[k] = c[k] \/
            /\ q \in Initials
            /\ k \in DOMAIN OwnCells(q) /\ k[1] = q /\ w[k] = OwnCells(q)[k]
  BY <1>0 DEF Reset
<1> HIDE DEF w
<1>2. ASSUME NEW k \in Cells
      PROVE  w[k] = c[k] \/ (/\ q \in Initials /\ k[1] = q /\ Len(k) = 2
                             /\ w[k] = InitialCells[k])
  BY <1>1, ResetIsInitial
<1>3. \A k \in Cells : InitialCells[k] \in Seq(CellBytes)
  BY InitialStores DEF Stores
<1>4. \A k \in Unshared : k \in Cells
  BY UnsharedIs
<1>5. StoreOK(w)
  <2>1. \A k \in Cells : w[k] \in Seq(CellBytes)
    BY <1>2, <1>3 DEF StoreOK, Stores
  <2>2. \A k \in Cells : Len(w[k]) = Len(InitialCells[k])
    BY <1>2 DEF StoreOK
  <2>3. \A k \in Unshared : w[k] = InitialCells[k]
    BY <1>2, <1>4 DEF StoreOK
  <2> QED  BY <1>1, <2>1, <2>2, <2>3 DEF StoreOK, Stores
<1>6. ASSUME NEW k \in Cells, w[k] # c[k]
      PROVE  Allowed(k)
  <2>1. q \in Initials /\ k[1] = q /\ Len(k) = 2 /\ w[k] = InitialCells[k]
    BY <1>2, <1>6
  <2>2. k \notin Unshared
    BY <1>6, <2>1 DEF StoreOK
  <2> QED  BY <2>1, <2>2 DEF Allowed
<1>7. Steps(c, w)
  BY <1>5, <1>6 DEF Steps
<1> QED  BY <1>7 DEF w

\* The copies of the numbers that a CALL passes.
LEMMA ConvertSteps ==
    ASSUME Storage, stack # <<>>, NEW d \in Calls[Top.program]
    PROVE  Steps(cells, Converted(d))
<1> DEFINE w == Converted(d)
           p == Top.program
           Arg(k) == CHOOSE i \in DOMAIN d.using : k = TempKey(p, d, i)
           New(k) == Normalized(ArgumentBytes(d, Arg(k)), Len(cells[k]))
           IsTemp(k) == \E i \in DOMAIN d.using : /\ NeedsTemp(p, d, i)
                                                  /\ k = TempKey(p, d, i)
<1>0. DOMAIN cells = Cells /\ FramesMatch /\ BindingsShared /\ StoreOK(cells)
  BY DEF StoreOK, Storage, Inv
<1>1. /\ DOMAIN w = Cells
      /\ \A k \in Cells : w[k] = IF IsTemp(k) THEN New(k) ELSE cells[k]
  BY <1>0 DEF Converted
<1>2. ASSUME NEW k \in Cells, IsTemp(k)
      PROVE  New(k) \in Seq(CellBytes) /\ Len(New(k)) = Len(cells[k])
  <2> DEFINE i == Arg(k)
             b == ArgumentBytes(d, i)
             l == Len(cells[k])
  <2>1. i \in DOMAIN d.using
    BY <1>2
  <2> HIDE DEF i
  <2>2. p \in Programs
    BY <1>0, TopRuns
  <2>3. d.using[i] \in Names(p)
    BY <2>1, <2>2, CallAssumption
  <2>4. b \in Seq(CellBytes)
    BY <1>0, <2>3, ReadsBytes DEF ArgumentBytes
  <2>5. l \in Nat
    BY <1>0 DEF StoreOK, Stores
  <2> HIDE DEF b, l
  <2>6. /\ Normalized(b, l) \in Seq(CellBytes)
        /\ Len(Normalized(b, l)) = l
    BY <2>4, <2>5, BlankIsByte, NormalizedIs
  <2> QED  BY <2>6 DEF b, l, i
<1>3. ASSUME NEW k, IsTemp(k)
      PROVE  k[1] = p /\ Len(k) = 4
  BY <1>3, TempKeyIs
<1> HIDE DEF w, New, IsTemp
<1>4. ASSUME NEW k \in Unshared
      PROVE  k \in Cells /\ Len(k) = 2
  <2>1. PICK r \in Programs : \E m \in Numeric[r] : k = <<r, m>> /\ k \in Cells
    BY UnsharedIs
  <2>2. PICK m \in Numeric[r] : k = <<r, m>> /\ k \in Cells
    BY <2>1
  <2>3. Len(<<r, m>>) = 2
    OBVIOUS
  <2> QED  BY <2>2, <2>3
<1>5. \A k \in Unshared : ~IsTemp(k)
  BY <1>3, <1>4
<1>6. StoreOK(w)
  <2>1. \A k \in Cells : w[k] \in Seq(CellBytes)
    BY <1>0, <1>1, <1>2 DEF StoreOK, Stores
  <2>2. \A k \in Cells : Len(w[k]) = Len(InitialCells[k])
    BY <1>0, <1>1, <1>2 DEF StoreOK
  <2>3. \A k \in Unshared : w[k] = InitialCells[k]
    BY <1>0, <1>1, <1>4, <1>5 DEF StoreOK
  <2> QED  BY <1>1, <2>1, <2>2, <2>3 DEF StoreOK, Stores
<1>7. ASSUME NEW k \in Cells, w[k] # cells[k]
      PROVE  Allowed(k)
  <2>1. IsTemp(k)
    BY <1>1, <1>7
  <2> QED  BY <1>3, <1>5, <2>1 DEF Allowed
<1>8. Steps(cells, w)
  BY <1>6, <1>7 DEF Steps
<1> QED  BY <1>8 DEF w

\* A statement whose text names cells: what it names.
LEMMA TextNames ==
    ASSUME FramesMatch, stack # <<>>
    PROVE  LET p == Top.program IN
           /\ \A m \in Moves[p] : /\ m.from \in Names(p) /\ m.to \in Names(p)
                                  /\ m.to \notin Numeric[p]
           /\ \A m \in Literals[p] : /\ m.bytes \in Seq(CellBytes)
                                     /\ m.to \in Names(p)
                                     /\ m.to \notin Numeric[p]
           /\ \A r \in Releases[p] : /\ r.from \in Names(p)
                                     /\ r.record \in Names(p)
                                     /\ r.record \notin Numeric[p]
           /\ \A r \in Returns[p] : /\ r.into \in Names(p)
                                    /\ r.record \in Names(p)
                                    /\ r.into \notin Numeric[p]
                                    /\ r.record \notin Numeric[p]
           /\ \A f \in DOMAIN SortFiles[p] :
                 /\ SortFiles[p][f].record \in Names(p)
                 /\ SortFiles[p][f].record \notin Numeric[p]
                 /\ SortFiles[p][f].key.given \in BOOLEAN
<1> DEFINE p == Top.program
<1>1. p \in Programs
  BY TopRuns
<1> HIDE DEF p
<1>2. /\ \A m \in Moves[p] : m.to \notin Numeric[p]
      /\ \A m \in Literals[p] : m.to \notin Numeric[p]
      /\ \A r \in Releases[p] : r.record \notin Numeric[p]
      /\ \A r \in Returns[p] : r.record \notin Numeric[p]
  BY <1>1, NumberAssumption
<1>3. /\ \A r \in Returns[p] : r.into \notin Numeric[p]
      /\ \A f \in DOMAIN SortFiles[p] :
            SortFiles[p][f].record \notin Numeric[p]
  BY <1>1, NumberAssumption
<1>4. /\ \A m \in Moves[p] : m.from \in Names(p) /\ m.to \in Names(p)
      /\ \A m \in Literals[p] : m.bytes \in Seq(CellBytes) /\ m.to \in Names(p)
      /\ \A r \in Releases[p] : r.record \in Names(p) /\ r.from \in Names(p)
      /\ \A r \in Returns[p] : r.record \in Names(p) /\ r.into \in Names(p)
  BY <1>1, TextAssumption
<1>5. \A f \in DOMAIN SortFiles[p] : /\ SortFiles[p][f].record \in Names(p)
                                     /\ SortFiles[p][f].key.given \in BOOLEAN
  BY <1>1, TextAssumption
<1> QED  BY <1>2, <1>3, <1>4, <1>5 DEF p

\* The record that a RETURN delivers consists of bytes.
NextIsBytes == sorts # <<>> /\ HasRecord => NextRecord \in Seq(CellBytes)

\* A step changes what the innermost activation may change, if anything.
LEMMA CellsStep ==
    ASSUME Storage, NextIsBytes, Next
    PROVE  Steps(cells, cells') /\ (stack = <<>> => cells' = cells)
<1>0. Inv /\ BindingsShared /\ StoreOK(cells) /\ FramesMatch
  BY DEF Storage, Inv
<1>s. ASSUME UNCHANGED cells
      PROVE  Steps(cells, cells') /\ (stack = <<>> => cells' = cells)
  <2>1. Steps(cells, cells)
    BY <1>0, NoStep
  <2> QED  BY <1>s, <2>1
<1>1. CASE Start
  BY <1>1, <1>s DEF Start
<1>2. CASE EndProgram
  BY <1>2, <1>s DEF EndProgram
<1>3. CASE Move
  <2>1. stack # <<>>
    BY <1>3 DEF Move
  <2>2. PICK m \in Moves[Top.program] : cells' = Copied(cells, m.from, m.to)
    BY <1>3 DEF Move
  <2>3. /\ m.from \in Names(Top.program) /\ m.to \in Names(Top.program)
        /\ m.to \notin Numeric[Top.program]
    BY <1>0, <2>1, TextNames
  <2>4. Steps(cells, Copied(cells, m.from, m.to))
    BY <1>0, <2>1, <2>3, CopySteps
  <2> QED  BY <2>1, <2>2, <2>4
<1>4. CASE MoveLiteral
  <2>1. stack # <<>>
    BY <1>4 DEF MoveLiteral
  <2>2. PICK m \in Literals[Top.program] :
           cells' = Written(cells, At(m.to), m.bytes)
    BY <1>4 DEF MoveLiteral
  <2>3. /\ m.bytes \in Seq(CellBytes) /\ m.to \in Names(Top.program)
        /\ m.to \notin Numeric[Top.program]
    BY <1>0, <2>1, TextNames
  <2>4. Steps(cells, Written(cells, At(m.to), m.bytes))
    BY <1>0, <2>1, <2>3, WriteSteps
  <2> QED  BY <2>1, <2>2, <2>4
<1>5. CASE CallLiteral
  <2>1. stack # <<>>
    BY <1>5 DEF CallLiteral
  <2>2. PICK c \in Calls[Top.program] :
           /\ ~c.dynamic
           /\ UNCHANGED cells \/ cells' = Reset(Converted(c), c.target)
    BY <1>5, Zenon DEF CallLiteral
  <2>3. CASE UNCHANGED cells
    BY <1>s, <2>3
  <2>4. CASE cells' = Reset(Converted(c), c.target)
    <3>1. c.target \in Programs
      BY <1>0, <2>1, <2>2, TopRuns, CallAssumption
    <3>2. Steps(cells, Converted(c))
      BY <2>1, ConvertSteps
    <3> DEFINE d == Converted(c)
    <3> HIDE DEF d
    <3>3. StoreOK(d)
      BY <3>2 DEF Steps, d
    <3>4. Steps(d, Reset(d, c.target))
      BY <3>1, <3>3, ResetSteps
    <3>5. Steps(cells, Reset(d, c.target))
      BY <3>2, <3>4, TwoSteps DEF d
    <3> QED  BY <2>1, <2>4, <3>5 DEF d
  <2> QED  BY <2>2, <2>3, <2>4
<1>6. CASE CallDynamic
  <2>1. stack # <<>>
    BY <1>6 DEF CallDynamic
  <2>2. PICK c \in Calls[Top.program] :
           \/ UNCHANGED cells
           \/ c.target \in Programs /\ cells' = Reset(cells, c.target)
    BY <1>6 DEF CallDynamic
  <2>3. CASE UNCHANGED cells
    BY <1>s, <2>3
  <2>4. CASE c.target \in Programs /\ cells' = Reset(cells, c.target)
    <3>1. Steps(cells, Reset(cells, c.target))
      BY <1>0, <2>4, ResetSteps
    <3> QED  BY <2>1, <2>4, <3>1
  <2> QED  BY <2>2, <2>3, <2>4
<1>7. CASE Sort
  BY <1>7, <1>s DEF Sort
<1>8. CASE Release
  <2>1. stack # <<>>
    BY <1>8 DEF Release
  <2>2. PICK r \in Releases[Top.program] :
           UNCHANGED cells \/ cells' = Copied(cells, r.from, r.record)
    BY <1>8 DEF Release
  <2>3. CASE UNCHANGED cells
    BY <1>s, <2>3
  <2>4. CASE cells' = Copied(cells, r.from, r.record)
    <3>1. /\ r.from \in Names(Top.program) /\ r.record \in Names(Top.program)
          /\ r.record \notin Numeric[Top.program]
      BY <1>0, <2>1, TextNames
    <3>2. Steps(cells, Copied(cells, r.from, r.record))
      BY <1>0, <2>1, <3>1, CopySteps
    <3> QED  BY <2>1, <2>4, <3>2
  <2> QED  BY <2>2, <2>3, <2>4
<1>9. CASE EndInput
  BY <1>9, <1>s DEF EndInput
<1>10. CASE Return
  <2>1. stack # <<>>
    BY <1>10 DEF Return
  <2>2. PICK r \in Returns[Top.program] :
           \/ UNCHANGED cells
           \/ /\ ReturnAccepted(r.file) /\ HasRecord
              /\ cells' = Copied(Written(cells, At(r.record), NextRecord),
                                 r.record, r.into)
    BY <1>10 DEF Return
  <2>3. CASE UNCHANGED cells
    BY <1>s, <2>3
  <2>4. CASE /\ ReturnAccepted(r.file) /\ HasRecord
             /\ cells' = Copied(Written(cells, At(r.record), NextRecord),
                                r.record, r.into)
    <3>1. /\ r.into \in Names(Top.program) /\ r.record \in Names(Top.program)
          /\ r.into \notin Numeric[Top.program]
          /\ r.record \notin Numeric[Top.program]
      BY <1>0, <2>1, TextNames
    <3> DEFINE b == NextRecord
               d == Written(cells, At(r.record), b)
    <3>2. b \in Seq(CellBytes)
      BY <2>4 DEF NextIsBytes, ReturnAccepted
    <3>3. cells' = Copied(d, r.record, r.into)
      BY <2>4
    <3> HIDE DEF b
    <3>4. Steps(cells, d)
      BY <1>0, <2>1, <3>1, <3>2, WriteSteps
    <3> HIDE DEF d
    <3>5. StoreOK(d)
      BY <3>4 DEF Steps
    <3>6. Steps(d, Copied(d, r.record, r.into))
      BY <1>0, <2>1, <3>1, <3>5, CopySteps
    <3>7. Steps(cells, Copied(d, r.record, r.into))
      BY <3>4, <3>6, TwoSteps
    <3> QED  BY <2>1, <3>3, <3>7
  <2> QED  BY <2>2, <2>3, <2>4
<1>11. CASE LeaveSort
  BY <1>11, <1>s DEF LeaveSort
<1> QED
  BY <1>1, <1>2, <1>3, <1>4, <1>5, <1>6, <1>7, <1>8, <1>9, <1>10, <1>11
     DEF Next

\* Bindings stay shared: a CALL adds one activation of them.
LEMMA BindingsStayShared ==
    ASSUME Inv, BindingsShared, [Next]_vars
    PROVE  BindingsShared'
<1>0. FramesMatch /\ \E S : stack \in Seq(S)
  BY DEF Inv, FramesMatch
<1>s. ASSUME UNCHANGED stack
      PROVE  BindingsShared'
  BY <1>s DEF BindingsShared
<1>a. ASSUME Abend
      PROVE  BindingsShared'
  <2>1. stack' = <<>> /\ DOMAIN <<>> = {}
    BY <1>a DEF Abend
  <2> QED  BY <2>1 DEF BindingsShared
<1>e. ASSUME stack # <<>>, NEW c \in Calls[Top.program], NEW q \in Programs,
             c.dynamic \/ c.target = q, ~Refused(c, q), EnterProgram(q, c)
      PROVE  BindingsShared'
  <2> DEFINE x == Activation(q, [n \in FormalNames(q) |->
                        Bound(q, n, Argument(c, ParameterOf(q, n)))])
  <2>1. stack' = Append(stack, x)
    BY <1>e DEF EnterProgram
  <2>2. /\ DOMAIN x.binds = FormalNames(q)
        /\ \A n \in FormalNames(q) :
              x.binds[n] = Bound(q, n, Argument(c, ParameterOf(q, n)))
    BY DEF Activation
  <2> HIDE DEF x
  <2>3. \A n \in FormalNames(q) :
           Shared(Bound(q, n, Argument(c, ParameterOf(q, n))))
    BY <1>0, <1>e, BoundShared
  <2>4. \A n \in DOMAIN x.binds : Shared(x.binds[n])
    BY <2>2, <2>3
  <2>5. /\ DOMAIN stack' = DOMAIN stack \cup {Len(stack) + 1}
        /\ stack'[Len(stack) + 1] = x
        /\ \A d \in DOMAIN stack : stack'[d] = stack[d]
    BY <1>0, <2>1, AppendParts
  <2> QED  BY <2>4, <2>5 DEF BindingsShared
<1>1. CASE Start
  <2> DEFINE x == Activation(Main, <<>>)
  <2>1. stack' = <<x>> /\ x.binds = <<>>
    BY <1>1 DEF Start, Activation
  <2> HIDE DEF x
  <2>2. DOMAIN stack' = {1} /\ stack'[1] = x /\ DOMAIN x.binds = {}
    BY <2>1
  <2> QED  BY <2>2 DEF BindingsShared
<1>2. CASE EndProgram
  <2>1. stack' = SubSeq(stack, 1, Len(stack) - 1) /\ stack # <<>>
    BY <1>2 DEF EndProgram
  <2>2. /\ DOMAIN stack' \subseteq DOMAIN stack
        /\ \A d \in DOMAIN stack' : stack'[d] = stack[d]
    BY <1>0, <2>1, FrontParts
  <2> QED  BY <2>2 DEF BindingsShared
<1>3. CASE CallLiteral
  <2>1. PICK c \in Calls[Top.program] :
           /\ ~c.dynamic
           /\ \/ Abend
              \/ ~Refused(c, c.target) /\ EnterProgram(c.target, c)
    BY <1>3, Zenon DEF CallLiteral
  <2>2. stack # <<>>
    BY <1>3 DEF CallLiteral
  <2>3. c.target \in Programs
    BY <1>0, <2>1, <2>2, TopRuns, CallAssumption
  <2> QED  BY <1>a, <1>e, <2>1, <2>2, <2>3
<1>4. CASE CallDynamic
  <2>1. PICK c \in Calls[Top.program] :
           /\ c.dynamic
           /\ \/ Abend
              \/ UNCHANGED stack
              \/ /\ c.target \in Programs
                 /\ ~Refused(c, c.target) /\ EnterProgram(c.target, c)
    BY <1>4 DEF CallDynamic
  <2>2. stack # <<>>
    BY <1>4 DEF CallDynamic
  <2> QED  BY <1>a, <1>e, <1>s, <2>1, <2>2
<1>5. CASE Move \/ MoveLiteral \/ Sort \/ LeaveSort \/ UNCHANGED vars
  BY <1>5, <1>s DEF Move, MoveLiteral, Sort, LeaveSort, vars
<1>6. CASE Release
  <2>1. Abend \/ UNCHANGED stack
    BY <1>6 DEF Release
  <2> QED  BY <1>a, <1>s, <2>1
<1>7. CASE EndInput
  <2>1. Abend \/ UNCHANGED stack
    BY <1>7 DEF EndInput
  <2> QED  BY <1>a, <1>s, <2>1
<1>8. CASE Return
  <2>1. Abend \/ UNCHANGED stack
    BY <1>8 DEF Return
  <2> QED  BY <1>a, <1>s, <2>1
<1> QED
  BY <1>1, <1>2, <1>3, <1>4, <1>5, <1>6, <1>7, <1>8 DEF Next

-----------------------------------------------------------------------------
(* The entries of the SORTs *)

\* A SORT and what its program saw: it has released those records, and got the
\* first of them in the order in which they are due.
IsEntry(s) == DOMAIN s = {"file", "record", "len", "key", "level", "phase",
                          "released", "sorted", "cursor"}

IsView(w) == DOMAIN w = {"release", "got", "atEnd"}

HasReleased(s, w) == /\ s.released \in Seq(Seq(CellBytes))
                     /\ \A i \in DOMAIN s.released : Len(s.released[i]) = s.len
                     /\ w.release = s.released

HasGot(s, w) == /\ w.got \in Seq(Seq(CellBytes)) /\ Len(w.got) = s.cursor
                /\ \A i \in 1..s.cursor :
                      w.got[i] = Normalized(s.sorted[i], Len(w.got[i]))

InPhase(s, w) ==
    \/ s.phase = "Input" /\ s.sorted = <<>> /\ s.cursor = 0 /\ ~w.atEnd
    \/ /\ s.phase = "Output"
       /\ s.sorted = Sorted(s.released, s.key) /\ s.cursor \in 0..Len(s.sorted)
       /\ Comparable(s.released, s.key)
       /\ w.atEnd => s.cursor = Len(s.sorted)

Serves(s, w) == /\ IsEntry(s) /\ IsView(w)
                /\ s.len \in Nat /\ s.key.given \in BOOLEAN
                /\ HasReleased(s, w) /\ HasGot(s, w) /\ InPhase(s, w)

\* All of them, in the order of their activations.
Nested(ss) == \A i \in DOMAIN ss : i > 1 => ss[i - 1].level <= ss[i].level

Matched(ss, ws) == /\ \E S : ss \in Seq(S)
                   /\ \E S : ws \in Seq(S)
                   /\ Len(ws) = Len(ss)
                   /\ \A i \in DOMAIN ss : Serves(ss[i], ws[i])

SortsServe == /\ Matched(sorts, work) /\ Nested(sorts)
              /\ \A i \in DOMAIN sorts : sorts[i].level \in DOMAIN stack

\* The sequences that there are.
LEMMA MatchedAre ==
    ASSUME NEW ss, NEW ws, Matched(ss, ws)
    PROVE  /\ Len(ss) \in Nat /\ DOMAIN ss = 1..Len(ss)
           /\ Len(ws) = Len(ss) /\ DOMAIN ws = DOMAIN ss
<1>1. PICK S : ss \in Seq(S)
  BY DEF Matched
<1>2. PICK T : ws \in Seq(T)
  BY DEF Matched
<1> QED  BY <1>1, <1>2 DEF Matched

\* A sequence with another last element.
LEMMA LastIs ==
    ASSUME NEW s, NEW x, \E S : s \in Seq(S), s # <<>>
    PROVE  LET t == [s EXCEPT ![Len(s)] = x]
           IN  /\ \E S : t \in Seq(S)
               /\ Len(t) = Len(s) /\ DOMAIN t = DOMAIN s
               /\ \A i \in DOMAIN s : t[i] = IF i = Len(s) THEN x ELSE s[i]
<1> DEFINE t == [s EXCEPT ![Len(s)] = x]
<1>1. PICK S : s \in Seq(S)
  OBVIOUS
<1> DEFINE U == S \cup {x}
<1>2. s \in Seq(U) /\ x \in U
  BY <1>1
<1> HIDE DEF U
<1>3. t \in Seq(U) /\ Len(t) = Len(s)
  BY <1>2
<1>4. \A i \in DOMAIN s : t[i] = IF i = Len(s) THEN x ELSE s[i]
  OBVIOUS
<1>5. DOMAIN t = DOMAIN s
  OBVIOUS
<1> HIDE DEF t
<1> QED  BY <1>3, <1>4, <1>5 DEF t

\* The SORTs of activations that all go on.
LEMMA SortsStay ==
    ASSUME SortsServe, UNCHANGED <<sorts, work>>,
           DOMAIN stack \subseteq DOMAIN stack'
    PROVE  SortsServe'
BY DEF SortsServe, Matched, Nested

\* The innermost SORT takes a step.
LEMMA SortMoves ==
    ASSUME SortsServe, sorts # <<>>, NEW s, NEW w, Serves(s, w),
           s.level = Innermost.level, sorts' = WithLast(s),
           work' = [work EXCEPT ![Len(work)] = w],
           UNCHANGED stack
    PROVE  SortsServe'
<1> DEFINE n == Len(sorts)
<1>1. /\ n \in Nat /\ DOMAIN sorts = 1..n /\ n # 0
      /\ Len(work) = n /\ DOMAIN work = DOMAIN sorts
      /\ \E S : sorts \in Seq(S)
      /\ \E S : work \in Seq(S)
  <2>1. \E S : sorts \in Seq(S)
    BY DEF SortsServe, Matched
  <2>2. n # 0
    BY <2>1
  <2> QED  BY <2>1, <2>2, MatchedAre DEF SortsServe, Matched
<1>2. work # <<>>
  BY <1>1
<1> DEFINE ss == [sorts EXCEPT ![Len(sorts)] = s]
           ws == [work EXCEPT ![Len(work)] = w]
<1>3. sorts' = ss /\ work' = ws
  BY DEF WithLast
<1>4. /\ \E S : ss \in Seq(S)
      /\ Len(ss) = n /\ DOMAIN ss = DOMAIN sorts
      /\ \A i \in DOMAIN sorts : ss[i] = IF i = n THEN s ELSE sorts[i]
  BY <1>1, LastIs
<1>5. /\ \E S : ws \in Seq(S)
      /\ Len(ws) = n
      /\ \A i \in DOMAIN sorts : ws[i] = IF i = n THEN w ELSE work[i]
  <2>1. /\ \E S : ws \in Seq(S)
        /\ Len(ws) = Len(work)
        /\ \A i \in DOMAIN work : ws[i] = IF i = Len(work) THEN w ELSE work[i]
    BY <1>1, <1>2, LastIs
  <2> QED  BY <1>1, <2>1
<1> HIDE DEF ss, ws
<1>6. \A i \in DOMAIN sorts : ss[i].level = sorts[i].level
  BY <1>1, <1>4 DEF Innermost
<1>7. \A i \in DOMAIN sorts : Serves(ss[i], ws[i])
  BY <1>4, <1>5 DEF SortsServe, Matched
<1>8. Matched(ss, ws)
  BY <1>4, <1>5, <1>7 DEF Matched
<1>9. Nested(ss)
  <2>1. ASSUME NEW i \in DOMAIN sorts, i > 1
        PROVE  ss[i - 1].level <= ss[i].level
    <3>1. i - 1 \in DOMAIN sorts
      BY <1>1, <2>1
    <3>2. sorts[i - 1].level <= sorts[i].level
      BY <2>1 DEF SortsServe, Nested
    <3> QED  BY <1>6, <3>1, <3>2
  <2> QED  BY <1>4, <2>1 DEF Nested
<1>10. \A i \in DOMAIN ss : ss[i].level \in DOMAIN stack
  BY <1>4, <1>6 DEF SortsServe
<1> QED  BY <1>3, <1>8, <1>9, <1>10 DEF SortsServe

\* The first n SORTs are left.
LEMMA SortsEnd ==
    ASSUME SortsServe, NEW n \in 0..Len(sorts),
           sorts' = SubSeq(sorts, 1, n), work' = SubSeq(work, 1, n),
           \A i \in 1..n : sorts[i].level \in DOMAIN stack'
    PROVE  SortsServe'
<1>1. /\ Len(sorts) \in Nat /\ DOMAIN sorts = 1..Len(sorts)
      /\ Len(work) = Len(sorts) /\ DOMAIN work = DOMAIN sorts
  BY MatchedAre DEF SortsServe
<1>2. PICK S : sorts \in Seq(S)
  BY DEF SortsServe, Matched
<1>3. PICK U : work \in Seq(U)
  BY DEF SortsServe, Matched
<1>4. /\ sorts' \in Seq(S) /\ Len(sorts') = n /\ DOMAIN sorts' = 1..n
      /\ \A i \in 1..n : sorts'[i] = sorts[i]
  BY <1>1, <1>2
<1>5. /\ work' \in Seq(U) /\ Len(work') = n
      /\ \A i \in 1..n : work'[i] = work[i]
  BY <1>1, <1>3
<1>6. \A i \in 1..n : i \in DOMAIN sorts
  BY <1>1
<1>7. \A i \in 1..n : Serves(sorts'[i], work'[i])
  BY <1>4, <1>5, <1>6 DEF SortsServe, Matched
<1>8. Matched(sorts, work)'
  BY <1>4, <1>5, <1>7 DEF Matched
<1>9. Nested(sorts)'
  <2>1. ASSUME NEW i \in 1..n, i > 1
        PROVE  sorts'[i - 1].level <= sorts'[i].level
    <3>1. i - 1 \in 1..n
      BY <2>1
    <3>2. sorts[i - 1].level <= sorts[i].level
      BY <1>6, <2>1 DEF SortsServe, Nested
    <3> QED  BY <1>4, <3>1, <3>2
  <2> QED  BY <1>4, <2>1 DEF Nested
<1>10. \A i \in DOMAIN sorts' : sorts'[i].level \in DOMAIN stack'
  BY <1>4
<1> QED  BY <1>8, <1>9, <1>10 DEF SortsServe

\* One SORT more, of the innermost activation.
LEMMA SortBegins ==
    ASSUME SortsServe, FramesMatch, stack # <<>>, NEW s, NEW w, Serves(s, w),
           s.level = Len(stack),
           sorts' = Append(sorts, s), work' = Append(work, w),
           UNCHANGED stack
    PROVE  SortsServe'
<1> DEFINE n == Len(sorts)
<1>1. /\ n \in Nat /\ DOMAIN sorts = 1..n
      /\ Len(work) = n /\ DOMAIN work = DOMAIN sorts
      /\ \E S : sorts \in Seq(S)
      /\ \E S : work \in Seq(S)
  BY MatchedAre DEF SortsServe, Matched
<1>2. /\ \E S : sorts' \in Seq(S)
      /\ Len(sorts') = n + 1 /\ DOMAIN sorts' = DOMAIN sorts \cup {n + 1}
      /\ sorts'[n + 1] = s
      /\ \A i \in DOMAIN sorts : sorts'[i] = sorts[i]
  BY <1>1, AppendParts
<1>3. /\ \E S : work' \in Seq(S)
      /\ Len(work') = n + 1
      /\ work'[n + 1] = w
      /\ \A i \in DOMAIN sorts : work'[i] = work[i]
  <2>1. /\ \E S : work' \in Seq(S)
        /\ Len(work') = Len(work) + 1
        /\ work'[Len(work) + 1] = w
        /\ \A i \in DOMAIN work : work'[i] = work[i]
    BY <1>1, AppendParts
  <2> QED  BY <1>1, <2>1
<1>4. \A i \in DOMAIN sorts' : Serves(sorts'[i], work'[i])
  BY <1>2, <1>3 DEF SortsServe, Matched
<1>5. Matched(sorts, work)'
  BY <1>2, <1>3, <1>4 DEF Matched
<1>6. /\ Len(stack) \in DOMAIN stack /\ DOMAIN stack = 1..Len(stack)
      /\ Len(stack) \in Nat
  BY TopRuns
<1>7. \A i \in DOMAIN sorts : sorts[i].level \in 1..Len(stack)
  BY <1>6 DEF SortsServe
<1>8. Nested(sorts)'
  <2>1. ASSUME NEW i \in DOMAIN sorts', i > 1
        PROVE  sorts'[i - 1].level <= sorts'[i].level
    <3>1. i - 1 \in DOMAIN sorts
      BY <1>1, <1>2, <2>1
    <3>2. CASE i = n + 1
      BY <1>2, <1>6, <1>7, <3>1, <3>2
    <3>3. CASE i \in DOMAIN sorts
      <4>1. sorts[i - 1].level <= sorts[i].level
        BY <2>1, <3>3 DEF SortsServe, Nested
      <4> QED  BY <1>2, <3>1, <3>3, <4>1
    <3> QED  BY <1>2, <3>2, <3>3
  <2> QED  BY <2>1 DEF Nested
<1>9. \A i \in DOMAIN sorts' : sorts'[i].level \in DOMAIN stack
  BY <1>2, <1>6 DEF SortsServe
<1> QED  BY <1>5, <1>8, <1>9 DEF SortsServe

\* A SORT begins with no records.
LEMMA NewServes ==
    ASSUME NEW f, NEW r, NEW len \in Nat, NEW key, key.given \in BOOLEAN,
           NEW level
    PROVE  Serves(NewSort(f, r, len, key, level),
                  [release |-> <<>>, got |-> <<>>, atEnd |-> FALSE])
<1> DEFINE s == NewSort(f, r, len, key, level)
           w == [release |-> <<>>, got |-> <<>>, atEnd |-> FALSE]
<1>1. /\ s.len = len /\ s.key = key /\ s.released = <<>> /\ s.sorted = <<>>
      /\ s.cursor = 0 /\ s.phase = "Input" /\ IsEntry(s)
  BY DEF NewSort, IsEntry
<1>2. IsView(w) /\ w.release = <<>> /\ w.got = <<>> /\ ~w.atEnd
  BY DEF IsView
<1> HIDE DEF s, w
<1>3. <<>> \in Seq(Seq(CellBytes)) /\ Len(<<>>) = 0 /\ DOMAIN <<>> = {}
  OBVIOUS
<1>4. HasReleased(s, w)
  BY <1>1, <1>2, <1>3 DEF HasReleased
<1>5. HasGot(s, w)
  BY <1>1, <1>2, <1>3 DEF HasGot
<1>6. InPhase(s, w)
  BY <1>1, <1>2 DEF InPhase
<1>7. Serves(s, w)
  BY <1>1, <1>2, <1>4, <1>5, <1>6 DEF Serves
<1> QED  BY <1>7 DEF s, w

\* The records that a SORT has can be sorted, in the order that is due.
LEMMA ServesSorted ==
    ASSUME RanksAreNumbers, NEW s, NEW w, Serves(s, w),
           Comparable(s.released, s.key)
    PROVE  LET in == s.released
               out == Sorted(in, s.key)
           IN  /\ out \in Seq(Seq(CellBytes))
               /\ Len(out) = Len(in) /\ Len(in) \in Nat
               /\ \A n \in 1..Len(in) : out[n] = in[Due(in, n, s.key)]
<1> DEFINE in == s.released
           key == s.key
           S == Seq(CellBytes)
<1>1. in \in Seq(S)
  BY DEF Serves, HasReleased
<1> HIDE DEF in, key, S
<1>2. Comparable(in, key)
  BY DEF in, key
<1>3. /\ Sorted(in, key) \in Seq(S)
      /\ Len(Sorted(in, key)) = Len(in)
      /\ \A n \in 1..Len(in) : Sorted(in, key)[n] = in[Due(in, n, key)]
  BY <1>1, <1>2, SortedIsDue
<1>4. Len(in) \in Nat
  BY <1>1
<1> QED  BY <1>3, <1>4 DEF in, key, S

\* The end of the INPUT procedure.
LEMMA OutputServes ==
    ASSUME RanksAreNumbers, NEW s, NEW w, Serves(s, w), s.phase = "Input",
           Comparable(s.released, s.key)
    PROVE  Serves(OutputPhase(s), w) /\ OutputPhase(s).level = s.level
<1> DEFINE t == OutputPhase(s)
<1>1. /\ t.len = s.len /\ t.key = s.key /\ t.released = s.released
      /\ t.level = s.level /\ t.phase = "Output" /\ t.cursor = 0
      /\ t.sorted = Sorted(s.released, s.key)
      /\ IsEntry(t)
  <2> DEFINE out == Sorted(s.released, s.key)
  <2>1. t = [s EXCEPT !.phase = "Output", !.cursor = 0, !.sorted = out]
    BY DEF OutputPhase, Sorted
  <2>2. IsEntry(s)
    BY DEF Serves
  <2> HIDE DEF out, t
  <2> QED  BY <2>1, <2>2 DEF out, IsEntry
<1> HIDE DEF t
<1>2. s.cursor = 0 /\ ~w.atEnd
  BY DEF Serves, InPhase
<1>3. Len(t.sorted) \in Nat
  BY <1>1, ServesSorted
<1>4. InPhase(t, w)
  BY <1>1, <1>2, <1>3 DEF InPhase
<1>5. HasReleased(t, w)
  BY <1>1 DEF Serves, HasReleased
<1>6. HasGot(t, w)
  BY <1>1, <1>2 DEF Serves, HasGot
<1>7. Serves(t, w)
  BY <1>1, <1>4, <1>5, <1>6 DEF Serves
<1> QED  BY <1>1, <1>7 DEF t

\* RELEASE.
LEMMA ReleaseServes ==
    ASSUME NEW s, NEW w, Serves(s, w), s.phase = "Input",
           NEW b \in Seq(CellBytes)
    PROVE  LET r == Normalized(b, s.len)
               t == [s EXCEPT !.released = Append(@, r)]
               v == [w EXCEPT !.release = Append(@, r)]
           IN  Serves(t, v) /\ t.level = s.level
<1> DEFINE r == Normalized(b, s.len)
           t == [s EXCEPT !.released = Append(@, r)]
           v == [w EXCEPT !.release = Append(@, r)]
<1>1. r \in Seq(CellBytes) /\ Len(r) = s.len
  BY BlankIsByte, NormalizedIs DEF Serves
<1> HIDE DEF r
<1>2. /\ t.len = s.len /\ t.key = s.key /\ t.level = s.level
      /\ t.phase = s.phase /\ t.cursor = s.cursor /\ t.sorted = s.sorted
      /\ t.released = Append(s.released, r)
      /\ IsEntry(t)
  <2> DEFINE x == Append(s.released, r)
  <2>1. IsEntry(s) /\ t = [s EXCEPT !.released = x]
    BY DEF Serves
  <2> HIDE DEF x, t
  <2> QED  BY <2>1 DEF x, IsEntry
<1>3. /\ v.got = w.got /\ v.atEnd = w.atEnd
      /\ v.release = Append(w.release, r) /\ IsView(v)
  <2> DEFINE x == Append(w.release, r)
  <2>1. IsView(w) /\ v = [w EXCEPT !.release = x]
    BY DEF Serves
  <2> HIDE DEF x, v
  <2> QED  BY <2>1 DEF x, IsView
<1> HIDE DEF t, v
<1>4. HasReleased(t, v)
  <2> DEFINE in == s.released
             S == Seq(CellBytes)
  <2>1. in \in Seq(S) /\ \A i \in DOMAIN in : Len(in[i]) = s.len
    BY DEF Serves, HasReleased
  <2>2. w.release = in
    BY DEF Serves, HasReleased
  <2>3. r \in S
    BY <1>1
  <2> HIDE DEF in, S
  <2>4. Append(in, r) \in Seq(S)
    BY <2>1, <2>3
  <2>5. \A i \in DOMAIN Append(in, r) : Len(Append(in, r)[i]) = s.len
    BY <1>1, <2>1
  <2> QED  BY <1>2, <1>3, <2>2, <2>4, <2>5 DEF HasReleased, in, S
<1>5. HasGot(t, v)
  BY <1>2, <1>3 DEF Serves, HasGot
<1>6. InPhase(t, v)
  BY <1>2, <1>3 DEF Serves, InPhase
<1>7. Serves(t, v)
  BY <1>2, <1>3, <1>4, <1>5, <1>6 DEF Serves
<1> QED  BY <1>2, <1>7 DEF t, v, r

\* RETURN of a record, which arrives cut or filled to the record area,
LEMMA ReturnServes ==
    ASSUME RanksAreNumbers, NEW s, NEW w, Serves(s, w),
           s.cursor < Len(s.sorted), NEW len \in Nat
    PROVE  LET b == s.sorted[s.cursor + 1]
               t == [s EXCEPT !.cursor = @ + 1]
               v == [w EXCEPT !.got = Append(@, Normalized(b, len))]
           IN  /\ b \in Seq(CellBytes)
               /\ Serves(t, v) /\ t.level = s.level
<1> DEFINE n == s.cursor + 1
           b == s.sorted[n]
           r == Normalized(b, len)
           t == [s EXCEPT !.cursor = @ + 1]
           v == [w EXCEPT !.got = Append(@, r)]
<1>1. /\ s.phase = "Output" /\ s.sorted = Sorted(s.released, s.key)
      /\ s.cursor \in 0..Len(s.sorted)
      /\ Comparable(s.released, s.key)
      /\ ~w.atEnd
  <2>1. InPhase(s, w)
    BY DEF Serves
  <2>2. s.phase = "Output"
    <3>1. SUFFICES ASSUME s.sorted = <<>> /\ s.cursor = 0 PROVE FALSE
      BY <2>1 DEF InPhase
    <3>2. Len(<<>>) = 0
      OBVIOUS
    <3> QED  BY <3>1, <3>2
  <2>3. /\ s.cursor \in 0..Len(s.sorted)
        /\ s.sorted = Sorted(s.released, s.key)
        /\ Comparable(s.released, s.key)
        /\ w.atEnd => s.cursor = Len(s.sorted)
    BY <2>1, <2>2 DEF InPhase
  <2> QED  BY <2>2, <2>3
<1>2. s.sorted \in Seq(Seq(CellBytes)) /\ Len(s.sorted) \in Nat
  BY <1>1, ServesSorted
<1>3. n \in 1..Len(s.sorted) /\ n - 1 = s.cursor
  <2> DEFINE c == s.cursor
             l == Len(s.sorted)
  <2>1. c \in 0..l /\ l \in Nat /\ c < l
    BY <1>1, <1>2
  <2> HIDE DEF c, l
  <2>2. c + 1 \in 1..l /\ (c + 1) - 1 = c
    BY <2>1
  <2> QED  BY <2>2 DEF c, l
<1>4. b \in Seq(CellBytes)
  BY <1>2, <1>3
<1>5. r \in Seq(CellBytes) /\ Len(r) = len
  <2> HIDE DEF b
  <2> QED  BY <1>4, BlankIsByte, NormalizedIs
<1>6. /\ t.len = s.len /\ t.key = s.key /\ t.level = s.level
      /\ t.phase = s.phase /\ t.cursor = n /\ t.sorted = s.sorted
      /\ t.released = s.released
      /\ IsEntry(t)
  <2>1. IsEntry(s) /\ t = [s EXCEPT !.cursor = n]
    BY DEF Serves
  <2> HIDE DEF n, t
  <2> QED  BY <2>1 DEF IsEntry
<1> HIDE DEF r
<1>7. /\ v.got = Append(w.got, r) /\ v.atEnd = w.atEnd
      /\ v.release = w.release /\ IsView(v)
  <2> DEFINE x == Append(w.got, r)
  <2>1. IsView(w) /\ v = [w EXCEPT !.got = x]
    BY DEF Serves
  <2> HIDE DEF x, v
  <2> QED  BY <2>1 DEF x, IsView
<1> HIDE DEF t, v
<1>8. HasReleased(t, v)
  BY <1>6, <1>7 DEF Serves, HasReleased
<1>9. HasGot(t, v)
  <2> DEFINE got == w.got
             S == Seq(CellBytes)
  <2>1. /\ got \in Seq(S) /\ Len(got) = s.cursor
        /\ \A i \in 1..s.cursor : got[i] = Normalized(s.sorted[i], Len(got[i]))
    BY DEF Serves, HasGot
  <2>2. r \in S
    BY <1>5
  <2>3. r = Normalized(s.sorted[n], Len(r))
    BY <1>5 DEF r
  <2> HIDE DEF got, S, n, b
  <2>4. Append(got, r) \in Seq(S) /\ Len(Append(got, r)) = n
    BY <1>3, <2>1, <2>2
  <2>5. ASSUME NEW i \in 1..n
        PROVE  Append(got, r)[i]
                  = Normalized(s.sorted[i], Len(Append(got, r)[i]))
    <3>1. CASE i = n
      <4>1. Append(got, r)[n] = r
        BY <1>3, <2>1, <2>2
      <4> QED  BY <2>3, <3>1, <4>1
    <3>2. CASE i # n
      <4>1. i \in 1..s.cursor
        BY <1>1, <1>3, <3>2
      <4>2. Append(got, r)[i] = got[i]
        BY <2>1, <2>2, <4>1
      <4> QED  BY <2>1, <4>1, <4>2
    <3> QED  BY <3>1, <3>2
  <2> QED  BY <1>6, <1>7, <2>4, <2>5 DEF HasGot, got, S
<1>10. InPhase(t, v)
  BY <1>1, <1>3, <1>6, <1>7 DEF InPhase
<1>11. Serves(t, v)
  BY <1>6, <1>7, <1>8, <1>9, <1>10 DEF Serves
<1> QED  BY <1>4, <1>6, <1>11 DEF t, v, r

\* and RETURN when no record is left.
LEMMA AtEndServes ==
    ASSUME RanksAreNumbers, NEW s, NEW w, Serves(s, w), s.phase = "Output",
           ~(s.cursor < Len(s.sorted))
    PROVE  Serves(s, [w EXCEPT !.atEnd = TRUE])
<1> DEFINE v == [w EXCEPT !.atEnd = TRUE]
<1>1. /\ s.sorted = Sorted(s.released, s.key)
      /\ s.cursor \in 0..Len(s.sorted)
      /\ Comparable(s.released, s.key)
  BY DEF Serves, InPhase
<1>2. Len(s.sorted) \in Nat
  BY <1>1, ServesSorted
<1>3. s.cursor = Len(s.sorted)
  BY <1>1, <1>2
<1>4. v.got = w.got /\ v.release = w.release /\ v.atEnd = TRUE /\ IsView(v)
  <2>1. IsView(w)
    BY DEF Serves
  <2> QED  BY <2>1 DEF IsView
<1> HIDE DEF v
<1>5. HasReleased(s, v) /\ HasGot(s, v)
  BY <1>4 DEF Serves, HasReleased, HasGot
<1>6. InPhase(s, v)
  BY <1>1, <1>3 DEF InPhase
<1>7. Serves(s, v)
  BY <1>4, <1>5, <1>6 DEF Serves
<1> QED  BY <1>7 DEF v

\* What is cut off when an activation ends: the SORTs from its first one on.
LEMMA TruncatedIs ==
    ASSUME SortsServe, FramesMatch, NEW l \in Nat
    PROVE  \E n \in 0..Len(sorts) : /\ Truncated(l) = SubSeq(sorts, 1, n)
                                    /\ \A i \in 1..n : sorts[i].level < l
<1> DEFINE R == {n \in 0..Len(sorts) :
                   n < Len(sorts) => sorts[n + 1].level >= l}
           Cutoff(n) == /\ \A i \in 1..n : sorts[i].level < l
                        /\ n < Len(sorts) => sorts[n + 1].level >= l
<1>1. /\ Len(sorts) \in Nat /\ DOMAIN sorts = 1..Len(sorts)
      /\ \A i \in DOMAIN sorts : sorts[i].level \in Nat
  <2>1. \E S : stack \in Seq(S)
    BY DEF FramesMatch
  <2>2. DOMAIN stack = 1..Len(stack)
    BY <2>1
  <2> QED  BY <2>2, MatchedAre DEF SortsServe
<1>2. Len(sorts) \in R /\ R \in SUBSET Nat
  BY <1>1
<1>3. PICK n \in R : \A m \in R : n <= m
  <2> HIDE DEF R
  <2> QED  BY <1>2, LeastNat
<1>4. \A i \in 1..n : sorts[i].level < l
  <2>1. ASSUME NEW i \in 1..n
        PROVE  sorts[i].level < l
    <3>1. i - 1 \in 0..Len(sorts) /\ i - 1 < Len(sorts) /\ ~(n <= i - 1)
          /\ i \in DOMAIN sorts /\ (i - 1) + 1 = i
      BY <1>1
    <3>2. i - 1 \notin R
      BY <1>3, <3>1
    <3>3. ~(sorts[i].level >= l)
      BY <3>1, <3>2
    <3> QED  BY <1>1, <3>1, <3>3
  <2> QED  BY <2>1
<1>5. n \in 0..Len(sorts) /\ Cutoff(n)
  BY <1>4
<1>6. PICK m \in 0..Len(sorts) :
         Cutoff(m) /\ Truncated(l) = SubSeq(sorts, 1, m)
  <2> DEFINE m == CHOOSE m \in 0..Len(sorts) : Cutoff(m)
  <2>1. Truncated(l) = SubSeq(sorts, 1, m)
    BY DEF Truncated
  <2> HIDE DEF Cutoff
  <2>2. m \in 0..Len(sorts) /\ Cutoff(m)
    BY <1>5
  <2> QED  BY <2>1, <2>2
<1> QED  BY <1>6

\* The innermost SORT.
LEMMA InnermostServes ==
    ASSUME SortsServe, sorts # <<>>
    PROVE  /\ Serves(Innermost, work[Len(work)])
           /\ Len(work) = Len(sorts) /\ Len(sorts) \in DOMAIN sorts
           /\ Len(work) \in DOMAIN work
<1>1. PICK S : sorts \in Seq(S)
  BY DEF SortsServe, Matched
<1>2. Len(sorts) \in DOMAIN sorts
  BY <1>1
<1>3. Len(work) = Len(sorts) /\ DOMAIN work = DOMAIN sorts
  BY MatchedAre DEF SortsServe
<1>4. Serves(sorts[Len(sorts)], work[Len(sorts)])
  BY <1>2 DEF SortsServe, Matched
<1> QED  BY <1>2, <1>3, <1>4 DEF Innermost

\* Its next record consists of bytes.
LEMMA NextAreBytes ==
    ASSUME RanksAreNumbers, SortsServe
    PROVE  NextIsBytes
<1> DEFINE s == Innermost
<1>1. SUFFICES ASSUME sorts # <<>>, s.cursor < Len(s.sorted)
               PROVE  s.sorted[s.cursor + 1] \in Seq(CellBytes)
  BY DEF NextIsBytes, HasRecord, NextRecord
<1>2. PICK w : Serves(s, w)
  BY <1>1, InnermostServes
<1> HIDE DEF s
<1>3. 0 \in Nat
  OBVIOUS
<1> QED  BY <1>1, <1>2, <1>3, ReturnServes

\* The SORT statement.
LEMMA SortStep ==
    ASSUME RanksAreNumbers, Storage, SortsServe, Sort
    PROVE  SortsServe'
<1>0. FramesMatch /\ BindingsShared /\ StoreOK(cells) /\ stack # <<>>
  BY DEF Storage, Inv, Sort
<1> DEFINE new == [release |-> <<>>, got |-> <<>>, atEnd |-> FALSE]
           Of(f) == LET sd == SortFiles[Top.program][f]
                    IN  NewSort(f, sd.record, Total(cells, At(sd.record)),
                                sd.key, Len(stack))
<1>1. PICK f \in DOMAIN SortFiles[Top.program], input \in BOOLEAN :
         sorts' = Append(sorts, IF input THEN Of(f) ELSE OutputPhase(Of(f)))
  BY DEF Sort
<1> DEFINE sd == SortFiles[Top.program][f]
           len == Total(cells, At(sd.record))
           s == Of(f)
<1>2. sd.record \in Names(Top.program) /\ sd.key.given \in BOOLEAN
  BY <1>0, TextNames
<1>3. len \in Nat
  BY <1>0, <1>2, ReadsBytes
<1>4. /\ s.level = Len(stack) /\ s.phase = "Input" /\ s.released = <<>>
      /\ s.key = sd.key
  BY DEF NewSort
<1>5. s = NewSort(f, sd.record, len, sd.key, Len(stack))
  OBVIOUS
<1> HIDE DEF sd, len, s, new
<1>6. Serves(s, new)
  BY <1>2, <1>3, <1>5, NewServes DEF new
<1>7. Comparable(s.released, s.key)
  <2>1. DOMAIN <<>> = {}
    OBVIOUS
  <2> QED  BY <1>4, <2>1 DEF Comparable, Sortable
<1>8. Serves(OutputPhase(s), new) /\ OutputPhase(s).level = s.level
  BY <1>4, <1>6, <1>7, OutputServes
<1>9. work' = Append(work, new) /\ UNCHANGED stack
  BY DEF Sort, new
<1>10. CASE input
  <2>1. sorts' = Append(sorts, s)
    BY <1>1, <1>10 DEF s
  <2> QED  BY <1>0, <1>4, <1>6, <1>9, <2>1, SortBegins
<1>11. CASE ~input
  <2> DEFINE t == OutputPhase(s)
  <2>1. sorts' = Append(sorts, t)
    BY <1>1, <1>11 DEF s
  <2>2. Serves(t, new) /\ t.level = Len(stack)
    BY <1>4, <1>8
  <2> HIDE DEF t
  <2> QED  BY <1>0, <1>9, <2>1, <2>2, SortBegins
<1> QED  BY <1>10, <1>11

\* RELEASE,
LEMMA ReleaseStep ==
    ASSUME Storage, SortsServe, stack # <<>>,
           NEW r \in Releases[Top.program], ReleaseAccepted(r.record),
           sorts' = Released(Read(Copied(cells, r.from, r.record),
                                  At(r.record))),
           work' = [work EXCEPT ![Len(work)].release = Append(@, Normalized(
                      Read(Copied(cells, r.from, r.record), At(r.record)),
                      Innermost.len))],
           UNCHANGED stack
    PROVE  SortsServe'
<1> DEFINE there == Copied(cells, r.from, r.record)
           b == Read(there, At(r.record))
           s == Innermost
           w == work[Len(work)]
           x == Normalized(b, s.len)
           t == [s EXCEPT !.released = Append(@, x)]
           v == [w EXCEPT !.release = Append(@, x)]
<1>0. FramesMatch /\ BindingsShared /\ StoreOK(cells) /\ Inv
  BY DEF Storage, Inv
<1>1. /\ r.from \in Names(Top.program) /\ r.record \in Names(Top.program)
      /\ r.record \notin Numeric[Top.program]
  BY <1>0, TextNames
<1>2. StoreOK(there)
  BY <1>0, <1>1, CopySteps DEF Steps
<1>3. b \in Seq(CellBytes)
  <2> HIDE DEF there
  <2> QED  BY <1>0, <1>1, <1>2, ReadsBytes
<1>4. sorts # <<>> /\ s.phase = "Input"
  BY DEF ReleaseAccepted
<1>5. Serves(s, w) /\ Len(work) \in DOMAIN work
  BY <1>4, InnermostServes
<1>6. sorts' = WithLast(t) /\ work' = [work EXCEPT ![Len(work)] = v]
  <2>1. sorts' = WithLast(t)
    BY DEF Released
  <2>2. work' = [work EXCEPT ![Len(work)].release = Append(@, x)]
    OBVIOUS
  <2> HIDE DEF x
  <2> QED  BY <2>1, <2>2
<1>7. Serves(t, v) /\ t.level = s.level
  <2> HIDE DEF b, s, w
  <2> QED  BY <1>3, <1>4, <1>5, ReleaseServes
<1> HIDE DEF t, v
<1> QED  BY <1>4, <1>6, <1>7, SortMoves

\* the end of the INPUT procedure,
LEMMA EndInputStep ==
    ASSUME RanksAreNumbers, SortsServe, InProcedure("Input"),
           Comparable(Innermost.released, Innermost.key),
           sorts' = WithLast(OutputPhase(Innermost)), UNCHANGED <<stack, work>>
    PROVE  SortsServe'
<1> DEFINE s == Innermost
           w == work[Len(work)]
           t == OutputPhase(s)
<1>1. sorts # <<>> /\ s.phase = "Input"
  BY DEF InProcedure
<1>2. Serves(s, w) /\ Len(work) \in DOMAIN work
  BY <1>1, InnermostServes
<1>3. Serves(t, w) /\ t.level = s.level
  <2> HIDE DEF w
  <2> QED  BY <1>1, <1>2, OutputServes
<1>4. [work EXCEPT ![Len(work)] = w] = work
  <2>1. \E S : work \in Seq(S)
    BY DEF SortsServe, Matched
  <2> QED  BY <1>2, <2>1
<1> HIDE DEF t, w
<1>5. sorts' = WithLast(t) /\ work' = [work EXCEPT ![Len(work)] = w]
  BY <1>4 DEF t
<1> QED  BY <1>1, <1>3, <1>5, SortMoves

\* RETURN of a record,
LEMMA ReturnStep ==
    ASSUME RanksAreNumbers, Storage, SortsServe, stack # <<>>,
           NEW r \in Returns[Top.program], ReturnAccepted(r.file), HasRecord,
           sorts' = Taken,
           work' = [work EXCEPT ![Len(work)].got = Append(@,
                      Read(Written(cells, At(r.record), NextRecord),
                           At(r.record)))],
           UNCHANGED stack
    PROVE  SortsServe'
<1> DEFINE ks == At(r.record)
           s == Innermost
           w == work[Len(work)]
           b == s.sorted[s.cursor + 1]
           len == Total(cells, ks)
           x == Read(Written(cells, ks, b), ks)
           t == [s EXCEPT !.cursor = @ + 1]
           v == [w EXCEPT !.got = Append(@, x)]
<1>0. FramesMatch /\ BindingsShared /\ StoreOK(cells) /\ Inv
  BY DEF Storage, Inv
<1>1. r.record \in Names(Top.program)
  BY <1>0, TextNames
<1>2. len \in Nat /\ CellList(ks, Cells)
  BY <1>0, <1>1, ReadsBytes, AtCells
<1>3. sorts # <<>> /\ s.cursor < Len(s.sorted)
  BY DEF ReturnAccepted, HasRecord
<1>4. Serves(s, w) /\ Len(work) \in DOMAIN work
  BY <1>3, InnermostServes
<1>5. b \in Seq(CellBytes)
  <2> HIDE DEF s, w, len
  <2> QED  BY <1>2, <1>3, <1>4, ReturnServes
<1>6. x = Normalized(b, len)
  <2> HIDE DEF b, ks
  <2>1. Stores(cells, Cells, CellBytes) /\ DOMAIN cells = Cells
    BY <1>0 DEF StoreOK
  <2> QED  BY <1>2, <1>5, <2>1, BlankIsByte, WriteRead DEF len
<1>7. sorts' = WithLast(t) /\ work' = [work EXCEPT ![Len(work)] = v]
  <2>1. sorts' = WithLast(t)
    BY DEF Taken
  <2>2. work' = [work EXCEPT ![Len(work)].got = Append(@, x)]
    BY DEF NextRecord
  <2> HIDE DEF x
  <2> QED  BY <2>1, <2>2
<1>8. Serves(t, v) /\ t.level = s.level
  <2> DEFINE u == [w EXCEPT !.got = Append(@, Normalized(b, len))]
  <2>1. Serves(t, u) /\ t.level = s.level
    <3> HIDE DEF s, w, len
    <3> QED  BY <1>2, <1>3, <1>4, ReturnServes
  <2>2. u = v
    BY <1>6
  <2> HIDE DEF t, u, v
  <2> QED  BY <2>1, <2>2
<1> HIDE DEF t, v
<1> QED  BY <1>3, <1>7, <1>8, SortMoves

\* and AT END.
LEMMA AtEndStep ==
    ASSUME RanksAreNumbers, SortsServe, NEW f, ReturnAccepted(f), ~HasRecord,
           work' = [work EXCEPT ![Len(work)].atEnd = TRUE],
           UNCHANGED <<stack, sorts>>
    PROVE  SortsServe'
<1> DEFINE s == Innermost
           w == work[Len(work)]
           v == [w EXCEPT !.atEnd = TRUE]
<1>1. sorts # <<>> /\ s.phase = "Output" /\ ~(s.cursor < Len(s.sorted))
  BY DEF ReturnAccepted, HasRecord
<1>2. Serves(s, w) /\ Len(work) \in DOMAIN work /\ Len(sorts) \in DOMAIN sorts
  BY <1>1, InnermostServes
<1>3. Serves(s, v)
  <2> HIDE DEF s, w
  <2> QED  BY <1>1, <1>2, AtEndServes
<1>4. sorts' = WithLast(s)
  <2>1. \E S : sorts \in Seq(S)
    BY DEF SortsServe, Matched
  <2>2. [sorts EXCEPT ![Len(sorts)] = sorts[Len(sorts)]] = sorts
    BY <1>2, <2>1
  <2> QED  BY <2>2 DEF WithLast, Innermost
<1>5. work' = [work EXCEPT ![Len(work)] = v]
  OBVIOUS
<1> HIDE DEF v
<1> QED  BY <1>1, <1>3, <1>4, <1>5, SortMoves

\* No SORT at all.
LEMMA NoSorts ==
    ASSUME sorts' = <<>>, work' = <<>>
    PROVE  SortsServe'
<1>1. <<>> \in Seq({}) /\ Len(<<>>) = 0 /\ DOMAIN <<>> = {}
  OBVIOUS
<1>2. Matched(<<>>, <<>>)
  BY <1>1 DEF Matched
<1> QED  BY <1>1, <1>2 DEF SortsServe, Nested

\* Every step of the run unit.
LEMMA SortsStep ==
    ASSUME RanksAreNumbers, Storage, SortsServe, [Next]_vars
    PROVE  SortsServe'
<1>0. /\ Inv /\ FramesMatch
      /\ \E S : stack \in Seq(S)
      /\ \E S : sorts \in Seq(S)
      /\ \E S : work \in Seq(S)
  BY DEF Storage, Inv, FramesMatch, SortsServe, Matched
<1>s. ASSUME UNCHANGED <<stack, sorts, work>>
      PROVE  SortsServe'
  BY <1>s, SortsStay
<1>a. ASSUME Abend
      PROVE  SortsServe'
  BY <1>a, NoSorts DEF Abend
<1>e. ASSUME NEW q, NEW c, EnterProgram(q, c)
      PROVE  SortsServe'
  <2> DEFINE x == Activation(q, [n \in FormalNames(q) |->
                        Bound(q, n, Argument(c, ParameterOf(q, n)))])
  <2>1. stack' = Append(stack, x) /\ UNCHANGED <<sorts, work>>
    BY <1>e DEF EnterProgram
  <2> HIDE DEF x
  <2>2. DOMAIN stack' = DOMAIN stack \cup {Len(stack) + 1}
    BY <1>0, <2>1, AppendParts
  <2>3. DOMAIN stack \subseteq DOMAIN stack'
    BY <2>2
  <2> QED  BY <2>1, <2>3, SortsStay
<1>1. CASE Start
  <2>1. DOMAIN stack = {} /\ UNCHANGED <<sorts, work>>
    BY <1>1 DEF Start
  <2>2. DOMAIN stack \subseteq DOMAIN stack'
    BY <2>1
  <2> QED  BY <2>1, <2>2, SortsStay
<1>2. CASE EndProgram
  <2>1. /\ stack # <<>> /\ sorts' = Truncated(Len(stack))
        /\ work' = SubSeq(work, 1, Len(sorts'))
        /\ stack' = SubSeq(stack, 1, Len(stack) - 1)
    BY <1>2 DEF EndProgram, WorkUpTo
  <2>2. /\ Len(stack) \in DOMAIN stack /\ Len(stack) \in Nat
        /\ DOMAIN stack = 1..Len(stack)
    BY <1>0, <2>1, TopRuns
  <2>3. PICK n \in 0..Len(sorts) :
           /\ sorts' = SubSeq(sorts, 1, n)
           /\ \A i \in 1..n : sorts[i].level < Len(stack)
    BY <1>0, <2>1, <2>2, TruncatedIs
  <2>4. /\ Len(sorts) \in Nat /\ DOMAIN sorts = 1..Len(sorts)
        /\ Len(SubSeq(sorts, 1, n)) = n
    BY <1>0
  <2>5. work' = SubSeq(work, 1, n)
    BY <2>1, <2>3, <2>4
  <2>6. DOMAIN stack' = 1..(Len(stack) - 1)
    BY <1>0, <2>1, <2>2
  <2>7. ASSUME NEW i \in 1..n
        PROVE  sorts[i].level \in DOMAIN stack'
    <3>1. i \in DOMAIN sorts
      BY <2>4
    <3>2. sorts[i].level \in 1..Len(stack) /\ sorts[i].level < Len(stack)
      BY <2>2, <2>3, <3>1 DEF SortsServe
    <3> QED  BY <2>2, <2>6, <3>2
  <2> QED  BY <2>3, <2>5, <2>7, SortsEnd
<1>3. CASE Move \/ MoveLiteral \/ UNCHANGED vars
  BY <1>3, <1>s DEF Move, MoveLiteral, vars
<1>4. CASE CallLiteral
  <2>1. Abend \/ \E c \in Calls[Top.program] : EnterProgram(c.target, c)
    BY <1>4, Zenon DEF CallLiteral
  <2> QED  BY <1>a, <1>e, <2>1
<1>5. CASE CallDynamic
  <2>1. \/ Abend \/ UNCHANGED <<stack, sorts, work>>
        \/ \E c \in Calls[Top.program] : EnterProgram(c.target, c)
    BY <1>5 DEF CallDynamic
  <2> QED  BY <1>a, <1>e, <1>s, <2>1
<1>6. CASE Sort
  BY <1>6, SortStep
<1>7. CASE Release
  <2>1. stack # <<>>
    BY <1>7 DEF Release
  <2>2. PICK r \in Releases[Top.program] :
           \/ Abend
           \/ /\ ReleaseAccepted(r.record)
              /\ sorts' = Released(Read(Copied(cells, r.from, r.record),
                                        At(r.record)))
              /\ work' = [work EXCEPT ![Len(work)].release =
                            Append(@, Normalized(
                              Read(Copied(cells, r.from, r.record),
                                   At(r.record)), Innermost.len))]
              /\ UNCHANGED stack
    BY <1>7 DEF Release
  <2> QED  BY <1>a, <2>1, <2>2, ReleaseStep
<1>8. CASE EndInput
  <2>1. \/ Abend
        \/ /\ InProcedure("Input")
           /\ Comparable(Innermost.released, Innermost.key)
           /\ sorts' = WithLast(OutputPhase(Innermost))
           /\ UNCHANGED <<stack, work>>
    BY <1>8 DEF EndInput, Comparable
  <2> QED  BY <1>a, <2>1, EndInputStep
<1>9. CASE Return
  <2>1. stack # <<>>
    BY <1>9 DEF Return
  <2>2. PICK r \in Returns[Top.program] :
           \/ Abend
           \/ /\ ReturnAccepted(r.file) /\ HasRecord
              /\ sorts' = Taken
              /\ work' = [work EXCEPT ![Len(work)].got = Append(@,
                            Read(Written(cells, At(r.record), NextRecord),
                                 At(r.record)))]
              /\ UNCHANGED stack
           \/ /\ ReturnAccepted(r.file) /\ ~HasRecord
              /\ work' = [work EXCEPT ![Len(work)].atEnd = TRUE]
              /\ UNCHANGED <<stack, sorts>>
    BY <1>9 DEF Return
  <2> QED  BY <1>a, <2>1, <2>2, ReturnStep, AtEndStep
<1>10. CASE LeaveSort
  <2> DEFINE n == Len(sorts) - 1
  <2>1. /\ sorts # <<>> /\ sorts' = SubSeq(sorts, 1, n)
        /\ work' = SubSeq(work, 1, n) /\ UNCHANGED stack
    BY <1>10 DEF LeaveSort, WorkUpTo
  <2>2. n \in 0..Len(sorts) /\ \A i \in 1..n : i \in DOMAIN sorts
    BY <1>0, <2>1
  <2> HIDE DEF n
  <2>3. \A i \in 1..n : sorts[i].level \in DOMAIN stack'
    BY <2>1, <2>2 DEF SortsServe
  <2> QED  BY <2>1, <2>2, <2>3, SortsEnd
<1> QED
  BY <1>1, <1>2, <1>3, <1>4, <1>5, <1>6, <1>7, <1>8, <1>9, <1>10 DEF Next

-----------------------------------------------------------------------------
\* The invariant of the run unit.
RunUnit == /\ Storage /\ SortsServe
           /\ status \in {"  ", "00", "01", "02"}
           /\ Len(stack) <= MaxDepth

\* There is room for the main program.
LEMMA DepthIs == MaxDepth \in Nat /\ 1 <= MaxDepth
<1>1. MaxDepth \in Nat \ {0}
  BY CallAssumption, Zenon
<1> QED  BY ONLY <1>1

\* It holds of the first state
LEMMA RunUnitAtFirst == Init => RunUnit
<1> SUFFICES ASSUME Init PROVE RunUnit
  OBVIOUS
<1>1. /\ cells = InitialCells /\ stack = <<>> /\ sorts = <<>> /\ work = <<>>
      /\ status = "  "
  BY DEF Init
<1>2. <<>> \in Seq({}) /\ Len(<<>>) = 0 /\ DOMAIN <<>> = {}
  OBVIOUS
<1>3. StoreOK(cells)
  BY <1>1, InitialStores DEF StoreOK, Cells
<1>4. Storage
  BY <1>1, <1>2, <1>3, InitHolds DEF Storage, BindingsShared
<1>5. SortsServe
  <2>1. Matched(<<>>, <<>>)
    BY <1>2 DEF Matched
  <2> QED  BY <1>1, <1>2, <2>1 DEF SortsServe, Nested
<1>6. Len(stack) <= MaxDepth
  <2>1. Len(stack) = 0
    BY <1>1, <1>2
  <2>2. MaxDepth \in Nat
    BY DepthIs
  <2> QED  BY ONLY <2>1, <2>2
<1> QED  BY <1>1, <1>4, <1>5, <1>6 DEF RunUnit

\* and after every step.
LEMMA RunUnitStays ==
    ASSUME RanksAreNumbers, RunUnit, [Next]_vars
    PROVE  RunUnit'
<1>0. /\ Storage /\ SortsServe /\ Inv /\ BindingsShared /\ StoreOK(cells)
      /\ \E S : stack \in Seq(S)
  BY DEF RunUnit, Storage, Inv, FramesMatch
<1>1. Inv' /\ BindingsShared'
  BY <1>0, StepKeeps, BindingsStayShared
<1>2. StoreOK(cells)'
  <2>1. StoreOK(cells')
    <3>1. CASE Next
      BY <1>0, <3>1, NextAreBytes, CellsStep DEF Steps
    <3>2. CASE UNCHANGED vars
      BY <1>0, <3>2 DEF vars
    <3> QED  BY <3>1, <3>2
  <2> QED  BY <2>1 DEF StoreOK
<1>3. SortsServe'
  BY <1>0, SortsStep
<1>4. status' \in {"  ", "00", "01", "02"}
  BY DEF RunUnit, Next, vars, Start, EndProgram, Move, MoveLiteral,
         CallLiteral, CallDynamic, Sort, Release, EndInput, Return, LeaveSort
<1>5. Len(stack') <= MaxDepth
  <2>1. MaxDepth \in Nat /\ 1 <= MaxDepth /\ Len(stack) <= MaxDepth
        /\ Len(stack) \in Nat
    <3>1. MaxDepth \in Nat /\ 1 <= MaxDepth
      BY DepthIs
    <3>2. Len(stack) <= MaxDepth
      BY DEF RunUnit
    <3>3. Len(stack) \in Nat
      BY <1>0
    <3> QED  BY <3>1, <3>2, <3>3
  <2>a. ASSUME stack' = <<>> PROVE Len(stack') <= MaxDepth
    BY <2>1, <2>a
  <2>e. ASSUME NEW q, NEW c, EnterProgram(q, c)
        PROVE  Len(stack') <= MaxDepth
    <3> DEFINE x == Activation(q, [n \in FormalNames(q) |->
                        Bound(q, n, Argument(c, ParameterOf(q, n)))])
    <3>1. stack' = Append(stack, x) /\ Len(stack) < MaxDepth
      BY <2>e DEF EnterProgram
    <3> HIDE DEF x
    <3>2. Len(stack') = Len(stack) + 1
      BY <1>0, <3>1, AppendParts
    <3> QED  BY <2>1, <3>1, <3>2
  <2>2. CASE Start
    <3> DEFINE x == Activation(Main, <<>>)
    <3>1. stack' = <<x>>
      BY <2>2 DEF Start
    <3> HIDE DEF x
    <3>2. Len(stack') = 1
      BY <3>1
    <3> QED  BY <2>1, <3>2
  <2>3. CASE EndProgram
    <3>1. stack # <<>> /\ stack' = SubSeq(stack, 1, Len(stack) - 1)
      BY <2>3 DEF EndProgram
    <3>2. Len(stack') = Len(stack) - 1
      BY <1>0, <3>1, FrontParts
    <3> QED  BY <2>1, <3>2
  <2>4. CASE \/ Move \/ MoveLiteral \/ Sort \/ LeaveSort \/ Release
             \/ EndInput \/ Return \/ UNCHANGED vars
    <3>1. UNCHANGED stack \/ stack' = <<>>
      BY <2>4 DEF Move, MoveLiteral, Sort, LeaveSort, Release, EndInput,
                  Return, vars, Abend
    <3> QED  BY <2>1, <2>a, <3>1
  <2>5. CASE CallLiteral
    <3>1. \/ stack' = <<>>
          \/ \E c \in Calls[Top.program] : EnterProgram(c.target, c)
      BY <2>5, Zenon DEF CallLiteral, Abend
    <3> QED  BY <2>a, <2>e, <3>1
  <2>6. CASE CallDynamic
    <3>1. \/ stack' = <<>> \/ UNCHANGED stack
          \/ \E c \in Calls[Top.program] : EnterProgram(c.target, c)
      BY <2>6 DEF CallDynamic, Abend
    <3> QED  BY <2>1, <2>a, <2>e, <3>1
  <2> QED  BY <2>2, <2>3, <2>4, <2>5, <2>6 DEF Next
<1> QED  BY <1>1, <1>2, <1>3, <1>4, <1>5 DEF RunUnit, Storage

\* What follows for the delivery of records.
LEMMA RunUnitDelivers ==
    ASSUME RanksAreNumbers, RunUnit
    PROVE  SortDelivers
<1>0. /\ Inv /\ FramesMatch /\ BindingsShared /\ StoreOK(cells) /\ SortsServe
      /\ Matched(sorts, work) /\ Nested(sorts)
  BY DEF RunUnit, Storage, Inv, SortsServe
<1>1. /\ Len(sorts) \in Nat /\ DOMAIN sorts = 1..Len(sorts)
      /\ Len(work) = Len(sorts) /\ DOMAIN work = DOMAIN sorts
  BY <1>0, MatchedAre
<1>2. ASSUME NEW i \in DOMAIN sorts
      PROVE  /\ SortOK(sorts[i], CellBytes)
             /\ LET in  == work[i].release
                    out == work[i].got
                IN  /\ Len(out) <= Len(in)
                    /\ \A n \in DOMAIN out :
                          out[n] = Normalized(in[Due(in, n, sorts[i].key)],
                                              Len(out[n]))
                    /\ work[i].atEnd => Len(out) = Len(in)
  <2> DEFINE s == sorts[i]
             w == work[i]
             in == w.release
             out == w.got
  <2>1. Serves(s, w)
    BY <1>0 DEF Matched
  <2> HIDE DEF s, w
  <2>2. in = s.released /\ in \in Seq(Seq(CellBytes)) /\ Len(in) \in Nat
    BY <2>1 DEF Serves, HasReleased
  <2>3. /\ out \in Seq(Seq(CellBytes)) /\ Len(out) = s.cursor
        /\ DOMAIN out = 1..s.cursor
        /\ \A n \in 1..s.cursor : out[n] = Normalized(s.sorted[n], Len(out[n]))
    <3>1. out \in Seq(Seq(CellBytes)) /\ Len(out) = s.cursor
      BY <2>1 DEF Serves, HasGot
    <3>2. DOMAIN out = 1..Len(out)
      BY <3>1
    <3> QED  BY <2>1, <3>1, <3>2 DEF Serves, HasGot
  <2>4. CASE s.phase = "Input" /\ s.sorted = <<>> /\ s.cursor = 0 /\ ~w.atEnd
    <3>1. s.cursor \in 0..Len(s.sorted)
      BY <2>4
    <3>2. SortOK(s, CellBytes)
      BY <2>1, <2>4, <3>1 DEF SortOK, Serves, HasReleased
    <3>3. Len(out) <= Len(in) /\ \A n : n \notin DOMAIN out
      BY <2>2, <2>3, <2>4
    <3> QED  BY <2>4, <3>2, <3>3 DEF s, w
  <2>5. CASE /\ s.phase = "Output"
             /\ s.sorted = Sorted(s.released, s.key)
             /\ s.cursor \in 0..Len(s.sorted)
             /\ Comparable(s.released, s.key)
             /\ w.atEnd => s.cursor = Len(s.sorted)
    <3>1. SortOK(s, CellBytes)
      BY <2>1, <2>5 DEF SortOK, Serves, HasReleased
    <3>2. /\ Len(s.sorted) = Len(in)
          /\ \A n \in 1..Len(in) : s.sorted[n] = in[Due(in, n, s.key)]
      BY <2>1, <2>2, <2>5, ServesSorted
    <3>3. Len(out) <= Len(in) /\ (w.atEnd => Len(out) = Len(in))
      BY <2>2, <2>3, <2>5, <3>2
    <3>4. \A n \in DOMAIN out : n \in 1..Len(in)
      BY <2>2, <2>3, <2>5, <3>2
    <3>5. \A n \in DOMAIN out :
             out[n] = Normalized(in[Due(in, n, s.key)], Len(out[n]))
      BY <2>3, <3>2, <3>4
    <3> HIDE DEF in, out
    <3>6. /\ Len(out) <= Len(in)
          /\ \A n \in DOMAIN out :
                out[n] = Normalized(in[Due(in, n, s.key)], Len(out[n]))
          /\ w.atEnd => Len(out) = Len(in)
      BY <3>3, <3>5
    <3> QED  BY <3>1, <3>6 DEF in, out, s, w
  <2> QED  BY <2>1, <2>4, <2>5 DEF Serves, InPhase
<1>3. ASSUME NEW k \in DOMAIN cells
      PROVE  cells[k] \in [DOMAIN InitialCells[k] -> CellBytes]
  <2>1. /\ k \in Cells /\ cells[k] \in Seq(CellBytes)
        /\ Len(cells[k]) = Len(InitialCells[k])
    BY <1>0 DEF StoreOK, Stores
  <2>2. InitialCells[k] \in Seq(CellBytes)
    BY <2>1, InitialStores DEF Stores
  <2>3. DOMAIN cells[k] = DOMAIN InitialCells[k]
    BY <2>1, <2>2
  <2>4. cells[k] \in [DOMAIN cells[k] -> CellBytes]
    BY <2>1
  <2> QED  BY <2>3, <2>4
<1>4. TypeOK
  <2>1. DOMAIN cells = DOMAIN InitialCells
    BY <1>0 DEF StoreOK, Cells
  <2>2. \A i \in DOMAIN sorts :
           /\ SortOK(sorts[i], CellBytes)
           /\ sorts[i].level \in DOMAIN stack
           /\ i > 1 => sorts[i - 1].level <= sorts[i].level
    BY <1>0, <1>2 DEF SortsServe, Nested
  <2>3. /\ status \in {"  ", "00", "01", "02"} /\ Len(stack) <= MaxDepth
        /\ Len(scopes) = Len(stack)
        /\ \A d \in DOMAIN stack : stack[d].program \in Programs
    BY <1>0 DEF RunUnit, FramesMatch
  <2> QED  BY <1>1, <1>3, <2>1, <2>2, <2>3 DEF TypeOK
<1>5. \A i \in DOMAIN work :
         LET in  == work[i].release
             out == work[i].got
         IN  /\ Len(out) <= Len(in)
             /\ \A n \in DOMAIN out :
                   out[n] = Normalized(in[Due(in, n, sorts[i].key)],
                                       Len(out[n]))
             /\ work[i].atEnd => Len(out) = Len(in)
  BY <1>1, <1>2
<1> QED  BY <1>4, <1>5, Zenon DEF SortDelivers

\* For any programs, nesting of SORTs and depth of calls: RETURN delivers the
\* records that the same SORT was given, each once, in the order of its key and
\* equal ones as they came, and AT END comes after the last of them.
THEOREM SortsDeliver ==
    ASSUME RanksAreNumbers
    PROVE  Spec => []SortDelivers
<1>1. RunUnit /\ [Next]_vars => RunUnit'
  BY RunUnitStays
<1>2. RunUnit => SortDelivers
  BY RunUnitDelivers
<1> QED  BY <1>1, <1>2, RunUnitAtFirst, PTL DEF Spec

\* And no statement of a program, at any depth, changes a cell that is neither
\* its own nor passed to it, nor a number that is only passed as a copy.
THEOREM OthersCellsAreKept ==
    ASSUME RanksAreNumbers
    PROVE  Spec => OthersKeepTheirCells
<1> DEFINE Keeps == \A k \in DOMAIN cells : cells'[k] # cells[k] =>
              k \notin Unshared /\
                 \/ k \in Reach(Len(stack))
                 \/ /\ k[1] \in Initials /\ Len(k) = 2
                    /\ \E c \in Calls[Top.program] : c.target = k[1]
                 \/ k[1] = Top.program /\ Len(k) = 4
<1>1. RunUnit /\ [Next]_vars => RunUnit'
  BY RunUnitStays
<1>2. ASSUME RunUnit, [Next]_vars
      PROVE  [Keeps]_vars
  <2>1. Storage /\ NextIsBytes /\ DOMAIN cells = Cells
    BY <1>2, NextAreBytes DEF RunUnit, Storage, StoreOK
  <2>2. CASE Next
    <3>1. Steps(cells, cells')
      BY <2>1, <2>2, CellsStep
    <3>2. Keeps
      BY <2>1, <3>1 DEF Steps, Allowed
    <3> QED  BY <3>2
  <2>3. CASE UNCHANGED vars
    BY <2>3
  <2> QED  BY <1>2, <2>2, <2>3
<1>3. OthersKeepTheirCells <=> [][Keeps]_vars
  BY DEF OthersKeepTheirCells
<1> QED  BY <1>1, <1>2, <1>3, RunUnitAtFirst, PTL DEF Spec
=============================================================================
