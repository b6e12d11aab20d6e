------------------------ MODULE PerformControl_proofs ------------------------
(***************************************************************************)
(* PerformControl for any program, any number of blocks and any depth.     *)
(* A step does one of five things to the stack of calls; the lemmas below  *)
(* say what each does to it entry by entry, and the invariants follow      *)
(* entry by entry.                                                         *)
(*                                                                         *)
(* The second half shows that these calls do what PerformStack promises.   *)
(* RangesOf is a function of the length of the stack, so what one more or  *)
(* one less call does to it needs the few facts about the least natural    *)
(* number of a set that come first.                                        *)
(***************************************************************************)
EXTENDS PerformControl, SequenceTheorems, WellFoundedInduction, TLAPS

-----------------------------------------------------------------------------
(* A stack with one more entry.                                            *)
LEMMA PushEntries ==
    ASSUME NEW S, NEW s \in Seq(S), NEW e \in S
    PROVE  /\ Append(s, e) \in Seq(S)
           /\ Len(Append(s, e)) = Len(s) + 1
           /\ \A i \in 1..Len(s) : Append(s, e)[i] = s[i]
           /\ Append(s, e)[Len(s) + 1] = e
  OBVIOUS

(* A stack cut down to its first n entries.                                *)
LEMMA CutEntries ==
    ASSUME NEW S, NEW s \in Seq(S), NEW n \in Nat, n <= Len(s)
    PROVE  /\ SubSeq(s, 1, n) \in Seq(S)
           /\ Len(SubSeq(s, 1, n)) = n
           /\ \A i \in 1..n : SubSeq(s, 1, n)[i] = s[i]
  <1>1. Len(s) \in Nat /\ \A i \in 1..n : s[i] \in S
    OBVIOUS
  <1>2. /\ SubSeq(s, 1, n) \in Seq(S)
        /\ Len(SubSeq(s, 1, n)) = IF 1 <= n THEN n - 1 + 1 ELSE 0
        /\ \A i \in 1..(n - 1 + 1) : SubSeq(s, 1, n)[i] = s[1 + i - 1]
    BY <1>1, SubSeqProperties
  <1>3. QED
    BY <1>2

(* A stack without its last entry.                                         *)
LEMMA PopEntries ==
    ASSUME NEW S, NEW s \in Seq(S), s # <<>>
    PROVE  /\ Len(s) \in Nat \ {0}
           /\ SubSeq(s, 1, Len(s) - 1) \in Seq(S)
           /\ Len(SubSeq(s, 1, Len(s) - 1)) = Len(s) - 1
           /\ \A i \in 1..(Len(s) - 1) : SubSeq(s, 1, Len(s) - 1)[i] = s[i]
  <1>1. Len(s) \in Nat \ {0}
    BY EmptySeq
  <1>2. Len(s) - 1 \in Nat /\ Len(s) - 1 <= Len(s)
    BY <1>1
  <1>3. QED
    BY <1>1, <1>2, CutEntries

(* A stack with another last entry.                                        *)
LEMMA ReplaceTop ==
    ASSUME NEW S, NEW s \in Seq(S), s # <<>>, NEW e \in S
    PROVE  /\ Len(s) \in Nat \ {0}
           /\ [s EXCEPT ![Len(s)] = e] \in Seq(S)
           /\ Len([s EXCEPT ![Len(s)] = e]) = Len(s)
           /\ \A i \in 1..(Len(s) - 1) : [s EXCEPT ![Len(s)] = e][i] = s[i]
           /\ [s EXCEPT ![Len(s)] = e][Len(s)] = e
  OBVIOUS

-----------------------------------------------------------------------------
(* One call that is as it should be, and a stack of them.                  *)
GoodFrame(f) ==
    /\ f \in Frame
    /\ f.kind \in Loops => f.at \in Blocks
    /\ f.kind = "range" /\ f.from <= f.thru => f.from <= f.at /\ f.at <= f.thru

Good(s) == s \in Seq(Frame) /\ \A i \in 1..Len(s) : GoodFrame(s[i])

(* Pushing, popping or replacing a call keeps the calls in their ranges.   *)
LEMMA GoodPush ==
    ASSUME NEW s, Good(s), NEW f, GoodFrame(f)
    PROVE  Good(Append(s, f)) /\ Append(s, f) # <<>>
  <1>1. s \in Seq(Frame) /\ f \in Frame /\ Len(s) \in Nat
    BY DEF Good, GoodFrame
  <1>2. /\ Append(s, f) \in Seq(Frame)
        /\ Len(Append(s, f)) = Len(s) + 1
        /\ \A i \in 1..Len(s) : Append(s, f)[i] = s[i]
        /\ Append(s, f)[Len(s) + 1] = f
    BY <1>1, PushEntries
  <1>3. ASSUME NEW i \in 1..(Len(s) + 1)
        PROVE  GoodFrame(Append(s, f)[i])
    <2>1. CASE i \in 1..Len(s)
      BY <1>2, <2>1 DEF Good
    <2>2. CASE i = Len(s) + 1
      BY <1>2, <2>2
    <2>3. QED
      BY <2>1, <2>2, <1>1
  <1>4. Append(s, f) # <<>>
    BY <1>1, <1>2, EmptySeq
  <1>5. QED
    BY <1>2, <1>3, <1>4 DEF Good

(* Popping a call leaves the calls below it as they were.                  *)
LEMMA GoodPop ==
    ASSUME NEW s, Good(s), s # <<>>
    PROVE  Good(SubSeq(s, 1, Len(s) - 1))
  <1>1. s \in Seq(Frame)
    BY DEF Good
  <1>2. /\ Len(s) \in Nat \ {0}
        /\ SubSeq(s, 1, Len(s) - 1) \in Seq(Frame)
        /\ Len(SubSeq(s, 1, Len(s) - 1)) = Len(s) - 1
        /\ \A i \in 1..(Len(s) - 1) : SubSeq(s, 1, Len(s) - 1)[i] = s[i]
    BY <1>1, PopEntries
  <1>3. \A i \in 1..(Len(s) - 1) : GoodFrame(s[i])
    BY <1>2 DEF Good
  <1>4. QED
    BY <1>2, <1>3 DEF Good

(* So does replacing the innermost call by one that is in its range.       *)
LEMMA GoodReplace ==
    ASSUME NEW s, Good(s), s # <<>>, NEW f, GoodFrame(f)
    PROVE  Good([s EXCEPT ![Len(s)] = f])
  <1>1. s \in Seq(Frame) /\ f \in Frame
    BY DEF Good, GoodFrame
  <1> DEFINE t == [s EXCEPT ![Len(s)] = f]
  <1>2. /\ Len(s) \in Nat \ {0}
        /\ t \in Seq(Frame)
        /\ Len(t) = Len(s)
        /\ \A i \in 1..(Len(s) - 1) : t[i] = s[i]
        /\ t[Len(s)] = f
    BY <1>1, ReplaceTop
  <1> HIDE DEF t
  <1>3. ASSUME NEW i \in 1..Len(t)
        PROVE  GoodFrame(t[i])
    <2>1. CASE i \in 1..(Len(s) - 1)
      BY <1>2, <2>1 DEF Good
    <2>2. CASE i = Len(s)
      BY <1>2, <2>2
    <2>3. QED
      BY <2>1, <2>2, <1>2
  <1>4. Good(t)
    BY <1>2, <1>3 DEF Good
  <1>5. QED
    BY <1>4 DEF t

(* The last entry of such a stack, and what a step writes over it.         *)
LEMMA GoodTop ==
    ASSUME Good(frames), frames # <<>>
    PROVE  /\ Len(frames) \in Nat \ {0}
           /\ Top = frames[Len(frames)]
           /\ GoodFrame(Top)
  BY EmptySeq DEF Good, Top

(* The calls the code makes start in their ranges: a program's body,       *)
LEMMA GoodBody == GoodFrame(Body)
  BY ControlAssumption DEF GoodFrame, Body, Frame, Loops, Blocks

(* the range of a PERFORM,                                                 *)
LEMMA GoodRange ==
    ASSUME NEW r \in Performable
    PROVE  GoodFrame(RangeCall(r)) /\ RangeCall(r).kind = "range"
  <1>1. /\ r[1] \in 1..LastBlock /\ r[2] \in 1..LastBlock
        /\ LastBlock \in Nat
    BY ControlAssumption
  <1>2. ASSUME NEW a \in 1..LastBlock, NEW b \in 1..LastBlock
        PROVE  GoodFrame([kind |-> "range", from |-> a, thru |-> b, at |-> a,
                          step |-> "entry"])
    <2>1. a \in Nat /\ b \in Nat /\ a <= a
      BY <1>1
    <2>2. QED
      BY <2>1 DEF GoodFrame, Frame, Loops, Blocks
  <1>3. RangeCall(r) = [kind |-> "range", from |-> r[1], thru |-> r[2],
                    at |-> r[1], step |-> "entry"]
    BY DEF RangeCall
  <1>4. GoodFrame(RangeCall(r))
    BY <1>1, <1>2, <1>3
  <1>5. QED
    BY <1>3, <1>4

(* a declarative or a phase of SORT, which has no range of its own.        *)
LEMMA GoodWaiting ==
    ASSUME NEW kind \in Declaratives \cup SortCalls, NEW at \in Nat
    PROVE  /\ GoodFrame(Waiting(kind, at))
           /\ Waiting(kind, at).kind = kind /\ Waiting(kind, at).at = at
  BY DEF GoodFrame, Waiting, Frame, Loops, Declaratives, SortCalls

(* What may replace the innermost call: itself at another step, another    *)
(* block it may run, or the same SORT in its second phase.                 *)
LEMMA GoodNewStep ==
    ASSUME NEW f, GoodFrame(f), NEW step \in {"entry", "ops", "end"}
    PROVE  /\ GoodFrame([f EXCEPT !.step = step])
           /\ [f EXCEPT !.step = step].kind = f.kind
           /\ [f EXCEPT !.step = step].at = f.at
  BY DEF GoodFrame, Frame

(* A call that moves on to a block of its range stays good.                *)
LEMMA GoodNewBlock ==
    ASSUME NEW f, GoodFrame(f), NEW t \in Blocks,
           f.kind = "range" /\ f.from <= f.thru => f.from <= t /\ t <= f.thru
    PROVE  /\ GoodFrame([f EXCEPT !.at = t, !.step = "entry"])
           /\ [f EXCEPT !.at = t, !.step = "entry"].kind = f.kind
  <1> DEFINE g == [f EXCEPT !.at = t, !.step = "entry"]
  <1>1. t \in Nat
    BY ControlAssumption DEF Blocks
  <1>2. f \in Frame
    BY DEF GoodFrame
  <1>3. /\ g \in Frame
        /\ g.kind = f.kind /\ g.from = f.from /\ g.thru = f.thru /\ g.at = t
    BY <1>1, <1>2 DEF Frame
  <1> HIDE DEF g
  <1>4. GoodFrame(g)
    BY <1>3 DEF GoodFrame
  <1>5. QED
    BY <1>3, <1>4 DEF g

(* Replacing the innermost call is what most steps do.                     *)
LEMMA GoodWithTop ==
    ASSUME Good(frames), frames # <<>>, NEW f, GoodFrame(f)
    PROVE  Good(WithTop(f))
  BY GoodReplace DEF WithTop

(* The calls stay as they should be: one step at a time.                   *)
LEMMA GoodSteps ==
    ASSUME TypeOK, Good(frames), Next
    PROVE  Good(frames')
  <1>1. ASSUME Execute PROVE Good(frames')
    BY <1>1, GoodPush, GoodBody DEF Execute, Push
  <1>2. ASSUME EnterBlock PROVE Good(frames')
    <2>1. frames # <<>> /\ GoodFrame(Top) /\ Top.kind \in Loops
      BY <1>2, GoodTop DEF EnterBlock, Running
    <2>2. CASE Top.at \in Debugged \ activeDebug
      <3>1. Top.at \in Nat /\ "debug" \in Declaratives \cup SortCalls
        BY <2>1, ControlAssumption DEF GoodFrame, Blocks, Declaratives
      <3>2. GoodFrame(Waiting("debug", Top.at))
        BY <3>1, GoodWaiting
      <3>3. frames' = Append(frames, Waiting("debug", Top.at))
        BY <1>2, <2>2 DEF EnterBlock, Push
      <3>4. QED
        BY <3>2, <3>3, GoodPush
    <2>3. CASE Top.at \notin Debugged \ activeDebug
      <3>1. frames' = WithTop([Top EXCEPT !.step = "ops"])
        BY <1>2, <2>3 DEF EnterBlock
      <3>2. GoodFrame([Top EXCEPT !.step = "ops"])
        BY <2>1, GoodNewStep
      <3>3. QED
        BY <2>1, <3>1, <3>2, GoodWithTop
    <2>4. QED
      BY <2>2, <2>3
  <1>3. ASSUME Perform PROVE Good(frames')
    BY <1>3, GoodPush, GoodRange DEF Perform, Push
  <1>4. ASSUME PerformTransfer PROVE Good(frames')
    <2>1. frames # <<>> /\ GoodFrame(Top)
      BY <1>4, GoodTop DEF PerformTransfer, Running
    <2>2. Good(WithTop([Top EXCEPT !.step = "end"]))
      BY <2>1, GoodNewStep, GoodWithTop
    <2>3. QED
      BY <1>4, <2>2, GoodPush, GoodRange DEF PerformTransfer
  <1>5. ASSUME FileError PROVE Good(frames')
    <2>1. PICK f \in Files \ activeFile :
            frames' = Append(frames, Waiting("file", f))
      BY <1>5 DEF FileError, Push
    <2>2. f \in Nat /\ "file" \in Declaratives \cup SortCalls
      BY ControlAssumption DEF Files, Declaratives
    <2>3. QED
      BY <2>1, <2>2, GoodWaiting, GoodPush
  <1>6. ASSUME Sort PROVE Good(frames')
    <2>1. PICK r \in Performable, phase \in SortCalls :
            frames' = frames \o <<Waiting(phase, Len(sorts)), RangeCall(r)>>
      BY <1>6 DEF Sort
    <2>2. Len(sorts) \in Nat
      BY DEF TypeOK
    <2>3. GoodFrame(Waiting(phase, Len(sorts))) /\ GoodFrame(RangeCall(r))
      BY <2>2, GoodWaiting, GoodRange
    <2>4. frames' = Append(Append(frames, Waiting(phase, Len(sorts))),
                           RangeCall(r))
      <3> DEFINE f == Waiting(phase, Len(sorts))
                 g == RangeCall(r)
      <3>1. frames \in Seq(Frame) /\ f \in Frame /\ g \in Frame
        BY <2>3 DEF Good, GoodFrame
      <3> HIDE DEF f, g
      <3>2. frames \o <<f, g>> = Append(Append(frames, f), g)
        BY <3>1
      <3>3. QED
        BY <2>1, <3>2 DEF f, g
    <2>5. QED
      BY <2>3, <2>4, GoodPush
  <1>7. ASSUME SortReleased PROVE Good(frames')
    <2>1. frames # <<>> /\ GoodFrame(Top)
      BY <1>7, GoodTop DEF SortReleased, Running
    <2>2. Top.at \in Nat /\ "output" \in Declaratives \cup SortCalls
      BY <2>1 DEF GoodFrame, Frame, SortCalls
    <2>3. Good(WithTop(Waiting("output", Top.at)))
      BY <2>1, <2>2, GoodWaiting, GoodWithTop
    <2>4. QED
      BY <1>7, <2>3, GoodPush, GoodRange DEF SortReleased
  <1>8. ASSUME Alter \/ GoTo \/ AlteredGoTo \/ StopRun \/ Fail
        PROVE  Good(frames')
    <2>1. frames' = frames
      BY <1>8 DEF Alter, GoTo, AlteredGoTo, StopRun, Fail, Raise
    <2>2. QED
      BY <2>1
  <1>9. ASSUME FallThrough PROVE Good(frames')
    <2>1. frames # <<>> /\ GoodFrame(Top) /\ Top.kind \in Loops
      BY <1>9, GoodTop DEF FallThrough, AtBlockEnd, Running
    <2>2. Top.at \in Blocks /\ Top.at < LastBlock /\ ~AtThrough
      BY <1>9, <2>1 DEF FallThrough, HasNext, GoodFrame
    <2>3. Top.at + 1 \in Blocks
      BY <2>2, ControlAssumption DEF Blocks
    <2>4. Top.kind = "range" /\ Top.from <= Top.thru
            => Top.from <= Top.at + 1 /\ Top.at + 1 <= Top.thru
      <3>1. Top.from \in Nat /\ Top.thru \in Nat /\ Top.at \in Nat
        BY <2>1 DEF GoodFrame, Frame
      <3>2. Top.kind = "range" => Top.at # Top.thru
        BY <2>2 DEF AtThrough
      <3>3. QED
        BY <2>1, <3>1, <3>2 DEF GoodFrame
    <2>5. GoodFrame([Top EXCEPT !.at = Top.at + 1, !.step = "entry"])
      BY <2>1, <2>3, <2>4, GoodNewBlock
    <2>6. QED
      BY <1>9, <2>1, <2>5, GoodWithTop DEF FallThrough, RunBlock
  <1>10. ASSUME Return \/ EndSort \/ PassOn PROVE Good(frames')
    BY <1>10, GoodPop
       DEF Return, EndSort, PassOn, Leave, Under, AtBlockEnd, Running
  <1>11. ASSUME EndDeclarative PROVE Good(frames')
    <2>1. frames # <<>> /\ Good(Under)
      BY <1>11, GoodPop DEF EndDeclarative, InStatements, Running, Under
    <2>2. CASE Top.kind # "debug"
      BY <1>11, <2>1, <2>2 DEF EndDeclarative
    <2>3. CASE Top.kind = "debug"
      <3>1. frames' = [Under EXCEPT ![Len(Under)].step = "ops"]
        BY <1>11, <2>3 DEF EndDeclarative
      <3>2. CASE Under # <<>>
        <4> DEFINE u == Under
        <4>1. Len(u) \in Nat \ {0} /\ GoodFrame(u[Len(u)])
          BY <2>1, <3>2, EmptySeq DEF Good
        <4>2. GoodFrame([u[Len(u)] EXCEPT !.step = "ops"])
          BY <4>1, GoodNewStep
        <4>3. Good([u EXCEPT ![Len(u)] = [u[Len(u)] EXCEPT !.step = "ops"]])
          BY <2>1, <3>2, <4>2, GoodReplace
        <4>4. QED
          BY <3>1, <4>3
      <3>3. CASE Under = <<>>
        <4>1. frames' = <<>>
          BY <3>1, <3>3
        <4>2. QED
          BY <4>1, EmptySeq DEF Good
      <3>4. QED
        BY <3>2, <3>3
    <2>4. QED
      BY <2>2, <2>3
  <1>12. ASSUME CatchGoTo PROVE Good(frames')
    <2>1. /\ frames # <<>> /\ GoodFrame(Top) /\ Catches(Top, signal.to)
          /\ signal.to \in Nat
      BY <1>12, GoodTop DEF CatchGoTo, TypeOK
    <2>2. signal.to \in Blocks
      BY <1>12 DEF CatchGoTo, TypeOK
    <2>3. Top.kind = "range" /\ Top.from <= Top.thru
            => Top.from <= signal.to /\ signal.to <= Top.thru
      <3>1. Top.from \in Nat /\ Top.thru \in Nat
        BY <2>1 DEF GoodFrame, Frame
      <3>2. QED
        BY <2>1, <3>1 DEF Catches, InScope
    <2>4. GoodFrame([Top EXCEPT !.at = signal.to, !.step = "entry"])
      BY <2>1, <2>2, <2>3, GoodNewBlock
    <2>5. QED
      BY <1>12, <2>1, <2>4, GoodWithTop DEF CatchGoTo, RunBlock
  <1>13. QED
    BY <1>1, <1>2, <1>3, <1>4, <1>5, <1>6, <1>7, <1>8, <1>9, <1>10, <1>11,
       <1>12 DEF Next

-----------------------------------------------------------------------------
(* The guard g names the declaratives of a kind that run in the stack s,   *)
(* and the phases q are those of its SORTs; GuardsAreExact and             *)
(* SortsFollowTheCalls are these of the current stack.                     *)
Calls(s, kind) == {i \in 1..Len(s) : s[i].kind = kind}

ExactIn(s, kind, g) ==
    /\ g = {s[i].at : i \in Calls(s, kind)}
    /\ \A i, j \in Calls(s, kind) : s[i].at = s[j].at => i = j

SortsOf(s) == {i \in 1..Len(s) : s[i].kind \in SortCalls}

SortsIn(s, q) ==
    /\ \A i \in SortsOf(s) : s[i].at < Len(q) /\ q[s[i].at + 1] = s[i].kind
    /\ \A k \in 1..Len(q) : \E i \in SortsOf(s) : s[i].at = k - 1
    /\ \A i, j \in SortsOf(s) : i < j => s[i].at < s[j].at

(* A declarative begins, or another call does.                             *)
LEMMA ExactPush ==
    ASSUME NEW s \in Seq(Frame), NEW f \in Frame, NEW kind, NEW g,
           ExactIn(s, kind, g)
    PROVE  /\ f.kind # kind => ExactIn(Append(s, f), kind, g)
           /\ f.kind = kind /\ f.at \notin g
                => ExactIn(Append(s, f), kind, g \cup {f.at})
  <1> DEFINE t == Append(s, f)
  <1>1. /\ Len(s) \in Nat /\ Len(t) = Len(s) + 1
        /\ \A i \in 1..Len(s) : t[i] = s[i]
        /\ t[Len(s) + 1] = f
    BY PushEntries
  <1> HIDE DEF t
  <1>2. Calls(s, kind) \subseteq 1..Len(s)
    BY DEF Calls
  <1>3. CASE f.kind # kind
    <2>1. Calls(t, kind) = Calls(s, kind)
      BY <1>1, <1>3 DEF Calls
    <2>2. ExactIn(t, kind, g)
      BY <1>1, <1>2, <2>1 DEF ExactIn
    <2>3. QED
      BY <1>3, <2>2 DEF t
  <1>4. CASE f.kind = kind /\ f.at \notin g
    <2>1. Calls(t, kind) = Calls(s, kind) \cup {Len(s) + 1}
      BY <1>1, <1>4 DEF Calls
    <2>2. \A i \in Calls(s, kind) : t[i] = s[i] /\ s[i].at \in g
      BY <1>1, <1>2 DEF ExactIn
    <2>3. g \cup {f.at} = {t[i].at : i \in Calls(t, kind)}
      BY <1>1, <2>1, <2>2 DEF ExactIn
    <2>4. ASSUME NEW i \in Calls(t, kind), NEW j \in Calls(t, kind),
                 t[i].at = t[j].at
          PROVE  i = j
      BY <1>1, <1>4, <2>1, <2>2, <2>4 DEF ExactIn
    <2>5. ExactIn(t, kind, g \cup {f.at})
      BY <2>3, <2>4 DEF ExactIn
    <2>6. QED
      BY <1>4, <2>5 DEF t
  <1>5. QED
    BY <1>3, <1>4 DEF t

(* The innermost call ends: a declarative of the kind, or another call.    *)
LEMMA ExactPop ==
    ASSUME NEW s \in Seq(Frame), s # <<>>, NEW kind, NEW g,
           ExactIn(s, kind, g)
    PROVE  ExactIn(SubSeq(s, 1, Len(s) - 1), kind,
                   IF s[Len(s)].kind = kind THEN g \ {s[Len(s)].at} ELSE g)
  <1> DEFINE t == SubSeq(s, 1, Len(s) - 1)
             n == Len(s)
  <1>1. /\ n \in Nat \ {0} /\ Len(t) = n - 1
        /\ \A i \in 1..(n - 1) : t[i] = s[i]
    BY PopEntries
  <1> HIDE DEF t
  <1>2. Calls(t, kind) = Calls(s, kind) \ {n}
    BY <1>1 DEF Calls
  <1>3. \A i \in Calls(t, kind) : t[i] = s[i]
    BY <1>1 DEF Calls
  <1>4. CASE s[n].kind # kind
    <2>1. Calls(t, kind) = Calls(s, kind)
      BY <1>1, <1>2, <1>4 DEF Calls
    <2>2. ExactIn(t, kind, g)
      BY <1>3, <2>1 DEF ExactIn
    <2>3. QED
      BY <1>4, <2>2 DEF t
  <1>5. CASE s[n].kind = kind
    <2>1. n \in Calls(s, kind)
      BY <1>1, <1>5 DEF Calls
    <2>2. g \ {s[n].at} = {t[i].at : i \in Calls(t, kind)}
      BY <1>2, <1>3, <2>1 DEF ExactIn
    <2>3. ExactIn(t, kind, g \ {s[n].at})
      BY <1>2, <1>3, <2>2 DEF ExactIn
    <2>4. QED
      BY <1>5, <2>3 DEF t
  <1>6. QED
    BY <1>4, <1>5

(* The innermost call goes on as another that is no declarative either.    *)
LEMMA ExactReplace ==
    ASSUME NEW s \in Seq(Frame), s # <<>>, NEW f \in Frame, NEW kind, NEW g,
           ExactIn(s, kind, g), s[Len(s)].kind # kind, f.kind # kind
    PROVE  ExactIn([s EXCEPT ![Len(s)] = f], kind, g)
  <1> DEFINE t == [s EXCEPT ![Len(s)] = f]
             n == Len(s)
  <1>1. /\ n \in Nat \ {0} /\ Len(t) = n
        /\ \A i \in 1..(n - 1) : t[i] = s[i]
        /\ t[n] = f
    BY ReplaceTop
  <1> HIDE DEF t
  <1>2. Calls(t, kind) = Calls(s, kind)
    BY <1>1 DEF Calls
  <1>3. \A i \in Calls(s, kind) : t[i] = s[i]
    BY <1>1 DEF Calls
  <1>4. ExactIn(t, kind, g)
    BY <1>2, <1>3 DEF ExactIn
  <1>5. QED
    BY <1>4 DEF t

(* The depth a call remembers in sort_states is a natural number.          *)
LEMMA EntryDepth ==
    ASSUME NEW s \in Seq(Frame), NEW i \in 1..Len(s)
    PROVE  s[i].at \in Nat
  <1>1. s[i] \in Frame
    OBVIOUS
  <1>2. QED
    BY <1>1 DEF Frame

(* A SORT begins, or another call does.                                    *)
LEMMA SortsPush ==
    ASSUME NEW s \in Seq(Frame), NEW f \in Frame, NEW q \in Seq(SortCalls),
           SortsIn(s, q)
    PROVE  /\ f.kind \notin SortCalls => SortsIn(Append(s, f), q)
           /\ f.kind \in SortCalls /\ f.at = Len(q)
                => SortsIn(Append(s, f), Append(q, f.kind))
  <1> DEFINE t == Append(s, f)
             r == Append(q, f.kind)
  <1>1. /\ Len(s) \in Nat /\ Len(t) = Len(s) + 1
        /\ \A i \in 1..Len(s) : t[i] = s[i]
        /\ t[Len(s) + 1] = f
    BY PushEntries
  <1> HIDE DEF t
  <1>2. SortsOf(s) \subseteq 1..Len(s)
    BY DEF SortsOf
  <1>3. CASE f.kind \notin SortCalls
    <2>1. SortsOf(t) = SortsOf(s)
      BY <1>1, <1>3 DEF SortsOf
    <2>2. \A i \in SortsOf(s) : t[i] = s[i]
      BY <1>1, <1>2
    <2>3. SortsIn(t, q)
      BY <2>1, <2>2 DEF SortsIn
    <2>4. QED
      BY <1>3, <2>3 DEF t
  <1>4. CASE f.kind \in SortCalls /\ f.at = Len(q)
    <2>1. /\ Len(q) \in Nat /\ Len(r) = Len(q) + 1
          /\ \A k \in 1..Len(q) : r[k] = q[k]
          /\ r[Len(q) + 1] = f.kind
      BY <1>4, PushEntries
    <2> HIDE DEF r
    <2>2. SortsOf(t) = SortsOf(s) \cup {Len(s) + 1}
      BY <1>1, <1>4 DEF SortsOf
    <2>3. \A i \in SortsOf(s) : t[i] = s[i] /\ s[i].at < Len(q)
                                 /\ s[i].at \in Nat
      <3>1. \A i \in SortsOf(s) : t[i] = s[i] /\ s[i].at < Len(q)
        BY <1>1, <1>2 DEF SortsIn
      <3>2. \A i \in SortsOf(s) : s[i].at \in Nat
        BY <1>2, EntryDepth
      <3>3. QED
        BY <3>1, <3>2
    <2>4. \A i \in SortsOf(t) : t[i].at < Len(r) /\ r[t[i].at + 1] = t[i].kind
      <3>1. ASSUME NEW i \in SortsOf(s)
            PROVE  t[i].at < Len(r) /\ r[t[i].at + 1] = t[i].kind
        <4>1. s[i].at + 1 \in 1..Len(q)
          BY <2>1, <2>3
        <4>2. QED
          BY <2>1, <2>3, <4>1 DEF SortsIn
      <3>2. t[Len(s) + 1].at < Len(r)
            /\ r[t[Len(s) + 1].at + 1] = t[Len(s) + 1].kind
        BY <1>1, <1>4, <2>1
      <3>3. QED
        BY <2>2, <3>1, <3>2
    <2>5. \A k \in 1..Len(r) : \E i \in SortsOf(t) : t[i].at = k - 1
      <3>1. ASSUME NEW k \in 1..Len(q)
            PROVE  \E i \in SortsOf(t) : t[i].at = k - 1
        <4>1. PICK i \in SortsOf(s) : s[i].at = k - 1
          BY DEF SortsIn
        <4>2. QED
          BY <2>2, <2>3, <4>1
      <3>2. t[Len(s) + 1].at = (Len(q) + 1) - 1 /\ Len(s) + 1 \in SortsOf(t)
        BY <1>1, <1>4, <2>1, <2>2
      <3>3. QED
        BY <2>1, <3>1, <3>2
    <2>6. ASSUME NEW i \in SortsOf(t), NEW j \in SortsOf(t), i < j
          PROVE  t[i].at < t[j].at
      <3>1. CASE j \in SortsOf(s)
        <4>1. i \in SortsOf(s)
          BY <1>1, <1>2, <2>2, <2>6, <3>1
        <4>2. QED
          BY <2>3, <2>6, <3>1, <4>1 DEF SortsIn
      <3>2. CASE j = Len(s) + 1
        <4>1. i \in SortsOf(s)
          BY <1>1, <2>2, <2>6, <3>2
        <4>2. QED
          BY <1>1, <1>4, <2>3, <3>2, <4>1
      <3>3. QED
        BY <2>2, <3>1, <3>2
    <2>7. SortsIn(t, r)
      BY <2>4, <2>5, <2>6 DEF SortsIn
    <2>8. QED
      BY <1>4, <2>7 DEF t, r
  <1>5. QED
    BY <1>3, <1>4 DEF t, r

(* The innermost call ends: a SORT, which cuts the phases, or another.     *)
LEMMA SortsPop ==
    ASSUME NEW s \in Seq(Frame), s # <<>>, NEW q \in Seq(SortCalls),
           SortsIn(s, q)
    PROVE  /\ s[Len(s)].kind \notin SortCalls
                => SortsIn(SubSeq(s, 1, Len(s) - 1), q)
           /\ s[Len(s)].kind \in SortCalls
                => /\ SubSeq(q, 1, s[Len(s)].at) \in Seq(SortCalls)
                   /\ SortsIn(SubSeq(s, 1, Len(s) - 1),
                              SubSeq(q, 1, s[Len(s)].at))
  <1> DEFINE t == SubSeq(s, 1, Len(s) - 1)
             n == Len(s)
             d == s[n].at
             r == SubSeq(q, 1, d)
  <1>1. /\ n \in Nat \ {0} /\ Len(t) = n - 1
        /\ \A i \in 1..(n - 1) : t[i] = s[i]
    BY PopEntries
  <1> HIDE DEF t
  <1>2. SortsOf(t) = SortsOf(s) \ {n} /\ \A i \in SortsOf(t) : t[i] = s[i]
    BY <1>1 DEF SortsOf
  <1>3. CASE s[n].kind \notin SortCalls
    <2>1. SortsOf(t) = SortsOf(s)
      BY <1>1, <1>2, <1>3 DEF SortsOf
    <2>2. SortsIn(t, q)
      BY <1>2, <2>1 DEF SortsIn
    <2>3. QED
      BY <1>3, <2>2 DEF t
  <1>4. CASE s[n].kind \in SortCalls
    <2>1. n \in SortsOf(s)
      BY <1>1, <1>4 DEF SortsOf
    <2>2. Len(q) \in Nat /\ d \in Nat /\ d < Len(q)
      BY <1>1, <2>1, EntryDepth DEF SortsIn
    <2>3. r \in Seq(SortCalls) /\ Len(r) = d /\ \A k \in 1..d : r[k] = q[k]
      BY <2>2, CutEntries
    <2> HIDE DEF r
    <2>4. ASSUME NEW i \in SortsOf(t)
          PROVE  /\ t[i].at = s[i].at /\ t[i].kind = s[i].kind
                 /\ s[i].at \in Nat /\ s[i].at < d /\ i \in SortsOf(s)
      <3>1. i \in SortsOf(s) /\ i < n /\ t[i] = s[i]
        BY <1>1, <1>2 DEF SortsOf
      <3>2. s[i].at < s[n].at
        BY <2>1, <3>1 DEF SortsIn
      <3>3. s[i] \in Frame
        BY <3>1 DEF SortsOf
      <3>4. QED
        BY <3>1, <3>2, <3>3 DEF Frame
    <2>5. \A i \in SortsOf(t) : t[i].at < Len(r) /\ r[t[i].at + 1] = t[i].kind
      <3> SUFFICES ASSUME NEW i \in SortsOf(t)
                   PROVE  t[i].at < Len(r) /\ r[t[i].at + 1] = t[i].kind
        OBVIOUS
      <3>1. s[i].at + 1 \in 1..d
        BY <2>2, <2>4
      <3>2. QED
        BY <2>3, <2>4, <3>1 DEF SortsIn
    <2>6. \A k \in 1..Len(r) : \E i \in SortsOf(t) : t[i].at = k - 1
      <3> SUFFICES ASSUME NEW k \in 1..d
                   PROVE  \E i \in SortsOf(t) : t[i].at = k - 1
        BY <2>3
      <3>1. k \in 1..Len(q)
        BY <2>2
      <3>2. PICK i \in SortsOf(s) : s[i].at = k - 1
        BY <3>1 DEF SortsIn
      <3>3. i # n
        BY <2>2, <3>2
      <3>4. QED
        BY <1>2, <3>2, <3>3
    <2>7. \A i, j \in SortsOf(t) : i < j => t[i].at < t[j].at
      BY <2>4 DEF SortsIn
    <2>8. SortsIn(t, r)
      BY <2>5, <2>6, <2>7 DEF SortsIn
    <2>9. QED
      BY <1>4, <2>3, <2>8 DEF t, r
  <1>5. QED
    BY <1>3, <1>4

(* The innermost call goes on as another of the kind: two loops, or the    *)
(* SORT in its second phase, which is the last entry of sort_states.       *)
LEMMA SortsReplace ==
    ASSUME NEW s \in Seq(Frame), s # <<>>, NEW f \in Frame,
           NEW q \in Seq(SortCalls), SortsIn(s, q)
    PROVE  /\ s[Len(s)].kind \notin SortCalls /\ f.kind \notin SortCalls
                => SortsIn([s EXCEPT ![Len(s)] = f], q)
           /\ s[Len(s)].kind \in SortCalls /\ f.kind \in SortCalls
                /\ f.at = s[Len(s)].at
                => SortsIn([s EXCEPT ![Len(s)] = f],
                           [q EXCEPT ![Len(q)] = f.kind])
  <1> DEFINE n == Len(s)
             t == [s EXCEPT ![n] = f]
             r == [q EXCEPT ![Len(q)] = f.kind]
  <1>1. /\ n \in Nat \ {0} /\ Len(t) = n
        /\ \A i \in 1..(n - 1) : t[i] = s[i]
        /\ t[n] = f
    BY ReplaceTop
  <1> HIDE DEF t
  <1>2. CASE s[n].kind \notin SortCalls /\ f.kind \notin SortCalls
    <2>1. SortsOf(t) = SortsOf(s) /\ \A i \in SortsOf(s) : t[i] = s[i]
      BY <1>1, <1>2 DEF SortsOf
    <2>2. SortsIn(t, q)
      BY <2>1 DEF SortsIn
    <2>3. QED
      BY <1>2, <2>2 DEF t
  <1>3. CASE s[n].kind \in SortCalls /\ f.kind \in SortCalls
               /\ f.at = s[n].at
    <2>1. SortsOf(t) = SortsOf(s) /\ n \in SortsOf(s)
      BY <1>1, <1>3 DEF SortsOf
    <2>2. \A i \in SortsOf(s) : /\ t[i].at = s[i].at /\ s[i].at \in Nat
                                /\ i # n => t[i].kind = s[i].kind
                                /\ i # n => i < n
      <3>1. \A i \in SortsOf(s) : /\ t[i].at = s[i].at
                                  /\ i # n => t[i].kind = s[i].kind
                                  /\ i # n => i < n
        BY <1>1, <1>3 DEF SortsOf
      <3>2. \A i \in SortsOf(s) : s[i].at \in Nat
        BY EntryDepth DEF SortsOf
      <3>3. QED
        BY <3>1, <3>2
    <2>3. Len(q) \in Nat /\ s[n].at < Len(q)
      BY <2>1 DEF SortsIn
    <2>4. s[n].at + 1 = Len(q)
      <3>1. Len(q) \in 1..Len(q)
        BY <2>1, <2>2, <2>3
      <3>2. PICK i \in SortsOf(s) : s[i].at = Len(q) - 1
        BY <3>1 DEF SortsIn
      <3>3. i # n => s[i].at < s[n].at
        BY <2>1, <2>2 DEF SortsIn
      <3>4. QED
        BY <2>1, <2>2, <2>3, <3>2, <3>3
    <2>5. /\ Len(r) = Len(q) /\ r[Len(q)] = f.kind
          /\ \A k \in 1..(Len(q) - 1) : r[k] = q[k]
      <3>1. q # <<>>
        BY <2>1, <2>2, <2>3, EmptySeq
      <3>2. QED
        BY <1>3, <3>1, ReplaceTop
    <2> HIDE DEF r
    <2>6. \A i \in SortsOf(t) : t[i].at < Len(r) /\ r[t[i].at + 1] = t[i].kind
      <3> SUFFICES ASSUME NEW i \in SortsOf(s)
                   PROVE  t[i].at < Len(r) /\ r[t[i].at + 1] = t[i].kind
        BY <2>1
      <3>1. CASE i = n
        BY <1>1, <1>3, <2>3, <2>4, <2>5, <3>1
      <3>2. CASE i # n
        <4>1. s[i].at < s[n].at
          BY <2>1, <2>2, <3>2 DEF SortsIn
        <4>2. s[i].at + 1 \in 1..(Len(q) - 1)
          BY <2>1, <2>2, <2>3, <2>4, <4>1
        <4>3. QED
          BY <2>2, <2>3, <2>5, <3>2, <4>2 DEF SortsIn
      <3>3. QED
        BY <3>1, <3>2
    <2>7. \A k \in 1..Len(r) : \E i \in SortsOf(t) : t[i].at = k - 1
      BY <2>1, <2>2, <2>5 DEF SortsIn
    <2>8. \A i, j \in SortsOf(t) : i < j => t[i].at < t[j].at
      BY <2>1, <2>2 DEF SortsIn
    <2>9. SortsIn(t, r)
      BY <2>6, <2>7, <2>8 DEF SortsIn
    <2>10. QED
      BY <1>3, <2>9 DEF t, r
  <1>4. QED
    BY <1>2, <1>3 DEF t, r

(* The innermost call goes on at another step: nothing to record.          *)
LEMMA SameCallReplace ==
    ASSUME NEW s \in Seq(Frame), s # <<>>, NEW f \in Frame,
           f.kind = s[Len(s)].kind, f.at = s[Len(s)].at
    PROVE  /\ \A kind, g : ExactIn(s, kind, g)
                             => ExactIn([s EXCEPT ![Len(s)] = f], kind, g)
           /\ \A q : SortsIn(s, q) => SortsIn([s EXCEPT ![Len(s)] = f], q)
  <1> DEFINE n == Len(s)
             t == [s EXCEPT ![n] = f]
  <1>1. /\ n \in Nat \ {0} /\ Len(t) = n
        /\ \A i \in 1..(n - 1) : t[i] = s[i]
        /\ t[n] = f
    BY ReplaceTop
  <1> HIDE DEF t
  <1>2. \A i \in 1..n : t[i].kind = s[i].kind /\ t[i].at = s[i].at
    BY <1>1
  <1>3. SortsOf(t) = SortsOf(s) /\ SortsOf(s) \subseteq 1..n
    BY <1>1, <1>2 DEF SortsOf
  <1>4. ASSUME NEW kind
        PROVE  Calls(t, kind) = Calls(s, kind) /\ Calls(s, kind) \subseteq 1..n
    BY <1>1, <1>2 DEF Calls
  <1>5. ASSUME NEW kind, NEW g, ExactIn(s, kind, g)
        PROVE  ExactIn(t, kind, g)
    BY <1>2, <1>4, <1>5 DEF ExactIn
  <1>6. ASSUME NEW q, SortsIn(s, q)
        PROVE  SortsIn(t, q)
    BY <1>2, <1>3, <1>6 DEF SortsIn
  <1>7. QED
    BY <1>5, <1>6 DEF t

-----------------------------------------------------------------------------
(* The inductive invariant is that of the module, said of the stack.       *)
Records ==
    /\ ExactIn(frames, "debug", activeDebug)
    /\ ExactIn(frames, "file", activeFile)
    /\ SortsIn(frames, sorts)

(* The named invariants are what the strengthened one says of the stacks.  *)
LEMMA RecordsAreRight ==
    /\ Records <=> GuardsAreExact /\ SortsFollowTheCalls
    /\ TypeOK /\ ForwardRangesStayInside <=> TypeOK /\ Good(frames)
  <1>1. /\ Calls(frames, "debug") = RunningDeclaratives("debug")
        /\ Calls(frames, "file") = RunningDeclaratives("file")
        /\ SortsOf(frames) = SortFrames
    BY DEF Calls, RunningDeclaratives, SortsOf, SortFrames
  <1>2. ExactIn(frames, "debug", activeDebug)
          /\ ExactIn(frames, "file", activeFile) <=> GuardsAreExact
    BY <1>1 DEF ExactIn, GuardsAreExact, Declaratives
  <1>3. SortsIn(frames, sorts) <=> SortsFollowTheCalls
    BY <1>1 DEF SortsIn, SortsFollowTheCalls
  <1>4. ASSUME TypeOK
        PROVE  ForwardRangesStayInside <=> Good(frames)
    <2>1. /\ frames \in Seq(Frame)
          /\ \A i \in 1..Len(frames) :
               frames[i].kind \in Loops => frames[i].at \in Blocks
      BY <1>4 DEF TypeOK
    <2>2. \A i \in 1..Len(frames) : frames[i] \in Frame
      BY <2>1
    <2>3. QED
      BY <2>1, <2>2 DEF ForwardRangesStayInside, Good, GoodFrame
  <1>5. QED
    BY <1>2, <1>3, <1>4 DEF Records

(* What Leave does to the records is right for the calls that stay.        *)
LEMMA LeaveKeepsRecords ==
    ASSUME TypeOK, Records, frames # <<>>, Leave
    PROVE  Records' /\ sorts' \in Seq(SortCalls)
  <1>1. /\ frames \in Seq(Frame) /\ sorts \in Seq(SortCalls)
        /\ frames' = SubSeq(frames, 1, Len(frames) - 1)
    BY DEF TypeOK, Leave, Under
  <1>2. ExactIn(frames', "debug", activeDebug')
    BY <1>1, ExactPop DEF Records, Leave, GuardAfter, Top
  <1>3. ExactIn(frames', "file", activeFile')
    BY <1>1, ExactPop DEF Records, Leave, GuardAfter, Top
  <1>4. SortsIn(frames', sorts') /\ sorts' \in Seq(SortCalls)
    <2>1. CASE Top.kind \notin SortCalls
      <3>1. sorts' = sorts
        BY <2>1 DEF Leave, SortsAfter
      <3>2. QED
        BY <1>1, <2>1, <3>1, SortsPop DEF Records, Top
    <2>2. CASE Top.kind \in SortCalls
      <3>1. sorts' = SubSeq(sorts, 1, Top.at)
        BY <2>2 DEF Leave, SortsAfter
      <3>2. QED
        BY <1>1, <2>2, <3>1, SortsPop DEF Records, Top
    <2>3. QED
      BY <2>1, <2>2
  <1>5. QED
    BY <1>2, <1>3, <1>4 DEF Records

(* A loop over blocks begins or goes on: the records stay as they are.     *)
LEMMA LoopKeepsRecords ==
    ASSUME TypeOK, Records, NEW f \in Frame, f.kind \in Loops,
           sorts' = sorts, activeDebug' = activeDebug, activeFile' = activeFile,
           \/ frames' = Append(frames, f)
           \/ /\ frames # <<>> /\ Top.kind \in Loops
              /\ frames' = WithTop(f)
    PROVE  Records'
  <1>1. frames \in Seq(Frame) /\ sorts \in Seq(SortCalls)
    BY DEF TypeOK
  <1>2. f.kind # "debug" /\ f.kind # "file" /\ f.kind \notin SortCalls
    BY DEF Loops, SortCalls
  <1>3. CASE frames' = Append(frames, f)
    BY <1>1, <1>2, <1>3, ExactPush, SortsPush DEF Records
  <1>4. CASE /\ frames # <<>> /\ Top.kind \in Loops
             /\ frames' = WithTop(f)
    <2>1. /\ frames' = [frames EXCEPT ![Len(frames)] = f]
          /\ frames[Len(frames)].kind # "debug"
          /\ frames[Len(frames)].kind # "file"
          /\ frames[Len(frames)].kind \notin SortCalls
      BY <1>4 DEF WithTop, Top, Loops, SortCalls
    <2>2. frames # <<>> /\ frames \in Seq(Frame)
      BY <1>1, <1>4
    <2>3. /\ ExactIn([frames EXCEPT ![Len(frames)] = f], "debug", activeDebug)
          /\ ExactIn([frames EXCEPT ![Len(frames)] = f], "file", activeFile)
      BY <1>2, <2>1, <2>2, ExactReplace DEF Records
    <2>4. SortsIn([frames EXCEPT ![Len(frames)] = f], sorts)
      BY <1>1, <1>2, <2>1, <2>2, SortsReplace DEF Records
    <2>5. QED
      BY <2>1, <2>3, <2>4 DEF Records
  <1>5. QED
    BY <1>3, <1>4

(* The guards of a stack that grows on top of a changed entry.             *)
LEMMA LoopOnLoopKeepsRecords ==
    ASSUME TypeOK, Records, frames # <<>>, Top.kind \in Loops,
           NEW f \in Frame, f.kind \in Loops, NEW g \in Frame, g.kind \in Loops,
           sorts' = sorts, activeDebug' = activeDebug, activeFile' = activeFile,
           frames' = Append(WithTop(f), g)
    PROVE  Records'
  <1> DEFINE s == [frames EXCEPT ![Len(frames)] = f]
  <1>1. frames \in Seq(Frame) /\ sorts \in Seq(SortCalls)
    BY DEF TypeOK
  <1>2. /\ f.kind # "debug" /\ f.kind # "file" /\ f.kind \notin SortCalls
        /\ g.kind # "debug" /\ g.kind # "file" /\ g.kind \notin SortCalls
    BY DEF Loops, SortCalls
  <1>3. /\ frames' = Append(s, g)
        /\ frames[Len(frames)].kind # "debug"
        /\ frames[Len(frames)].kind # "file"
        /\ frames[Len(frames)].kind \notin SortCalls
    BY DEF WithTop, Top, Loops, SortCalls
  <1>4. s \in Seq(Frame)
    BY <1>1, ReplaceTop
  <1>5. ExactIn(s, "debug", activeDebug) /\ ExactIn(s, "file", activeFile)
    BY <1>1, <1>2, <1>3, ExactReplace DEF Records
  <1>6. SortsIn(s, sorts)
    BY <1>1, <1>2, <1>3, SortsReplace DEF Records
  <1> HIDE DEF s
  <1>7. /\ ExactIn(frames', "debug", activeDebug)
        /\ ExactIn(frames', "file", activeFile)
    BY <1>2, <1>3, <1>4, <1>5, ExactPush
  <1>8. SortsIn(frames', sorts)
    BY <1>1, <1>2, <1>3, <1>4, <1>6, SortsPush
  <1>9. QED
    BY <1>7, <1>8 DEF Records

(* Bodies and ranges are loops over blocks: they hold neither a guard nor  *)
(* an entry of sort_states.                                                *)
LEMMA BodyIsLoop == Body \in Frame /\ Body.kind \in Loops
  BY GoodBody DEF GoodFrame, Body, Loops

(* The same of the range of a PERFORM.                                     *)
LEMMA RangeIsLoop ==
    ASSUME NEW r \in Performable
    PROVE  RangeCall(r) \in Frame /\ RangeCall(r).kind \in Loops
  BY GoodRange DEF GoodFrame, Loops

(* The steps of the loops over blocks, and what raises a signal.           *)
LEMMA RecordSteps1 ==
    ASSUME TypeOK, Good(frames), Records,
           \/ Execute \/ Perform \/ PerformTransfer \/ FallThrough
           \/ CatchGoTo \/ Alter \/ GoTo \/ AlteredGoTo \/ StopRun \/ Fail
    PROVE  Records' /\ sorts' \in Seq(SortCalls)
  <1>0. sorts' = sorts /\ activeDebug' = activeDebug /\ activeFile' = activeFile
    BY DEF Execute, Perform, PerformTransfer, FallThrough, CatchGoTo, Alter,
           GoTo, AlteredGoTo, StopRun, Fail, Raise
  <1> SUFFICES Records'
    BY <1>0 DEF TypeOK
  <1>1. CASE Execute
    BY <1>0, <1>1, BodyIsLoop, LoopKeepsRecords DEF Execute, Push
  <1>2. CASE Perform
    BY <1>0, <1>2, RangeIsLoop, LoopKeepsRecords DEF Perform, Push
  <1>3. CASE PerformTransfer
    <2>1. frames # <<>> /\ Top.kind \in Loops /\ GoodFrame(Top)
      BY <1>3, GoodTop DEF PerformTransfer, Running
    <2>2. /\ [Top EXCEPT !.step = "end"] \in Frame
          /\ [Top EXCEPT !.step = "end"].kind \in Loops
      BY <2>1, GoodNewStep DEF GoodFrame
    <2>3. PICK r \in Performable :
            frames' = Append(WithTop([Top EXCEPT !.step = "end"]), RangeCall(r))
      BY <1>3 DEF PerformTransfer
    <2>4. QED
      BY <1>0, <2>1, <2>2, <2>3, RangeIsLoop, LoopOnLoopKeepsRecords
  <1>4. CASE FallThrough \/ CatchGoTo
    <2>1. frames # <<>> /\ GoodFrame(Top) /\ Top.kind \in Loops
      BY <1>4, GoodTop DEF FallThrough, AtBlockEnd, Running, CatchGoTo,
                           Catches, Loops
    <2>2. PICK t \in Nat : frames' = RunBlock(t)
      <3>1. CASE FallThrough
        <4>1. Top.at + 1 \in Nat
          BY <2>1 DEF GoodFrame, Frame
        <4>2. QED
          BY <3>1, <4>1 DEF FallThrough
      <3>2. CASE CatchGoTo
        <4>1. signal.to \in Nat
          BY DEF TypeOK
        <4>2. QED
          BY <3>2, <4>1 DEF CatchGoTo
      <3>3. QED
        BY <1>4, <3>1, <3>2
    <2>3. /\ [Top EXCEPT !.at = t, !.step = "entry"] \in Frame
          /\ [Top EXCEPT !.at = t, !.step = "entry"].kind \in Loops
      BY <2>1 DEF GoodFrame, Frame
    <2>4. QED
      BY <1>0, <2>1, <2>2, <2>3, LoopKeepsRecords DEF RunBlock
  <1>5. CASE Alter \/ GoTo \/ AlteredGoTo \/ StopRun \/ Fail
    <2>1. UNCHANGED frames
      BY <1>5 DEF Alter, GoTo, AlteredGoTo, StopRun, Fail, Raise
    <2>2. QED
      BY <1>0, <2>1 DEF Records
  <1>6. QED
    BY <1>1, <1>2, <1>3, <1>4, <1>5

(* The entry of a block, and its debugging declarative.                    *)
LEMMA EnterBlockKeepsRecords ==
    ASSUME TypeOK, Good(frames), Records, EnterBlock
    PROVE  Records'
  <1>1. /\ frames # <<>> /\ GoodFrame(Top) /\ Top.kind \in Loops
        /\ sorts' = sorts /\ activeFile' = activeFile
    BY GoodTop DEF EnterBlock, Running
  <1>2. CASE Top.at \in Debugged \ activeDebug
    <2> DEFINE f == Waiting("debug", Top.at)
    <2>1. Top.at \in Nat /\ "debug" \in Declaratives \cup SortCalls
      BY <1>1 DEF GoodFrame, Frame, Declaratives
    <2>2. f \in Frame /\ f.kind = "debug" /\ f.at = Top.at
      BY <2>1, GoodWaiting DEF GoodFrame
    <2>3. frames' = Append(frames, f) /\ activeDebug' = activeDebug \cup {f.at}
      BY <1>2, <2>2 DEF EnterBlock, Push
    <2>4. f.at \notin activeDebug
      BY <1>2, <2>2
    <2> HIDE DEF f
    <2>5. /\ ExactIn(Append(frames, f), "debug", activeDebug \cup {f.at})
          /\ ExactIn(Append(frames, f), "file", activeFile)
      BY <2>2, <2>4, ExactPush DEF Records, TypeOK
    <2>6. SortsIn(Append(frames, f), sorts)
      BY <2>2, SortsPush DEF Records, TypeOK, SortCalls
    <2>7. QED
      BY <1>1, <2>3, <2>5, <2>6 DEF Records
  <1>3. CASE Top.at \notin Debugged \ activeDebug
    <2>1. frames' = WithTop([Top EXCEPT !.step = "ops"])
          /\ activeDebug' = activeDebug
      BY <1>3 DEF EnterBlock
    <2>2. /\ [Top EXCEPT !.step = "ops"] \in Frame
          /\ [Top EXCEPT !.step = "ops"].kind \in Loops
      BY <1>1, GoodNewStep DEF GoodFrame
    <2>3. QED
      BY <1>1, <2>1, <2>2, LoopKeepsRecords
  <1>4. QED
    BY <1>2, <1>3

(* The declarative of a file begins.                                       *)
LEMMA FileErrorKeepsRecords ==
    ASSUME TypeOK, Records, FileError
    PROVE  Records'
  <1>1. PICK a \in Files \ activeFile :
          /\ frames' = Append(frames, Waiting("file", a))
          /\ activeFile' = activeFile \cup {a}
    BY DEF FileError, Push
  <1> DEFINE f == Waiting("file", a)
  <1>2. a \in Nat /\ "file" \in Declaratives \cup SortCalls
    BY ControlAssumption DEF Files, Declaratives
  <1>3. f \in Frame /\ f.kind = "file" /\ f.at = a
    BY <1>2, GoodWaiting DEF GoodFrame
  <1> HIDE DEF f
  <1>4. /\ ExactIn(Append(frames, f), "file", activeFile \cup {f.at})
        /\ ExactIn(Append(frames, f), "debug", activeDebug)
    BY <1>3, ExactPush DEF Records, TypeOK
  <1>5. SortsIn(Append(frames, f), sorts)
    BY <1>3, SortsPush DEF Records, TypeOK, SortCalls
  <1>6. sorts' = sorts /\ activeDebug' = activeDebug
    BY DEF FileError
  <1>7. QED
    BY <1>1, <1>3, <1>4, <1>5, <1>6 DEF Records, f

(* A SORT begins: its own entry, and the range it performs.                *)
LEMMA SortKeepsRecords ==
    ASSUME TypeOK, Records, Sort
    PROVE  Records' /\ sorts' \in Seq(SortCalls)
  <1>1. PICK r \in Performable, phase \in SortCalls :
          /\ frames' = frames \o <<Waiting(phase, Len(sorts)), RangeCall(r)>>
          /\ sorts' = Append(sorts, phase)
    BY DEF Sort
  <1> DEFINE f == Waiting(phase, Len(sorts))
             g == RangeCall(r)
             s == Append(frames, f)
  <1>2. frames \in Seq(Frame) /\ sorts \in Seq(SortCalls) /\ Len(sorts) \in Nat
    BY DEF TypeOK
  <1>3. f \in Frame /\ f.kind = phase /\ f.at = Len(sorts)
    BY <1>2, GoodWaiting DEF GoodFrame
  <1>4. g \in Frame /\ g.kind \in Loops
    BY RangeIsLoop
  <1>5. frames' = frames \o <<f, g>>
    BY <1>1
  <1> HIDE DEF f, g
  <1>6. frames' = Append(s, g)
    BY <1>2, <1>3, <1>4, <1>5
  <1>7. s \in Seq(Frame)
    BY <1>2, <1>3
  <1>8. /\ phase # "debug" /\ phase # "file"
        /\ g.kind # "debug" /\ g.kind # "file" /\ g.kind \notin SortCalls
    BY <1>4 DEF Loops, SortCalls
  <1>9. ExactIn(s, "debug", activeDebug) /\ ExactIn(s, "file", activeFile)
    BY <1>2, <1>3, <1>8, ExactPush DEF Records
  <1>10. /\ SortsIn(s, Append(sorts, phase))
         /\ Append(sorts, phase) \in Seq(SortCalls)
    BY <1>2, <1>3, SortsPush DEF Records
  <1> HIDE DEF s
  <1>11. /\ ExactIn(frames', "debug", activeDebug)
         /\ ExactIn(frames', "file", activeFile)
    BY <1>4, <1>6, <1>7, <1>8, <1>9, ExactPush
  <1>12. SortsIn(frames', sorts')
    BY <1>1, <1>4, <1>6, <1>7, <1>8, <1>10, SortsPush
  <1>13. activeDebug' = activeDebug /\ activeFile' = activeFile
    BY DEF Sort
  <1>14. QED
    BY <1>1, <1>10, <1>11, <1>12, <1>13 DEF Records

(* Its second phase: the last entry of sort_states is its own.             *)
LEMMA SortReleasedKeepsRecords ==
    ASSUME TypeOK, Good(frames), Records, SortReleased
    PROVE  Records' /\ sorts' \in Seq(SortCalls)
  <1>1. /\ frames # <<>> /\ GoodFrame(Top) /\ Top.kind = "input"
        /\ Top = frames[Len(frames)]
        /\ frames \in Seq(Frame) /\ sorts \in Seq(SortCalls)
    BY GoodTop DEF SortReleased, Running, TypeOK
  <1>2. PICK r \in Performable :
          frames' = Append(WithTop(Waiting("output", Top.at)), RangeCall(r))
    BY DEF SortReleased
  <1> DEFINE f == Waiting("output", Top.at)
             g == RangeCall(r)
             s == [frames EXCEPT ![Len(frames)] = f]
             q == [sorts EXCEPT ![Len(sorts)] = "output"]
  <1>3. frames' = Append(s, g) /\ sorts' = q
    BY <1>2 DEF SortReleased, WithTop
  <1>4. Top.at \in Nat /\ "output" \in Declaratives \cup SortCalls
    BY <1>1 DEF GoodFrame, Frame, SortCalls
  <1>5. f \in Frame /\ f.kind = "output" /\ f.at = Top.at
    BY <1>4, GoodWaiting DEF GoodFrame
  <1>6. g \in Frame /\ g.kind \in Loops
    BY RangeIsLoop
  <1> HIDE DEF f, g
  <1>7. s \in Seq(Frame)
    BY <1>1, <1>5, ReplaceTop
  <1>8. /\ g.kind # "debug" /\ g.kind # "file" /\ g.kind \notin SortCalls
        /\ "input" \in SortCalls /\ "output" \in SortCalls
    BY <1>6 DEF Loops, SortCalls
  <1>9. ExactIn(s, "debug", activeDebug) /\ ExactIn(s, "file", activeFile)
    BY <1>1, <1>5, ExactReplace DEF Records
  <1>10. SortsIn(s, q)
    BY <1>1, <1>5, <1>8, SortsReplace DEF Records
  <1>11. q \in Seq(SortCalls)
    <2>1. Len(frames) \in SortsOf(frames)
      BY <1>1, <1>8, EmptySeq DEF SortsOf
    <2>2. Top.at < Len(sorts) /\ Len(sorts) \in Nat
      BY <1>1, <2>1 DEF Records, SortsIn
    <2>3. sorts # <<>>
      BY <1>4, <2>2, EmptySeq
    <2>4. QED
      BY <1>1, <1>8, <2>3, ReplaceTop
  <1> HIDE DEF s, q
  <1>12. /\ ExactIn(frames', "debug", activeDebug)
         /\ ExactIn(frames', "file", activeFile)
    BY <1>3, <1>6, <1>7, <1>8, <1>9, ExactPush
  <1>13. SortsIn(frames', sorts')
    BY <1>3, <1>6, <1>7, <1>8, <1>10, <1>11, SortsPush
  <1>14. activeDebug' = activeDebug /\ activeFile' = activeFile
    BY DEF SortReleased
  <1>15. QED
    BY <1>3, <1>11, <1>12, <1>13, <1>14 DEF Records

(* The end of a declarative; the block it belongs to goes on.              *)
LEMMA EndDeclarativeKeepsRecords ==
    ASSUME TypeOK, Good(frames), Records, EndDeclarative
    PROVE  Records'
  <1> DEFINE u == SubSeq(frames, 1, Len(frames) - 1)
  <1>1. /\ frames # <<>> /\ frames \in Seq(Frame) /\ sorts \in Seq(SortCalls)
        /\ Top = frames[Len(frames)] /\ Top.kind \in Declaratives /\ Under = u
        /\ sorts' = sorts
        /\ activeDebug' = GuardAfter("debug", activeDebug)
        /\ activeFile' = GuardAfter("file", activeFile)
    BY GoodTop DEF EndDeclarative, InStatements, Running, TypeOK, Under
  <1>2. u \in Seq(Frame)
    BY <1>1, PopEntries
  <1>3. ExactIn(u, "debug", activeDebug') /\ ExactIn(u, "file", activeFile')
    BY <1>1, ExactPop DEF Records, GuardAfter
  <1>4. SortsIn(u, sorts)
    BY <1>1, SortsPop DEF Records, Declaratives, SortCalls
  <1> HIDE DEF u
  <1>5. CASE frames' = u
    BY <1>1, <1>3, <1>4, <1>5 DEF Records
  <1>6. CASE frames' = [u EXCEPT ![Len(u)].step = "ops"] /\ u # <<>>
    <2> DEFINE f == [u[Len(u)] EXCEPT !.step = "ops"]
    <2>1. u[Len(u)] \in Frame
      BY <1>2, <1>6, EmptySeq
    <2>2. f \in Frame /\ f.kind = u[Len(u)].kind /\ f.at = u[Len(u)].at
      BY <2>1 DEF Frame
    <2>3. frames' = [u EXCEPT ![Len(u)] = f]
      BY <1>6
    <2> HIDE DEF f
    <2>4. /\ \A kind, g : ExactIn(u, kind, g) => ExactIn(frames', kind, g)
          /\ \A q : SortsIn(u, q) => SortsIn(frames', q)
      <3>1. u # <<>>
        BY <1>6
      <3>2. /\ \A kind, g : ExactIn(u, kind, g)
                              => ExactIn([u EXCEPT ![Len(u)] = f], kind, g)
            /\ \A q : SortsIn(u, q) => SortsIn([u EXCEPT ![Len(u)] = f], q)
        BY <1>2, <2>2, <3>1, SameCallReplace, Zenon
      <3>3. QED
        BY <2>3, <3>2
    <2>5. /\ ExactIn(frames', "debug", activeDebug')
          /\ ExactIn(frames', "file", activeFile')
          /\ SortsIn(frames', sorts')
      BY <1>1, <1>3, <1>4, <2>4
    <2>6. QED
      BY <2>5 DEF Records
  <1>7. CASE frames' = [u EXCEPT ![Len(u)].step = "ops"] /\ u = <<>>
    BY <1>5, <1>7
  <1>8. QED
    BY <1>1, <1>5, <1>6, <1>7 DEF EndDeclarative

-----------------------------------------------------------------------------
(* Every step keeps guards and SORT entries in step with the calls.        *)
LEMMA RecordSteps ==
    ASSUME TypeOK, Good(frames), Records, Next
    PROVE  Records' /\ sorts' \in Seq(SortCalls)
  <1>1. CASE \/ Execute \/ Perform \/ PerformTransfer \/ FallThrough
             \/ CatchGoTo \/ Alter \/ GoTo \/ AlteredGoTo \/ StopRun \/ Fail
    BY <1>1, RecordSteps1
  <1>2. CASE EnterBlock \/ FileError \/ EndDeclarative
    <2>1. sorts' = sorts
      BY <1>2 DEF EnterBlock, FileError, EndDeclarative
    <2>2. Records'
      BY <1>2, EnterBlockKeepsRecords, FileErrorKeepsRecords,
         EndDeclarativeKeepsRecords
    <2>3. QED
      BY <2>1, <2>2 DEF TypeOK
  <1>3. CASE Sort \/ SortReleased
    BY <1>3, SortKeepsRecords, SortReleasedKeepsRecords
  <1>4. CASE Return \/ EndSort \/ PassOn
    BY <1>4, LeaveKeepsRecords
       DEF Return, EndSort, PassOn, AtBlockEnd, Running
  <1>5. QED
    BY <1>1, <1>2, <1>3, <1>4 DEF Next

(* Types: the stack from GoodSteps, the phases from RecordSteps.           *)
LEMMA TypeSteps ==
    ASSUME TypeOK, Good(frames), Records, Next
    PROVE  TypeOK'
  <1>1. /\ Good(frames') /\ sorts' \in Seq(SortCalls)
    BY GoodSteps, RecordSteps
  <1>2. /\ frames' \in Seq(Frame)
        /\ \A i \in 1..Len(frames') :
             frames'[i].kind \in Loops => frames'[i].at \in Blocks
    BY <1>1 DEF Good, GoodFrame
  <1>3. /\ signal' \in [kind : {"none", "goto", "stop", "error"}, to : Nat]
        /\ signal'.kind = "goto" => signal'.to \in Blocks
    <2> DEFINE Ok(s) == /\ s \in [kind : {"none", "goto", "stop", "error"},
                                  to : Nat]
                        /\ s.kind = "goto" => s.to \in Blocks
    <2>1. Ok(NoSignal) /\ Ok(Stopping) /\ Ok(Failing)
      BY DEF NoSignal, Stopping, Failing
    <2>2. ASSUME NEW t \in Blocks PROVE Ok(GoingTo(t))
      BY ControlAssumption DEF GoingTo, Blocks
    <2>3. ASSUME NEW p \in AlterSlots, alter[p] # 0 PROVE alter[p] \in Blocks
      BY <2>3, ControlAssumption DEF TypeOK, Blocks
    <2>4. CASE GoTo
      <3>1. PICK t \in Blocks : signal' = GoingTo(Resolve(t))
        BY <2>4 DEF GoTo, Raise
      <3>2. Resolve(t) \in Blocks
        BY <2>3 DEF Resolve
      <3>3. QED
        BY <2>2, <3>1, <3>2
    <2>5. CASE AlteredGoTo
      BY <2>2, <2>3, <2>5 DEF AlteredGoTo, Raise
    <2>6. CASE StopRun \/ Fail \/ CatchGoTo
      BY <2>1, <2>6 DEF StopRun, Fail, CatchGoTo, Raise
    <2>7. CASE PassOn
      BY <2>1, <2>7 DEF PassOn, TypeOK
    <2>8. CASE signal' = signal
      BY <2>8 DEF TypeOK
    <2>9. QED
      BY <2>4, <2>5, <2>6, <2>7, <2>8
         DEF Next, Execute, EnterBlock, Perform, PerformTransfer, FileError,
             Sort, SortReleased, Alter, FallThrough, Return, EndDeclarative,
             EndSort
  <1>4. activeDebug' \subseteq Debugged /\ activeFile' \subseteq Files
    BY DEF TypeOK, Next, Execute, EnterBlock, Perform, PerformTransfer,
           FileError, Sort, SortReleased, Alter, GoTo, AlteredGoTo, StopRun,
           Fail, Raise, FallThrough, Return, EndDeclarative, EndSort,
           CatchGoTo, PassOn, Leave, GuardAfter
  <1>5. alter' \in [AlterSlots -> 0..LastBlock]
    <2>1. CASE Alter
      <3>1. PICK a \in Alters : alter' = [alter EXCEPT ![a[1]] = a[2]]
        BY <2>1 DEF Alter
      <3>2. a[2] \in 0..LastBlock
        BY ControlAssumption
      <3>3. QED
        BY <3>1, <3>2 DEF TypeOK
    <2>2. CASE alter' = alter
      BY <2>2 DEF TypeOK
    <2>3. QED
      BY <2>1, <2>2
         DEF Next, Execute, EnterBlock, Perform, PerformTransfer, FileError,
             Sort, SortReleased, GoTo, AlteredGoTo, StopRun, Fail, Raise,
             FallThrough, Return, EndDeclarative, EndSort, CatchGoTo, PassOn
  <1>6. QED
    BY <1>1, <1>2, <1>3, <1>4, <1>5 DEF TypeOK

-----------------------------------------------------------------------------
Inv == TypeOK /\ Good(frames) /\ Records

(* The inductive invariant holds initially,                                *)
LEMMA InitInv == Init => Inv
  <1> SUFFICES ASSUME Init PROVE Inv
    OBVIOUS
  <1>1. frames = <<>> /\ Len(frames) = 0 /\ sorts = <<>> /\ Len(sorts) = 0
    BY EmptySeq DEF Init
  <1>2. TypeOK
    <2>1. /\ frames \in Seq(Frame) /\ sorts \in Seq(SortCalls)
          /\ \A i \in 1..Len(frames) :
               frames[i].kind \in Loops => frames[i].at \in Blocks
      BY <1>1, EmptySeq
    <2>2. /\ signal \in [kind : {"none", "goto", "stop", "error"}, to : Nat]
          /\ signal.kind # "goto"
      BY DEF Init, NoSignal
    <2>3. /\ activeDebug \subseteq Debugged /\ activeFile \subseteq Files
          /\ alter \in [AlterSlots -> 0..LastBlock]
      BY ControlAssumption DEF Init
    <2>4. QED
      BY <2>1, <2>2, <2>3 DEF TypeOK
  <1>3. Good(frames)
    BY <1>1, EmptySeq DEF Good
  <1>4. Records
    BY <1>1 DEF Init, Records, ExactIn, Calls, SortsIn, SortsOf
  <1>5. QED
    BY <1>2, <1>3, <1>4 DEF Inv

(* and every step keeps it.                                                *)
LEMMA InvSteps == Inv /\ [Next]_vars => Inv'
  <1> SUFFICES ASSUME Inv, [Next]_vars PROVE Inv'
    OBVIOUS
  <1>1. CASE Next
    BY <1>1, TypeSteps, GoodSteps, RecordSteps DEF Inv
  <1>2. CASE UNCHANGED vars
    <2>1. /\ frames' = frames /\ signal' = signal /\ sorts' = sorts
          /\ activeDebug' = activeDebug /\ activeFile' = activeFile
          /\ alter' = alter
      BY <1>2 DEF vars
    <2>2. QED
      BY <2>1 DEF Inv, TypeOK, Records
  <1>3. QED
    BY <1>1, <1>2

(* The call stack, the signal on its way back and the tables keep their    *)
(* types, a GO TO always carries a block of the text with it, and a loop   *)
(* always is at one.                                                       *)
THEOREM TypesHold == Spec => []TypeOK
  <1>1. Inv => TypeOK
    BY DEF Inv
  <1>2. QED
    BY <1>1, InitInv, InvSteps, PTL DEF Spec

(* A PERFORM of blocks in the order of the text never runs a block outside *)
(* of them, however its program goes to, performs, sorts, calls and fails. *)
THEOREM RangesHold == Spec => []ForwardRangesStayInside
  <1>1. Inv => ForwardRangesStayInside
    BY RecordsAreRight DEF Inv
  <1>2. QED
    BY <1>1, InitInv, InvSteps, PTL DEF Spec

(* No declarative runs inside itself, and none stays guarded after it has  *)
(* been left, by whatever signal: a later error finds its declarative.     *)
THEOREM DeclarativesAreGuarded == Spec => []GuardsAreExact
  <1>1. Inv => GuardsAreExact
    BY RecordsAreRight DEF Inv
  <1>2. QED
    BY <1>1, InitInv, InvSteps, PTL DEF Spec

(* RELEASE and RETURN find the SORT whose procedure is running, at any     *)
(* depth of nested SORTs and after any of them has been abandoned.         *)
THEOREM SortsAreFound == Spec => []SortsFollowTheCalls
  <1>1. Inv => SortsFollowTheCalls
    BY RecordsAreRight DEF Inv
  <1>2. QED
    BY <1>1, InitInv, InvSteps, PTL DEF Spec

-----------------------------------------------------------------------------
(* The refinement of PerformStack.  Induction first, over a set of         *)
(* numbers: the least element of a set of them,                            *)
LEMMA LeastNat ==
    ASSUME NEW T \in SUBSET Nat, T # {}
    PROVE  \E n \in T : \A m \in T : n <= m
  <1> DEFINE R == OpToRel(<, Nat)
  <1>1. IsWellFoundedOn(R, Nat)
    BY NatLessThanWellFounded
  <1>2. \A x, y \in Nat : x < y => <<x, y>> \in R
    BY DEF OpToRel
  <1> HIDE DEF R
  <1>3. PICK x \in T : \A y \in T : ~ (<<y, x>> \in R)
    BY <1>1, WFMin
  <1>4. ASSUME NEW y \in T PROVE x <= y
    <2>1. ~(y < x)
      BY <1>2, <1>3
    <2>2. QED
      BY <2>1
  <1>5. QED
    BY <1>4

(* so that what holds of 0 and passes on to the next holds up to n,        *)
LEMMA UpTo ==
    ASSUME NEW n \in Nat, NEW T, 0 \in T,
           \A k \in 0..n : k \in T /\ k < n => k + 1 \in T
    PROVE  \A k \in 0..n : k \in T
  <1> DEFINE Rest == {k \in 0..n : k \notin T}
  <1>1. SUFFICES ASSUME Rest # {} PROVE FALSE
    OBVIOUS
  <1>2. Rest \in SUBSET Nat
    OBVIOUS
  <1> HIDE DEF Rest
  <1>3. PICK k \in Rest : \A m \in Rest : k <= m
    BY <1>1, <1>2, LeastNat
  <1> USE DEF Rest
  <1>4. k \in 0..n /\ k # 0
    OBVIOUS
  <1>5. k - 1 \in 0..n /\ ~(k <= k - 1)
    BY <1>4
  <1>6. k - 1 \in T
    BY <1>3, <1>5
  <1>7. k - 1 < n /\ (k - 1) + 1 = k
    BY <1>4
  <1>8. QED
    BY <1>5, <1>6, <1>7

(* and a set of places up to n has a last one.                             *)
LEMMA LastPlace ==
    ASSUME NEW n \in Nat, NEW T \in SUBSET (1..n), T # {}
    PROVE  \E k \in T : \A j \in (k + 1)..n : j \notin T
  <1> DEFINE Far == {m \in 0..n : n - m \in T}
  <1>1. PICK i \in T : TRUE
    OBVIOUS
  <1>2. i \in 1..n /\ n - i \in 0..n /\ n - (n - i) = i
    BY <1>1
  <1>3. Far \in SUBSET Nat /\ n - i \in Far
    BY <1>1, <1>2
  <1> HIDE DEF Far
  <1>4. PICK m \in Far : \A l \in Far : m <= l
    BY <1>3, LeastNat
  <1>5. m \in 0..n /\ n - m \in T
    BY DEF Far
  <1>6. ASSUME NEW j \in ((n - m) + 1)..n, j \in T PROVE FALSE
    <2>1. j \in 1..n /\ n - j \in 0..n /\ n - (n - j) = j
      BY <1>6
    <2>2. n - j \in Far
      BY <1>6, <2>1 DEF Far
    <2>3. m <= n - j
      BY <1>4, <2>2
    <2>4. QED
      BY <1>5, <1>6, <2>1, <2>3
  <1>7. QED
    BY <1>5, <1>6

-----------------------------------------------------------------------------
(* The loops among the calls.                                              *)
Entries == [kind : Loops, from : Nat, thru : Nat, at : Nat]

Grown(x, call) == IF call.kind \in Loops THEN Append(x, Entry(call)) ELSE x

(* The function that RangesOf computes, up to n.                           *)
Counts(f, s, n) ==
    f = [k \in 0..n |-> IF k = 0 THEN <<>> ELSE Grown(f[k - 1], s[k])]

(* There is one,                                                           *)
LEMMA CountExists ==
    ASSUME NEW s, NEW n \in Nat
    PROVE  \E f : Counts(f, s, n)
  <1> DEFINE T == {k \in 0..n : \E f : Counts(f, s, k)}
  <1>1. 0 \in T
    <2>1. Counts([k \in 0..0 |-> <<>>], s, 0)
      BY DEF Counts
    <2>2. QED
      BY <2>1
  <1>2. ASSUME NEW m \in 0..n, m \in T, m < n PROVE m + 1 \in T
    <2>1. PICK f : Counts(f, s, m)
      BY <1>2
    <2> DEFINE g == [k \in 0..(m + 1) |->
                        IF k <= m THEN f[k] ELSE Grown(f[m], s[m + 1])]
    <2>2. /\ DOMAIN f = 0..m
          /\ \A k \in 0..m :
               f[k] = IF k = 0 THEN <<>> ELSE Grown(f[k - 1], s[k])
      BY <2>1 DEF Counts
    <2>3. ASSUME NEW k \in 0..(m + 1)
          PROVE  g[k] = IF k = 0 THEN <<>> ELSE Grown(g[k - 1], s[k])
      <3>1. CASE k <= m
        <4>1. k \in 0..m /\ (k # 0 => k - 1 \in 0..m)
          BY <3>1
        <4>2. g[k] = f[k] /\ (k # 0 => g[k - 1] = f[k - 1])
          BY <4>1
        <4>3. QED
          BY <2>2, <4>1, <4>2
      <3>2. CASE k = m + 1
        BY <3>2
      <3>3. QED
        BY <3>1, <3>2
    <2>4. g = [k \in 0..(m + 1) |-> g[k]]
      OBVIOUS
    <2> HIDE DEF g
    <2>5. Counts(g, s, m + 1)
      BY <2>3, <2>4 DEF Counts
    <2>6. QED
      BY <1>2, <2>5
  <1>3. \A k \in 0..n : k \in T
    <2> HIDE DEF T
    <2>1. QED
      BY <1>1, <1>2, UpTo
  <1>4. QED
    BY <1>3

(* with these values,                                                      *)
LEMMA CountIs ==
    ASSUME NEW s, NEW n \in Nat, NEW f, Counts(f, s, n)
    PROVE  /\ f[0] = <<>>
           /\ \A k \in 1..n : f[k] = Grown(f[k - 1], s[k])
           /\ \A k \in 0..n : k < n => f[k + 1] = Grown(f[k], s[k + 1])
  <1>1. \A k \in 0..n : f[k] = IF k = 0 THEN <<>> ELSE Grown(f[k - 1], s[k])
    BY DEF Counts
  <1>2. ASSUME NEW k \in 0..n, k < n
        PROVE  f[k + 1] = Grown(f[k], s[k + 1])
    <2>1. k + 1 \in 0..n /\ k + 1 # 0 /\ (k + 1) - 1 = k
      BY <1>2
    <2>2. QED
      BY <1>1, <2>1
  <1>3. QED
    BY <1>1, <1>2

(* that depend on the calls only.                                          *)
LEMMA SameCounts ==
    ASSUME NEW s, NEW t, NEW n \in Nat, NEW m \in Nat, n <= m,
           \A k \in 1..n : s[k] = t[k],
           NEW f, Counts(f, s, n), NEW g, Counts(g, t, m)
    PROVE  \A k \in 0..n : f[k] = g[k]
  <1> DEFINE T == {k \in 0..n : f[k] = g[k]}
  <1>1. 0 \in T
    BY CountIs
  <1>2. ASSUME NEW k \in 0..n, k \in T, k < n PROVE k + 1 \in T
    <2>1. f[k + 1] = Grown(f[k], s[k + 1])
      BY <1>2, CountIs
    <2>2. g[k + 1] = Grown(g[k], t[k + 1])
      <3>1. k \in 0..m /\ k < m
        BY <1>2
      <3>2. QED
        BY <3>1, CountIs
    <2>3. s[k + 1] = t[k + 1] /\ k + 1 \in 0..n
      BY <1>2
    <2>4. QED
      BY <1>2, <2>1, <2>2, <2>3
  <1>3. \A k \in 0..n : k \in T
    <2> HIDE DEF T
    <2>1. QED
      BY <1>1, <1>2, UpTo
  <1>4. QED
    BY <1>3

(* RangesOf is its last value.                                             *)
LEMMA RangesAre ==
    ASSUME NEW s, Len(s) \in Nat
    PROVE  \E f : Counts(f, s, Len(s)) /\ RangesOf(s) = f[Len(s)]
  <1> DEFINE F == CHOOSE f : f = [k \in 0..Len(s) |->
                     IF k = 0 THEN <<>>
                     ELSE IF s[k].kind \in Loops
                          THEN Append(f[k - 1], Entry(s[k]))
                          ELSE f[k - 1]]
  <1>1. RangesOf(s) = F[Len(s)]
    BY DEF RangesOf
  <1>2. F = CHOOSE f : Counts(f, s, Len(s))
    BY Zenon DEF Counts, Grown
  <1> HIDE DEF F
  <1>3. Counts(F, s, Len(s))
    BY <1>2, CountExists
  <1>4. QED
    BY <1>1, <1>3

(* No calls have no ranges,                                                *)
LEMMA RangesOfNone == RangesOf(<<>>) = <<>>
  <1>1. Len(<<>>) = 0
    OBVIOUS
  <1>2. PICK f : Counts(f, <<>>, 0) /\ RangesOf(<<>>) = f[0]
    BY <1>1, RangesAre
  <1>3. QED
    BY <1>2, CountIs

(* and one more call grows the ranges by its own, if it is a loop.         *)
LEMMA RangesGrow ==
    ASSUME NEW s \in Seq(Frame), NEW c \in Frame
    PROVE  RangesOf(Append(s, c)) = Grown(RangesOf(s), c)
  <1> DEFINE a == Append(s, c)
             n == Len(s)
  <1>1. /\ n \in Nat /\ Len(a) = n + 1 /\ a[n + 1] = c
        /\ \A k \in 1..n : s[k] = a[k]
    BY PushEntries
  <1> HIDE DEF a, n
  <1>2. PICK f : Counts(f, s, n) /\ RangesOf(s) = f[n]
    BY <1>1, RangesAre DEF n
  <1>3. PICK g : Counts(g, a, n + 1) /\ RangesOf(a) = g[n + 1]
    BY <1>1, RangesAre
  <1>4. f[n] = g[n]
    <2> DEFINE m == n + 1
    <2>1. m \in Nat /\ n <= m /\ Counts(g, a, m)
      BY <1>1, <1>3
    <2> HIDE DEF m
    <2>2. \A k \in 0..n : f[k] = g[k]
      BY <2>1, <1>1, <1>2, SameCounts
    <2>3. QED
      BY <1>1, <2>2
  <1>5. g[n + 1] = Grown(g[n], a[n + 1])
    <2>1. n \in 0..(n + 1) /\ n < n + 1 /\ n + 1 \in Nat
      BY <1>1
    <2>2. QED
      BY <1>3, <2>1, CountIs
  <1>6. QED
    BY <1>1, <1>2, <1>3, <1>4, <1>5 DEF a

(* A loop is an entry.                                                     *)
LEMMA EntryType ==
    ASSUME NEW c \in Frame
    PROVE  /\ c.kind \in Loops => Entry(c) \in Entries
           /\ Entry(c).kind = c.kind /\ Entry(c).at = c.at
           /\ Entry(c).from = c.from /\ Entry(c).thru = c.thru
  BY DEF Entry, Entries, Frame

(* They are a stack of entries, whose first is the first call.             *)
LEMMA RangesType ==
    ASSUME NEW s \in Seq(Frame)
    PROVE  /\ RangesOf(s) \in Seq(Entries)
           /\ s # <<>> /\ s[1].kind = "body" =>
                RangesOf(s) # <<>> /\ RangesOf(s)[1].kind = "body"
  <1> DEFINE n == Len(s)
             Started(x) == x # <<>> /\ x[1].kind = "body"
  <1>1. n \in Nat /\ \A k \in 1..n : s[k] \in Frame
    OBVIOUS
  <1>2. PICK f : Counts(f, s, n) /\ RangesOf(s) = f[n]
    BY <1>1, RangesAre
  <1>3. ASSUME NEW x \in Seq(Entries), NEW c \in Frame
        PROVE  /\ Grown(x, c) \in Seq(Entries)
               /\ Started(x) => Started(Grown(x, c))
    <2>1. CASE c.kind \in Loops
      <3>1. Entry(c) \in Entries
        BY <2>1, EntryType
      <3>2. /\ Append(x, Entry(c)) \in Seq(Entries)
            /\ Len(Append(x, Entry(c))) = Len(x) + 1 /\ Len(x) \in Nat
            /\ \A i \in 1..Len(x) : Append(x, Entry(c))[i] = x[i]
        BY <3>1, PushEntries
      <3>3. x # <<>> => 1 \in 1..Len(x)
        BY EmptySeq
      <3>4. Append(x, Entry(c)) # <<>>
        BY <3>2, EmptySeq
      <3>5. QED
        BY <2>1, <3>2, <3>3, <3>4 DEF Grown
    <2>2. CASE c.kind \notin Loops
      BY <2>2 DEF Grown
    <2>3. QED
      BY <2>1, <2>2
  <1>4. s[1].kind = "body" => Started(Grown(<<>>, s[1]))
    <2>1. Append(<<>>, Entry(s[1])) = <<Entry(s[1])>>
      OBVIOUS
    <2>2. Entry(s[1]).kind = s[1].kind
      BY DEF Entry
    <2>3. QED
      BY <2>1, <2>2 DEF Grown, Loops
  <1> DEFINE T == {k \in 0..n : /\ f[k] \in Seq(Entries)
                                /\ k > 0 /\ s[1].kind = "body" => Started(f[k])}
  <1> HIDE DEF n, Started
  <1>5. 0 \in T
    <2>1. f[0] = <<>> /\ f[0] \in Seq(Entries)
      <3>1. f[0] = <<>>
        BY <1>1, <1>2, CountIs
      <3>2. <<>> \in Seq(Entries)
        BY EmptySeq
      <3>3. QED
        BY <3>1, <3>2
    <2>2. 0 \in 0..n /\ ~(0 > 0)
      BY <1>1
    <2>3. QED
      BY <2>1, <2>2
  <1>6. ASSUME NEW k \in 0..n, k \in T, k < n PROVE k + 1 \in T
    <2>1. f[k + 1] = Grown(f[k], s[k + 1])
      BY <1>1, <1>2, <1>6, CountIs
    <2>2. k + 1 \in 1..n /\ k + 1 \in 0..n /\ s[k + 1] \in Frame
      BY <1>1, <1>6
    <2>3. f[k + 1] \in Seq(Entries)
      BY <1>3, <1>6, <2>1, <2>2
    <2>4. s[1].kind = "body" => Started(f[k + 1])
      <3>1. CASE k = 0
        <4>1. f[1] = Grown(<<>>, s[1])
          BY <1>1, <1>2, <2>1, <3>1, CountIs
        <4>2. QED
          BY <1>4, <3>1, <4>1
      <3>2. CASE k > 0
        BY <1>3, <1>6, <2>1, <2>2, <3>2
      <3>3. QED
        BY <1>6, <3>1, <3>2
    <2>5. QED
      BY <2>2, <2>3, <2>4
  <1>7. n \in T
    <2> HIDE DEF T
    <2>1. \A k \in 0..n : k \in T
      BY <1>1, <1>5, <1>6, UpTo
    <2>2. QED
      BY <1>1, <2>1
  <1>8. s # <<>> => n > 0
    BY EmptySeq DEF n
  <1>9. QED
    BY <1>2, <1>7, <1>8 DEF Started

-----------------------------------------------------------------------------
(* A stack of entries with one more.                                       *)
LEMMA PushedParts ==
    ASSUME NEW S, NEW x \in Seq(S), NEW e \in S
    PROVE  /\ \A k \in 0..Len(x) :
                SubSeq(Append(x, e), 1, k) = SubSeq(x, 1, k)
           /\ SubSeq(Append(x, e), 1, Len(x)) = x
           /\ Append(x, e) # <<>>
           /\ SubSeq(Append(x, e), 1, Len(Append(x, e)) - 1) = x
  <1> DEFINE a == Append(x, e)
             n == Len(x)
  <1>1. /\ a \in Seq(S) /\ Len(a) = n + 1 /\ n \in Nat
        /\ \A i \in 1..n : a[i] = x[i]
    BY PushEntries
  <1> HIDE DEF a
  <1>2. ASSUME NEW k \in 0..n PROVE SubSeq(a, 1, k) = SubSeq(x, 1, k)
    <2>1. /\ SubSeq(x, 1, k) \in Seq(S) /\ Len(SubSeq(x, 1, k)) = k
          /\ \A i \in 1..k : SubSeq(x, 1, k)[i] = x[i]
      BY <1>1, CutEntries
    <2>2. k <= Len(a) /\ k \in Nat
      BY <1>1
    <2>3. /\ SubSeq(a, 1, k) \in Seq(S) /\ Len(SubSeq(a, 1, k)) = k
          /\ \A i \in 1..k : SubSeq(a, 1, k)[i] = a[i]
      BY <1>1, <2>2, CutEntries
    <2>4. \A i \in 1..k : SubSeq(a, 1, k)[i] = SubSeq(x, 1, k)[i]
      BY <1>1, <2>1, <2>3
    <2>5. QED
      BY <2>1, <2>3, <2>4, SeqEqual
  <1>3. SubSeq(x, 1, n) = x
    <2>1. /\ SubSeq(x, 1, n) \in Seq(S) /\ Len(SubSeq(x, 1, n)) = n
          /\ \A i \in 1..n : SubSeq(x, 1, n)[i] = x[i]
      BY <1>1, CutEntries
    <2>2. QED
      BY <2>1, SeqEqual
  <1>4. a # <<>>
    BY <1>1, EmptySeq
  <1>5. Len(a) - 1 = n /\ n \in 0..n
    BY <1>1
  <1>6. QED
    BY <1>2, <1>3, <1>4, <1>5 DEF a

(* A GO TO the innermost entry keeps goes on there;                        *)
LEMMA LandOnTop ==
    ASSUME NEW x \in Seq(Entries), NEW e \in Entries, NEW t,
           Shape!Keeps(e, t)
    PROVE  Shape!Land(Append(x, e), t) = Append(x, [e EXCEPT !.at = t])
  <1> DEFINE a == Append(x, e)
             n == Len(x)
             Best(k) == /\ Shape!Keeps(a[k], t)
                        /\ \A j \in (k + 1)..Len(a) : ~Shape!Keeps(a[j], t)
             K == CHOOSE k \in DOMAIN a : Best(k)
  <1>1. /\ Len(a) = n + 1 /\ n \in Nat /\ a[n + 1] = e
        /\ DOMAIN a = 1..(n + 1)
    BY PushEntries
  <1>2. SubSeq(a, 1, n) = x
    BY PushedParts
  <1>3. Shape!Land(a, t) = Append(SubSeq(a, 1, K - 1), [a[K] EXCEPT !.at = t])
    BY DEF Shape!Land
  <1> HIDE DEF a
  <1>4. n + 1 \in DOMAIN a /\ Best(n + 1)
    BY <1>1
  <1>5. ASSUME NEW k \in DOMAIN a, Best(k) PROVE k = n + 1
    <2>1. k <= n => n + 1 \in (k + 1)..Len(a)
      BY <1>1
    <2>2. QED
      BY <1>1, <1>5, <2>1
  <1>6. K \in DOMAIN a /\ Best(K)
    BY <1>4
  <1> HIDE DEF K, Best
  <1>7. K = n + 1
    BY <1>5, <1>6
  <1>8. K - 1 = n /\ a[K] = e
    BY <1>1, <1>7
  <1>9. QED
    BY <1>2, <1>3, <1>8 DEF a

(* one that it does not keep is as if the entry were not there.            *)
LEMMA LandBelow ==
    ASSUME NEW x \in Seq(Entries), NEW e \in Entries, NEW t,
           ~Shape!Keeps(e, t), \E i \in 1..Len(x) : Shape!Keeps(x[i], t)
    PROVE  Shape!Land(Append(x, e), t) = Shape!Land(x, t)
  <1> DEFINE a == Append(x, e)
             n == Len(x)
             Best(s, k) == /\ k \in DOMAIN s /\ Shape!Keeps(s[k], t)
                           /\ \A j \in (k + 1)..Len(s) : ~Shape!Keeps(s[j], t)
             K(s) == CHOOSE k : Best(s, k)
  <1>1. /\ Len(a) = n + 1 /\ n \in Nat /\ a[n + 1] = e
        /\ DOMAIN a = 1..(n + 1) /\ DOMAIN x = 1..n
        /\ \A i \in 1..n : a[i] = x[i]
    BY PushEntries
  <1>2. \A k \in 0..n : SubSeq(a, 1, k) = SubSeq(x, 1, k)
    BY PushedParts
  <1>3. /\ Shape!Land(a, t)
             = Append(SubSeq(a, 1, K(a) - 1), [a[K(a)] EXCEPT !.at = t])
        /\ Shape!Land(x, t)
             = Append(SubSeq(x, 1, K(x) - 1), [x[K(x)] EXCEPT !.at = t])
    BY DEF Shape!Land
  <1> HIDE DEF a
  <1>4. ASSUME NEW k PROVE Best(a, k) <=> Best(x, k)
    <2>1. CASE k \in 1..n
      <3>1. /\ (k + 1)..Len(a) = ((k + 1)..n) \cup {n + 1}
            /\ (k + 1)..n \subseteq 1..n
        BY <1>1, <2>1
      <3>2. QED
        BY <1>1, <2>1, <3>1
    <2>2. CASE k \notin 1..n
      <3>1. k \in DOMAIN a => k = n + 1
        BY <1>1, <2>2
      <3>2. QED
        BY <1>1, <2>2, <3>1
    <2>3. QED
      BY <2>1, <2>2
  <1>5. \E k : Best(x, k)
    <2> DEFINE T == {i \in 1..n : Shape!Keeps(x[i], t)}
    <2>1. T \in SUBSET (1..n) /\ T # {}
      OBVIOUS
    <2> HIDE DEF T
    <2>2. PICK k \in T : \A j \in (k + 1)..n : j \notin T
      BY <1>1, <2>1, LastPlace
    <2>3. k \in 1..n /\ Shape!Keeps(x[k], t)
      BY DEF T
    <2>4. \A j \in (k + 1)..n : ~Shape!Keeps(x[j], t)
      BY <1>1, <2>2, <2>3 DEF T
    <2>5. QED
      BY <1>1, <2>3, <2>4
  <1> HIDE DEF Best
  <1>6. K(a) = K(x)
    BY <1>4
  <1>7. K(x) \in 1..n
    BY <1>1, <1>5 DEF Best
  <1> HIDE DEF K
  <1>8. K(x) - 1 \in 0..n /\ a[K(x)] = x[K(x)]
    BY <1>1, <1>7
  <1>9. QED
    BY <1>2, <1>3, <1>6, <1>8 DEF a

(* Leaving a program: the one on top, or the one below a range.            *)
LEMMA LeaveOnTop ==
    ASSUME NEW x \in Seq(Entries), NEW e \in Entries, e.kind = "body"
    PROVE  Shape!LeaveProgram(Append(x, e)) = x
  <1> DEFINE a == Append(x, e)
             n == Len(x)
             Best(k) == /\ a[k].kind = "body"
                        /\ \A j \in (k + 1)..Len(a) : a[j].kind # "body"
             K == CHOOSE k \in DOMAIN a : Best(k)
  <1>1. /\ Len(a) = n + 1 /\ n \in Nat /\ a[n + 1] = e
        /\ DOMAIN a = 1..(n + 1)
    BY PushEntries
  <1>2. SubSeq(a, 1, n) = x
    BY PushedParts
  <1>3. Shape!LeaveProgram(a) = SubSeq(a, 1, K - 1)
    BY DEF Shape!LeaveProgram
  <1> HIDE DEF a
  <1>4. n + 1 \in DOMAIN a /\ Best(n + 1)
    BY <1>1
  <1>5. ASSUME NEW k \in DOMAIN a, Best(k) PROVE k = n + 1
    <2>1. k <= n => n + 1 \in (k + 1)..Len(a)
      BY <1>1
    <2>2. QED
      BY <1>1, <1>5, <2>1
  <1>6. K \in DOMAIN a /\ Best(K)
    BY <1>4
  <1> HIDE DEF K, Best
  <1>7. K - 1 = n
    BY <1>1, <1>5, <1>6
  <1>8. QED
    BY <1>2, <1>3, <1>7 DEF a

(* The range is left with its program.                                     *)
LEMMA LeaveBelow ==
    ASSUME NEW x \in Seq(Entries), NEW e \in Entries, e.kind # "body",
           \E i \in 1..Len(x) : x[i].kind = "body"
    PROVE  Shape!LeaveProgram(Append(x, e)) = Shape!LeaveProgram(x)
  <1> DEFINE a == Append(x, e)
             n == Len(x)
             Best(s, k) == /\ k \in DOMAIN s /\ s[k].kind = "body"
                           /\ \A j \in (k + 1)..Len(s) : s[j].kind # "body"
             K(s) == CHOOSE k : Best(s, k)
  <1>1. /\ Len(a) = n + 1 /\ n \in Nat /\ a[n + 1] = e
        /\ DOMAIN a = 1..(n + 1) /\ DOMAIN x = 1..n
        /\ \A i \in 1..n : a[i] = x[i]
    BY PushEntries
  <1>2. \A k \in 0..n : SubSeq(a, 1, k) = SubSeq(x, 1, k)
    BY PushedParts
  <1>3. /\ Shape!LeaveProgram(a) = SubSeq(a, 1, K(a) - 1)
        /\ Shape!LeaveProgram(x) = SubSeq(x, 1, K(x) - 1)
    BY DEF Shape!LeaveProgram
  <1> HIDE DEF a
  <1>4. ASSUME NEW k PROVE Best(a, k) <=> Best(x, k)
    <2>1. CASE k \in 1..n
      <3>1. /\ (k + 1)..Len(a) = ((k + 1)..n) \cup {n + 1}
            /\ (k + 1)..n \subseteq 1..n
        BY <1>1, <2>1
      <3>2. QED
        BY <1>1, <2>1, <3>1
    <2>2. CASE k \notin 1..n
      <3>1. k \in DOMAIN a => k = n + 1
        BY <1>1, <2>2
      <3>2. QED
        BY <1>1, <2>2, <3>1
    <2>3. QED
      BY <2>1, <2>2
  <1>5. \E k : Best(x, k)
    <2> DEFINE T == {i \in 1..n : x[i].kind = "body"}
    <2>1. T \in SUBSET (1..n) /\ T # {}
      OBVIOUS
    <2> HIDE DEF T
    <2>2. PICK k \in T : \A j \in (k + 1)..n : j \notin T
      BY <1>1, <2>1, LastPlace
    <2>3. k \in 1..n /\ x[k].kind = "body"
      BY DEF T
    <2>4. \A j \in (k + 1)..n : x[j].kind # "body"
      BY <1>1, <2>2, <2>3 DEF T
    <2>5. QED
      BY <1>1, <2>3, <2>4
  <1> HIDE DEF Best
  <1>6. K(a) = K(x)
    BY <1>4
  <1>7. K(x) \in 1..n
    BY <1>1, <1>5 DEF Best
  <1> HIDE DEF K
  <1>8. K(x) - 1 \in 0..n
    BY <1>1, <1>7
  <1>9. QED
    BY <1>2, <1>3, <1>6, <1>8 DEF a

-----------------------------------------------------------------------------
(* The first call is the program's body, and PERFORMed ranges end in the   *)
(* text.                                                                   *)
Anchored(s) ==
    /\ s # <<>> => s[1].kind = "body"
    /\ \A i \in 1..Len(s) : s[i].kind = "range" => s[i].thru \in Blocks

(* A call that begins.                                                     *)
LEMMA AnchoredPush ==
    ASSUME NEW s \in Seq(Frame), Anchored(s), NEW f \in Frame,
           f.kind = "range" => f.thru \in Blocks,
           s # <<>> \/ f.kind = "body"
    PROVE  Anchored(Append(s, f))
  <1> DEFINE a == Append(s, f)
  <1>1. /\ Len(a) = Len(s) + 1 /\ Len(s) \in Nat /\ a[Len(s) + 1] = f
        /\ \A i \in 1..Len(s) : a[i] = s[i]
    BY PushEntries
  <1>2. s # <<>> => 1 \in 1..Len(s)
    BY EmptySeq
  <1>3. s = <<>> => Len(s) = 0
    OBVIOUS
  <1> HIDE DEF a
  <1>4. a[1].kind = "body"
    <2>1. CASE s # <<>>
      BY <1>1, <1>2, <2>1 DEF Anchored
    <2>2. CASE s = <<>>
      BY <1>1, <1>3, <2>2
    <2>3. QED
      BY <2>1, <2>2
  <1>5. ASSUME NEW i \in 1..Len(a), a[i].kind = "range"
        PROVE  a[i].thru \in Blocks
    <2>1. i \in 1..Len(s) \/ i = Len(s) + 1
      BY <1>1
    <2>2. QED
      BY <1>1, <1>5, <2>1 DEF Anchored
  <1>6. QED
    BY <1>4, <1>5 DEF Anchored, a

(* A call that ends.                                                       *)
LEMMA AnchoredPop ==
    ASSUME NEW s \in Seq(Frame), Anchored(s), s # <<>>
    PROVE  Anchored(SubSeq(s, 1, Len(s) - 1))
  <1> DEFINE u == SubSeq(s, 1, Len(s) - 1)
  <1>1. /\ Len(s) \in Nat \ {0} /\ u \in Seq(Frame) /\ Len(u) = Len(s) - 1
        /\ \A i \in 1..(Len(s) - 1) : u[i] = s[i]
    BY PopEntries
  <1> HIDE DEF u
  <1>2. u # <<>> => 1 \in 1..(Len(s) - 1)
    BY <1>1, EmptySeq
  <1>3. 1..Len(u) \subseteq 1..Len(s)
    BY <1>1
  <1>4. QED
    BY <1>1, <1>2, <1>3 DEF Anchored, u

(* A call that goes on.                                                    *)
LEMMA AnchoredReplace ==
    ASSUME NEW s \in Seq(Frame), Anchored(s), s # <<>>, NEW f \in Frame,
           f.kind = s[Len(s)].kind \/ s[Len(s)].kind # "body",
           f.kind = "range" => f.thru \in Blocks
    PROVE  Anchored([s EXCEPT ![Len(s)] = f])
  <1> DEFINE t == [s EXCEPT ![Len(s)] = f]
  <1>1. /\ Len(s) \in Nat \ {0} /\ Len(t) = Len(s)
        /\ \A i \in 1..(Len(s) - 1) : t[i] = s[i]
        /\ t[Len(s)] = f
    BY ReplaceTop
  <1> HIDE DEF t
  <1>2. t[1].kind = "body"
    <2>1. CASE Len(s) = 1
      BY <1>1, <2>1 DEF Anchored
    <2>2. CASE Len(s) # 1
      <3>1. 1 \in 1..(Len(s) - 1)
        BY <1>1, <2>2
      <3>2. QED
        BY <1>1, <3>1 DEF Anchored
    <2>3. QED
      BY <2>1, <2>2
  <1>3. ASSUME NEW i \in 1..Len(t), t[i].kind = "range"
        PROVE  t[i].thru \in Blocks
    <2>1. i \in 1..(Len(s) - 1) \/ i = Len(s)
      BY <1>1
    <2>2. 1..(Len(s) - 1) \subseteq 1..Len(s)
      BY <1>1
    <2>3. QED
      BY <1>1, <1>3, <2>1, <2>2 DEF Anchored
  <1>4. QED
    BY <1>2, <1>3 DEF Anchored, t

(* What the calls are below the innermost one, and what their ranges are.  *)
LEMMA TopParts ==
    ASSUME Good(frames), Anchored(frames), frames # <<>>
    PROVE  /\ frames \in Seq(Frame) /\ GoodFrame(Top) /\ Top \in Frame
           /\ Under \in Seq(Frame) /\ Good(Under) /\ Anchored(Under)
           /\ Len(Under) = Len(frames) - 1 /\ Len(frames) \in Nat \ {0}
           /\ frames = Append(Under, Top)
           /\ Top = frames[Len(frames)]
           /\ Top.kind # "body" => Under # <<>>
           /\ Top.kind = "range" => Top.thru \in Blocks
           /\ Ranges = Grown(RangesOf(Under), Top)
           /\ RangesOf(Under) \in Seq(Entries)
           /\ Under # <<>> =>
                /\ RangesOf(Under) # <<>>
                /\ \E i \in 1..Len(RangesOf(Under)) :
                      RangesOf(Under)[i].kind = "body"
           /\ \A f : WithTop(f) = Append(Under, f)
  <1>1. /\ frames \in Seq(Frame) /\ GoodFrame(Top) /\ Top \in Frame
        /\ Top = frames[Len(frames)] /\ Good(Under)
    BY GoodTop, GoodPop DEF Good, GoodFrame, Under
  <1>2. /\ Len(frames) \in Nat \ {0} /\ Under \in Seq(Frame)
        /\ Len(Under) = Len(frames) - 1
        /\ \A i \in 1..(Len(frames) - 1) : Under[i] = frames[i]
    BY <1>1, PopEntries DEF Under
  <1>3. ASSUME NEW f, NEW S, f \in S, Frame \subseteq S
        PROVE  WithTop(f) = Append(Under, f)
    <2>1. Under \in Seq(S) /\ frames \in Seq(S)
      BY <1>1, <1>2, <1>3
    <2>2. /\ Append(Under, f) \in Seq(S) /\ Len(Append(Under, f)) = Len(frames)
          /\ \A i \in 1..(Len(frames) - 1) : Append(Under, f)[i] = frames[i]
          /\ Append(Under, f)[Len(frames)] = f
      BY <1>2, <1>3, <2>1, PushEntries
    <2>3. /\ WithTop(f) \in Seq(S) /\ Len(WithTop(f)) = Len(frames)
          /\ \A i \in 1..(Len(frames) - 1) : WithTop(f)[i] = frames[i]
          /\ WithTop(f)[Len(frames)] = f
      BY <1>1, <1>3, <2>1, ReplaceTop DEF WithTop
    <2>4. \A i \in 1..Len(WithTop(f)) : WithTop(f)[i] = Append(Under, f)[i]
      <3>1. \A i \in 1..Len(frames) :
              i \in 1..(Len(frames) - 1) \/ i = Len(frames)
        BY <1>2
      <3>2. QED
        BY <2>2, <2>3, <3>1
    <2>5. QED
      BY <2>2, <2>3, <2>4, SeqEqual
  <1>4. \A f : WithTop(f) = Append(Under, f)
    <2> TAKE f
    <2> DEFINE S == Frame \cup {f}
    <2>1. f \in S /\ Frame \subseteq S
      OBVIOUS
    <2> HIDE DEF S
    <2>2. QED
      BY <1>3, <2>1
  <1>5. frames = Append(Under, Top)
    <2>1. WithTop(Top) = frames
      BY <1>1 DEF WithTop
    <2>2. QED
      BY <1>4, <2>1
  <1>6. Anchored(Under)
    BY <1>1, AnchoredPop DEF Under
  <1>7. Top.kind # "body" => Under # <<>>
    <2>1. Under = <<>> => Len(frames) = 1
      <3>1. Len(<<>>) = 0
        OBVIOUS
      <3>2. QED
        BY <1>2, <3>1
    <2>2. QED
      BY <1>1, <2>1 DEF Anchored
  <1>8. Top.kind = "range" => Top.thru \in Blocks
    <2>1. Len(frames) \in 1..Len(frames)
      BY <1>2
    <2>2. QED
      BY <1>1, <2>1 DEF Anchored
  <1>9. Ranges = Grown(RangesOf(Under), Top)
    BY <1>1, <1>2, <1>5, RangesGrow DEF Ranges
  <1>10. RangesOf(Under) \in Seq(Entries)
    BY <1>2, RangesType
  <1>11. ASSUME Under # <<>>
         PROVE  /\ RangesOf(Under) # <<>>
                /\ \E i \in 1..Len(RangesOf(Under)) :
                      RangesOf(Under)[i].kind = "body"
    <2>1. Under[1].kind = "body"
      BY <1>6, <1>11 DEF Anchored
    <2>2. RangesOf(Under) # <<>> /\ RangesOf(Under)[1].kind = "body"
      BY <1>2, <1>11, <2>1, RangesType
    <2>3. 1 \in 1..Len(RangesOf(Under))
      BY <1>10, <2>2, EmptySeq
    <2>4. QED
      BY <2>2, <2>3
  <1>12. QED
    BY <1>1, <1>2, <1>4, <1>5, <1>6, <1>7, <1>8, <1>9, <1>10, <1>11

(* Every step keeps the calls anchored.                                    *)
LEMMA AnchoredSteps ==
    ASSUME TypeOK, Good(frames), Anchored(frames), Next
    PROVE  Anchored(frames')
  <1>0. frames \in Seq(Frame)
    BY DEF TypeOK
  <1>r. ASSUME NEW r \in Performable
        PROVE  /\ RangeCall(r) \in Frame /\ RangeCall(r).kind = "range"
               /\ RangeCall(r).thru \in Blocks
    <2>1. r[2] \in 1..LastBlock
      BY ControlAssumption
    <2>2. QED
      BY <2>1, GoodRange DEF GoodFrame, RangeCall, Blocks
  <1>w. ASSUME NEW kind \in Declaratives \cup SortCalls, NEW at \in Nat
        PROVE  /\ Waiting(kind, at) \in Frame
               /\ Waiting(kind, at).kind \notin {"body", "range"}
    BY GoodWaiting DEF GoodFrame, Declaratives, SortCalls
  <1>b. Body \in Frame /\ Body.kind = "body"
    BY GoodBody DEF GoodFrame, Body
  <1>t. ASSUME frames # <<>>
        PROVE  /\ Top \in Frame /\ Top = frames[Len(frames)]
               /\ Top.kind \in Loops => Top.at \in Blocks
               /\ Top.kind = "range" => Top.thru \in Blocks
    BY <1>t, TopParts DEF GoodFrame
  <1>p. ASSUME NEW f \in Frame, frames # <<>>, f.kind = Top.kind,
               f.thru = Top.thru
        PROVE  Anchored(WithTop(f)) /\ WithTop(f) \in Seq(Frame)
               /\ WithTop(f) # <<>>
    <2>1. Anchored(WithTop(f))
      BY <1>0, <1>p, <1>t, AnchoredReplace DEF WithTop
    <2>2. WithTop(f) \in Seq(Frame) /\ Len(WithTop(f)) # 0
      BY <1>0, <1>p, ReplaceTop DEF WithTop
    <2>3. QED
      BY <2>1, <2>2
  <1>s. ASSUME frames # <<>>, NEW step \in {"entry", "ops", "end"}
        PROVE  LET f == [Top EXCEPT !.step = step]
               IN  f \in Frame /\ f.kind = Top.kind /\ f.thru = Top.thru
    BY <1>s, <1>t DEF Frame
  <1>n. ASSUME frames # <<>>, NEW t \in Blocks
        PROVE  Anchored(RunBlock(t))
    <2> DEFINE f == [Top EXCEPT !.at = t, !.step = "entry"]
    <2>1. t \in Nat
      BY ControlAssumption DEF Blocks
    <2>2. f \in Frame /\ f.kind = Top.kind /\ f.thru = Top.thru
      BY <1>n, <1>t, <2>1 DEF Frame
    <2>3. QED
      BY <1>n, <1>p, <2>2 DEF RunBlock
  <1>1. CASE Execute
    BY <1>0, <1>1, <1>b, AnchoredPush DEF Execute, Push
  <1>2. CASE EnterBlock
    <2>1. frames # <<>> /\ Top.at \in Nat
      BY <1>2, <1>t DEF EnterBlock, Running, Frame
    <2>2. CASE frames' = Append(frames, Waiting("debug", Top.at))
      <3>1. "debug" \in Declaratives \cup SortCalls
        BY DEF Declaratives
      <3>2. QED
        BY <1>0, <1>w, <2>1, <2>2, <3>1, AnchoredPush
    <2>3. CASE frames' = WithTop([Top EXCEPT !.step = "ops"])
      BY <1>p, <1>s, <2>1, <2>3
    <2>4. QED
      BY <1>2, <2>2, <2>3 DEF EnterBlock, Push
  <1>3. CASE Perform
    <2>1. PICK r \in Performable : frames' = Append(frames, RangeCall(r))
      BY <1>3 DEF Perform, Push
    <2>2. frames # <<>>
      BY <1>3 DEF Perform, InStatements, Running
    <2>3. QED
      BY <1>0, <1>r, <2>1, <2>2, AnchoredPush
  <1>4. CASE PerformTransfer
    <2>1. PICK r \in Performable :
             frames' = Append(WithTop([Top EXCEPT !.step = "end"]),
                              RangeCall(r))
      BY <1>4 DEF PerformTransfer
    <2>2. frames # <<>>
      BY <1>4 DEF PerformTransfer, Running
    <2> DEFINE w == WithTop([Top EXCEPT !.step = "end"])
    <2>3. Anchored(w) /\ w \in Seq(Frame) /\ w # <<>>
      BY <1>p, <1>s, <2>2
    <2> HIDE DEF w
    <2>4. Anchored(Append(w, RangeCall(r)))
      BY <1>r, <2>3, AnchoredPush
    <2>5. QED
      BY <2>1, <2>4 DEF w
  <1>5. CASE FileError
    <2>1. PICK f \in Files : frames' = Append(frames, Waiting("file", f))
      BY <1>5 DEF FileError, Push
    <2>2. frames # <<>>
      BY <1>5 DEF FileError, InStatements, Running
    <2>3. "file" \in Declaratives \cup SortCalls /\ f \in Nat
      BY ControlAssumption DEF Declaratives, Files
    <2>4. QED
      BY <1>0, <1>w, <2>1, <2>2, <2>3, AnchoredPush
  <1>6. CASE Sort
    <2>1. PICK r \in Performable, phase \in SortCalls :
             frames' = frames \o <<Waiting(phase, Len(sorts)), RangeCall(r)>>
      BY <1>6 DEF Sort
    <2>2. frames # <<>>
      BY <1>6 DEF Sort, InStatements, Running
    <2> DEFINE f == Waiting(phase, Len(sorts))
               w == Append(frames, f)
    <2>3. f \in Frame /\ f.kind \notin {"body", "range"}
      BY <1>w DEF TypeOK
    <2> HIDE DEF f
    <2>4. Anchored(w) /\ w \in Seq(Frame) /\ w # <<>>
      <3>1. w # <<>>
        BY <1>0, <2>3, PushedParts
      <3>2. QED
        BY <1>0, <2>2, <2>3, <3>1, AnchoredPush
    <2>5. frames' = Append(w, RangeCall(r))
      BY <1>0, <1>r, <2>1, <2>3 DEF f
    <2> HIDE DEF w
    <2>6. QED
      BY <1>r, <2>4, <2>5, AnchoredPush
  <1>7. CASE SortReleased
    <2>1. PICK r \in Performable :
             frames' = Append(WithTop(Waiting("output", Top.at)), RangeCall(r))
      BY <1>7 DEF SortReleased
    <2>2. frames # <<>> /\ Top.kind = "input"
      BY <1>7 DEF SortReleased, Running
    <2> DEFINE f == Waiting("output", Top.at)
               w == WithTop(f)
    <2>3. f \in Frame /\ f.kind \notin {"body", "range"}
      <3>1. Top.at \in Nat
        BY <1>t, <2>2 DEF Frame
      <3>2. "output" \in Declaratives \cup SortCalls
        BY DEF SortCalls
      <3>3. QED
        BY <1>w, <3>1, <3>2
    <2> HIDE DEF f
    <2>4. Anchored(w) /\ w \in Seq(Frame) /\ w # <<>>
      <3>1. Anchored(w)
        BY <1>0, <1>t, <2>2, <2>3, AnchoredReplace DEF WithTop
      <3>2. w \in Seq(Frame) /\ Len(w) # 0
        BY <1>0, <2>2, <2>3, ReplaceTop DEF WithTop
      <3>3. QED
        BY <3>1, <3>2
    <2> HIDE DEF w
    <2>5. Anchored(Append(w, RangeCall(r)))
      BY <1>r, <2>4, AnchoredPush
    <2>6. QED
      BY <2>1, <2>5 DEF w, f
  <1>8. CASE FallThrough
    <2>1. frames # <<>> /\ frames' = RunBlock(Top.at + 1)
      BY <1>8 DEF FallThrough, AtBlockEnd, Running
    <2>2. Top.at + 1 \in Blocks
      BY <1>8, <1>t, <2>1, ControlAssumption
         DEF FallThrough, AtBlockEnd, Running, HasNext, Blocks
    <2>3. QED
      BY <1>n, <2>1, <2>2
  <1>9. CASE CatchGoTo
    <2>1. frames # <<>> /\ frames' = RunBlock(signal.to) /\ signal.to \in Blocks
      BY <1>9 DEF CatchGoTo, TypeOK
    <2>2. QED
      BY <1>n, <2>1
  <1>10. CASE Return \/ EndSort \/ PassOn
    <2>1. frames # <<>> /\ frames' = Under
      BY <1>10 DEF Return, EndSort, PassOn, Leave, AtBlockEnd, Running
    <2>2. QED
      BY <2>1, TopParts
  <1>11. CASE EndDeclarative
    <2>1. /\ frames # <<>>
          /\ \/ frames' = Under
             \/ frames' = [Under EXCEPT ![Len(Under)].step = "ops"]
      BY <1>11 DEF EndDeclarative, InStatements, Running
    <2>2. /\ Under \in Seq(Frame) /\ Anchored(Under) /\ Under # <<>>
      BY <1>11, <2>1, TopParts DEF EndDeclarative, Declaratives
    <2> DEFINE u == Under
               l == u[Len(u)]
               f == [l EXCEPT !.step = "ops"]
    <2> HIDE DEF u
    <2>3. l \in Frame /\ Len(u) \in 1..Len(u)
      BY <2>2, EmptySeq DEF u
    <2>4. f \in Frame /\ f.kind = l.kind /\ f.thru = l.thru
      BY <2>3 DEF Frame
    <2>5. [u EXCEPT ![Len(u)].step = "ops"] = [u EXCEPT ![Len(u)] = f]
      OBVIOUS
    <2>6. l.kind = "range" => l.thru \in Blocks
      BY <2>2, <2>3 DEF Anchored, u
    <2> HIDE DEF f
    <2>7. Anchored([u EXCEPT ![Len(u)] = f])
      BY <2>2, <2>4, <2>6, AnchoredReplace DEF u
    <2>8. QED
      BY <2>1, <2>2, <2>5, <2>7 DEF u
  <1>12. CASE Alter \/ GoTo \/ AlteredGoTo \/ StopRun \/ Fail
    BY <1>12 DEF Alter, GoTo, AlteredGoTo, StopRun, Fail, Raise
  <1>13. QED
    BY <1>1, <1>2, <1>3, <1>4, <1>5, <1>6, <1>7, <1>8, <1>9, <1>10, <1>11,
       <1>12 DEF Next

-----------------------------------------------------------------------------
(* Where the stack is landing: at the ranges themselves when no signal is  *)
(* on its way.                                                             *)
LEMMA LandingIs ==
    /\ signal.kind = "none" => Landing = Ranges
    /\ signal.kind = "goto" => Landing = Shape!Land(Ranges, signal.to)
    /\ signal.kind = "stop" => Landing = Shape!LeaveProgram(Ranges)
    /\ signal.kind = "error" => Landing = <<>>
  BY DEF Landing

(* After a step.                                                           *)
LEMMA LandingNext ==
    /\ signal'.kind = "none" => Landing' = RangesOf(frames')
    /\ signal'.kind = "goto"
         => Landing' = Shape!Land(RangesOf(frames'), signal'.to)
    /\ signal'.kind = "stop" => Landing' = Shape!LeaveProgram(RangesOf(frames'))
    /\ signal'.kind = "error" => Landing' = <<>>
  BY DEF Landing, Ranges

(* A step of the abstract stack from where it is landing.                  *)
LEMMA StackStep ==
    ASSUME NEW s, NEW n, Landing = s, Landing' = n,
           \/ Stack!Enter(s, n) \/ Stack!Call(s, n) \/ Stack!Perform(s, n)
           \/ Stack!FallThrough(s, n) \/ Stack!Return(s, n)
           \/ Stack!GoTo(s, n) \/ Stack!Stop(s, n) \/ Stack!Abort(s, n)
    PROVE  Stack!Next
  BY DEF Stack!Next

(* Between the ends of a range, for the code and for the abstract stack.   *)
LEMMA KeepsIsCatches ==
    ASSUME NEW f \in Frame, f.kind \in Loops, NEW t \in Nat
    PROVE  Shape!Keeps(Entry(f), t) <=> Catches(f, t)
  <1>1. /\ Entry(f).kind = f.kind /\ Entry(f).from = f.from
        /\ Entry(f).thru = f.thru /\ f.from \in Nat /\ f.thru \in Nat
    BY EntryType DEF Frame
  <1>2. Shape!Between(Entry(f), t) <=> InScope(f, t)
    <2> DEFINE a == f.from
               b == f.thru
    <2>1. InScope(f, t) <=> IF a <= b THEN t \in a..b ELSE t \in b..a
      BY DEF InScope
    <2>2. Shape!Between(Entry(f), t) <=>
             (a <= t /\ t <= b) \/ (b <= t /\ t <= a)
      BY <1>1 DEF Shape!Between
    <2>3. a \in Nat /\ b \in Nat
      BY <1>1
    <2> HIDE DEF a, b
    <2>4. QED
      BY <2>1, <2>2, <2>3
  <1>3. f.kind = "body" \/ f.kind = "range"
    BY DEF Loops
  <1>4. QED
    BY <1>1, <1>2, <1>3 DEF Shape!Keeps, Catches

(* The ranges depend on what the innermost call is, not on its step.       *)
LEMMA SameRanges ==
    ASSUME NEW s \in Seq(Frame), NEW c \in Frame, NEW f \in Frame,
           f.kind = c.kind, f.from = c.from, f.thru = c.thru, f.at = c.at
    PROVE  RangesOf(Append(s, f)) = RangesOf(Append(s, c))
  <1>1. Grown(RangesOf(s), f) = Grown(RangesOf(s), c)
    BY DEF Grown, Entry
  <1>2. QED
    BY <1>1, RangesGrow

(* A frame at another step, or another block.                              *)
LEMMA FrameParts ==
    ASSUME NEW f \in Frame, NEW step \in {"entry", "ops", "end"}, NEW t \in Nat
    PROVE  /\ [f EXCEPT !.step = step] \in Frame
           /\ [f EXCEPT !.step = step].kind = f.kind
           /\ [f EXCEPT !.step = step].from = f.from
           /\ [f EXCEPT !.step = step].thru = f.thru
           /\ [f EXCEPT !.step = step].at = f.at
           /\ [f EXCEPT !.at = t, !.step = step] \in Frame
           /\ [f EXCEPT !.at = t, !.step = step].kind = f.kind
           /\ Entry([f EXCEPT !.at = t, !.step = step])
                = [Entry(f) EXCEPT !.at = t]
  <1> DEFINE g == [f EXCEPT !.at = t, !.step = step]
  <1>1. /\ [f EXCEPT !.step = step] \in Frame
        /\ [f EXCEPT !.step = step].kind = f.kind
        /\ [f EXCEPT !.step = step].from = f.from
        /\ [f EXCEPT !.step = step].thru = f.thru
        /\ [f EXCEPT !.step = step].at = f.at
    BY DEF Frame
  <1>2. /\ g \in Frame /\ g.kind = f.kind /\ g.from = f.from
        /\ g.thru = f.thru /\ g.at = t
    BY DEF Frame
  <1>3. [Entry(f) EXCEPT !.at = t] =
           [kind |-> f.kind, from |-> f.from, thru |-> f.thru, at |-> t]
    BY DEF Entry
  <1> HIDE DEF g
  <1>4. Entry(g) =
           [kind |-> f.kind, from |-> f.from, thru |-> f.thru, at |-> t]
    BY <1>2 DEF Entry
  <1>5. QED
    BY <1>1, <1>2, <1>3, <1>4 DEF g

(* Calls that are no loops leave the ranges as they are, a PERFORM adds    *)
(* one, and a program its body.                                            *)
LEMMA RangesPush ==
    ASSUME NEW s \in Seq(Frame)
    PROVE  /\ \A kind \in Declaratives \cup SortCalls, at \in Nat :
                /\ Append(s, Waiting(kind, at)) \in Seq(Frame)
                /\ RangesOf(Append(s, Waiting(kind, at))) = RangesOf(s)
           /\ \A r \in Performable :
                RangesOf(Append(s, RangeCall(r)))
                  = Append(RangesOf(s), Stack!Range(r, r[1]))
           /\ RangesOf(Append(s, Body)) = Append(RangesOf(s), Stack!Body(1))
  <1>1. ASSUME NEW kind \in Declaratives \cup SortCalls, NEW at \in Nat
        PROVE  /\ Append(s, Waiting(kind, at)) \in Seq(Frame)
               /\ RangesOf(Append(s, Waiting(kind, at))) = RangesOf(s)
    <2>1. /\ Waiting(kind, at) \in Frame
          /\ Waiting(kind, at).kind \notin Loops
      BY GoodWaiting DEF GoodFrame, Declaratives, SortCalls, Loops
    <2>2. QED
      BY <2>1, RangesGrow DEF Grown
  <1>2. ASSUME NEW r \in Performable
        PROVE  RangesOf(Append(s, RangeCall(r)))
                 = Append(RangesOf(s), Stack!Range(r, r[1]))
    <2>1. RangeCall(r) \in Frame /\ RangeCall(r).kind \in Loops
      BY RangeIsLoop
    <2>2. Entry(RangeCall(r)) = Stack!Range(r, r[1])
      BY DEF Entry, RangeCall, Stack!Range
    <2>3. QED
      BY <2>1, <2>2, RangesGrow DEF Grown
  <1>3. RangesOf(Append(s, Body)) = Append(RangesOf(s), Stack!Body(1))
    <2>1. Entry(Body) = Stack!Body(1)
      BY DEF Entry, Body, Stack!Body
    <2>2. QED
      BY <2>1, BodyIsLoop, RangesGrow DEF Grown
  <1>4. QED
    BY <1>1, <1>2, <1>3

(* The ranges of a running program: not empty.                             *)
LEMMA RangesRun ==
    ASSUME Good(frames), Anchored(frames), frames # <<>>
    PROVE  Ranges \in Seq(Entries) /\ Ranges # <<>>
  BY RangesType DEF Good, Anchored, Ranges

(* A signal is on its way through a call.                                  *)
Held == signal.kind # "none" => frames # <<>>

(* The end of the innermost call, when nothing is on its way.              *)
LEMMA ReturnRefines ==
    ASSUME TypeOK, Good(frames), Anchored(frames), Return
    PROVE  Stack!Next
  <1> DEFINE x == RangesOf(Under)
             e == Entry(Top)
  <1>1. /\ frames # <<>> /\ signal.kind = "none" /\ signal' = signal
        /\ frames' = Under /\ Top.kind \in Loops
        /\ AtThrough \/ ~HasNext(Top.at)
    BY DEF Return, AtBlockEnd, Running, Leave, NoSignal
  <1>2. /\ Top \in Frame /\ GoodFrame(Top) /\ x \in Seq(Entries)
        /\ Ranges = Append(x, e)
        /\ Top.kind = "range" => Top.thru \in Blocks
    BY <1>1, TopParts DEF Grown
  <1>4. /\ e \in Entries /\ e.kind = Top.kind /\ e.at = Top.at
        /\ e.from = Top.from /\ e.thru = Top.thru
    BY <1>1, <1>2, EntryType
  <1>u. RangesOf(frames') = x
    BY <1>1
  <1> HIDE DEF x, e
  <1>3. /\ Landing = Append(x, e) /\ Landing' = x
    <2>1. Landing = Ranges
      BY <1>1, LandingIs
    <2>2. signal'.kind = "none"
      BY <1>1
    <2>3. Landing' = RangesOf(frames')
      BY <2>2, LandingNext
    <2>4. QED
      BY <1>2, <1>u, <2>1, <2>3
  <1> DEFINE a == Append(x, e)
  <1>5. /\ a # <<>> /\ SubSeq(a, 1, Len(a) - 1) = x
        /\ Len(a) = Len(x) + 1 /\ a[Len(x) + 1] = e
    BY <1>2, <1>4, PushEntries, PushedParts
  <1> HIDE DEF a
  <1>6. \/ e.at \in Gobacks
        \/ e.kind = "range" /\ e.at = e.thru
        \/ e.at = LastBlock /\ (e.kind = "range" => e.thru < e.from)
    <2>1. CASE AtThrough
      BY <1>4, <2>1 DEF AtThrough
    <2>2. CASE ~AtThrough /\ ~HasNext(Top.at)
      <3>1. Top.at \in Gobacks \/ ~(Top.at < LastBlock)
        BY <2>2 DEF HasNext
      <3>2. Top.at \in 1..LastBlock /\ LastBlock \in Nat
        BY <1>1, <1>2, ControlAssumption DEF GoodFrame, Blocks
      <3>3. ASSUME ~(Top.at < LastBlock)
            PROVE  /\ Top.at = LastBlock
                   /\ Top.kind = "range" => Top.thru < Top.from
        <4>1. Top.at = LastBlock
          BY <3>2, <3>3
        <4>2. ASSUME Top.kind = "range", ~(Top.thru < Top.from) PROVE FALSE
          <5>0. Top.from \in Nat
            BY <1>2 DEF Frame
          <5>a. Top.thru \in Blocks
            BY <1>2, <4>2
          <5>1. Top.thru \in 1..LastBlock /\ Top.from \in Nat
            BY <5>0, <5>a DEF Blocks
          <5>2. Top.from <= Top.thru
            BY <3>2, <4>2, <5>1
          <5>3. Top.at <= Top.thru
            BY <1>2, <4>2, <5>2 DEF GoodFrame
          <5>4. Top.at = Top.thru
            BY <3>2, <4>1, <5>1, <5>3
          <5>5. QED
            BY <2>2, <4>2, <5>4 DEF AtThrough
        <4>3. QED
          BY <4>1, <4>2
      <3>4. QED
        BY <1>4, <3>1, <3>3
    <2>3. QED
      BY <1>1, <2>1, <2>2
  <1>7. Stack!Return(a, x)
    BY <1>5, <1>6 DEF Stack!Return, Stack!Top
  <1>8. QED
    BY <1>3, <1>7, StackStep DEF a

(* A loop that falls into its next block.                                  *)
LEMMA FallThroughRefines ==
    ASSUME TypeOK, Good(frames), Anchored(frames), FallThrough
    PROVE  Stack!Next
  <1> DEFINE x == RangesOf(Under)
             e == Entry(Top)
             t == Top.at + 1
             f == [Top EXCEPT !.at = t, !.step = "entry"]
  <1>1. /\ frames # <<>> /\ signal.kind = "none" /\ signal' = signal
        /\ frames' = WithTop(f) /\ Top.kind \in Loops
        /\ ~AtThrough /\ HasNext(Top.at)
    BY DEF FallThrough, AtBlockEnd, Running, NoSignal, RunBlock
  <1>2. /\ Top \in Frame /\ x \in Seq(Entries) /\ Under \in Seq(Frame)
        /\ Ranges = Append(x, e) /\ WithTop(f) = Append(Under, f)
    BY <1>1, TopParts DEF Grown
  <1>3. Top.at \in Nat
    BY <1>2 DEF Frame
  <1>4. f \in Frame /\ f.kind = Top.kind /\ Entry(f) = [e EXCEPT !.at = t]
    <2>1. t \in Nat
      BY <1>3
    <2>2. QED
      BY <1>2, <2>1, FrameParts
  <1> HIDE DEF f
  <1>5. RangesOf(frames') = Append(x, Entry(f))
    BY <1>1, <1>2, <1>4, RangesGrow DEF Grown
  <1>6. Landing = Append(x, e) /\ Landing' = Append(x, Entry(f))
    BY <1>1, <1>2, <1>5, LandingIs, LandingNext
  <1>7. /\ e \in Entries /\ e.kind = Top.kind /\ e.at = Top.at
        /\ e.from = Top.from /\ e.thru = Top.thru
    BY <1>1, <1>2, EntryType
  <1>8. Entry(f) = [e EXCEPT !.at = e.at + 1] /\ Entry(f) \in Entries
    BY <1>1, <1>4, <1>7, EntryType
  <1> HIDE DEF x, e
  <1> DEFINE a == Append(x, e)
             n == Append(x, Entry(f))
  <1>9. /\ a # <<>> /\ a \in Seq(Entries)
        /\ Len(a) = Len(x) + 1 /\ a[Len(x) + 1] = e /\ Len(x) \in Nat
        /\ \A i \in 1..Len(x) : a[i] = x[i]
    BY <1>2, <1>7, PushEntries, PushedParts
  <1>10. /\ n \in Seq(Entries) /\ Len(n) = Len(x) + 1
         /\ n[Len(x) + 1] = Entry(f) /\ \A i \in 1..Len(x) : n[i] = x[i]
    BY <1>2, <1>8, PushEntries
  <1> HIDE DEF a, n
  <1>11. n = [a EXCEPT ![Len(a)].at = @ + 1]
    <2> DEFINE r == [a EXCEPT ![Len(a)] = Entry(f)]
    <2>1. r = [a EXCEPT ![Len(a)].at = @ + 1]
      BY <1>8, <1>9
    <2>2. /\ r \in Seq(Entries) /\ Len(r) = Len(a) /\ r[Len(a)] = Entry(f)
          /\ \A i \in 1..(Len(a) - 1) : r[i] = a[i]
      BY <1>8, <1>9, ReplaceTop
    <2> HIDE DEF r
    <2>3. ASSUME NEW i \in 1..Len(r) PROVE r[i] = n[i]
      <3>1. i \in 1..Len(x) \/ i = Len(x) + 1
        BY <1>9, <2>2
      <3>2. Len(a) - 1 = Len(x)
        BY <1>9
      <3>3. QED
        BY <1>9, <1>10, <2>2, <3>1, <3>2
    <2>4. r = n
      BY <1>9, <1>10, <2>2, <2>3, SeqEqual
    <2>5. QED
      BY <2>1, <2>4
  <1>12. Stack!FallThrough(a, n)
    <2>1. e.at < LastBlock /\ e.at \notin Gobacks
          /\ (e.kind = "range" => e.at # e.thru)
      BY <1>1, <1>7 DEF HasNext, AtThrough
    <2>2. QED
      BY <1>9, <1>11, <2>1 DEF Stack!FallThrough, Stack!Top
  <1>13. QED
    BY <1>6, <1>12, StackStep DEF a, n

(* The steps that add a range or a program.                                *)
LEMMA PushRefines ==
    ASSUME TypeOK, Good(frames), Anchored(frames), Held,
           Execute \/ Perform \/ PerformTransfer \/ Sort \/ SortReleased
    PROVE  Stack!Next
  <1>0. /\ signal.kind = "none" /\ signal' = signal
        /\ frames \in Seq(Frame)
        /\ frames = <<>> => Execute
    <2>1. signal = NoSignal \/ (Execute /\ frames = <<>>)
      BY DEF Execute, Perform, PerformTransfer, Sort, SortReleased,
             InStatements, Running
    <2>2. QED
      BY <2>1 DEF Execute, Perform, PerformTransfer, Sort, SortReleased,
             InStatements, Running, NoSignal, TypeOK, Held
  <1>1. Landing = Ranges /\ Landing' = RangesOf(frames')
    BY <1>0, LandingIs, LandingNext
  <1>2. frames # <<>> => Ranges # <<>>
    BY RangesRun
  <1>p. ASSUME NEW r \in Performable, frames # <<>>,
               RangesOf(frames') = Append(Ranges, Stack!Range(r, r[1]))
        PROVE  Stack!Next
    <2>1. Stack!Perform(Ranges, RangesOf(frames'))
      BY <1>2, <1>p DEF Stack!Perform
    <2>2. QED
      BY <1>1, <2>1, StackStep
  <1>3. CASE Execute
    <2>1. frames' = Append(frames, Body)
      BY <1>3 DEF Execute, Push
    <2>2. RangesOf(frames') = Append(Ranges, Stack!Body(1))
      BY <1>0, <2>1, RangesPush DEF Ranges
    <2>3. CASE frames = <<>>
      <3>1. Ranges = <<>>
        BY <2>3, RangesOfNone DEF Ranges
      <3>2. Append(Ranges, Stack!Body(1)) = <<Stack!Body(1)>>
        BY <3>1
      <3>3. Stack!Enter(Ranges, RangesOf(frames'))
        BY <2>2, <3>1, <3>2 DEF Stack!Enter
      <3>4. QED
        BY <1>1, <3>3, StackStep
    <2>4. CASE frames # <<>>
      <3>1. Stack!Call(Ranges, RangesOf(frames'))
        BY <1>2, <2>2, <2>4 DEF Stack!Call
      <3>2. QED
        BY <1>1, <3>1, StackStep
    <2>5. QED
      BY <2>3, <2>4
  <1>4. CASE Perform
    <2>1. PICK r \in Performable : frames' = Append(frames, RangeCall(r))
      BY <1>4 DEF Perform, Push
    <2>2. RangesOf(frames') = Append(Ranges, Stack!Range(r, r[1]))
      BY <1>0, <2>1, RangesPush DEF Ranges
    <2>3. frames # <<>>
      BY <1>4 DEF Perform, InStatements, Running
    <2>4. QED
      BY <1>p, <2>2, <2>3
  <1>5. CASE PerformTransfer
    <2> DEFINE f == [Top EXCEPT !.step = "end"]
               w == WithTop(f)
    <2>1. frames # <<>>
      BY <1>5 DEF PerformTransfer, Running
    <2>2. PICK r \in Performable : frames' = Append(w, RangeCall(r))
      BY <1>5 DEF PerformTransfer
    <2>3. /\ Under \in Seq(Frame) /\ Top \in Frame
          /\ frames = Append(Under, Top) /\ w = Append(Under, f)
      BY <2>1, TopParts
    <2>4. /\ f \in Frame /\ f.kind = Top.kind /\ f.from = Top.from
          /\ f.thru = Top.thru /\ f.at = Top.at
      <3>1. 0 \in Nat /\ "end" \in {"entry", "ops", "end"}
        OBVIOUS
      <3>2. QED
        BY <2>3, <3>1, FrameParts
    <2> HIDE DEF f
    <2>5. RangesOf(w) = Ranges /\ w \in Seq(Frame)
      BY <2>3, <2>4, SameRanges DEF Ranges
    <2> HIDE DEF w
    <2>6. RangesOf(frames') = Append(Ranges, Stack!Range(r, r[1]))
      BY <2>2, <2>5, RangesPush
    <2>7. QED
      BY <1>p, <2>1, <2>6
  <1>6. CASE Sort
    <2>1. PICK r \in Performable, phase \in SortCalls :
             frames' = frames \o <<Waiting(phase, Len(sorts)), RangeCall(r)>>
      BY <1>6 DEF Sort
    <2> DEFINE f == Waiting(phase, Len(sorts))
               w == Append(frames, f)
    <2>2. Len(sorts) \in Nat /\ phase \in Declaratives \cup SortCalls
      BY DEF TypeOK
    <2>3. w \in Seq(Frame) /\ RangesOf(w) = Ranges /\ f \in Frame
      BY <1>0, <2>2, RangesPush, GoodWaiting DEF Ranges, GoodFrame
    <2> HIDE DEF f
    <2>4. frames' = Append(w, RangeCall(r))
      BY <1>0, <2>1, <2>3, RangeIsLoop DEF f
    <2> HIDE DEF w
    <2>5. RangesOf(frames') = Append(Ranges, Stack!Range(r, r[1]))
      BY <2>3, <2>4, RangesPush
    <2>6. frames # <<>>
      BY <1>6 DEF Sort, InStatements, Running
    <2>7. QED
      BY <1>p, <2>5, <2>6
  <1>7. CASE SortReleased
    <2> DEFINE f == Waiting("output", Top.at)
               w == Append(Under, f)
    <2>1. frames # <<>> /\ Top.kind = "input"
      BY <1>7 DEF SortReleased, Running
    <2>2. /\ Under \in Seq(Frame) /\ Top \in Frame /\ WithTop(f) = w
          /\ Ranges = RangesOf(Under)
      BY <2>1, TopParts DEF Grown, Loops
    <2>3. PICK r \in Performable : frames' = Append(w, RangeCall(r))
      BY <1>7, <2>2 DEF SortReleased
    <2>4. Top.at \in Nat /\ "output" \in Declaratives \cup SortCalls
      BY <2>2 DEF Frame, SortCalls
    <2>5. w \in Seq(Frame) /\ RangesOf(w) = Ranges
      BY <2>2, <2>4, RangesPush
    <2> HIDE DEF w
    <2>6. RangesOf(frames') = Append(Ranges, Stack!Range(r, r[1]))
      BY <2>3, <2>5, RangesPush
    <2>7. QED
      BY <1>p, <2>1, <2>6
  <1>8. QED
    BY <1>3, <1>4, <1>5, <1>6, <1>7

-----------------------------------------------------------------------------
(* A stack with another last entry is its lower part with that entry.      *)
LEMMA LastCall ==
    ASSUME NEW s \in Seq(Frame), s # <<>>, NEW f \in Frame
    PROVE  [s EXCEPT ![Len(s)] = f] = Append(SubSeq(s, 1, Len(s) - 1), f)
  <1> DEFINE u == SubSeq(s, 1, Len(s) - 1)
             a == Append(u, f)
             t == [s EXCEPT ![Len(s)] = f]
  <1>1. /\ Len(s) \in Nat \ {0} /\ u \in Seq(Frame) /\ Len(u) = Len(s) - 1
        /\ \A i \in 1..(Len(s) - 1) : u[i] = s[i]
    BY PopEntries
  <1>2. /\ t \in Seq(Frame) /\ Len(t) = Len(s) /\ t[Len(s)] = f
        /\ \A i \in 1..(Len(s) - 1) : t[i] = s[i]
    BY ReplaceTop
  <1> HIDE DEF u, t
  <1>3. /\ a \in Seq(Frame) /\ Len(a) = Len(u) + 1 /\ a[Len(u) + 1] = f
        /\ \A i \in 1..Len(u) : a[i] = u[i]
    BY <1>1, PushEntries
  <1> HIDE DEF a
  <1>4. Len(a) = Len(s) /\ a[Len(s)] = f
        /\ \A i \in 1..(Len(s) - 1) : a[i] = s[i]
    BY <1>1, <1>3
  <1>5. ASSUME NEW i \in 1..Len(t) PROVE t[i] = a[i]
    <2>1. i \in 1..(Len(s) - 1) \/ i = Len(s)
      BY <1>1, <1>2
    <2>2. QED
      BY <1>2, <1>4, <2>1
  <1>6. t = a
    BY <1>2, <1>3, <1>4, <1>5, SeqEqual
  <1>7. QED
    BY <1>6 DEF t, a, u

(* The step of the last call is not seen in the ranges.                    *)
LEMMA LastStep ==
    ASSUME NEW s \in Seq(Frame), s # <<>>, NEW step \in {"entry", "ops", "end"}
    PROVE  RangesOf([s EXCEPT ![Len(s)].step = step]) = RangesOf(s)
  <1> DEFINE u == SubSeq(s, 1, Len(s) - 1)
             l == s[Len(s)]
             f == [l EXCEPT !.step = step]
  <1>1. u \in Seq(Frame) /\ l \in Frame
    <2>1. Len(s) \in 1..Len(s)
      BY EmptySeq
    <2>2. QED
      BY <2>1, PopEntries
  <1>2. [s EXCEPT ![Len(s)].step = step] = [s EXCEPT ![Len(s)] = f]
    OBVIOUS
  <1>3. s = [s EXCEPT ![Len(s)] = l]
    OBVIOUS
  <1> HIDE DEF l
  <1>4. /\ f \in Frame /\ f.kind = l.kind /\ f.from = l.from
        /\ f.thru = l.thru /\ f.at = l.at
    BY <1>1 DEF Frame
  <1> HIDE DEF f
  <1>5. /\ [s EXCEPT ![Len(s)] = f] = Append(u, f)
        /\ [s EXCEPT ![Len(s)] = l] = Append(u, l)
    BY <1>1, <1>4, LastCall
  <1> HIDE DEF u
  <1>6. RangesOf(Append(u, f)) = RangesOf(Append(u, l))
    BY <1>1, <1>4, SameRanges
  <1>7. QED
    BY <1>2, <1>3, <1>5, <1>6

(* The steps that leave the ranges as they are.                            *)
LEMMA OthersStay ==
    ASSUME TypeOK, Good(frames), Anchored(frames),
           EnterBlock \/ FileError \/ Alter \/ EndDeclarative \/ EndSort
    PROVE  Landing' = Landing
  <1>1. /\ frames # <<>> /\ signal.kind = "none" /\ signal' = signal
    BY DEF EnterBlock, FileError, Alter, EndDeclarative, EndSort,
           InStatements, Running, NoSignal
  <1>2. Landing = Ranges /\ Landing' = RangesOf(frames')
    BY <1>1, LandingIs, LandingNext
  <1>3. /\ frames \in Seq(Frame) /\ Top \in Frame /\ Under \in Seq(Frame)
        /\ Top = frames[Len(frames)] /\ frames = Append(Under, Top)
        /\ Top.kind \notin Loops => Ranges = RangesOf(Under)
        /\ Top.kind # "body" => Under # <<>>
    BY <1>1, TopParts DEF Grown
  <1>4. CASE EnterBlock
    <2>1. CASE frames' = Append(frames, Waiting("debug", Top.at))
      <3>1. Top.at \in Nat /\ "debug" \in Declaratives \cup SortCalls
        BY <1>3 DEF Frame, Declaratives
      <3>2. RangesOf(frames') = Ranges
        BY <1>3, <2>1, <3>1, RangesPush DEF Ranges
      <3>3. QED
        BY <1>2, <3>2
    <2>2. CASE frames' = WithTop([Top EXCEPT !.step = "ops"])
      <3>1. frames' = [frames EXCEPT ![Len(frames)].step = "ops"]
        BY <2>2 DEF WithTop, Top
      <3>2. RangesOf(frames') = Ranges
        BY <1>1, <1>3, <3>1, LastStep DEF Ranges
      <3>3. QED
        BY <1>2, <3>2
    <2>3. QED
      BY <1>4, <2>1, <2>2 DEF EnterBlock, Push
  <1>5. CASE FileError
    <2>1. PICK f \in Files : frames' = Append(frames, Waiting("file", f))
      BY <1>5 DEF FileError, Push
    <2>2. f \in Nat /\ "file" \in Declaratives \cup SortCalls
      BY ControlAssumption DEF Files, Declaratives
    <2>3. RangesOf(frames') = Ranges
      BY <1>3, <2>1, <2>2, RangesPush DEF Ranges
    <2>4. QED
      BY <1>2, <2>3
  <1>6. CASE Alter
    BY <1>2, <1>6 DEF Alter, Ranges
  <1>7. CASE EndDeclarative
    <2>1. Top.kind \in Declaratives
          /\ \/ frames' = Under
             \/ frames' = [Under EXCEPT ![Len(Under)].step = "ops"]
      BY <1>7 DEF EndDeclarative
    <2>2. Ranges = RangesOf(Under) /\ Under # <<>>
      BY <1>3, <2>1 DEF Declaratives, Loops
    <2>3. RangesOf([Under EXCEPT ![Len(Under)].step = "ops"]) = RangesOf(Under)
      BY <1>3, <2>2, LastStep
    <2>4. QED
      BY <1>2, <2>1, <2>2, <2>3
  <1>8. CASE EndSort
    <2>1. Top.kind = "output" /\ frames' = Under
      BY <1>8 DEF EndSort, Running, Leave
    <2>2. Ranges = RangesOf(Under)
      BY <1>3, <2>1 DEF Loops
    <2>3. QED
      BY <1>2, <2>1, <2>2
  <1>9. QED
    BY <1>4, <1>5, <1>6, <1>7, <1>8

(* A signal is raised: that is where the stack lands.                      *)
LEMMA RaiseRefines ==
    ASSUME TypeOK, Good(frames), Anchored(frames),
           GoTo \/ AlteredGoTo \/ StopRun \/ Fail
    PROVE  Stack!Next
  <1>1. frames # <<>> /\ signal.kind = "none" /\ frames' = frames
    BY DEF GoTo, AlteredGoTo, StopRun, Fail, InStatements, Running, NoSignal,
           Raise
  <1>2. Landing = Ranges /\ RangesOf(frames') = Ranges /\ Ranges # <<>>
    BY <1>1, LandingIs, RangesRun DEF Ranges
  <1>g. ASSUME NEW t \in Blocks, signal' = GoingTo(t)
        PROVE  Stack!Next
    <2>1. signal'.kind = "goto" /\ signal'.to = t
      BY <1>g DEF GoingTo
    <2>2. Landing' = Shape!Land(Ranges, t)
      BY <1>2, <2>1, LandingNext
    <2>3. t \in Stack!Blocks /\ Shape!Land(Ranges, t) = Stack!Land(Ranges, t)
      BY DEF Blocks, Stack!Blocks, Shape!Land, Stack!Land, Shape!Keeps,
             Stack!Keeps, Shape!Between, Stack!Between
    <2>4. Stack!GoTo(Ranges, Shape!Land(Ranges, t))
      BY <1>2, <2>3 DEF Stack!GoTo
    <2>5. QED
      BY <1>2, <2>2, <2>4, StackStep
  <1>3. CASE GoTo
    <2>1. PICK t \in Blocks : signal' = GoingTo(Resolve(t))
      BY <1>3 DEF GoTo, Raise
    <2>2. Resolve(t) \in Blocks
      <3>1. CASE t \in AlterSlots /\ alter[t] # 0
        <4>1. alter[t] \in 0..LastBlock /\ alter[t] # 0
          BY <3>1 DEF TypeOK
        <4>2. alter[t] \in Blocks
          BY <4>1, ControlAssumption DEF Blocks
        <4>3. QED
          BY <3>1, <4>2 DEF Resolve
      <3>2. CASE ~(t \in AlterSlots /\ alter[t] # 0)
        BY <3>2 DEF Resolve
      <3>3. QED
        BY <3>1, <3>2
    <2>3. QED
      BY <1>g, <2>1, <2>2
  <1>4. CASE AlteredGoTo
    <2>1. /\ signal' = GoingTo(alter[Top.at])
          /\ Top.at \in AlterSlots /\ alter[Top.at] # 0
      BY <1>4 DEF AlteredGoTo, Raise
    <2>2. alter[Top.at] \in 0..LastBlock
      BY <2>1 DEF TypeOK
    <2>3. alter[Top.at] \in Blocks
      BY <2>1, <2>2, ControlAssumption DEF Blocks
    <2>4. QED
      BY <1>g, <2>1, <2>3
  <1>5. CASE StopRun
    <2>1. signal'.kind = "stop"
      BY <1>5 DEF StopRun, Raise, Stopping
    <2>2. Landing' = Shape!LeaveProgram(Ranges)
      BY <1>2, <2>1, LandingNext
    <2>3. Stack!Stop(Ranges, Shape!LeaveProgram(Ranges))
      BY <1>2 DEF Stack!Stop, Stack!LeaveProgram, Shape!LeaveProgram
    <2>4. QED
      BY <1>2, <2>2, <2>3, StackStep
  <1>6. CASE Fail
    <2>1. signal'.kind = "error"
      BY <1>6 DEF Fail, Raise, Failing
    <2>2. Landing' = <<>> /\ Stack!Abort(Ranges, <<>>)
      BY <1>2, <2>1, LandingNext DEF Stack!Abort
    <2>3. QED
      BY <1>2, <2>2, StackStep
  <1>7. QED
    BY <1>3, <1>4, <1>5, <1>6

(* The loop that catches a GO TO: the stack was landing there already.     *)
LEMMA CatchStays ==
    ASSUME TypeOK, Good(frames), Anchored(frames), CatchGoTo
    PROVE  Landing' = Landing
  <1> DEFINE t == signal.to
             x == RangesOf(Under)
             e == Entry(Top)
             f == [Top EXCEPT !.at = t, !.step = "entry"]
  <1>1. /\ frames # <<>> /\ signal.kind = "goto" /\ Catches(Top, t)
        /\ frames' = WithTop(f) /\ signal'.kind = "none" /\ t \in Nat
    BY DEF CatchGoTo, RunBlock, NoSignal, TypeOK
  <1>2. Top.kind \in Loops
    BY <1>1 DEF Catches, Loops
  <1>3. /\ Top \in Frame /\ x \in Seq(Entries) /\ Under \in Seq(Frame)
        /\ Ranges = Append(x, e) /\ WithTop(f) = Append(Under, f)
    BY <1>1, <1>2, TopParts DEF Grown
  <1>4. e \in Entries /\ Shape!Keeps(e, t)
    BY <1>1, <1>2, <1>3, EntryType, KeepsIsCatches
  <1>5. f \in Frame /\ f.kind = Top.kind /\ Entry(f) = [e EXCEPT !.at = t]
    BY <1>1, <1>3, FrameParts
  <1> HIDE DEF f, t
  <1>6. RangesOf(frames') = Append(x, [e EXCEPT !.at = t])
    BY <1>1, <1>2, <1>3, <1>5, RangesGrow DEF Grown
  <1> HIDE DEF x, e
  <1>7. Landing = Shape!Land(Append(x, e), t)
    BY <1>1, <1>3, LandingIs DEF t
  <1>8. Shape!Land(Append(x, e), t) = Append(x, [e EXCEPT !.at = t])
    BY <1>3, <1>4, LandOnTop
  <1>9. Landing' = RangesOf(frames')
    BY <1>1, LandingNext
  <1>10. QED
    BY <1>6, <1>7, <1>8, <1>9

(* A call that hands a signal on: the stack lands where it would have.     *)
LEMMA PassOnStays ==
    ASSUME TypeOK, Good(frames), Anchored(frames), PassOn
    PROVE  Landing' = Landing
  <1> DEFINE t == signal.to
             x == RangesOf(Under)
             e == Entry(Top)
  <1>1. /\ frames # <<>> /\ frames' = Under
        /\ signal' = IF Consumed THEN NoSignal ELSE signal
        /\ \/ signal.kind \in {"stop", "error"}
           \/ signal.kind = "goto" /\ ~Catches(Top, t)
    BY DEF PassOn, Leave
  <1>2. /\ Top \in Frame /\ x \in Seq(Entries)
        /\ Ranges = IF Top.kind \in Loops THEN Append(x, e) ELSE x
        /\ Top.kind # "body" => \E i \in 1..Len(x) : x[i].kind = "body"
        /\ Top.kind \in Loops => e \in Entries
        /\ e.kind = Top.kind /\ t \in Nat
        /\ Len(Under) = Len(frames) - 1 /\ Len(frames) \in Nat \ {0}
        /\ Under \in Seq(Frame)
    BY <1>1, TopParts, EntryType DEF Grown, TypeOK
  <1>3. CASE signal.kind = "goto"
    <2>1. ~Catches(Top, t) /\ Top.kind # "body"
      BY <1>1, <1>3 DEF Catches
    <2>2. signal' = signal
      BY <1>1, <1>3 DEF Consumed
    <2>3. Top.kind \in Loops => ~Shape!Keeps(e, t)
      BY <1>2, <2>1, KeepsIsCatches
    <2>4. \E i \in 1..Len(x) : Shape!Keeps(x[i], t)
      BY <1>2, <2>1 DEF Shape!Keeps
    <2>5. Landing = Shape!Land(Ranges, t) /\ Landing' = Shape!Land(x, t)
      <3>1. signal'.kind = "goto" /\ signal'.to = t
        BY <1>3, <2>2
      <3>2. Landing' = Shape!Land(RangesOf(frames'), t)
        BY <3>1, LandingNext
      <3>3. Landing = Shape!Land(Ranges, t)
        BY <1>3, LandingIs
      <3>4. QED
        BY <1>1, <3>2, <3>3
    <2> HIDE DEF t, x, e
    <2>6. Shape!Land(Ranges, t) = Shape!Land(x, t)
      <3>1. CASE Top.kind \in Loops
        <4>1. Shape!Land(Append(x, e), t) = Shape!Land(x, t)
          BY <1>2, <2>3, <2>4, <3>1, LandBelow
        <4>2. QED
          BY <1>2, <3>1, <4>1
      <3>2. CASE Top.kind \notin Loops
        BY <1>2, <3>2
      <3>3. QED
        BY <3>1, <3>2
    <2>7. QED
      BY <2>5, <2>6
  <1>4. CASE signal.kind = "stop" /\ Top.kind = "body"
    <2>1. signal'.kind = "none"
      BY <1>1, <1>4 DEF Consumed, NoSignal
    <2>2. Landing = Shape!LeaveProgram(Ranges) /\ Landing' = RangesOf(frames')
      BY <1>4, <2>1, LandingIs, LandingNext
    <2>3. RangesOf(frames') = x
      BY <1>1
    <2>4. Ranges = Append(x, e) /\ e \in Entries /\ e.kind = "body"
      BY <1>2, <1>4 DEF Loops
    <2> HIDE DEF x, e
    <2>5. Shape!LeaveProgram(Append(x, e)) = x
      BY <1>2, <2>4, LeaveOnTop
    <2>6. QED
      BY <2>2, <2>3, <2>4, <2>5
  <1>5. CASE signal.kind = "stop" /\ Top.kind # "body"
    <2>1. signal' = signal
      BY <1>1, <1>5 DEF Consumed
    <2>2. /\ Landing = Shape!LeaveProgram(Ranges)
          /\ Landing' = Shape!LeaveProgram(RangesOf(frames'))
      BY <1>5, <2>1, LandingIs, LandingNext
    <2>3. RangesOf(frames') = x
      BY <1>1
    <2> HIDE DEF x, e
    <2>4. Shape!LeaveProgram(Ranges) = Shape!LeaveProgram(x)
      <3>1. CASE Top.kind \in Loops
        <4>1. Shape!LeaveProgram(Append(x, e)) = Shape!LeaveProgram(x)
          BY <1>2, <1>5, <3>1, LeaveBelow
        <4>2. QED
          BY <1>2, <3>1, <4>1
      <3>2. CASE Top.kind \notin Loops
        BY <1>2, <3>2
      <3>3. QED
        BY <3>1, <3>2
    <2>5. QED
      BY <2>2, <2>3, <2>4
  <1>6. CASE signal.kind = "error"
    <2>1. Landing = <<>>
      BY <1>6, LandingIs
    <2>2. CASE Len(frames) = 1
      <3>1. signal'.kind = "none"
        BY <1>1, <1>6, <2>2 DEF Consumed, NoSignal
      <3>2. Under = <<>>
        BY <1>2, <2>2, EmptySeq
      <3>3. RangesOf(frames') = <<>>
        BY <1>1, <3>2, RangesOfNone
      <3>4. QED
        BY <2>1, <3>1, <3>3, LandingNext
    <2>3. CASE Len(frames) # 1
      <3>1. signal'.kind = "error"
        BY <1>1, <1>6, <2>3 DEF Consumed
      <3>2. QED
        BY <2>1, <3>1, LandingNext
    <2>4. QED
      BY <2>2, <2>3
  <1>7. QED
    BY <1>1, <1>3, <1>4, <1>5, <1>6

(* A signal never outlives the last call.                                  *)
LEMMA HeldSteps ==
    ASSUME TypeOK, Good(frames), Anchored(frames), Held, Next
    PROVE  Held'
  <1>1. CASE \/ EnterBlock \/ Perform \/ PerformTransfer \/ FileError
             \/ Sort \/ SortReleased \/ Alter
             \/ FallThrough \/ Return \/ EndDeclarative \/ EndSort
    <2>1. signal' = NoSignal
      BY <1>1 DEF EnterBlock, Perform, PerformTransfer, FileError, Sort,
         SortReleased, Alter, FallThrough, Return, EndDeclarative, EndSort,
         AtBlockEnd, InStatements, Running
    <2>2. QED
      BY <2>1 DEF Held, NoSignal
  <1>2. CASE GoTo \/ AlteredGoTo \/ StopRun \/ Fail
    BY <1>2 DEF GoTo, AlteredGoTo, StopRun, Fail, InStatements, Running,
       Raise, Held
  <1>3. CASE CatchGoTo
    BY <1>3 DEF CatchGoTo, NoSignal, Held
  <1>4. CASE Execute
    <2>1. frames' = Append(frames, Body) /\ frames \in Seq(Frame)
      BY <1>4 DEF Execute, Push, TypeOK
    <2>2. frames' # <<>>
      BY <2>1, BodyIsLoop, PushedParts
    <2>3. QED
      BY <2>2 DEF Held
  <1>5. CASE PassOn
    <2>1. /\ frames # <<>> /\ frames' = Under
          /\ signal' = IF Consumed THEN NoSignal ELSE signal
          /\ \/ signal.kind \in {"stop", "error"}
             \/ signal.kind = "goto" /\ ~Catches(Top, signal.to)
      BY <1>5 DEF PassOn, Leave
    <2>2. CASE Consumed
      BY <2>1, <2>2 DEF Held, NoSignal
    <2>3. CASE ~Consumed
      <3>1. /\ Top.kind # "body" => Under # <<>>
            /\ Len(Under) = Len(frames) - 1 /\ Len(frames) \in Nat \ {0}
        BY <2>1, TopParts
      <3>2. signal.kind # "error" => Top.kind # "body"
        BY <2>1, <2>3 DEF Consumed, Catches
      <3>3. signal.kind = "error" => Under # <<>>
        <4>1. Len(<<>>) = 0
          OBVIOUS
        <4>2. signal.kind = "error" => Len(Under) # 0
          BY <2>3, <3>1 DEF Consumed
        <4>3. QED
          BY <4>1, <4>2
      <3>4. QED
        BY <2>1, <3>1, <3>2, <3>3 DEF Held
    <2>4. QED
      BY <2>2, <2>3
  <1>6. QED
    BY <1>1, <1>2, <1>3, <1>4, <1>5 DEF Next

(* The VM's calls, seen as a stack of ranges and programs, do what         *)
(* PerformStack promises: a GO TO ends, in one step, in the innermost      *)
(* active range that holds its target, a STOP RUN with the program it is   *)
(* in, and an error with none, however the signal is handed from call to   *)
(* call (execute_procedure_body, execute_perform_range).                   *)
THEOREM PerformStackRefines == Spec => ImplementsPerformStack
  <1> DEFINE All == Inv /\ Anchored(frames) /\ Held
  <1>1. Init => All
    <2>1. Init => Anchored(frames) /\ Held
      BY DEF Init, Anchored, Held, NoSignal
    <2>2. QED
      BY <2>1, InitInv
  <1>2. All => TypeOK /\ Good(frames) /\ Anchored(frames) /\ Held
    BY RecordsAreRight DEF Inv
  <1>3. All /\ [Next]_vars => All'
    <2> SUFFICES ASSUME All, [Next]_vars PROVE All'
      OBVIOUS
    <2>1. CASE Next
      <3>1. Anchored(frames') /\ Held'
        BY <1>2, <2>1, AnchoredSteps, HeldSteps
      <3>2. Inv'
        BY <2>1, InvSteps
      <3>3. QED
        BY <3>1, <3>2
    <2>2. CASE UNCHANGED vars
      <3>1. Anchored(frames)' /\ Held'
        BY <2>2 DEF vars, Held, Anchored
      <3>2. Inv'
        BY <2>2, InvSteps
      <3>3. QED
        BY <3>1, <3>2
    <2>3. QED
      BY <2>1, <2>2
  <1>4. Init => Stack!Init
    <2>1. Init => signal.kind = "none" /\ frames = <<>>
      BY DEF Init, NoSignal
    <2>2. Init => Landing = <<>>
      BY <2>1, LandingIs, RangesOfNone DEF Ranges
    <2>3. QED
      BY <2>2 DEF Stack!Init
  <1>5. All /\ [Next]_vars => [Stack!Next]_Landing
    <2> SUFFICES ASSUME All, [Next]_vars PROVE [Stack!Next]_Landing
      OBVIOUS
    <2>1. TypeOK /\ Good(frames) /\ Anchored(frames) /\ Held
      BY <1>2
    <2>2. CASE UNCHANGED vars
      BY <2>2 DEF vars, Landing, Ranges
    <2>3. CASE Execute \/ Perform \/ PerformTransfer \/ Sort \/ SortReleased
      BY <2>1, <2>3, PushRefines
    <2>4. CASE GoTo \/ AlteredGoTo \/ StopRun \/ Fail
      BY <2>1, <2>4, RaiseRefines
    <2>5. CASE FallThrough
      BY <2>1, <2>5, FallThroughRefines
    <2>6. CASE Return
      BY <2>1, <2>6, ReturnRefines
    <2>7. CASE EnterBlock \/ FileError \/ Alter \/ EndDeclarative \/ EndSort
      BY <2>1, <2>7, OthersStay
    <2>8. CASE CatchGoTo
      BY <2>1, <2>8, CatchStays
    <2>9. CASE PassOn
      BY <2>1, <2>9, PassOnStays
    <2>10. QED
      BY <2>2, <2>3, <2>4, <2>5, <2>6, <2>7, <2>8, <2>9 DEF Next
  <1> HIDE DEF All
  <1>6. QED
    BY <1>1, <1>3, <1>4, <1>5, PTL DEF Spec, ImplementsPerformStack, Stack!Spec
=============================================================================
