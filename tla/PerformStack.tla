---------------------------- MODULE PerformStack ----------------------------
(***************************************************************************)
(* What PERFORM, GO TO, CALL and STOP RUN promise, without the way the VM  *)
(* passes signals through its own call stack: a stack of active ranges and *)
(* called programs.  A GO TO abandons, in one step, every range the target *)
(* lies outside of, and never leaves the called program it is in.          *)
(***************************************************************************)
EXTENDS Naturals, Sequences

CONSTANTS
    LastBlock,  \* the blocks (paragraphs) of a program are 1..LastBlock
    Gobacks,    \* those that end with a GOBACK
    Performable \* the pairs <<first, last>> that are PERFORMed

VARIABLE active \* the stack; `at` is the block an entry is running

Blocks == 1..LastBlock

Body(at) == [kind |-> "body", from |-> 0, thru |-> 0, at |-> at]
Range(r, at) == [kind |-> "range", from |-> r[1], thru |-> r[2], at |-> at]

(* A target between the two ends of a PERFORM is inside of it, whichever   *)
(* of the ends comes first in the program text.                            *)
Between(e, t) == \/ e.from <= t /\ t <= e.thru
                 \/ e.thru <= t /\ t <= e.from

Keeps(e, t) == e.kind = "body" \/ Between(e, t)

(* The stack after a GO TO t: the innermost entry that keeps t runs t.     *)
Land(s, t) ==
    LET k == CHOOSE i \in DOMAIN s :
                /\ Keeps(s[i], t)
                /\ \A j \in (i + 1)..Len(s) : ~Keeps(s[j], t)
    IN  Append(SubSeq(s, 1, k - 1), [s[k] EXCEPT !.at = t])

(* The stack after the innermost called program has ended.                 *)
LeaveProgram(s) ==
    LET k == CHOOSE i \in DOMAIN s :
                /\ s[i].kind = "body"
                /\ \A j \in (i + 1)..Len(s) : s[j].kind # "body"
    IN  SubSeq(s, 1, k - 1)

-----------------------------------------------------------------------------
(* The steps, as relations between a stack and the next one.               *)
Top(s) == s[Len(s)]

Enter(s, next) == s = <<>> /\ next = <<Body(1)>>
Call(s, next) == s # <<>> /\ next = Append(s, Body(1))
Perform(s, next) ==
    s # <<>> /\ \E r \in Performable : next = Append(s, Range(r, r[1]))

(* Falling into the next block, which a range does not do at its last.     *)
FallThrough(s, next) ==
    /\ s # <<>> /\ Top(s).at < LastBlock /\ Top(s).at \notin Gobacks
    /\ Top(s).kind = "range" => Top(s).at # Top(s).thru
    /\ next = [s EXCEPT ![Len(s)].at = @ + 1]

(* A range is over at its last block, a program at the end of its text; a  *)
(* range written backwards may run off the text as well.  A GOBACK is the  *)
(* end of whichever of them runs its block.                                *)
Return(s, next) ==
    /\ s # <<>>
    /\ \/ Top(s).at \in Gobacks
       \/ Top(s).kind = "range" /\ Top(s).at = Top(s).thru
       \/ /\ Top(s).at = LastBlock
          /\ Top(s).kind = "range" => Top(s).thru < Top(s).from
    /\ next = SubSeq(s, 1, Len(s) - 1)

GoTo(s, next) == s # <<>> /\ \E t \in Blocks : next = Land(s, t)
Stop(s, next) == s # <<>> /\ next = LeaveProgram(s)
Abort(s, next) == s # <<>> /\ next = <<>>

-----------------------------------------------------------------------------
Init == active = <<>>

Next == \E s \in {active}, next \in {active'} :
            \/ Enter(s, next) \/ Call(s, next) \/ Perform(s, next)
            \/ FallThrough(s, next) \/ Return(s, next)
            \/ GoTo(s, next) \/ Stop(s, next) \/ Abort(s, next)

Spec == Init /\ [][Next]_active
=============================================================================
