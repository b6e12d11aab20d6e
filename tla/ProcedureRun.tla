---------------------------- MODULE ProcedureRun ----------------------------
(***************************************************************************)
(* A PROCEDURE DIVISION compiled and run: the semantic analysis refuses    *)
(* its text or passes it with warnings, the code generator turns it into   *)
(* blocks, and the VM runs them.  PerformControl leaves the program open   *)
(* and follows the signals; here the text is fixed and a GO TO is the one  *)
(* step PerformControl shows it to be (PerformStack, Land), so that what   *)
(* the analysis says of a text can be compared with what its run does.     *)
(***************************************************************************)
EXTENDS ProcedureText

CONSTANTS
    Names,    \* names of paragraphs, and names that no paragraph has
    Texts,    \* the texts that may be compiled
    MaxDepth  \* bound: how deep PERFORMs nest in a run

ASSUME TextsAssumption ==
    /\ MaxDepth \in Nat
    /\ \A t \in Texts : t \in Seq(Paragraph(Names)) /\ t # <<>>

VARIABLES
    text,   \* the paragraphs
    phase,  \* how far the program has come
    warned, \* the paragraphs of the W_UNREACHABLE_PARAGRAPH warnings
    stack,  \* the procedure and its PERFORMs in progress, innermost last
    alter   \* alter_table: a function on the paragraphs altered so far

vars == <<text, phase, warned, stack, alter>>

(* A frame: `at` is the block, `pc` its next statement.                    *)
Frame == [kind : {"body", "range"}, from : Nat, thru : Nat, at : Nat, pc : Nat]

Body == [kind |-> "body", from |-> 0, thru |-> 0, at |-> 1, pc |-> 1]
Performing(i, j) ==
    [kind |-> "range", from |-> i, thru |-> j, at |-> i, pc |-> 1]

Phases == {"source", "rejected", "running", "ended", "failed"}

TypeOK ==
    /\ text \in Texts /\ phase \in Phases
    /\ warned \subseteq DOMAIN text
    /\ stack \in Seq(Frame)
    /\ \A k \in 1..Len(stack) : stack[k].at \in DOMAIN text
    /\ phase = "running" <=> stack # <<>>

Init ==
    /\ text \in Texts
    /\ phase = "source" /\ warned = {} /\ stack = <<>> /\ alter = <<>>

(* convert: an error stops before code is generated, a warning does not.   *)
Compile ==
    /\ phase = "source"
    /\ IF Accepted(text)
       THEN /\ phase' = "running"
            /\ warned' = Unreachable(text)
            /\ stack' = <<Body>>
       ELSE phase' = "rejected" /\ UNCHANGED <<warned, stack>>
    /\ UNCHANGED <<text, alter>>

-----------------------------------------------------------------------------
Depth == Len(stack)
Top == stack[Depth]
Statements == text[Top.at].body
Name == text[Top.at].name

(* The block's operations are done when the statement that became its      *)
(* transfer is reached, or there are no more.                              *)
InOps == /\ phase = "running"
         /\ Top.pc \in DOMAIN Statements /\ IsOp(Statements, Top.pc)
AtTransfer == /\ phase = "running"
              /\ ~(Top.pc \in DOMAIN Statements /\ IsOp(Statements, Top.pc))

Current == IF InOps THEN Statements[Top.pc] ELSE Transfer(Statements)

(* The innermost frame goes on with its next statement, or with block i.   *)
Onwards(s) == [s EXCEPT ![Len(s)].pc = @ + 1]
AtBlock(s, i) == [s EXCEPT ![Len(s)] = [@ EXCEPT !.at = i, !.pc = 1]]

End(how) == phase' = how /\ stack' = <<>> /\ UNCHANGED <<text, warned, alter>>
Run(s) == stack' = s /\ UNCHANGED <<text, phase, warned, alter>>

(* A statement that moves no control, or one in a branch not taken.        *)
Pass ==
    /\ InOps
    /\ Current.op = "other" \/ Current.nested
    /\ Run(Onwards(stack))

(* execute_perform_range on the blocks of these names.  The iterations of  *)
(* a PERFORM TIMES or UNTIL are PERFORMs that follow one another.          *)
Perform ==
    /\ InOps /\ Current.op = "perform" /\ Depth < MaxDepth
    /\ LET i == Find(text, Current.to[1])
           j == Find(text, Current.to[Len(Current.to)])
       IN  IF i = 0 THEN End("failed")
           ELSE Run(Append(Onwards(stack), Performing(i, j)))

(* DynamicPerform: the data item may hold any name, or any other text.     *)
DynamicPerform ==
    /\ InOps /\ Current.op = "dynamic" /\ Depth < MaxDepth
    /\ \/ \E i \in DOMAIN text :
            LET first == Find(text, text[i].name)
            IN  Run(Append(Onwards(stack), Performing(first, first)))
       \/ End("failed")

Alter ==
    /\ InOps /\ Current.op = "alter"
    /\ alter' = [n \in DOMAIN alter \cup {Current.to[1]} |->
                   IF n = Current.to[1] THEN Current.to[2] ELSE alter[n]]
    /\ stack' = Onwards(stack)
    /\ UNCHANGED <<text, phase, warned>>

-----------------------------------------------------------------------------
(* A GO TO ends in the innermost frame that keeps its target.              *)
Calls == INSTANCE PerformStack WITH
    LastBlock <- 0, Performable <- {}, Gobacks <- {}, active <- stack

Resolve(name) == IF name \in DOMAIN alter THEN alter[name] ELSE name

GoToName(name) ==
    LET i == Find(text, Resolve(name))
    IN  IF i = 0 THEN End("failed")
        ELSE Run(AtBlock(Calls!Land(stack, i), i))

(* GO TO and GO TO DEPENDING ON, nested ones and transfers.                *)
GoTo ==
    /\ phase = "running"
    /\ Current.op \in {"goto", "depending"}
    /\ \E k \in DOMAIN Current.to : GoToName(Current.to[k])

(* DEPENDING ON a number that selects no target.                           *)
GoToNowhere ==
    InOps /\ Current.op = "depending" /\ Run(Onwards(stack))

(* A nested `GO TO .` is compiled to a GO TO a paragraph of that name.     *)
GoToDot ==
    InOps /\ Current.op = "goto" /\ Current.to = <<>> /\ End("failed")

(* The transfer of an altered paragraph.                                   *)
AlteredGoTo ==
    /\ AtTransfer /\ Current.op = "goto" /\ Current.to = <<>>
    /\ Name \in DOMAIN alter
    /\ LET i == Find(text, alter[Name])
       IN  IF i = 0 THEN End("failed")
           ELSE Run(AtBlock(Calls!Land(stack, i), i))

(* STOP RUN, and a GOBACK that is nested.                                  *)
StopRun ==
    /\ \/ phase = "running" /\ Current.op = "stop"
       \/ InOps /\ Current.op = "goback"
    /\ End("ended")

-----------------------------------------------------------------------------
(* The end of a block: its transfer is to the next block, or to none.      *)
Leaves == /\ AtTransfer
          /\ \/ Current.op \in {"other", "goback"}
             \/ /\ Current.op = "goto" /\ Current.to = <<>>
                /\ Name \notin DOMAIN alter

AtThrough == Top.kind = "range" /\ Top.at = Top.thru

HasNext == Top.at + 1 \in DOMAIN text /\ Current.op # "goback"

(* The next block is looked up by its name, as every other is.             *)
FallThrough ==
    /\ Leaves /\ ~AtThrough /\ HasNext
    /\ Run(AtBlock(stack, Find(text, text[Top.at + 1].name)))

Return ==
    /\ Leaves
    /\ AtThrough \/ ~HasNext
    /\ IF Depth = 1 THEN End("ended")
       ELSE Run(SubSeq(stack, 1, Depth - 1))

Next ==
    \/ Compile \/ Pass \/ Perform \/ DynamicPerform \/ Alter
    \/ GoTo \/ GoToNowhere \/ GoToDot \/ AlteredGoTo \/ StopRun
    \/ FallThrough \/ Return

Spec == Init /\ [][Next]_vars

-----------------------------------------------------------------------------
(* A paragraph the analysis warns "is not reachable from procedure entry"  *)
(* never runs, whatever the conditions and numbers of the program are.     *)
(* Three kinds of text may break it: a PERFORM of a data item, a second    *)
(* paragraph of the same name, and a `GO TO .` with a GO TO or STOP RUN    *)
(* after it, which the analysis sees and the code generator drops.         *)
(* (Texts have no DECLARATIVES here, whose PERFORMs the analysis does not  *)
(* look at.)                                                               *)
WarnedNeverRuns ==
    Analysed(text) => \A k \in 1..Len(stack) : stack[k].at \notin warned

(* A text that was accepted never sends the VM to a block that does not    *)
(* exist, except by a data item's value or by a nested `GO TO .`, which    *)
(* the analysis takes for the slot of an ALTER but the VM for a name.      *)
AcceptedRuns ==
    phase = "failed" => Has(text, IsDynamic) \/ Has(text, IsNestedSlot)

(* A PERFORM THRU that passed the check is left by a GO TO of its own      *)
(* paragraphs only if that GO TO is nested or its target has been altered: *)
(* the check looks at neither.                                             *)
ThruIsLeftUnseen ==
    [][/\ DistinctNames(text) /\ phase = "running" /\ phase' = "running"
       /\ Top.kind = "range" /\ Top.from < Top.thru
       /\ Current.op \in {"goto", "depending"}
       /\ Len(stack') < Len(stack)
       => \/ Current.nested
          \/ \E k \in DOMAIN Current.to : Current.to[k] \in DOMAIN alter]_vars
=============================================================================
