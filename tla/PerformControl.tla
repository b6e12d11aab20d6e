--------------------------- MODULE PerformControl ---------------------------
(***************************************************************************)
(* How the VM runs a PROCEDURE DIVISION: execute_procedure_body and        *)
(* execute_perform_range are loops over blocks that call each other        *)
(* through the statements of a block, and a GO TO, a STOP RUN or an error  *)
(* travels back through those calls as a return value (VmProcedureSignal   *)
(* or VmError).  On its way it has to undo what each call had set up: the  *)
(* entry of a SORT, the guard of a declarative, the activation of a CALL.  *)
(*                                                                         *)
(* `frames` is the stack of those Rust calls.  The program is left open: a *)
(* block may do anything the VM can be told to do, so the runs cover every *)
(* program over these blocks; the iterations of a PERFORM TIMES or UNTIL   *)
(* are PERFORMs that follow one another.                                   *)
(***************************************************************************)
EXTENDS Naturals, Sequences

CONSTANTS
    LastBlock,   \* the blocks of every program are 1..LastBlock, in order
    Performable, \* the pairs <<target, through>> of the PERFORMs
    Gobacks,     \* blocks that end with a GOBACK: FallThrough(None)
    Debugged,    \* blocks with a USE FOR DEBUGGING declarative
    LastFile,    \* files with a USE AFTER ERROR declarative are 1..LastFile
    Alters,      \* the pairs <<paragraph, target>> of the ALTERs
    MaxFrames    \* bound: how deep calls nest in a run

ASSUME ControlAssumption ==
    /\ LastBlock \in Nat \ {0} /\ LastFile \in Nat /\ MaxFrames \in Nat
    /\ Performable \subseteq (1..LastBlock) \X (1..LastBlock)
    /\ Gobacks \subseteq 1..LastBlock /\ Debugged \subseteq 1..LastBlock
    /\ Alters \subseteq ((1..LastBlock) \ Gobacks) \X (1..LastBlock)

Blocks == 1..LastBlock
Files == 1..LastFile
AlterSlots == {a[1] : a \in Alters}

VARIABLES
    frames,      \* the Rust calls in progress; its bodies: activation_stack
    signal,      \* what the innermost of them is being handed back
    sorts,       \* sort_states: the phase of each
    activeDebug, \* active_debugging_declaratives
    activeFile,  \* active_file_error_declaratives
    alter        \* alter_table; 0 when a paragraph has not been altered

vars == <<frames, signal, sorts, activeDebug, activeFile, alter>>

(***************************************************************************)
(* A call in progress.  "body" and "range" are the two loops, `at` is the  *)
(* block and `step` how far it has come: its entry hook, its statements,   *)
(* or a PERFORM that ends it.  The others wait for the call above them:    *)
(* "debug" and "file" run the statements of the declarative of block or    *)
(* file `at`; "input" and "output" are execute_active_sort_procedure in    *)
(* its first and second PERFORM, and `at` is the depth to truncate to.     *)
(***************************************************************************)
Loops == {"body", "range"}
Declaratives == {"debug", "file"}
SortCalls == {"input", "output"}

Frame == [kind : Loops \cup Declaratives \cup SortCalls,
          from : Nat, thru : Nat, at : Nat, step : {"entry", "ops", "end"}]

Body == [kind |-> "body", from |-> 0, thru |-> 0, at |-> 1, step |-> "entry"]
RangeCall(r) == [kind |-> "range", from |-> r[1], thru |-> r[2],
                 at |-> r[1], step |-> "entry"]
Waiting(kind, at) ==
    [kind |-> kind, from |-> 0, thru |-> 0, at |-> at, step |-> "ops"]

NoSignal == [kind |-> "none", to |-> 0]
GoingTo(t) == [kind |-> "goto", to |-> t]
Stopping == [kind |-> "stop", to |-> 0]
Failing == [kind |-> "error", to |-> 0]

TypeOK ==
    /\ frames \in Seq(Frame)
    /\ \A i \in 1..Len(frames) :
          frames[i].kind \in Loops => frames[i].at \in Blocks
    /\ signal \in [kind : {"none", "goto", "stop", "error"}, to : Nat]
    /\ signal.kind = "goto" => signal.to \in Blocks
    /\ sorts \in Seq(SortCalls)
    /\ activeDebug \subseteq Debugged
    /\ activeFile \subseteq Files
    /\ alter \in [AlterSlots -> 0..LastBlock]

Init ==
    /\ frames = <<>> /\ signal = NoSignal /\ sorts = <<>>
    /\ activeDebug = {} /\ activeFile = {}
    /\ alter = [p \in AlterSlots |-> 0]

-----------------------------------------------------------------------------
Top == frames[Len(frames)]
Under == SubSeq(frames, 1, Len(frames) - 1)

(* The innermost call goes on: nothing is being handed back to it.         *)
Running(kinds) == /\ frames # <<>> /\ signal = NoSignal
                  /\ Top.kind \in kinds

(* It is executing statements: those of its block or of a declarative.     *)
InStatements == Running(Loops \cup Declaratives) /\ Top.step = "ops"

(* The innermost call as it goes on, and as it goes on with block t.       *)
WithTop(f) == [frames EXCEPT ![Len(frames)] = f]
RunBlock(t) == WithTop([Top EXCEPT !.at = t, !.step = "entry"])

Push(f) == Len(frames) < MaxFrames /\ frames' = Append(frames, f)

(* What the end of a call undoes, whatever ended it: sort_states is cut    *)
(* back to its depth before the SORT, a declarative is no longer active.   *)
SortsAfter_EarlyExit ==  \* mutant: an early return leaves the SORT there
    IF Top.kind = "output" THEN SubSeq(sorts, 1, Top.at) ELSE sorts

SortsAfter ==
    IF Top.kind \in SortCalls THEN SubSeq(sorts, 1, Top.at) ELSE sorts

GuardAfter_Kept(kind, guard) ==  \* mutant: only a normal end removes it
    IF Top.kind = kind /\ signal = NoSignal THEN guard \ {Top.at} ELSE guard

GuardAfter(kind, guard) ==
    IF Top.kind = kind THEN guard \ {Top.at} ELSE guard

Leave ==
    /\ frames' = Under
    /\ sorts' = SortsAfter
    /\ activeDebug' = GuardAfter("debug", activeDebug)
    /\ activeFile' = GuardAfter("file", activeFile)

-----------------------------------------------------------------------------
(* execute_procedure, from the host or for a CALL statement.               *)
Execute ==
    /\ frames = <<>> \/ InStatements
    /\ Push(Body)
    /\ UNCHANGED <<signal, sorts, activeDebug, activeFile, alter>>

(* handle_procedure_entry: the debugging declarative of the block runs     *)
(* first, unless it is already running.                                    *)
EnterBlock ==
    /\ Running(Loops) /\ Top.step = "entry"
    /\ IF Top.at \in Debugged \ activeDebug
       THEN /\ Push(Waiting("debug", Top.at))
            /\ activeDebug' = activeDebug \cup {Top.at}
       ELSE /\ frames' = WithTop([Top EXCEPT !.step = "ops"])
            /\ UNCHANGED activeDebug
    /\ UNCHANGED <<signal, sorts, activeFile, alter>>

(* A PERFORM statement, or an iteration of one.                            *)
Perform ==
    /\ InStatements
    /\ \E r \in Performable : Push(RangeCall(r))
    /\ UNCHANGED <<signal, sorts, activeDebug, activeFile, alter>>

(* A block whose transfer is a PERFORM.  The range that ends at this block *)
(* is over before its transfer is looked at.                               *)
PerformTransfer ==
    /\ Running(Loops) /\ Top.step \in {"ops", "end"}
    /\ Top.at \notin Gobacks
    /\ Top.kind = "range" => Top.at # Top.thru
    /\ Len(frames) < MaxFrames
    /\ \E r \in Performable :
          frames' = Append(WithTop([Top EXCEPT !.step = "end"]), RangeCall(r))
    /\ UNCHANGED <<signal, sorts, activeDebug, activeFile, alter>>

(* A file statement fails and its USE AFTER ERROR declarative runs.        *)
FileError ==
    /\ InStatements
    /\ \E f \in Files \ activeFile :
          /\ Push(Waiting("file", f))
          /\ activeFile' = activeFile \cup {f}
    /\ UNCHANGED <<signal, sorts, activeDebug, alter>>

(* SORT: with an INPUT PROCEDURE, or straight to the OUTPUT PROCEDURE.     *)
Sort ==
    /\ InStatements
    /\ Len(frames) + 1 < MaxFrames
    /\ \E r \in Performable, phase \in SortCalls :
          /\ frames' = frames \o <<Waiting(phase, Len(sorts)), RangeCall(r)>>
          /\ sorts' = Append(sorts, phase)
    /\ UNCHANGED <<signal, activeDebug, activeFile, alter>>

(* The INPUT PROCEDURE has returned: sort, and PERFORM the output range.   *)
SortReleased ==
    /\ Running({"input"})
    /\ \E r \in Performable :
          frames' = Append(WithTop(Waiting("output", Top.at)), RangeCall(r))
    /\ sorts' = [sorts EXCEPT ![Len(sorts)] = "output"]
    /\ UNCHANGED <<signal, activeDebug, activeFile, alter>>

Alter ==
    /\ InStatements
    /\ \E a \in Alters : alter' = [alter EXCEPT ![a[1]] = a[2]]
    /\ UNCHANGED <<frames, signal, sorts, activeDebug, activeFile>>

-----------------------------------------------------------------------------
(* What raises a signal.  A GO TO a paragraph that has been altered goes   *)
(* where that paragraph now goes to, without entering it.                  *)
Resolve(t) == IF t \in AlterSlots /\ alter[t] # 0 THEN alter[t] ELSE t

Raise(s) ==
    /\ signal' = s
    /\ UNCHANGED <<frames, sorts, activeDebug, activeFile, alter>>

(* GO TO, as a statement, by DEPENDING ON, or as the transfer of a block.  *)
GoTo == InStatements /\ \E t \in Blocks : Raise(GoingTo(Resolve(t)))

(* The transfer of a paragraph that is only a GO TO set by ALTER.          *)
AlteredGoTo ==
    /\ InStatements /\ Top.kind \in Loops
    /\ Top.at \in AlterSlots /\ alter[Top.at] # 0
    /\ Raise(GoingTo(alter[Top.at]))

StopRun == InStatements /\ Raise(Stopping)

(* Any VmError: a statement, a key that does not decode, a step limit.     *)
Fail == Running(Loops \cup Declaratives \cup SortCalls) /\ Raise(Failing)

-----------------------------------------------------------------------------
(* The end of a block, and of the calls that end with it.                  *)
AtBlockEnd == Running(Loops) /\ Top.step \in {"ops", "end"}

AtThrough_OneLater ==  \* mutant: compared after the step to the next block
    Top.kind = "range" /\ Top.at = Top.thru + 1

AtThrough == Top.kind = "range" /\ Top.at = Top.thru

(* The block that follows, if there is one.  A GOBACK is compiled to the   *)
(* transfer that the last block has: to no block, and not to a STOP RUN.   *)
HasNext(at) == at < LastBlock /\ at \notin Gobacks

FallThrough ==
    /\ AtBlockEnd /\ ~AtThrough /\ HasNext(Top.at)
    /\ frames' = RunBlock(Top.at + 1)
    /\ UNCHANGED <<signal, sorts, activeDebug, activeFile, alter>>

(* The `through` block is over, or there is no block to fall into: so a    *)
(* GOBACK ends the innermost PERFORM only, not the program.                *)
Return ==
    /\ AtBlockEnd
    /\ AtThrough \/ ~HasNext(Top.at)
    /\ Leave
    /\ UNCHANGED <<signal, alter>>

(* A declarative has run; after that of a block, the block's statements do.*)
EndDeclarative ==
    /\ InStatements /\ Top.kind \in Declaratives
    /\ IF Top.kind = "debug"
       THEN frames' = [Under EXCEPT ![Len(Under)].step = "ops"]
       ELSE frames' = Under
    /\ activeDebug' = GuardAfter("debug", activeDebug)
    /\ activeFile' = GuardAfter("file", activeFile)
    /\ UNCHANGED <<signal, sorts, alter>>

EndSort == Running({"output"}) /\ Leave /\ UNCHANGED <<signal, alter>>

-----------------------------------------------------------------------------
(* What a call does with a signal it is handed.                            *)
InScope_Ordered(f, t) == t \in f.from..f.thru  \* mutant

InScope(f, t) ==
    LET lo == IF f.from <= f.thru THEN f.from ELSE f.thru
        hi == IF f.from <= f.thru THEN f.thru ELSE f.from
    IN  t \in lo..hi

Catches(f, t) == f.kind = "body" \/ (f.kind = "range" /\ InScope(f, t))

(* The loop the target belongs to goes on there.                           *)
CatchGoTo ==
    /\ frames # <<>> /\ signal.kind = "goto" /\ Catches(Top, signal.to)
    /\ frames' = RunBlock(signal.to)
    /\ signal' = NoSignal
    /\ UNCHANGED <<sorts, activeDebug, activeFile, alter>>

(* Any other call ends and hands the signal on.  A STOP RUN ends with the  *)
(* procedure it is in, an error with the call the host made.               *)
Consumed == \/ signal.kind = "stop" /\ Top.kind = "body"
            \/ signal.kind = "error" /\ Len(frames) = 1

PassOn ==
    /\ frames # <<>>
    /\ signal.kind \in {"stop", "error"}
         \/ (signal.kind = "goto" /\ ~Catches(Top, signal.to))
    /\ Leave
    /\ signal' = IF Consumed THEN NoSignal ELSE signal
    /\ UNCHANGED alter

-----------------------------------------------------------------------------
Next ==
    \/ Execute \/ EnterBlock \/ Perform \/ PerformTransfer \/ FileError
    \/ Sort \/ SortReleased \/ Alter
    \/ GoTo \/ AlteredGoTo \/ StopRun \/ Fail
    \/ FallThrough \/ Return \/ EndDeclarative \/ EndSort
    \/ CatchGoTo \/ PassOn

Spec == Init /\ [][Next]_vars

-----------------------------------------------------------------------------
(* A PERFORM of blocks in their order in the text never runs a block       *)
(* outside of them: not after a GO TO inside, one that comes back from     *)
(* deeper calls, nor by falling through (execute_perform_range).           *)
ForwardRangesStayInside ==
    \A i \in 1..Len(frames) :
        frames[i].kind = "range" /\ frames[i].from <= frames[i].thru
            => frames[i].from <= frames[i].at /\ frames[i].at <= frames[i].thru

(* The guards against re-entry name exactly the declaratives that are      *)
(* running, and none runs inside itself, also after a GO TO, a STOP RUN or *)
(* an error has left one (handle_debugging_declarative, handle_file_error).*)
RunningDeclaratives(kind) ==
    {i \in 1..Len(frames) : frames[i].kind = kind}

GuardsAreExact ==
    /\ activeDebug = {frames[i].at : i \in RunningDeclaratives("debug")}
    /\ activeFile = {frames[i].at : i \in RunningDeclaratives("file")}
    /\ \A kind \in Declaratives :
         \A i, j \in RunningDeclaratives(kind) :
            frames[i].at = frames[j].at => i = j

(* The innermost SORT a RELEASE or RETURN would find (sort_states.last) is *)
(* the SORT whose procedure is running, in the phase it is in; the entries *)
(* below it are those of the SORTs around it, in their order, and there    *)
(* are no others (execute_sort_procedure).                                 *)
SortFrames == {i \in 1..Len(frames) : frames[i].kind \in SortCalls}

SortsFollowTheCalls ==
    /\ \A i \in SortFrames : /\ frames[i].at < Len(sorts)
                            /\ sorts[frames[i].at + 1] = frames[i].kind
    /\ \A k \in 1..Len(sorts) : \E i \in SortFrames : frames[i].at = k - 1
    /\ \A i, j \in SortFrames : i < j => frames[i].at < frames[j].at

(* Seen as a stack of ranges and programs, a GO TO is one step: the VM's   *)
(* hand-to-hand signal ends in the innermost range that holds the target,  *)
(* a STOP RUN in the program it is in, an error nowhere.                   *)
Shape == INSTANCE PerformStack WITH active <- frames

Entry(f) == [kind |-> f.kind, from |-> f.from, thru |-> f.thru, at |-> f.at]

RangesOf(calls) ==
    LET upTo[k \in 0..Len(calls)] ==
            IF k = 0 THEN <<>>
            ELSE IF calls[k].kind \in Loops
                 THEN Append(upTo[k - 1], Entry(calls[k]))
                 ELSE upTo[k - 1]
    IN  upTo[Len(calls)]

Ranges == RangesOf(frames)

Landing ==
    CASE signal.kind = "none" -> Ranges
      [] signal.kind = "goto" -> Shape!Land(Ranges, signal.to)
      [] signal.kind = "stop" -> Shape!LeaveProgram(Ranges)
      [] signal.kind = "error" -> <<>>

Stack == INSTANCE PerformStack WITH active <- Landing

ImplementsPerformStack == Stack!Spec
=============================================================================
