---------------------------- MODULE ProgramCalls ----------------------------
(***************************************************************************)
(* Programs of one run unit that CALL each other (crates/cobol-vm), with   *)
(* the argument conversions that crates/cobol-codegen-rust compiles in.    *)
(*                                                                         *)
(* Storage is a pool of cells, one per elementary item and program.  A     *)
(* name of the program text is bound to cells anew at every use: first in  *)
(* the linkage bindings of the active programs, innermost first - those of *)
(* the callers too -, then among the items of the program that runs.  A    *)
(* CALL resets an INITIAL program's items, binds the LINKAGE names of the  *)
(* callee to the cells of the caller's arguments, and runs it to its end.  *)
(*                                                                         *)
(* SORT statements and their RELEASE and RETURN (SortWork) are statements  *)
(* of these programs: they reach the innermost SORT of the run unit,       *)
(* whichever program executes it, and read and write records by name.      *)
(*                                                                         *)
(* A program is known by the statements of its text: any of them may be    *)
(* the next one, as often as conditions and loops let it.  A binding is    *)
(* the sequence of its cells, and whether the descriptor is a group; the   *)
(* children of a group are looked up by names qualified by their program,  *)
(* so they denote these cells in every program.                            *)
(*                                                                         *)
(* Numbers are one digit, read only as arguments of a CALL, and no formal  *)
(* parameter is a number: the one conversion is from number to text.       *)
(***************************************************************************)
EXTENDS SortWork

CONSTANTS
    Programs,     \* the registered programs
    Main,         \* the one that run() starts
    Initials,     \* those with the INITIAL clause
    Items,        \* Items[p]: p's elementary items, by name: their VALUE
    Groups,       \* Groups[p]: p's groups, by name: the items in them
    Formals,      \* Formals[p]: the LINKAGE parameters, [name, children]
    External,     \* names of items that are EXTERNAL in every program
    Numeric,      \* Numeric[p]: p's items that are numbers
    SortFiles,    \* SortFiles[p]: p's SD files, by name: [record, key]
    Moves,        \* Moves[p]: p's MOVE statements, [from, to]
    Literals,     \* Literals[p]: p's MOVEs of a literal, [bytes, to]
    Calls,        \* Calls[p]: p's CALL statements, [dynamic, target, using];
                  \*   a dynamic CALL as often as its item has values
    NoName,       \* a value of such an item that is empty or a path
    Releases,     \* Releases[p]: p's RELEASEs, [record, from]; without FROM,
                  \*   from is the record
    Returns,      \* Returns[p]: p's RETURNs, [file, record, into], likewise
    MaxDepth,     \* bound: activations
    MaxSorts,     \* bound: SORTs in progress
    MaxReleased   \* bound: records that they hold together

VARIABLES
    cells,    \* StoragePool.cells
    status,   \* PROGRAM-STATUS, the special register
    stack,    \* activation_stack: [program, binds]
    scopes,   \* auxiliary: what the names of each activation should denote,
              \*   [names, clear], clear: the names that no caller hides
    work      \* auxiliary: per active SORT, the records the program saw
              \*   itself [release], those it [got], and whether [atEnd]

vars == <<cells, status, stack, sorts, scopes, work>>
-----------------------------------------------------------------------------
(* Names *)

Key(p, n) == IF n \in External THEN <<"EXTERNAL", n>> ELSE <<p, n>>

Own(p) == DOMAIN Items[p] \cup DOMAIN Groups[p]

\* storage_descriptors, under the names scoped to their program.
OwnBinding(p, n) ==
    IF n \in DOMAIN Items[p]
    THEN [group |-> FALSE, at |-> <<Key(p, n)>>]
    ELSE [group |-> TRUE,
          at |-> [j \in DOMAIN Groups[p][n] |-> Key(p, Groups[p][n][j])]]

FormalNames(p) ==
    UNION {{f.name} \cup {f.children[j] : j \in DOMAIN f.children} :
           f \in {Formals[p][i] : i \in DOMAIN Formals[p]}}

\* Of which parameter a formal name is the name, or a child's.
ParameterOf(p, n) ==
    CHOOSE i \in DOMAIN Formals[p] :
        \/ Formals[p][i].name = n
        \/ \E j \in DOMAIN Formals[p][i].children :
               Formals[p][i].children[j] = n

Names(p) == Own(p) \cup FormalNames(p)

\* The bytes of a run: those of VALUEs and literals, and what fills records.
CellBytes == {Blank} \cup UNION {UNION {{k[j] : j \in DOMAIN k} :
    k \in {m.bytes : m \in Literals[p]}
          \cup {Items[p][n] : n \in DOMAIN Items[p]}} : p \in Programs}

IsSequence(s) == s \in Seq({s[i] : i \in DOMAIN s})

\* A literal CALL passes as many arguments as the program has parameters:
\* sema has matched them.
ASSUME CallAssumption ==
    /\ Main \in Programs /\ "EXTERNAL" \notin Programs
    /\ Formals[Main] = <<>>
    /\ Initials \subseteq Programs
    /\ \A p \in Programs : Own(p) \cap FormalNames(p) = {}
    /\ \A p \in Programs : \A c \in Calls[p] :
          /\ IsSequence(c.using)
          /\ \A i \in DOMAIN c.using : c.using[i] \in Names(p)
          /\ c.dynamic \in BOOLEAN
          /\ ~c.dynamic => /\ c.target \in Programs
                           /\ Len(c.using) = Len(Formals[c.target])
    /\ MaxDepth \in Nat \ {0}

\* The text of a program names its own items and parameters; a group has each
\* of its items once.
ASSUME TextAssumption ==
    \A p \in Programs :
       /\ \A n \in DOMAIN Items[p] : Items[p][n] \in Seq(CellBytes)
       /\ \A g \in DOMAIN Groups[p] :
             /\ Groups[p][g] \in Seq(DOMAIN Items[p])
             /\ \A i, j \in DOMAIN Groups[p][g] :
                   Groups[p][g][i] = Groups[p][g][j] => i = j
       /\ IsSequence(Formals[p])
       /\ \A i \in DOMAIN Formals[p] : /\ IsSequence(Formals[p][i].children)
                                       /\ Formals[p][i].len \in Nat
       /\ \A f \in DOMAIN SortFiles[p] :
             /\ SortFiles[p][f].record \in Names(p)
             /\ SortFiles[p][f].key.given \in BOOLEAN
       /\ \A m \in Moves[p] : m.from \in Names(p) /\ m.to \in Names(p)
       /\ \A m \in Literals[p] : m.bytes \in Seq(CellBytes) /\ m.to \in Names(p)
       /\ \A r \in Releases[p] : r.record \in Names(p) /\ r.from \in Names(p)
       /\ \A r \in Returns[p] : r.record \in Names(p) /\ r.into \in Names(p)

\* A number is an item of its program alone, in no group, and only read.
ASSUME NumberAssumption ==
    \A p \in Programs :
       /\ Numeric[p] \subseteq DOMAIN Items[p] \ External
       /\ \A g \in DOMAIN Groups[p] : \A i \in DOMAIN Groups[p][g] :
             Groups[p][g][i] \notin Numeric[p]
       /\ \A f \in DOMAIN SortFiles[p] :
             SortFiles[p][f].record \notin Numeric[p]
       /\ \A m \in Moves[p] \cup Literals[p] : m.to \notin Numeric[p]
       /\ \A r \in Releases[p] \cup Returns[p] : r.record \notin Numeric[p]
       /\ \A r \in Returns[p] : r.into \notin Numeric[p]

Top == stack[Len(stack)]

\* Mutant: the outermost binding first.
Denotes_Outermost(st, n) ==
    IF {i \in DOMAIN st : n \in DOMAIN st[i].binds} # {}
    THEN LET i == CHOOSE i \in DOMAIN st :
                      /\ n \in DOMAIN st[i].binds
                      /\ \A j \in 1..(i - 1) : n \notin DOMAIN st[j].binds
         IN  st[i].binds[n]
    ELSE OwnBinding(st[Len(st)].program, n)

\* storage_descriptor_for: the bindings of all activations, innermost first,
\* then the item of the current program.
Binders(st, n) == {i \in DOMAIN st : n \in DOMAIN st[i].binds}

Denotes(st, n) ==
    IF Binders(st, n) # {}
    THEN LET i == CHOOSE i \in Binders(st, n) :
                      \A j \in Binders(st, n) : j <= i
         IN  st[i].binds[n]
    ELSE OwnBinding(st[Len(st)].program, n)

At(n) == Denotes(stack, n).at

-----------------------------------------------------------------------------
(* Bytes *)

Total(c, ks) ==
    LET sum[i \in 0..Len(ks)] ==
            IF i = 0 THEN 0 ELSE sum[i - 1] + Len(c[ks[i]])
    IN  sum[Len(ks)]

\* read_storage_descriptor_bytes: the bytes of the cells, one after the other.
Read(c, ks) ==
    LET cat[i \in 0..Len(ks)] ==
            IF i = 0 THEN <<>> ELSE cat[i - 1] \o c[ks[i]]
    IN  cat[Len(ks)]

\* write_bytes_to_storage_pool_access_path: blanks, then the source; the cells
\* of a group get the parts that their lengths cut out.
Written(c, ks, bytes) ==
    LET all == Normalized(bytes, Total(c, ks))
        Part(i) == LET at == Total(c, SubSeq(ks, 1, i - 1))
                   IN  SubSeq(all, at + 1, at + Len(c[ks[i]]))
    IN  [k \in DOMAIN c |->
            IF \E i \in DOMAIN ks : ks[i] = k
            THEN Part(CHOOSE i \in DOMAIN ks : ks[i] = k)
            ELSE c[k]]

-----------------------------------------------------------------------------
(* The run unit *)

\* call_temp_name: one temporary per caller, target, place and argument; a
\* recursive activation uses the same one.
TempKey(p, c, i) == <<p, c.target, i, c.using[i]>>

\* Mutant: the number itself is passed.
NeedsTemp_Never(p, c, i) == FALSE

\* call_using_needs_temp: a number passed for text, by a literal CALL only.
NeedsTemp(p, c, i) ==
    /\ ~c.dynamic
    /\ c.using[i] \in Numeric[p]
    /\ Formals[c.target][i].children = <<>>

\* emit_pool_cell_initializers and the temporaries' initial bytes.
OwnCells(p) == [k \in {Key(p, n) : n \in DOMAIN Items[p]} |->
                   Items[p][CHOOSE n \in DOMAIN Items[p] : Key(p, n) = k]]

Temps(p) == UNION {{<<c, i>> : i \in {j \in DOMAIN c.using :
                                          NeedsTemp(p, c, j)}} : c \in Calls[p]}

TempCells(p) ==
    [k \in {TempKey(p, t[1], t[2]) : t \in Temps(p)} |->
        LET t == CHOOSE t \in Temps(p) : TempKey(p, t[1], t[2]) = k
        IN  [j \in 1..Formals[t[1].target][t[2]].len |-> Blank]]

InitialCells ==
    LET parts == {OwnCells(p) : p \in Programs}
                     \cup {TempCells(p) : p \in Programs}
    IN  [k \in UNION {DOMAIN f : f \in parts} |->
            (CHOOSE f \in parts : k \in DOMAIN f)[k]]

Init ==
    /\ cells = InitialCells /\ status = "  "
    /\ stack = <<>> /\ sorts = <<>> /\ scopes = <<>> /\ work = <<>>

Activation(p, binds) == [program |-> p, binds |-> binds]

\* execute_procedure of the main program; also again, after a run has ended.
Start ==
    /\ stack = <<>>
    /\ stack' = <<Activation(Main, <<>>)>>
    /\ scopes' = <<[names |-> [n \in Own(Main) |-> OwnBinding(Main, n)],
                    clear |-> Own(Main)]>>
    /\ UNCHANGED <<cells, status, sorts, work>>

\* The entries that a work list keeps when sorts becomes shorter.
WorkUpTo(len) == SubSeq(work, 1, len)

\* Any error leaves all activations and all SORTs.
Abend ==
    /\ stack' = <<>> /\ sorts' = <<>> /\ scopes' = <<>> /\ work' = <<>>

\* The end of a program, STOP RUN and GOBACK included: back in the caller.
EndProgram ==
    /\ stack # <<>>
    /\ sorts' = Truncated(Len(stack))
    /\ work' = WorkUpTo(Len(sorts'))
    /\ stack' = SubSeq(stack, 1, Len(stack) - 1)
    /\ scopes' = SubSeq(scopes, 1, Len(stack) - 1)
    /\ UNCHANGED <<cells, status>>

MoveLiteral ==
    /\ stack # <<>>
    /\ \E m \in Literals[Top.program] :
          cells' = Written(cells, At(m.to), m.bytes)
    /\ UNCHANGED <<status, stack, sorts, scopes, work>>

\* move_value_to_access_path, for text and for groups.
Copied(c, from, to) == Written(c, At(to), Read(c, At(from)))

Move ==
    /\ stack # <<>>
    /\ \E m \in Moves[Top.program] : cells' = Copied(cells, m.from, m.to)
    /\ UNCHANGED <<status, stack, sorts, scopes, work>>

-----------------------------------------------------------------------------
(* CALL *)

\* What an argument of the call is bound to, and what it is meant to be.
Argument(c, i) ==
    IF NeedsTemp(Top.program, c, i)
    THEN [group |-> FALSE, at |-> <<TempKey(Top.program, c, i)>>]
    ELSE Denotes(stack, c.using[i])

Meant(c, i) ==
    IF NeedsTemp(Top.program, c, i)
    THEN [group |-> FALSE, at |-> <<TempKey(Top.program, c, i)>>]
    ELSE scopes[Len(scopes)].names[c.using[i]]

\* The MOVEs into the temporaries, and the digit that each of them needs.
Digit(bytes) == Rank(bytes) # BadKey /\ bytes[1] # Blank

ArgumentBytes(c, i) == Read(cells, At(c.using[i]))

Convertible(c) ==
    \A i \in DOMAIN c.using :
        NeedsTemp(Top.program, c, i) => Digit(ArgumentBytes(c, i))

Converted(c) ==
    [k \in DOMAIN cells |->
        IF \E i \in DOMAIN c.using : /\ NeedsTemp(Top.program, c, i)
                                     /\ k = TempKey(Top.program, c, i)
        THEN Normalized(ArgumentBytes(c, CHOOSE i \in DOMAIN c.using :
                            k = TempKey(Top.program, c, i)), Len(cells[k]))
        ELSE cells[k]]

\* reset_initial_program_instance: initial_cells has no EXTERNAL item.
Reset(cs, q) ==
    IF q \notin Initials THEN cs
    ELSE [k \in DOMAIN cs |-> IF k \in DOMAIN OwnCells(q) /\ k[1] = q
                              THEN OwnCells(q)[k] ELSE cs[k]]

\* bind_call_using_arguments
Refused(c, q) ==
    \/ Len(c.using) # Len(Formals[q])
    \/ \E i \in DOMAIN c.using :
          /\ Formals[q][i].children # <<>>
          /\ \/ ~Argument(c, i).group
             \/ Len(Formals[q][i].children) # Len(Argument(c, i).at)

\* What a formal name is bound to, when its parameter gets the binding b.
Bound(q, n, b) ==
    LET f == Formals[q][ParameterOf(q, n)]
    IN  IF f.name = n THEN b
        ELSE [group |-> FALSE,
              at |-> <<b.at[CHOOSE j \in DOMAIN f.children :
                                f.children[j] = n]>>]

\* A parameter is hidden when its argument is; an item, when a caller has a
\* parameter of its name.
ScopeOf(q, c) ==
    [names |-> [n \in Names(q) |-> IF n \in Own(q) THEN OwnBinding(q, n)
                    ELSE Bound(q, n, Meant(c, ParameterOf(q, n)))],
     clear |-> {n \in Own(q) : Binders(stack, n) = {}}
               \cup {n \in FormalNames(q) :
                      LET i == ParameterOf(q, n)
                      IN  \/ NeedsTemp(Top.program, c, i)
                          \/ c.using[i] \in scopes[Len(scopes)].clear}]

EnterProgram(q, c) ==
    /\ Len(stack) < MaxDepth
    /\ stack' = Append(stack, Activation(q,
                    [n \in FormalNames(q) |->
                        Bound(q, n, Argument(c, ParameterOf(q, n)))]))
    /\ scopes' = Append(scopes, ScopeOf(q, c))
    /\ UNCHANGED <<sorts, work>>

\* sema has matched the number of arguments and their categories; a group may
\* still have another number of items.
CallLiteral ==
    /\ stack # <<>>
    /\ \E c \in Calls[Top.program] :
          /\ ~c.dynamic
          /\ IF ~Convertible(c) THEN Abend /\ UNCHANGED cells
             ELSE /\ cells' = Reset(Converted(c), c.target)
                  /\ IF Refused(c, c.target) THEN Abend
                     ELSE EnterProgram(c.target, c)
    /\ UNCHANGED status

CallDynamic ==
    /\ stack # <<>>
    /\ \E c \in Calls[Top.program] :
          /\ c.dynamic
          /\ \/ /\ c.target = NoName
                /\ Abend /\ UNCHANGED <<cells, status>>
             \/ /\ c.target \notin Programs \cup {NoName}
                /\ status' = "01"
                /\ UNCHANGED <<cells, stack, sorts, scopes, work>>
             \/ /\ c.target \in Programs
                /\ cells' = Reset(cells, c.target)
                /\ IF Refused(c, c.target)
                   THEN /\ status' = "02"
                        /\ UNCHANGED <<stack, sorts, scopes, work>>
                   ELSE status' = "00" /\ EnterProgram(c.target, c)

-----------------------------------------------------------------------------
(* SORT, RELEASE and RETURN *)

\* The records that active SORTs hold.
Held == LET n[i \in 0..Len(sorts)] ==
                IF i = 0 THEN 0 ELSE n[i - 1] + Len(sorts[i].released)
        IN  n[Len(sorts)]

\* SORT with or without an INPUT procedure.
Sort ==
    /\ stack # <<>>
    /\ Len(sorts) < MaxSorts
    /\ \E f \in DOMAIN SortFiles[Top.program], input \in BOOLEAN :
          LET sd == SortFiles[Top.program][f]
              s  == NewSort(f, sd.record, Total(cells, At(sd.record)),
                            sd.key, Len(stack))
          IN  sorts' = Append(sorts, IF input THEN s ELSE OutputPhase(s))
    /\ work' = Append(work, [release |-> <<>>, got |-> <<>>, atEnd |-> FALSE])
    /\ UNCHANGED <<cells, status, stack, scopes>>

Release ==
    /\ stack # <<>>
    /\ \E r \in Releases[Top.program] :
       \/ /\ ~ReleaseAccepted(r.record)
          /\ Abend /\ UNCHANGED cells
       \/ /\ ReleaseAccepted(r.record)
          /\ Held < MaxReleased
          /\ LET there == Copied(cells, r.from, r.record)
                 bytes == Read(there, At(r.record))
             IN  /\ cells' = there
                 /\ sorts' = Released(bytes)
                 /\ work' = [work EXCEPT ![Len(work)].release = Append(@,
                                Normalized(bytes, Innermost.len))]
          /\ UNCHANGED <<stack, scopes>>
    /\ UNCHANGED status

\* Which SORT a statement of the current activation can be inside of.
InProcedure(phase) ==
    /\ sorts # <<>>
    /\ Innermost.level = Len(stack)
    /\ Innermost.phase = phase

EndInput ==
    /\ InProcedure("Input")
    /\ IF Innermost.key.given /\ ~Sortable(Innermost.released, Innermost.key)
       THEN Abend
       ELSE /\ sorts' = WithLast(OutputPhase(Innermost))
            /\ UNCHANGED <<stack, scopes, work>>
    /\ UNCHANGED <<cells, status>>

\* RETURN file INTO target: the record area first, then the target.
Return ==
    /\ stack # <<>>
    /\ \E r \in Returns[Top.program] :
       \/ /\ ~ReturnAccepted(r.file)
          /\ Abend /\ UNCHANGED cells
       \/ /\ ReturnAccepted(r.file) /\ HasRecord
          /\ LET there == Written(cells, At(r.record), NextRecord)
             IN  /\ cells' = Copied(there, r.record, r.into)
                 /\ work' = [work EXCEPT ![Len(work)].got =
                                Append(@, Read(there, At(r.record)))]
          /\ sorts' = Taken
          /\ UNCHANGED <<stack, scopes>>
       \/ /\ ReturnAccepted(r.file) /\ ~HasRecord
          /\ work' = [work EXCEPT ![Len(work)].atEnd = TRUE]
          /\ UNCHANGED <<cells, stack, sorts, scopes>>
    /\ UNCHANGED status

\* The end of the OUTPUT procedure, or a GO TO out of either procedure.
LeaveSort ==
    /\ sorts # <<>> /\ Innermost.level = Len(stack)
    /\ sorts' = SubSeq(sorts, 1, Len(sorts) - 1)
    /\ work' = WorkUpTo(Len(sorts) - 1)
    /\ UNCHANGED <<cells, status, stack, scopes>>

Next ==
    \/ Start \/ EndProgram
    \/ Move \/ MoveLiteral
    \/ CallLiteral \/ CallDynamic
    \/ Sort \/ Release \/ EndInput \/ Return \/ LeaveSort

Spec == Init /\ [][Next]_vars
-----------------------------------------------------------------------------
(* Properties *)

\* Cells keep their lengths, and every SORT belongs to an activation that has
\* not ended; those of inner activations are the later ones.
TypeOK ==
    /\ DOMAIN cells = DOMAIN InitialCells
    /\ \A k \in DOMAIN cells :
          cells[k] \in [DOMAIN InitialCells[k] -> CellBytes]
    /\ status \in {"  ", "00", "01", "02"}
    /\ Len(stack) <= MaxDepth
    /\ Len(scopes) = Len(stack) /\ Len(work) = Len(sorts)
    /\ \A d \in DOMAIN stack : stack[d].program \in Programs
    /\ \A i \in DOMAIN sorts : /\ SortOK(sorts[i], CellBytes)
                               /\ sorts[i].level \in DOMAIN stack
                               /\ i > 1 => sorts[i - 1].level <= sorts[i].level

\* Names of a program mean its own items and the arguments of its callers,
\* at any depth of calls and recursion; except a name that a caller uses for
\* a parameter (storage_descriptor_for looks in all the callers' bindings).
NamesAreStatic ==
    \A d \in DOMAIN stack : \A n \in scopes[d].clear :
        Denotes(SubSeq(stack, 1, d), n) = scopes[d].names[n]

\* What an activation may change: what its names mean to it, and whatever a
\* hidden name of it has been turned into.
Reach(d) ==
    UNION {{b.at[j] : j \in DOMAIN b.at} :
           b \in {scopes[d].names[n] : n \in scopes[d].clear}
                 \cup {Denotes(stack, n) :
                       n \in Names(stack[d].program) \ scopes[d].clear}}

\* A cell of a program changes only in the program's own statements, in those
\* of a program to which it was passed by reference, when the program is INITIAL
\* and called, or as a temporary of the program that calls.  A number does not
\* change, unless a dynamic CALL passes it: a literal one passes a copy.
Unshared == UNION {{Key(p, n) : n \in {n \in Numeric[p] :
    \A c \in Calls[p] : c.dynamic => \A i \in DOMAIN c.using : c.using[i] # n}}
    : p \in Programs}

OthersKeepTheirCells ==
    [][\A k \in DOMAIN cells : cells'[k] # cells[k] => k \notin Unshared /\
          \/ k \in Reach(Len(stack))
          \/ /\ k[1] \in Initials /\ Len(k) = 2
             /\ \E c \in Calls[Top.program] : c.target = k[1]
          \/ k[1] = Top.program /\ Len(k) = 4]_vars

\* The order in which a SORT should deliver its records.
Earlier(records, i, j, key) ==
    IF ~key.given THEN i < j
    ELSE \/ Before(records[i], records[j], key)
         \/ ~Before(records[j], records[i], key) /\ i < j

\* The record that comes first among those of s.
FirstOf(records, s, key) ==
    CHOOSE i \in s : \A j \in s \ {i} : Earlier(records, i, j, key)

\* The first n records to deliver, and the n-th of them.
DueFirst(records, n, key) ==
    LET due[i \in 0..n] ==
            IF i = 0 THEN {}
            ELSE due[i - 1] \cup {FirstOf(records,
                                         DOMAIN records \ due[i - 1], key)}
    IN  due[n]

Due(records, n, key) ==
    FirstOf(records, DOMAIN records \ DueFirst(records, n - 1, key), key)

\* RETURN delivers the records that were released to the same SORT, in the
\* order of the key and otherwise as released, each once, whatever SORTs the
\* programs it calls execute in between; AT END comes when none is left.  The
\* entries of the SORTs are in order of the live activations (TypeOK).
SortDelivers ==
    /\ TypeOK
    /\ \A w \in DOMAIN work :
           LET in  == work[w].release
               out == work[w].got
           IN  /\ Len(out) <= Len(in)
               /\ \A i \in DOMAIN out :
                     out[i] = Normalized(in[Due(in, i, sorts[w].key)],
                                         Len(out[i]))
               /\ work[w].atEnd => Len(out) = Len(in)
=============================================================================
