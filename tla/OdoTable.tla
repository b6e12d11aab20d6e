------------------------------ MODULE OdoTable ------------------------------
(***************************************************************************)
(* OCCURS DEPENDING ON tables of VmRuntime, one per program: the counter   *)
(* field, the active count the runtime keeps (VmOdoState), the active      *)
(* count and the occurrence cells of the storage pool, and the index that  *)
(* SEARCH and SEARCH ALL step through the table.                           *)
(*                                                                         *)
(* The three counts are kept apart and brought together by the writes of   *)
(* the counter; the module is about where they part.                       *)
(***************************************************************************)
EXTENDS Integers

CONSTANTS
  Programs,      \* each with a table; the generated code names the tables
  MinOf, MaxOf,  \* OCCURS MinOf[p] TO MaxOf[p] TIMES
  StartOf,       \* the VALUE of the counter
  Top,           \* a bound on MaxOf
  Data,          \* the keys an element may hold
  Value,         \* its VALUE clause
  Absent,        \* the cell of an occurrence does not exist
  Profiles       \* see `use'

\* A profile tells whether the tables of the programs bear the same name
\* (shared), whether INITIAL programs are called again (reset) and whether
\* SetOdo is used, which the generated code never does.
ASSUME OdoTableAssumption ==
  /\ Programs # {} /\ Top \in Nat
  /\ Data \subseteq Int /\ Value \in Data /\ Absent \notin Data
  /\ MinOf \in [Programs -> Nat] /\ MaxOf \in [Programs -> 1..Top]
  /\ StartOf \in [Programs -> Nat]
  /\ \A p \in Programs : MinOf[p] <= StartOf[p] /\ StartOf[p] <= MaxOf[p]
  /\ Profiles \subseteq [shared : BOOLEAN, reset : BOOLEAN, setodo : BOOLEAN]

VARIABLES
  use,           \* the profile; never changes
  count,         \* count[p]: the DEPENDING ON field
  active,        \* active[p]: VmOdoState.active
  pool,          \* pool[p]: OdoCellDescriptor.active
  cells,         \* cells[p][i]: the cell of occurrence i
  touched,       \* history: occurrences written since they became active
  index,         \* index[p]: VmIndexState.occurrence, 0 for None
  kind,          \* the SEARCH under way or just ended: "serial" or "all"
  who, key, up,  \* its program, its target, and whether keys ascend
  low, high,     \* what is left of the table to look at
  from,          \* history: where it began
  outcome,       \* "open" while it runs, then "found" or "at end"
  failed         \* a statement ended with an error, and the program with it

table  == <<count, active, pool, cells, touched>>
search == <<kind, who, key, up, low, high, from, outcome>>
vars   == <<use, table, index, search, failed>>

Occ == 1..Top
Counts == -1..(Top + 1)           \* what may be moved to the counter
Someone == CHOOSE p \in Programs : TRUE

\* The generated code defines the cells of all occurrences, active or not.
AllCells(p) == [i \in Occ |-> IF i <= MaxOf[p] THEN Value ELSE Absent]

Init ==
  /\ use \in Profiles
  /\ count = StartOf /\ active = StartOf /\ pool = StartOf
  /\ cells = [p \in Programs |-> AllCells(p)]
  /\ touched = [p \in Programs |-> {}]
  /\ index = [p \in Programs |-> 0]
  /\ kind = "none" /\ who = Someone /\ key = Value /\ up = TRUE
  /\ low = 1 /\ high = 0 /\ from = 1 /\ outcome = "none"
  /\ failed = FALSE

Idle == outcome # "open" /\ ~failed

\* Any other statement; the SEARCH before it is history.
NoSearch == /\ outcome' = "none" /\ kind' = "none"
            /\ who' = Someone /\ key' = Value /\ up' = TRUE
            /\ low' = 1 /\ high' = 0 /\ from' = 1
            /\ UNCHANGED use

-----------------------------------------------------------------------------
(* resize_odo_table: new occurrences get a cell if they have none, those   *)
(* that go lose theirs.                                                    *)

InRange(p, v) == MinOf[p] <= v /\ v <= MaxOf[p]

\* Mutant: occurrences that go keep their cells.
Resized_Keeps(p, v) ==
  [i \in Occ |-> IF pool[p] < i /\ i <= v /\ cells[p][i] = Absent THEN Value
                 ELSE cells[p][i]]

\* Mutant: the last occurrence that stays loses its cell as well.
Resized_OneMore(p, v) ==
  [i \in Occ |-> IF pool[p] < i /\ i <= v /\ cells[p][i] = Absent THEN Value
                 ELSE IF v <= i /\ i <= pool[p] THEN Absent
                 ELSE cells[p][i]]

Resized(p, v) ==
  [i \in Occ |-> IF pool[p] < i /\ i <= v /\ cells[p][i] = Absent THEN Value
                 ELSE IF v < i /\ i <= pool[p] THEN Absent
                 ELSE cells[p][i]]

ResizeAll(ps, v) ==
  /\ pool' = [p \in Programs |-> IF p \in ps THEN v ELSE pool[p]]
  /\ cells' = [p \in Programs |-> IF p \in ps THEN Resized(p, v) ELSE cells[p]]
  /\ touched' = [p \in Programs |->
                   IF p \in ps THEN touched[p] \ ((v + 1)..pool[p])
                   ELSE touched[p]]

\* The tables a write of p's counter reaches: resize_odo_tables_for_name, from
\* the runtime's entry without a program, takes every table of the name.
Reached(p) == IF use.shared THEN Programs ELSE {p}

\* Mutant: the pool is resized and the runtime's own count forgotten.
ActiveAfter_Same(p, v) == active

ActiveAfter(p, v) == [active EXCEPT ![p] = v]

\* MOVE to the counter: the field is written, and then the tables follow, each
\* that can, until one rejects the count (their order is that of their names).
WriteCount(p, v) ==
  /\ Idle
  /\ count' = [count EXCEPT ![p] = v]
  /\ IF \A q \in Reached(p) : InRange(q, v)
     THEN ResizeAll(Reached(p), v) /\ active' = ActiveAfter(p, v)
          /\ UNCHANGED failed
     ELSE /\ \E ps \in SUBSET {q \in Reached(p) : InRange(q, v)} :
               /\ ResizeAll(ps, v)
               /\ \/ UNCHANGED active
                  \/ p \in ps /\ active' = ActiveAfter(p, v)
          /\ failed' = TRUE
  /\ NoSearch /\ UNCHANGED index

\* SetOdo moves the active count and leaves the counter behind.
SetOdo(p, v) ==
  /\ Idle /\ use.setodo
  /\ IF InRange(p, v)
     THEN ResizeAll({p}, v) /\ active' = ActiveAfter(p, v) /\ UNCHANGED failed
     ELSE failed' = TRUE /\ UNCHANGED <<active, pool, cells, touched>>
  /\ NoSearch /\ UNCHANGED <<count, index>>

\* MOVE to occurrence i: the subscript is checked against the pool's count.
WriteItem(p, i, x) ==
  /\ Idle
  /\ IF i \in 1..pool[p]
     THEN /\ cells' = [cells EXCEPT ![p][i] = x]
          /\ touched' = [touched EXCEPT ![p] = @ \cup {i}]
          /\ UNCHANGED failed
     ELSE failed' = TRUE /\ UNCHANGED <<cells, touched>>
  /\ NoSearch /\ UNCHANGED <<count, active, pool, index>>

\* SET index TO i, or UP or DOWN BY to i: checked against the static maximum.
SetIndex(p, i) ==
  /\ Idle
  /\ IF i \in 1..MaxOf[p]
     THEN index' = [index EXCEPT ![p] = i] /\ UNCHANGED failed
     ELSE failed' = TRUE /\ UNCHANGED index
  /\ NoSearch /\ UNCHANGED table

\* reset_initial_program_instance: every cell gets its VALUE again and the
\* pool its first size; the runtime's active count is not told.
Reset(p) ==
  /\ Idle /\ use.reset
  /\ count' = [count EXCEPT ![p] = StartOf[p]]
  /\ pool' = [pool EXCEPT ![p] = StartOf[p]]
  /\ cells' = [cells EXCEPT ![p] =
                 [i \in Occ |-> IF i > MaxOf[p] THEN Absent
                                ELSE IF StartOf[p] < i /\ i <= pool[p]
                                     THEN Absent ELSE Value]]
  /\ touched' = [touched EXCEPT ![p] = {}]
  /\ NoSearch /\ UNCHANGED <<active, index, failed>>

-----------------------------------------------------------------------------
(* SEARCH and SEARCH ALL, one step for each occurrence they look at.       *)

\* Mutant: SEARCH goes on to the static maximum.
SearchMax_Static(p) == MaxOf[p]

SearchMax(p) == active[p]           \* effective_search_max

Fails == outcome' = "none" /\ failed' = TRUE

\* Mutant: the last occurrence is not looked at.
Exhausted_Early(l, h) == l >= h

Exhausted(l, h) == l > h

GoesOn == outcome' = IF Exhausted(low', high') THEN "at end" ELSE "open"

\* SEARCH begins at the index, which must have been set.
StartSerial(p, x) ==
  /\ Idle
  /\ who' = p /\ key' = x /\ up' = TRUE /\ from' = index[p]
  /\ kind' = "serial" /\ low' = index[p] /\ high' = SearchMax(p)
  /\ IF index[p] = 0 THEN Fails ELSE GoesOn /\ UNCHANGED failed
  /\ UNCHANGED <<use, table, index>>

\* SEARCH ALL looks at the whole table, whose keys ascend or descend.
StartAll(p, x, ascending) ==
  /\ Idle
  /\ who' = p /\ key' = x /\ up' = ascending /\ from' = 1
  /\ kind' = "all" /\ low' = 1 /\ high' = SearchMax(p) /\ GoesOn
  /\ UNCHANGED <<use, table, index, failed>>

Mid == low + (high - low) \div 2

\* The occurrence a SEARCH looks at next.
At == IF kind = "serial" THEN low ELSE Mid

\* Mutant: the upper half begins at the middle.
AfterMid_Same == Mid

AfterMid == Mid + 1

ToTheRight == IF up THEN cells[who][Mid] < key ELSE cells[who][Mid] > key

\* The table narrows to what a miss leaves of it.
Narrow ==
  IF kind = "serial" THEN low' = low + 1 /\ UNCHANGED high
  ELSE IF ToTheRight THEN low' = AfterMid /\ UNCHANGED high
       ELSE high' = Mid - 1 /\ UNCHANGED low

\* The index is set to an occurrence and the element there read: one that the
\* pool does not have is an error.
Probe ==
  /\ outcome = "open" /\ ~failed
  /\ index' = [index EXCEPT ![who] = At]
  /\ IF At > pool[who] THEN Fails /\ UNCHANGED <<low, high>>
     ELSE /\ UNCHANGED failed
          /\ IF cells[who][At] = key
             THEN outcome' = "found" /\ UNCHANGED <<low, high>>
             ELSE Narrow /\ GoesOn
  /\ UNCHANGED <<use, table, kind, who, key, up, from>>

Statement(p) ==
  \/ \E v \in Counts : WriteCount(p, v)
  \/ \E v \in Counts : SetOdo(p, v)
  \/ \E i \in 0..(Top + 1) : SetIndex(p, i)
  \/ \E i \in 0..(Top + 1), x \in Data : WriteItem(p, i, x)
  \/ Reset(p)
  \/ \E x \in Data : StartSerial(p, x)
  \/ \E x \in Data, ascending \in BOOLEAN : StartAll(p, x, ascending)

\* A statement that ended with an error ends the run.
Next == Probe \/ \E p \in Programs : Statement(p)

\* A SEARCH is a loop of the runtime: it goes on once begun.
Spec == Init /\ [][Next]_vars /\ WF_vars(Probe)

-----------------------------------------------------------------------------
\* The variables have their types.
TypeOK ==
  /\ use \in Profiles
  /\ count \in [Programs -> Int]
  /\ active \in [Programs -> Nat] /\ pool \in [Programs -> Nat]
  /\ cells \in [Programs -> [Occ -> Data \cup {Absent}]]
  /\ touched \in [Programs -> SUBSET Occ]
  /\ index \in [Programs -> 0..Top]
  /\ kind \in {"none", "serial", "all"} /\ who \in Programs
  /\ key \in Data /\ up \in BOOLEAN
  /\ low \in Nat /\ high \in Nat /\ from \in Nat
  /\ outcome \in {"none", "open", "found", "at end"} /\ failed \in BOOLEAN

\* Every active occurrence has a cell, and the table is within its OCCURS
\* clause, whatever grew, shrank, reset or half-failed before.
ActiveCellsExist ==
  \A p \in Programs :
    /\ InRange(p, pool[p]) /\ InRange(p, active[p])
    /\ \A i \in 1..pool[p] : cells[p][i] # Absent

\* An occurrence that became active again holds its VALUE clause and nothing
\* of what it held before it was cut off.
FreshUntilWritten ==
  \A p \in Programs :
    /\ touched[p] \subseteq 1..pool[p]
    /\ \A i \in Occ \ touched[p] : cells[p][i] \in {Value, Absent}

\* Programs that are not reset, whose tables bear names of their own and that
\* do not bypass the counter.
Plain == use = [shared |-> FALSE, reset |-> FALSE, setodo |-> FALSE]

\* In such programs the counter, the runtime and the pool agree on how many
\* occurrences there are, until a count is rejected.
CountsAgree ==
  Plain /\ ~failed =>
    \A p \in Programs : count[p] = active[p] /\ active[p] = pool[p]

Matches(n) == {i \in from..n : cells[who][i] = key}

Sorted ==
  \A i, j \in 1..active[who] :
    i < j /\ Absent \notin {cells[who][i], cells[who][j]} =>
      IF up THEN cells[who][i] <= cells[who][j]
      ELSE cells[who][i] >= cells[who][j]

\* SEARCH finds the first match at or after the index and SEARCH ALL a match
\* of a sorted table, if there is one among the active occurrences; each leaves
\* the index at what it found.
SearchIsRight ==
  /\ outcome = "found" =>
       /\ index[who] \in Matches(active[who])
       /\ kind = "serial" => Matches(index[who] - 1) = {}
  /\ outcome = "at end" /\ (kind = "all" => Sorted) =>
       Matches(active[who]) = {}

\* In programs where the counts agree a SEARCH never runs off the active
\* occurrences, whatever the counter did since the index was set.
SearchNeverFails == [][Plain /\ outcome = "open" => ~failed']_vars

\* A SEARCH ends, in a sorted table or not: each step leaves less to look at.
SearchEnds == (outcome = "open") ~> (outcome # "open")
=============================================================================
