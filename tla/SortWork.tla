------------------------------ MODULE SortWork ------------------------------
(***************************************************************************)
(* The work file of a SORT statement with procedures (crates/cobol-vm).    *)
(*                                                                         *)
(* execute_sort_procedure pushes an entry on sort_states, lets the INPUT   *)
(* procedure RELEASE records into it, sorts them, lets the OUTPUT          *)
(* procedure RETURN them, and truncates sort_states.  RELEASE and RETURN   *)
(* act on the last entry, so a SORT inside a procedure of another SORT,    *)
(* also one of a called program, hides the outer one until it is over.     *)
(*                                                                         *)
(* A record is a sequence of bytes; Rank(key) is the value of a key field, *)
(* or BadKey when it is no number.  The operators below are the steps; the *)
(* program that executes them is in ProgramCalls.                          *)
(***************************************************************************)
EXTENDS Integers, Sequences, FiniteSets

CONSTANTS
    Rank(_),    \* the number in the bytes of a key field: decimal, blank = 0
    BadKey,     \* what Rank gives for bytes that are no number
    Blank       \* the byte that fills a record

\* VmSortState: level is the depth of the activation that executes the SORT.
VARIABLES sorts

SortVars == <<sorts>>

Innermost == sorts[Len(sorts)]

\* normalize_record_bytes: cut or filled with blanks to the given length.
Normalized(bytes, len) ==
    [i \in 1..len |-> IF i <= Len(bytes) THEN bytes[i] ELSE Blank]

\* access_paths_match compares the name of the record, not the cell.
NewSort(file, record, len, key, level) ==
    [file |-> file, record |-> record, len |-> len, key |-> key,
     level |-> level, phase |-> "Input", released |-> <<>>, sorted |-> <<>>,
     cursor |-> 0]

\* sort_key_value of the slice that the descriptor names.
KeyValue(record, key) == Rank(SubSeq(record, key.first, key.last))

\* What lets sort_records_by_key succeed: sort_key_slice and sort_key_value of
\* every record.
Sortable(records, key) ==
    \A i \in DOMAIN records :
        /\ key.last <= Len(records[i])
        /\ KeyValue(records[i], key) # BadKey

\* compare_sort_key_value: Less, in the direction of the key.
Before(a, b, key) ==
    IF key.descending THEN KeyValue(b, key) < KeyValue(a, key)
                      ELSE KeyValue(a, key) < KeyValue(b, key)

\* Mutant: equal keys in the opposite order.
Place_Unstable(records, i, key) ==
    1 + Cardinality({j \in DOMAIN records :
            \/ Before(records[j], records[i], key)
            \/ j > i /\ ~Before(records[i], records[j], key)})

\* Vec::sort_by is stable: a record goes behind the earlier records that do
\* not come after it, and behind the later ones that come before it.
Place(records, i, key) ==
    1 + Cardinality({j \in DOMAIN records :
            \/ Before(records[j], records[i], key)
            \/ j < i /\ ~Before(records[i], records[j], key)})

SortedBy(records, key) ==
    [r \in DOMAIN records |->
        records[CHOOSE i \in DOMAIN records : Place(records, i, key) = r]]

-----------------------------------------------------------------------------
\* The entries from the outermost SORT of a level on, which belong to
\* activations that have ended, are cut off.
Truncated(level) ==
    SubSeq(sorts, 1, CHOOSE n \in 0..Len(sorts) :
                         /\ \A i \in 1..n : sorts[i].level < level
                         /\ n < Len(sorts) => sorts[n + 1].level >= level)

WithLast(s) == [sorts EXCEPT ![Len(sorts)] = s]

\* release_sort_record: when it accepts a RELEASE, and its effect.
ReleaseAccepted(record) ==
    /\ sorts # <<>>
    /\ Innermost.phase = "Input"
    /\ Innermost.record = record

Released(bytes) ==
    LET s == Innermost IN
    WithLast([s EXCEPT !.released = Append(@, Normalized(bytes, s.len))])

\* The end of the INPUT procedure: the records are sorted, if there is a key,
\* and the OUTPUT phase begins.
OutputPhase(s) ==
    [s EXCEPT !.phase = "Output", !.cursor = 0,
              !.sorted = IF s.key.given THEN SortedBy(s.released, s.key)
                                        ELSE s.released]

\* return_sort_record: when it accepts a RETURN, whether a record is left, and
\* the record it takes.
ReturnAccepted(file) ==
    /\ sorts # <<>>
    /\ Innermost.phase = "Output"
    /\ Innermost.file = file

HasRecord == Innermost.cursor < Len(Innermost.sorted)

NextRecord == Innermost.sorted[Innermost.cursor + 1]

Taken == WithLast([Innermost EXCEPT !.cursor = @ + 1])

\* The type of an entry.
SortOK(s, Bytes) ==
    /\ s.phase \in {"Input", "Output"}
    /\ s.released \in Seq(Seq(Bytes))
    /\ \A i \in DOMAIN s.released : Len(s.released[i]) = s.len
    /\ s.cursor \in 0..Len(s.sorted)
=============================================================================
