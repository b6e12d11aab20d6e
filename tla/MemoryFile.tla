----------------------------- MODULE MemoryFile -----------------------------
(***************************************************************************)
(* A file of VmFileRuntime whose backing is VmFileBacking::Memory: the     *)
(* vector of records and the bookkeeping of struct VmFile.  cursor and     *)
(* last_record_index count from 0, as in the code.                         *)
(***************************************************************************)
EXTENDS Integers, Sequences, SequencesExt

CONSTANTS
  Record,      \* the records a program writes: sequences, <<>> may be one
  MaxRecords   \* bound on the length of the file

ASSUME MemoryFileAssumption ==
  /\ \A r \in Record : Len(r) \in Nat
  /\ MaxRecords \in Nat

VARIABLES
  records, open_mode, cursor, last_record_index, last_record_len, last_status,
  got,         \* what the last request delivered: {record} or {}
  current      \* history: the record delivered by the READ that set
               \* last_record_index

vars == <<records, open_mode, cursor, last_record_index, last_record_len,
          last_status, got, current>>

NoIndex == -1
NoLen   == -1

\* Mutant: the current record is never forgotten.
Forget_Never == UNCHANGED <<last_record_index, last_record_len>>

Forget == last_record_index' = NoIndex /\ last_record_len' = NoLen

\* A request turned down by the state of the file: status 90.
Refused ==
  /\ last_status' = "90" /\ got' = {}
  /\ UNCHANGED <<records, open_mode, cursor, last_record_index,
                 last_record_len, current>>

Init ==
  /\ records \in UNION {[1..n -> Record] : n \in 0..MaxRecords}
  /\ open_mode = "CLOSED" /\ cursor = 0
  /\ last_record_index = NoIndex /\ last_record_len = NoLen
  /\ last_status = "NONE" /\ got = {} /\ current = <<>>

Open(m) ==
  /\ records' = IF m = "OUTPUT" THEN <<>> ELSE records
  /\ open_mode' = m /\ cursor' = 0 /\ Forget
  /\ last_status' = "00" /\ got' = {}
  /\ UNCHANGED current

ReadRefused == open_mode \notin {"INPUT", "IO"} /\ Refused

ReadRecord ==
  /\ open_mode \in {"INPUT", "IO"} /\ cursor < Len(records)
  /\ got' = {records[cursor + 1]} /\ current' = records[cursor + 1]
  /\ cursor' = cursor + 1
  /\ last_record_index' = cursor
  /\ last_record_len' = Len(records[cursor + 1])
  /\ last_status' = "00"
  /\ UNCHANGED <<records, open_mode>>

ReadAtEnd ==
  /\ open_mode \in {"INPUT", "IO"} /\ cursor >= Len(records)
  /\ Forget
  /\ last_status' = "10" /\ got' = {}
  /\ UNCHANGED <<records, open_mode, cursor, current>>

Read == ReadRefused \/ ReadRecord \/ ReadAtEnd

Write(r) ==
  \/ open_mode \notin {"OUTPUT", "IO", "EXTEND"} /\ Refused
  \/ /\ open_mode \in {"OUTPUT", "IO", "EXTEND"}
     /\ Len(records) < MaxRecords
     /\ records' = Append(records, r)
     /\ last_status' = "00" /\ got' = {}
     /\ UNCHANGED <<open_mode, cursor, last_record_index, last_record_len,
                    current>>

\* records.get_mut(idx) and idx >= records.len(): the current record exists.
HasCurrent ==
  last_record_index # NoIndex /\ last_record_index < Len(records)

Rewrite(r) ==
  \/ ~(open_mode = "IO" /\ HasCurrent) /\ Refused
  \/ /\ open_mode = "IO" /\ HasCurrent
     /\ records' = [records EXCEPT ![last_record_index + 1] = r]
     /\ Forget
     /\ last_status' = "00" /\ got' = {}
     /\ UNCHANGED <<open_mode, cursor, current>>

CanDelete == open_mode = "IO" /\ HasCurrent /\ last_record_len > 0

\* Mutant: DELETE does not step the cursor back.
AfterDelete_Stays == cursor

AfterDelete == last_record_index            \* idx.min(records.len())

Delete ==
  \/ ~CanDelete /\ Refused
  \/ /\ CanDelete
     /\ records' = RemoveAt(records, last_record_index + 1)
     /\ cursor' = AfterDelete
     /\ Forget
     /\ last_status' = "00" /\ got' = {}
     /\ UNCHANGED <<open_mode, current>>

Close ==
  /\ open_mode' = "CLOSED"
  /\ last_status' = "00" /\ got' = {}
  /\ UNCHANGED <<records, cursor, last_record_index, last_record_len, current>>

\* reset_lifecycle_file: an INITIAL program is called again.
ResetLifecycle ==
  /\ open_mode' = "CLOSED" /\ cursor' = 0 /\ Forget
  /\ got' = {}
  /\ UNCHANGED <<records, last_status, current>>

Next ==
  \/ \E m \in {"INPUT", "OUTPUT", "IO", "EXTEND"} : Open(m)
  \/ Read
  \/ \E r \in Record : Write(r) \/ Rewrite(r)
  \/ Delete \/ Close \/ ResetLifecycle

Spec == Init /\ [][Next]_vars

-----------------------------------------------------------------------------
TypeOK ==
  /\ records \in Seq(Record)
  /\ open_mode \in {"CLOSED", "INPUT", "OUTPUT", "IO", "EXTEND"}
  /\ cursor \in Nat
  /\ last_record_index \in Nat \cup {NoIndex}
  /\ last_record_len \in Nat \cup {NoLen}
  /\ last_status \in {"NONE", "00", "10", "90"}
  /\ got \in {{}, {current}}

\* The record REWRITE replaces and DELETE removes is the one the last
\* successful READ delivered, still in its place, whatever WRITEs, REWRITEs,
\* DELETEs and OPENs came between; a last_record_index never dangles.
CurrentIsInPlace ==
  /\ TypeOK
  /\ last_record_index # NoIndex =>
       /\ last_record_index < Len(records) /\ last_record_index < cursor
       /\ records[last_record_index + 1] = current
       /\ last_record_len = Len(current)

\* The in-memory file keeps the promise of a sequential file.
File == INSTANCE SequentialFile WITH
  content <- records,
  mode    <- open_mode,
  next    <- IF open_mode = "CLOSED" THEN 0 ELSE cursor,
  last    <- IF open_mode = "CLOSED" THEN NoIndex ELSE last_record_index,
  status  <- last_status

RefinesSequentialFile == File!Spec
=============================================================================
