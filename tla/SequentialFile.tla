--------------------------- MODULE SequentialFile ---------------------------
(***************************************************************************)
(* What a COBOL program relies on when it uses a sequential file: the      *)
(* promise behind the VmFileHandler trait of crates/cobol-vm, stated       *)
(* without any of its three backings.  MemoryFile, OsFile and TapeFile     *)
(* are the backings; each is checked against this module.                  *)
(*                                                                         *)
(* A file is a sequence of records.  READ delivers the record at the       *)
(* reading position, and that record stays "current" until a REWRITE or a  *)
(* DELETE has used it up or another READ replaces it.  A request that      *)
(* cannot be served changes no record.                                     *)
(***************************************************************************)
EXTENDS Integers, Sequences, SequencesExt

CONSTANT Record        \* the records a program writes

VARIABLES
  content,   \* the records of the file, in order
  mode,      \* "INPUT", "OUTPUT", "IO", "EXTEND" or "CLOSED"
  next,      \* how many records precede the reading position
  last,      \* index of the current record, NoRecord when there is none
  status,    \* FILE STATUS of the last request
  got        \* what the last request delivered: {record} or {}

vars == <<content, mode, next, last, status, got>>

NoRecord   == -1
OpenModes  == {"INPUT", "OUTPUT", "IO", "EXTEND"}
ReadModes  == {"INPUT", "IO"}
WriteModes == {"OUTPUT", "IO", "EXTEND"}
Refusals   == {"30", "35", "37", "90"}

Init ==
  /\ content \in Seq(Record)
  /\ mode = "CLOSED" /\ next = 0 /\ last = NoRecord
  /\ status = "NONE" /\ got = {}

Open(m) ==
  /\ mode' = m
  /\ content' = IF m = "OUTPUT" THEN <<>> ELSE content
  /\ next' = 0 /\ last' = NoRecord
  /\ status' = "00" /\ got' = {}

Read ==
  /\ mode \in ReadModes
  /\ next < Len(content)
  /\ got' = {content[next + 1]}
  /\ next' = next + 1 /\ last' = next
  /\ status' = "00"
  /\ UNCHANGED <<content, mode>>

ReadAtEnd ==
  /\ mode \in ReadModes
  /\ next >= Len(content)
  /\ last' = NoRecord /\ status' = "10" /\ got' = {}
  /\ UNCHANGED <<content, mode, next>>

Write(r) ==
  /\ mode \in WriteModes
  /\ content' = Append(content, r)
  /\ status' = "00" /\ got' = {}
  /\ UNCHANGED <<mode, next, last>>

\* WRITE ADVANCING: a record, and the advance of the page as one of its own.
WriteBoth(r, s) ==
  /\ mode \in WriteModes
  /\ content' = content \o <<r, s>>
  /\ status' = "00" /\ got' = {}
  /\ UNCHANGED <<mode, next, last>>

Rewrite(r) ==
  /\ mode = "IO" /\ last # NoRecord
  /\ content' = [content EXCEPT ![last + 1] = r]
  /\ last' = NoRecord /\ status' = "00" /\ got' = {}
  /\ UNCHANGED <<mode, next>>

Delete ==
  /\ mode = "IO" /\ last # NoRecord
  /\ content' = RemoveAt(content, last + 1)
  /\ next' = last
  /\ last' = NoRecord /\ status' = "00" /\ got' = {}
  /\ UNCHANGED mode

\* CLOSE, or the reset of an INITIAL program, which reports no status.
Close ==
  /\ mode' = "CLOSED" /\ next' = 0 /\ last' = NoRecord
  /\ status' \in {"00", status} /\ got' = {}
  /\ UNCHANGED content

\* A refused request never touches the records.  A refused OPEN leaves the
\* file closed, a refused READ may drop the current record.
Refuse ==
  /\ status' \in Refusals /\ got' = {}
  /\ \/ mode' = "CLOSED" /\ next' = 0 /\ last' = NoRecord
     \/ UNCHANGED <<mode, next>> /\ last' \in {last, NoRecord}
  /\ UNCHANGED content

Next ==
  \/ \E m \in OpenModes : Open(m)
  \/ Read \/ ReadAtEnd
  \/ \E r \in Record : Write(r) \/ Rewrite(r)
  \/ \E r, s \in Record : WriteBoth(r, s)
  \/ Delete \/ Close \/ Refuse

Spec == Init /\ [][Next]_vars
=============================================================================
