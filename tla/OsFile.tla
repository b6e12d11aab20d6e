------------------------------- MODULE OsFile -------------------------------
(***************************************************************************)
(* A file of VmFileRuntime whose backing is VmFileBacking::OsSequential:   *)
(* bytes in a file of the operating system, reached through a handle that  *)
(* has a position of its own, and the bookkeeping of struct VmFile.        *)
(*                                                                         *)
(* The two notions of "where we are" are the subject of the module: READ   *)
(* takes the bytes at the handle's position, while REWRITE and DELETE      *)
(* address the record by last_record_index, which READ took from cursor.   *)
(*                                                                         *)
(* Each request may also meet an error of the operating system (use.errors)*)
(* after part of its effect has reached the disk; flushing a std::fs::File *)
(* is a no-op, so no flush error is modelled.                              *)
(***************************************************************************)
EXTENDS Integers, Sequences, SequencesExt

CONSTANTS
  Byte,          \* the bytes of records
  Zero,          \* what the gap holds when a write starts past the end
  Profiles,      \* the surroundings a file may be used in, see `use'
  InitialDisks,  \* what the path may hold at the start (NoFile included)
  NoFile,        \* the path does not exist
  MaxBytes,      \* bound on the length of the file
  MaxCursor      \* bound on cursor

\* A profile fixes what does not change while the file is in use: the
\* platform_disposition, the record lengths the program reads and writes
\* with, the verbs it uses on a file open I-O, and whether a request may fail
\* in the operating system.
Dispositions == {"NONE", "OLD", "SHR", "NEW", "MOD"}

ASSUME OsFileAssumption ==
  /\ Zero \notin Byte
  /\ \A u \in Profiles : /\ u.disposition \in Dispositions
                         /\ u.lens \subseteq Nat \ {0}
                         /\ u.verbs \subseteq {"write", "rewrite", "delete"}
                         /\ u.errors \in BOOLEAN
  /\ InitialDisks \subseteq {NoFile} \cup Seq(Byte)
  /\ NoFile \notin Seq(Byte \cup {Zero})
  /\ MaxBytes \in Nat /\ MaxCursor \in Nat

VARIABLES
  use,           \* the profile the file is used in; never changes
  disk,          \* the bytes at path, or NoFile
  handle,        \* position of the open handle, NoHandle when there is none
  open_mode, cursor, last_record_index, last_record_len, fixed_record_len,
  last_status,
  got,           \* what the last request delivered: {record} or {}
  current        \* history: the record delivered by the READ that set
                 \* last_record_index

vars == <<use, disk, handle, open_mode, cursor, last_record_index,
          last_record_len, fixed_record_len, last_status, got, current>>

NoHandle == -1
NoIndex  == -1
NoLen    == -1

Bytes  == IF disk = NoFile THEN <<>> ELSE disk
Record == UNION {[1..n -> Byte] : n \in use.lens}

\* The bytes d with b put at offset off, zeros filling any gap before it.
PutAt(d, off, b) ==
  [i \in 1..(IF off + Len(b) > Len(d) THEN off + Len(b) ELSE Len(d)) |->
     IF i > off /\ i <= off + Len(b) THEN b[i - off]
     ELSE IF i <= Len(d) THEN d[i] ELSE Zero]

\* The bytes d without the n bytes from offset off.
\* Mutant: the tail is taken one byte too late.
CutAt_LateTail(d, off, n) ==
  SubSeq(d, 1, off) \o SubSeq(d, off + n + 2, Len(d))

CutAt(d, off, n) == SubSeq(d, 1, off) \o SubSeq(d, off + n + 1, Len(d))

\* Mutant: the current record is never forgotten.
Forget_Never == UNCHANGED <<last_record_index, last_record_len>>

Forget == last_record_index' = NoIndex /\ last_record_len' = NoLen

Refused(s) == last_status' = s /\ got' = {}

\* Mutant: the disposition is not consulted.
Allowed_Always(m) == m \in {"INPUT", "OUTPUT", "IO", "EXTEND"}

Allowed(m) ==                               \* validate_platform_open_mode
  CASE use.disposition = "NONE" -> TRUE
    [] use.disposition \in {"OLD", "SHR"} -> m \in {"INPUT", "IO"}
    [] use.disposition = "NEW" -> m = "OUTPUT"
    [] use.disposition = "MOD" -> m = "EXTEND"

Init ==
  /\ use \in Profiles /\ disk \in InitialDisks
  /\ handle = NoHandle /\ open_mode = "CLOSED" /\ cursor = 0
  /\ last_record_index = NoIndex /\ last_record_len = NoLen
  /\ fixed_record_len \in {NoLen} \cup use.lens
  /\ last_status = "NONE" /\ got = {} /\ current = <<>>

-----------------------------------------------------------------------------
(* OPEN.  Cursor and current record are reset before anything is checked;  *)
(* a refused OPEN leaves an earlier handle in place.                       *)

OpenResets == /\ cursor' = 0 /\ Forget /\ got' = {}
              /\ UNCHANGED <<use, fixed_record_len, current>>

OpenFails(s) == /\ OpenResets
                /\ open_mode' = "CLOSED" /\ last_status' = s
                /\ UNCHANGED handle

OpenNotAllowed(m) == ~Allowed(m) /\ OpenFails("90") /\ UNCHANGED disk

OpenMissing(m) ==
  /\ Allowed(m) /\ m \in {"INPUT", "IO"} /\ disk = NoFile
  /\ OpenFails("35") /\ UNCHANGED disk

\* The operating system refuses, or opens the file and then fails to seek:
\* by then OUTPUT has truncated it and EXTEND has created it.
OpenIoError(m) ==
  /\ use.errors /\ Allowed(m)
  /\ \/ \E s \in {"30", "37"} : OpenFails(s) /\ UNCHANGED disk
     \/ /\ OpenFails("30")
        /\ m \in {"INPUT", "IO"} => disk # NoFile
        /\ disk' = CASE m = "OUTPUT" -> <<>>
                     [] m = "EXTEND" -> Bytes
                     [] OTHER -> disk

\* Mutant: every mode seeks to the end.
StartPosition_End(m) == Len(Bytes)

StartPosition(m) == IF m = "EXTEND" THEN Len(Bytes) ELSE 0

OpenOk(m) ==
  /\ Allowed(m)
  /\ m \in {"INPUT", "IO"} => disk # NoFile
  /\ disk' = CASE m = "OUTPUT" -> <<>> [] m = "EXTEND" -> Bytes
               [] OTHER -> disk
  /\ handle' = StartPosition(m)
  /\ open_mode' = m /\ last_status' = "00"
  /\ OpenResets

Open(m) == OpenNotAllowed(m) \/ OpenMissing(m) \/ OpenIoError(m) \/ OpenOk(m)

-----------------------------------------------------------------------------
(* READ of n bytes, n > 0.  The first READ fixes the record length.        *)

ReadLen(n) == IF fixed_record_len = NoLen THEN n ELSE fixed_record_len

ReadRefused(n) ==
  /\ \/ open_mode \notin {"INPUT", "IO"}
     \/ fixed_record_len # NoLen /\ n # fixed_record_len
     \/ handle = NoHandle
  /\ Refused("90")
  /\ UNCHANGED <<use, disk, handle, open_mode, cursor, last_record_index,
                 last_record_len, fixed_record_len, current>>

CanRead(n) ==
  /\ open_mode \in {"INPUT", "IO"} /\ handle # NoHandle
  /\ fixed_record_len # NoLen => n = fixed_record_len

ReadWhole(n) ==
  /\ CanRead(n) /\ handle + ReadLen(n) <= Len(Bytes)
  /\ cursor < MaxCursor
  /\ got' = {SubSeq(Bytes, handle + 1, handle + ReadLen(n))}
  /\ current' = SubSeq(Bytes, handle + 1, handle + ReadLen(n))
  /\ handle' = handle + ReadLen(n)
  /\ cursor' = cursor + 1
  /\ last_record_index' = cursor /\ last_record_len' = ReadLen(n)
  /\ fixed_record_len' = ReadLen(n)
  /\ last_status' = "00"
  /\ UNCHANGED <<use, disk, open_mode>>

ReadAtEnd(n) ==
  /\ CanRead(n) /\ handle >= Len(Bytes)
  /\ Refused("10") /\ Forget
  /\ UNCHANGED <<use, disk, handle, open_mode, cursor, fixed_record_len,
                 current>>

ReadPartial(n) ==
  /\ CanRead(n)
  /\ handle < Len(Bytes) /\ handle + ReadLen(n) > Len(Bytes)
  /\ Refused("30") /\ Forget
  /\ handle' = Len(Bytes)
  /\ UNCHANGED <<use, disk, open_mode, cursor, fixed_record_len, current>>

ReadIoError(n) ==
  /\ use.errors /\ CanRead(n)
  /\ handle' \in {p \in handle..(handle + ReadLen(n) - 1) :
                    p = handle \/ p <= Len(Bytes)}
  /\ Refused("30") /\ Forget
  /\ UNCHANGED <<use, disk, open_mode, cursor, fixed_record_len, current>>

Read(n) == ReadRefused(n) \/ ReadWhole(n) \/ ReadAtEnd(n) \/ ReadPartial(n)
             \/ ReadIoError(n)

-----------------------------------------------------------------------------
(* WRITE appends at the end of the file whatever the mode, and leaves the  *)
(* handle there.  It checks no record length.                              *)

UsesIo(verb) == open_mode = "IO" => verb \in use.verbs

WriteRefused(r) ==
  /\ open_mode \notin {"OUTPUT", "IO", "EXTEND"} \/ handle = NoHandle
  /\ Refused("90")
  /\ UNCHANGED <<use, disk, handle, open_mode, cursor, last_record_index,
                 last_record_len, fixed_record_len, current>>

CanWrite(r) ==
  /\ open_mode \in {"OUTPUT", "IO", "EXTEND"} /\ handle # NoHandle
  /\ UsesIo("write") /\ Len(Bytes) + Len(r) <= MaxBytes

WriteOk(r) ==
  /\ CanWrite(r) /\ cursor < MaxCursor
  /\ disk' = Bytes \o r
  /\ handle' = Len(Bytes) + Len(r)
  /\ cursor' = cursor + 1
  /\ last_status' = "00" /\ got' = {}
  /\ UNCHANGED <<use, open_mode, last_record_index, last_record_len,
                 fixed_record_len, current>>

WriteIoError(r) ==
  /\ use.errors /\ CanWrite(r)
  /\ \/ UNCHANGED <<disk, handle>>                     \* seek
     \/ \E k \in 0..Len(r) : /\ disk' = Bytes \o SubSeq(r, 1, k)
                             /\ handle' = Len(Bytes) + k
  /\ Refused("30")
  /\ UNCHANGED <<use, open_mode, cursor, last_record_index, last_record_len,
                 fixed_record_len, current>>

Write(r) == WriteRefused(r) \/ WriteOk(r) \/ WriteIoError(r)

-----------------------------------------------------------------------------
(* REWRITE puts r where the last read record is said to be.                *)

RewriteLen(r) == IF fixed_record_len # NoLen THEN fixed_record_len
                 ELSE IF last_record_len # NoLen THEN last_record_len
                 ELSE Len(r)

CanRewrite(r) ==
  /\ open_mode = "IO" /\ handle # NoHandle
  /\ last_record_index # NoIndex /\ Len(r) = RewriteLen(r)

RewriteRefused(r) ==
  /\ ~CanRewrite(r)
  /\ Refused("90")
  /\ UNCHANGED <<use, disk, handle, open_mode, cursor, last_record_index,
                 last_record_len, fixed_record_len, current>>

RewriteOffset(r) == last_record_index * RewriteLen(r)

RewriteOk(r) ==
  /\ CanRewrite(r) /\ UsesIo("rewrite")
  /\ RewriteOffset(r) + Len(r) <= MaxBytes
  /\ disk' = PutAt(Bytes, RewriteOffset(r), r)
  /\ handle' = RewriteOffset(r) + Len(r)
  /\ Forget
  /\ last_status' = "00" /\ got' = {}
  /\ UNCHANGED <<use, open_mode, cursor, fixed_record_len, current>>

RewriteIoError(r) ==
  /\ use.errors /\ CanRewrite(r) /\ UsesIo("rewrite")
  /\ RewriteOffset(r) + Len(r) <= MaxBytes
  /\ \/ UNCHANGED <<disk, handle>>                     \* seek
     \/ \E k \in 0..Len(r) :
          /\ disk' = IF k = 0 THEN disk
                     ELSE PutAt(Bytes, RewriteOffset(r), SubSeq(r, 1, k))
          /\ handle' = RewriteOffset(r) + k
  /\ Refused("30")
  /\ UNCHANGED <<use, open_mode, cursor, last_record_index, last_record_len,
                 fixed_record_len, current>>

Rewrite(r) == RewriteRefused(r) \/ RewriteOk(r) \/ RewriteIoError(r)

-----------------------------------------------------------------------------
(* DELETE moves the bytes after the record down over it and truncates.     *)

DeleteLen == IF last_record_len # NoLen THEN last_record_len
             ELSE fixed_record_len
DeleteOffset == last_record_index * DeleteLen

CanDelete ==
  /\ open_mode = "IO" /\ handle # NoHandle
  /\ last_record_index # NoIndex /\ DeleteLen > 0

DeleteRefused ==
  /\ ~CanDelete
  /\ Refused("90")
  /\ UNCHANGED <<use, disk, handle, open_mode, cursor, last_record_index,
                 last_record_len, fixed_record_len, current>>

\* The current record is said to be past the end: the handle was moved there.
DeleteOutside ==
  /\ CanDelete /\ UsesIo("delete")
  /\ DeleteOffset + DeleteLen > Len(Bytes)
  /\ handle' = Len(Bytes)
  /\ Refused("90")
  /\ UNCHANGED <<use, disk, open_mode, cursor, last_record_index,
                 last_record_len, fixed_record_len, current>>

Rest(d) == SubSeq(d, DeleteOffset + DeleteLen + 1, Len(d))

DeleteOk ==
  /\ CanDelete /\ UsesIo("delete")
  /\ DeleteOffset + DeleteLen <= Len(Bytes)
  /\ disk' = CutAt(Bytes, DeleteOffset, DeleteLen)
  /\ handle' = Len(Bytes) - DeleteLen       \* after write_all(&tail)
  /\ cursor' = last_record_index
  /\ Forget
  /\ last_status' = "00" /\ got' = {}
  /\ UNCHANGED <<use, open_mode, fixed_record_len, current>>

\* A seek or the read of the tail fails, or write_all stops after k bytes of
\* the tail, or all of it was moved and the file could not be truncated.
DeleteIoError ==
  /\ use.errors /\ CanDelete /\ UsesIo("delete")
  /\ DeleteOffset + DeleteLen <= Len(Bytes)
  /\ \/ /\ handle' \in {handle, Len(Bytes), DeleteOffset + DeleteLen}
        /\ UNCHANGED disk
     \/ \E k \in 0..Len(Rest(Bytes)) :
          /\ disk' = PutAt(Bytes, DeleteOffset, SubSeq(Rest(Bytes), 1, k))
          /\ handle' = DeleteOffset + k
  /\ Refused("30")
  /\ UNCHANGED <<use, open_mode, cursor, last_record_index, last_record_len,
                 fixed_record_len, current>>

Delete == DeleteRefused \/ DeleteOutside \/ DeleteOk \/ DeleteIoError

-----------------------------------------------------------------------------
(* CLOSE drops the handle; reset_lifecycle_file does the same when an      *)
(* INITIAL program is called again, and forgets the position too.          *)

Close ==
  /\ handle' = NoHandle /\ open_mode' = "CLOSED"
  /\ last_status' = "00" /\ got' = {}
  /\ UNCHANGED <<use, disk, cursor, last_record_index, last_record_len,
                 fixed_record_len, current>>

ResetLifecycle ==
  /\ handle' = NoHandle /\ open_mode' = "CLOSED"
  /\ cursor' = 0 /\ Forget
  /\ got' = {}
  /\ UNCHANGED <<use, disk, fixed_record_len, last_status, current>>

Next ==
  \/ \E m \in {"INPUT", "OUTPUT", "IO", "EXTEND"} : Open(m)
  \/ \E n \in use.lens : Read(n)
  \/ \E r \in Record : Write(r) \/ Rewrite(r)
  \/ Delete \/ Close \/ ResetLifecycle

Spec == Init /\ [][Next]_vars

-----------------------------------------------------------------------------
TypeOK ==
  /\ use \in Profiles
  /\ disk = NoFile \/ disk \in Seq(Byte \cup {Zero})
  /\ handle \in Nat \cup {NoHandle}
  /\ open_mode \in {"CLOSED", "INPUT", "OUTPUT", "IO", "EXTEND"}
  /\ cursor \in Nat
  /\ last_record_index \in Nat \cup {NoIndex}
  /\ last_record_len \in Nat \cup {NoLen}
  /\ fixed_record_len \in Nat \cup {NoLen}
  /\ last_status \in {"NONE", "00", "10", "30", "35", "37", "90"}
  /\ got \in {{}, {current}}

\* The bookkeeping is well typed and consistent with the handle: an open file
\* has one, a current record was really counted by the cursor, and READ has
\* fixed the record length REWRITE and DELETE compute their offset with.
BookkeepingAgrees ==
  /\ TypeOK
  /\ open_mode # "CLOSED" => handle # NoHandle
  /\ last_record_index # NoIndex =>
       /\ last_record_index < cursor
       /\ last_record_len = fixed_record_len /\ fixed_record_len # NoLen

Slots(d, n) == 0..(Len(d) \div n - 1)
Slot(d, n, i) == SubSeq(d, i * n + 1, (i + 1) * n)

\* The record REWRITE would replace and DELETE would remove is the one the
\* last successful READ delivered, as it stands on the disk.
CurrentIsOnDisk ==
  open_mode = "IO" /\ last_record_index # NoIndex =>
    /\ (last_record_index + 1) * last_record_len <= Len(Bytes)
    /\ Slot(Bytes, last_record_len, last_record_index) = current

\* So it is for every program that does not both WRITE and REWRITE in I-O
\* mode, as long as no request is stopped half way.
CurrentIsOnDiskUnlessMixed ==
  ~({"write", "rewrite"} \subseteq use.verbs) /\ ~use.errors => CurrentIsOnDisk

\* For a program that updates by REWRITE alone, cursor counts the bytes
\* before the handle in records (restored_os_file_offset puts the handle back
\* by it; a truncated last record is where the two may part), and READ
\* reports the end of the file only after every whole record.
CursorLocatesHandle ==
  use.verbs \subseteq {"rewrite"} /\ ~use.errors
    /\ open_mode \in {"INPUT", "IO"} /\ fixed_record_len # NoLen =>
      /\ \/ handle = cursor * fixed_record_len
         \/ handle = Len(Bytes) /\ Len(Bytes) % fixed_record_len # 0
      /\ last_status = "10" => Len(Bytes) < (cursor + 1) * fixed_record_len

\* A REWRITE or DELETE that succeeds, or that the operating system stops
\* half way, loses none of the records beside the current one.
UpdateLosesNoOther ==
  [][(\E r \in Record : Rewrite(r)) \/ Delete =>
       \A i \in Slots(Bytes, last_record_len) \ {last_record_index} :
         \E j \in Slots(Bytes', last_record_len) :
           Slot(Bytes', last_record_len, j) = Slot(Bytes, last_record_len, i)
    ]_vars

\* A dataset bound with disposition MOD only ever grows at its end; one
\* bound OLD or SHR changes only under updates of a file open I-O.
DispositionProtects ==
  [][/\ use.disposition = "MOD" => IsPrefix(Bytes, Bytes')
     /\ use.disposition \in {"OLD", "SHR"} /\ open_mode # "IO" => disk' = disk
    ]_vars

\* The file as a sequence of records, when the program keeps to one length.
RecLen == CHOOSE n \in use.lens : TRUE

AnyRecord == UNION {[1..n -> Byte] : n \in UNION {u.lens : u \in Profiles}}

File == INSTANCE SequentialFile WITH
  Record  <- AnyRecord,
  content <- [i \in 1..(Len(Bytes) \div RecLen) |-> Slot(Bytes, RecLen, i - 1)],
  mode    <- open_mode,
  next    <- IF open_mode \in {"INPUT", "IO"} THEN handle \div RecLen ELSE 0,
  last    <- IF open_mode = "CLOSED" THEN NoIndex ELSE last_record_index,
  status  <- last_status

KeepsToRewrite ==
  /\ use.verbs \subseteq {"rewrite"} /\ ~use.errors /\ use.lens = {RecLen}
  /\ disk # NoFile => Len(disk) % RecLen = 0

\* Every request of such a program, on a file of whole records, is a step of
\* the abstract sequential file.
RefinesSequentialFile ==
  [][KeepsToRewrite => File!Next \/ UNCHANGED File!vars]_vars
=============================================================================
