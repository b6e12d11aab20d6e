------------------------------- MODULE Rerun -------------------------------
(***************************************************************************)
(* RERUN: checkpoints of VmRuntime and the restart from them.              *)
(*                                                                         *)
(* A job reads MASTER (a file of the operating system), accounts for each  *)
(* record in its storage and writes it to OUT.  Every so many successful   *)
(* READs of MASTER the runtime appends a snapshot of itself to the tape    *)
(* JUNK: storage, counters, and the cursor, records or fingerprint of      *)
(* every file.  When the process dies, or ends with an error, the host     *)
(* calls restore_last_rerun_checkpoint and goes on with the job.           *)
(*                                                                         *)
(* The snapshot does not hold the position in the procedure, so the job is *)
(* one that decides from its storage what to do next; that job, and the    *)
(* host that starts and restarts it, are the surroundings of the model.    *)
(***************************************************************************)
EXTENDS Integers, Sequences, SequencesExt, FiniteSets

CONSTANTS
  Versions,     \* the contents the host may give to MASTER
  Count,        \* the number of records of MASTER
  Profiles,     \* the surroundings, see `use'
  BadImage,     \* a tape image read_tape_image rejects
  NoSnapshot,
  MaxCrashes    \* bound on deaths and abends

\* The records of MASTER, and what a checkpoint holds: storage, counters, and
\* for the files a cursor, the records in memory, fingerprints, or the number
\* of checkpoints before this one.
Records == Versions \X (1..Count)

Snapshots ==
  [area : Records, ledger : Seq(Records), written : 0..Count,
   cursor : 0..Count, counts : Seq(0..Count), out : Seq(Records),
   print : Versions \X Seq(Records), earlier : Nat]

\* A profile fixes the backing and mode of OUT, the intervals of the RERUN
\* clauses on MASTER, whether JUNK is opened EXTEND (keep) or OUTPUT, whether
\* a crash may cut a write short (torn) and whether the host may put another
\* version of MASTER in place while the job is down (replace).
ASSUME RerunAssumption ==
  /\ BadImage \notin Seq(Snapshots)
  /\ Count \in Nat /\ MaxCrashes \in Nat
  /\ \A u \in Profiles :
       /\ u.out \in {"TAPE", "MEM", "OS EXTEND", "OS OUTPUT"}
       /\ u.every \in Seq(Nat \ {0})
       /\ {u.keep, u.torn, u.replace} \subseteq BOOLEAN

VARIABLES
  use, phase, crashes,
  master,                        \* the version of MASTER on the disk
  out_disk, junk_disk,           \* what OUT and JUNK hold on the disk
  area, ledger, written,         \* storage: the record area of MASTER, the
                                 \* records accounted for, how many are on OUT
  cursor,                        \* of MASTER
  counts,                        \* record_count of each VmRerunCheckpoint
  out_records, junk_records,     \* the vectors of OUT and JUNK in memory
  taken                          \* history: the last checkpoint taken

disks   == <<master, out_disk, junk_disk>>
storage == <<area, ledger, written>>
runtime == <<area, ledger, written, cursor, counts, out_records, junk_records>>
vars    == <<use, phase, crashes, disks, runtime, taken>>

NoRecord == <<>>
OnOs     == use.out \in {"OS EXTEND", "OS OUTPUT"}

\* What OUT holds, for the running program.
Out == IF OnOs THEN out_disk ELSE out_records

\* A fresh VmRuntime: VALUE clauses, nothing open.
Fresh ==
  /\ area' = NoRecord /\ ledger' = <<>> /\ written' = 0 /\ cursor' = 0
  /\ counts' = [i \in DOMAIN use.every |-> 0]
  /\ out_records' = <<>> /\ junk_records' = <<>>

Init ==
  /\ use \in Profiles /\ phase = "new" /\ crashes = 0
  /\ master \in Versions /\ out_disk = <<>> /\ junk_disk = <<>>
  /\ area = NoRecord /\ ledger = <<>> /\ written = 0 /\ cursor = 0
  /\ counts = [i \in DOMAIN use.every |-> 0]
  /\ out_records = <<>> /\ junk_records = <<>>
  /\ taken = NoSnapshot

\* The job from its beginning, for the first time or because there is nothing
\* to restart from; what an earlier attempt left on OUT is then removed.  OPEN
\* EXTEND of a JUNK that cannot be read is an error.
StartJob ==
  /\ phase \in {"new", "refused"}
  /\ use.keep => junk_disk # BadImage
  /\ area' = NoRecord /\ ledger' = <<>> /\ written' = 0 /\ cursor' = 0
  /\ counts' = [i \in DOMAIN use.every |-> 0]
  /\ out_records' = <<>> /\ out_disk' = <<>>
  /\ junk_disk' = IF use.keep THEN junk_disk ELSE <<>>
  /\ junk_records' = junk_disk'
  /\ phase' = "running" /\ taken' = NoSnapshot
  /\ UNCHANGED <<use, crashes, master>>

-----------------------------------------------------------------------------
(* READ MASTER INTO area, and the checkpoints it triggers.                 *)

Due == {i \in DOMAIN counts : counts'[i] % use.every[i] = 0}

\* Mutant: the counters are saved as they were before this READ.
SavedCounts_Before == counts

SavedCounts == counts'

\* checkpoint_snapshot_bytes, at the end of the READ.  `earlier' stands for
\* the records of JUNK in the snapshot: the checkpoints before this one.
Snapshot ==
  [area |-> area', ledger |-> ledger', written |-> written',
   cursor |-> cursor', counts |-> SavedCounts, out |-> out_records,
   print |-> <<master, IF OnOs THEN out_disk ELSE <<>> >>,
   earlier |-> Len(junk_records)]

MoreRecords == cursor < Count

CanRead == phase = "running" /\ written = cursor /\ MoreRecords

ReadMaster ==
  /\ CanRead
  /\ cursor' = cursor + 1
  /\ area' = <<master, cursor + 1>>
  /\ UNCHANGED <<ledger, written>>
  /\ counts' = [i \in DOMAIN counts |-> counts[i] + 1]
  /\ junk_records' =
       junk_records \o [i \in 1..Cardinality(Due) |-> Snapshot]
  /\ UNCHANGED <<use, master, out_disk, out_records>>

Read ==
  /\ ReadMaster
  /\ junk_disk' = IF Due = {} THEN junk_disk ELSE junk_records'
  /\ taken' = IF Due = {} THEN taken ELSE Snapshot
  /\ UNCHANGED <<phase, crashes>>

Account ==
  /\ phase = "running" /\ Len(ledger) < cursor
  /\ ledger' = Append(ledger, area)
  /\ UNCHANGED <<use, phase, crashes, disks, area, written, cursor, counts,
                 out_records, junk_records, taken>>

CanWrite == phase = "running" /\ written < Len(ledger)

Write ==
  /\ CanWrite
  /\ written' = written + 1
  /\ out_records' = IF OnOs THEN out_records ELSE Append(out_records, area)
  /\ out_disk' = CASE use.out = "TAPE" -> out_records'
                   [] use.out = "MEM" -> out_disk
                   [] OTHER -> Append(out_disk, area)
  /\ UNCHANGED <<use, phase, crashes, master, junk_disk, area, ledger, cursor,
                 counts, junk_records, taken>>

\* READ meets AT END, and the job closes its files.
Finish ==
  /\ phase = "running" /\ cursor = Count /\ written = Count
  /\ phase' = "done"
  /\ out_disk' = IF use.out = "TAPE" THEN out_records ELSE out_disk
  /\ junk_disk' = junk_records
  /\ UNCHANGED <<use, crashes, master, runtime, taken>>

-----------------------------------------------------------------------------
(* The process dies between two requests, or during one that writes a      *)
(* file; or the program ends with an error and the runtime stays alive.    *)

MayFail == crashes < MaxCrashes /\ crashes' = crashes + 1

Crash == /\ phase \in {"running", "abended"} /\ MayFail
         /\ phase' = "down" /\ Fresh
         /\ UNCHANGED <<use, disks, taken>>

Abend == /\ phase = "running" /\ MayFail
         /\ phase' = "abended"
         /\ UNCHANGED <<use, disks, runtime, taken>>

\* What is left of a tape image of the given records when fs::write is cut.
Torn(records) ==
  {BadImage} \cup {SubSeq(records, 1, k) : k \in 0..Len(records)}

\* The write of a checkpoint is cut short: READ passes the error on.
AbendInCheckpoint ==
  /\ use.torn /\ MayFail
  /\ ReadMaster /\ Due # {}
  /\ junk_disk' \in Torn(junk_records')
  /\ phase' = "abended" /\ taken' = NoSnapshot

CrashInCheckpoint ==
  /\ use.torn /\ CanRead /\ MayFail
  /\ \E i \in DOMAIN counts : (counts[i] + 1) % use.every[i] = 0
  /\ junk_disk' \in Torn(junk_records)
  /\ phase' = "down" /\ Fresh
  /\ UNCHANGED <<use, master, out_disk>> /\ taken' = NoSnapshot

CrashInWrite ==
  /\ use.torn /\ CanWrite /\ MayFail
  /\ out_disk' \in CASE use.out = "TAPE" -> Torn(Append(out_records, area))
                     [] use.out = "MEM" -> {out_disk}
                     [] OTHER -> {Append(out_disk, SubSeq(area, 1, 1))}
  /\ phase' = "down" /\ Fresh
  /\ UNCHANGED <<use, master, junk_disk, taken>>

ReplaceMaster ==
  /\ use.replace /\ phase = "down"
  /\ master' \in Versions \ {master}
  /\ UNCHANGED <<use, phase, crashes, out_disk, junk_disk, runtime, taken>>

-----------------------------------------------------------------------------
(* restore_last_rerun_checkpoint: the checkpoints are those of the vector, *)
(* or of the image when the vector is empty.                               *)

Checkpoints == IF junk_records # <<>> THEN junk_records ELSE junk_disk

\* Mutant: the first checkpoint on the tape.
Latest_First == Checkpoints[1]

Latest == Checkpoints[Len(Checkpoints)]

\* Mutant: content that has changed is not noticed.
PrintsAgree_Always(s) == s = s

PrintsAgree(s) == s.print = <<master, IF OnOs THEN out_disk ELSE <<>> >>

\* Mutant: the vector of a tape is left as it is.
RestoredOut_Kept(s) == out_records

RestoredOut(s) == s.out

\* reopen_restored_os_files opens a file that was open OUTPUT with truncate.
RestoredDisk == IF use.out = "OS OUTPUT" THEN <<>> ELSE out_disk

HasCheckpoint == Checkpoints \notin {BadImage, <<>>} /\ PrintsAgree(Latest)

Restore ==
  /\ phase \in {"down", "abended"} /\ HasCheckpoint
  /\ area' = Latest.area /\ ledger' = Latest.ledger
  /\ written' = Latest.written
  /\ cursor' = Latest.cursor /\ counts' = Latest.counts
  /\ out_records' = RestoredOut(Latest)
  /\ junk_records' = SubSeq(Checkpoints, 1, Latest.earlier)
  /\ out_disk' = RestoredDisk
  /\ phase' = "running"
  /\ UNCHANGED <<use, crashes, master, junk_disk, taken>>

\* Mutant: a refusal is not reported, so that the host only tries again.
AfterRefusal_Again == "down"

\* The host is told by the result that it has to start the job anew.
AfterRefusal == "refused"

\* There is no checkpoint, or it is rejected: the runtime is left as it was,
\* but for the tape that has been loaded.
RestoreRefused ==
  /\ phase \in {"down", "abended"} /\ ~HasCheckpoint
  /\ junk_records' =
       IF Checkpoints = BadImage THEN junk_records ELSE Checkpoints
  /\ phase' = AfterRefusal
  /\ UNCHANGED <<use, crashes, disks, storage, cursor, counts, out_records,
                 taken>>

Work == StartJob \/ Read \/ Account \/ Write \/ Finish
          \/ Restore \/ RestoreRefused

Next ==
  \/ Work
  \/ Crash \/ Abend \/ AbendInCheckpoint \/ CrashInCheckpoint \/ CrashInWrite
  \/ ReplaceMaster
  \/ phase = "done" /\ UNCHANGED vars

\* The program goes on while the process lives, and the host restarts it when
\* it does not.
Spec == Init /\ [][Next]_vars /\ WF_vars(Work)

-----------------------------------------------------------------------------
TypeOK ==
  /\ use \in Profiles
  /\ phase \in {"new", "running", "abended", "down", "refused", "done"}
  /\ crashes \in 0..MaxCrashes /\ master \in Versions
  /\ area = NoRecord \/ area \in Records
  /\ cursor \in 0..Count /\ written \in 0..Count
  /\ junk_disk \in {BadImage} \cup Seq(Snapshots)
  /\ junk_records \in Seq(Snapshots)
  /\ \A i \in DOMAIN counts : counts[i] \in 0..Count

Upto(n) == [i \in 1..n |-> <<master, i>>]

\* The storage of a running job, restarted or not, is in step with MASTER: it
\* accounts for every record read, once and in order, up to the one in the
\* record area; and the counters have counted the same READs.
StorageInStep ==
  /\ TypeOK
  /\ phase = "running" =>
       /\ area = IF cursor = 0 THEN NoRecord ELSE <<master, cursor>>
       /\ Len(ledger) \in {cursor - 1, cursor} /\ ledger = Upto(Len(ledger))
       /\ \A i \in DOMAIN counts : counts[i] = cursor

\* OUT is in step with the storage: what the job will write next follows what
\* is there, whatever an attempt before the restart had written.
OutInStep == phase = "running" => Out = Upto(written)

\* A job that ends has put every record on OUT once, whatever interrupted it.
DoneIsComplete ==
  phase = "done" => IF use.out = "MEM" THEN out_records = Upto(Count)
                    ELSE out_disk = Upto(Count)

\* A restart in a new process finds the last checkpoint, as long as nothing it
\* fingerprints has changed and the tape was not cut off by a crash during its
\* own write.  (In the same process it may find an earlier one: the vector it
\* looks in was itself restored, to what it held before the checkpoint.)
RestartFindsCheckpoint ==
  [][(Restore \/ RestoreRefused) /\ phase = "down" /\ taken # NoSnapshot
        /\ PrintsAgree(taken) =>
       phase' = "running" /\ cursor' = taken.cursor /\ written' = taken.written
    ]_vars

\* A restart that succeeds leaves every file as the checkpoint found it.  The
\* one file a restore rewrites is an OUT that was open OUTPUT on the operating
\* system.
RestoreKeepsFiles == [][Restore => UNCHANGED disks]_vars

\* However often it is interrupted, the job is finished in the end.
JobFinishes == <>(phase = "done")
=============================================================================
