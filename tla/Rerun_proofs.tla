---------------------------- MODULE Rerun_proofs ----------------------------
(***************************************************************************)
(* For every number of records, versions of MASTER, RERUN clauses and      *)
(* interruptions: a running job, restarted or not, is in step with MASTER, *)
(* a restart finds the last checkpoint, and, unless OUT is a file of the   *)
(* operating system open OUTPUT, the job is in step with OUT and complete  *)
(* when it ends.                                                           *)
(*                                                                         *)
(* The invariant says of every checkpoint on JUNK, on the disk or in       *)
(* memory, torn or not, what the properties say of the running job: that   *)
(* it is in step with the files whose print it holds.  A restart then      *)
(* hands over from one to the other.                                       *)
(***************************************************************************)
EXTENDS Rerun, SequenceTheorems, FiniteSetTheorems, TLAPS

\* The first n records of a version of MASTER.
Cut(m, n) == [i \in 1..n |-> <<m, i>>]

\* A snapshot taken at the end of a READ.
GoodSnapshot(u, s) ==
  /\ s \in Snapshots
  /\ s.cursor >= 1 /\ s.written = s.cursor - 1
  /\ s.area = <<s.print[1], s.cursor>>
  /\ s.ledger = Cut(s.print[1], s.written)
  /\ DOMAIN s.counts = DOMAIN u.every
  /\ \A i \in DOMAIN s.counts : s.counts[i] = s.cursor
  /\ u.out # "OS OUTPUT" =>
       (IF u.out = "OS EXTEND" THEN s.print[2] ELSE s.out)
          = Cut(s.print[1], s.written)

\* A tape of snapshots, each of which knows of those before it at most.
Checkpointed(u, t) ==
  /\ t \in Seq(Snapshots)
  /\ \A p \in 1..Len(t) : GoodSnapshot(u, t[p]) /\ t[p].earlier < p

-----------------------------------------------------------------------------
(* The first n records are a sequence of records.                          *)
LEMMA CutType ==
  ASSUME NEW m \in Versions, NEW n \in 0..Count
  PROVE  /\ Cut(m, n) \in Seq(Records) /\ Len(Cut(m, n)) = n
         /\ \A i \in 1..n : Cut(m, n)[i] = <<m, i>>
<1>1. Count \in Nat
  BY RerunAssumption
<1>2. Cut(m, n) \in [1..n -> Records]
  BY <1>1 DEF Cut, Records
<1>3. Cut(m, n) \in Seq(Records)
  BY <1>1, <1>2, SeqDef
<1> QED  BY <1>1, <1>2, <1>3, LenProperties DEF Cut

(* The next record joins the first n.                                      *)
LEMMA CutGrows ==
  ASSUME NEW m \in Versions, NEW n \in Nat, n + 1 <= Count
  PROVE  Append(Cut(m, n), <<m, n + 1>>) = Cut(m, n + 1)
<1>1. Count \in Nat
  BY RerunAssumption
<1>2. n \in 0..Count /\ n + 1 \in 0..Count /\ <<m, n + 1>> \in Records
  BY <1>1 DEF Records
<1> DEFINE c == Cut(m, n)
           d == Cut(m, n + 1)
           r == <<m, n + 1>>
<1>3. /\ c \in Seq(Records) /\ Len(c) = n
      /\ \A i \in 1..n : c[i] = <<m, i>>
  BY <1>2, CutType
<1>4. /\ d \in Seq(Records) /\ Len(d) = n + 1
      /\ \A i \in 1..(n + 1) : d[i] = <<m, i>>
  BY <1>2, CutType
<1>5. r \in Records /\ r = <<m, n + 1>>
  BY <1>2
<1> HIDE DEF c, d, r
<1> DEFINE a == Append(c, r)
<1>6. /\ a \in Seq(Records) /\ Len(a) = n + 1
      /\ \A i \in 1..n : a[i] = c[i]
      /\ a[n + 1] = r
  BY <1>3, <1>5, AppendProperties
<1> HIDE DEF a
<1>7. \A i \in 1..(n + 1) : a[i] = d[i]
  <2> TAKE i \in 1..(n + 1)
  <2>1. i \in 1..n \/ i = n + 1
    OBVIOUS
  <2>2. d[i] = <<m, i>>
    BY <1>4
  <2> QED  BY <2>1, <2>2, <1>3, <1>5, <1>6
<1>8. a = d
  BY <1>4, <1>6, <1>7, SeqEqual
<1> QED  BY <1>8 DEF a, c, d, r

(* The beginning of a tape of checkpoints is one.                          *)
LEMMA CheckpointedPrefix ==
  ASSUME NEW u, NEW t, Checkpointed(u, t), NEW k \in 0..Len(t)
  PROVE  Checkpointed(u, SubSeq(t, 1, k))
<1>1. t \in Seq(Snapshots) /\ Len(t) \in Nat
  BY LenProperties DEF Checkpointed
<1>2. \A i \in 1..k : t[i] \in Snapshots
  BY <1>1, ElementOfSeq
<1> DEFINE c == SubSeq(t, 1, k)
<1>3. c \in Seq(Snapshots) /\ Len(c) = k /\ \A i \in 1..k : c[i] = t[i]
  BY <1>1, <1>2, SubSeqProperties
<1> HIDE DEF c
<1>4. \A p \in 1..k : GoodSnapshot(u, t[p]) /\ t[p].earlier < p
  BY <1>1 DEF Checkpointed
<1>5. Checkpointed(u, c)
  BY <1>3, <1>4 DEF Checkpointed
<1> QED  BY <1>5 DEF c

\* A tape with k copies of s added.
More(t, k, s) == t \o [i \in 1..k |-> s]

(* Copies of a checkpoint that knows how many there are join the others.   *)
LEMMA CheckpointedMore ==
  ASSUME NEW u, NEW t, Checkpointed(u, t), NEW k \in Nat,
         NEW s, GoodSnapshot(u, s), s.earlier = Len(t)
  PROVE  /\ Checkpointed(u, More(t, k, s))
         /\ k >= 1 => /\ More(t, k, s) # <<>>
                      /\ More(t, k, s)[Len(More(t, k, s))] = s
<1> DEFINE c == [i \in 1..k |-> s]
           more == t \o c
<1>1. t \in Seq(Snapshots) /\ Len(t) \in Nat /\ s \in Snapshots
  BY LenProperties DEF Checkpointed, GoodSnapshot
<1>2. c \in [1..k -> Snapshots]
  BY <1>1
<1>3. c \in Seq(Snapshots)
  BY <1>2, SeqDef
<1>4. Len(c) = k /\ \A i \in 1..k : c[i] = s
  BY <1>2, <1>3, LenProperties
<1> HIDE DEF c
<1>5. /\ more \in Seq(Snapshots) /\ Len(more) = Len(t) + k
      /\ \A i \in 1..Len(more) :
           more[i] = IF i <= Len(t) THEN t[i] ELSE c[i - Len(t)]
  BY <1>1, <1>3, <1>4, ConcatProperties
<1> HIDE DEF more
<1>6. \A p \in 1..Len(more) :
        more[p] = IF p <= Len(t) THEN t[p] ELSE s
  BY <1>1, <1>4, <1>5
<1>7. \A p \in 1..Len(more) : GoodSnapshot(u, more[p]) /\ more[p].earlier < p
  <2> TAKE p \in 1..Len(more)
  <2>1. CASE p <= Len(t)
    <3>1. p \in 1..Len(t) /\ more[p] = t[p]
      BY <1>1, <1>5, <1>6, <2>1
    <3> QED  BY <3>1 DEF Checkpointed
  <2>2. CASE ~(p <= Len(t))
    <3>1. p > Len(t) /\ more[p] = s
      BY <1>1, <1>5, <1>6, <2>2
    <3> QED  BY <3>1
  <2> QED  BY <2>1, <2>2
<1>8. Checkpointed(u, more)
  BY <1>5, <1>7 DEF Checkpointed
<1>9. ASSUME k >= 1 PROVE more # <<>> /\ more[Len(more)] = s
  <2>1. Len(more) >= 1 /\ Len(more) > Len(t)
    BY <1>1, <1>5, <1>9
  <2>2. more[Len(more)] = s
    BY <1>1, <1>5, <1>6, <2>1
  <2>3. more # <<>>
    BY <2>1, EmptySeq
  <2> QED  BY <2>2, <2>3
<1>10. More(t, k, s) = more
  BY DEF More, more, c
<1> QED  BY <1>8, <1>9, <1>10, Zenon

(* An empty tape holds no checkpoint.                                      *)
LEMMA CheckpointedNone == \A u : Checkpointed(u, <<>>)
  BY EmptySeq DEF Checkpointed

(* The number of clauses that are due.                                     *)
LEMMA SomeDue ==
  ASSUME NEW n \in Nat, NEW D \in SUBSET (1..n)
  PROVE  Cardinality(D) \in Nat /\ (D # {} => Cardinality(D) >= 1)
<1>1. IsFiniteSet(1..n)
  BY FS_Interval
<1>2. IsFiniteSet(D)
  BY <1>1, FS_Subset
<1>3. Cardinality(D) \in Nat
  BY <1>2, FS_CardinalityType
<1>4. Cardinality(D) = 0 <=> D = {}
  BY <1>2, FS_EmptySet
<1> DEFINE k == Cardinality(D)
<1>5. k \in Nat /\ (k = 0 <=> D = {})
  BY <1>3, <1>4
<1> HIDE DEF k
<1>6. k \in Nat /\ (D # {} => k >= 1)
  <2>1. CASE D = {}
    BY <1>5, <2>1
  <2>2. CASE D # {}
    <3>1. k \in Nat /\ k # 0
      BY <1>5, <2>2
    <3>2. k >= 1
      BY <3>1
    <3> QED  BY <3>1, <3>2
  <2> QED  BY <2>1, <2>2
<1> QED  BY <1>6 DEF k

-----------------------------------------------------------------------------
\* The runtime of a running job against its files.
InStep ==
  /\ area = IF cursor = 0 THEN NoRecord ELSE <<master, cursor>>
  /\ Len(ledger) \in {cursor - 1, cursor} /\ ledger = Upto(Len(ledger))
  /\ written <= Len(ledger) /\ written >= cursor - 1
  /\ \A i \in DOMAIN counts : counts[i] = cursor
  /\ out_records \in Seq(Records)
  /\ OnOs => out_disk \in Seq(Records)
  /\ use.out # "OS OUTPUT" => Out = Upto(written)

\* What holds in every phase.
Always ==
  /\ TypeOK
  /\ DOMAIN counts = DOMAIN use.every
  /\ Checkpointed(use, junk_records)
  /\ junk_disk = BadImage \/ Checkpointed(use, junk_disk)

Ended == use.out # "OS OUTPUT" => DoneIsComplete

\* The last checkpoint taken is the last on the tape, which is all that a new
\* process has.
LastIsTaken ==
  /\ phase = "down" => junk_records = <<>>
  /\ phase # "done" /\ taken # NoSnapshot =>
       /\ junk_disk \notin {BadImage, <<>>}
       /\ junk_disk[Len(junk_disk)] = taken

IInv ==
  /\ Always
  /\ phase = "running" => InStep
  /\ Ended
  /\ LastIsTaken

(* The job has not begun.                                                  *)
LEMMA InitIInv == Init => IInv
<1> SUFFICES ASSUME Init PROVE IInv
  OBVIOUS
<1>1. /\ use \in Profiles /\ use.every \in Seq(Nat \ {0})
      /\ Count \in Nat /\ MaxCrashes \in Nat
  BY RerunAssumption DEF Init
<1>2. Always
  BY <1>1, EmptySeq, CheckpointedNone
     DEF Init, Always, TypeOK, NoRecord
<1> QED  BY <1>2 DEF Init, IInv, Ended, DoneIsComplete, LastIsTaken

(* StartJob, on a tape that may hold checkpoints of other attempts.        *)
LEMMA StartStep == IInv /\ StartJob => IInv'
<1> SUFFICES ASSUME IInv, StartJob PROVE IInv'
  OBVIOUS
<1>1. /\ use \in Profiles /\ use.every \in Seq(Nat \ {0})
      /\ Count \in Nat /\ MaxCrashes \in Nat
  BY RerunAssumption DEF IInv, Always, TypeOK
<1>2. use' = use /\ master' = master /\ phase' = "running"
  BY DEF StartJob
<1>3. Checkpointed(use, junk_records') /\ junk_disk' = junk_records'
  BY CheckpointedNone DEF IInv, Always, StartJob
<1>4. junk_records' \in Seq(Snapshots)
  BY <1>3 DEF Checkpointed
<1>5. TypeOK'
  BY <1>1, <1>3, <1>4, EmptySeq DEF IInv, Always, StartJob, TypeOK
<1>6. Always'
  BY <1>2, <1>3, <1>5 DEF Always, StartJob
<1>7. Upto(0)' = <<>> /\ Len(<<>>) = 0
  BY EmptySeq DEF Upto
<1>8. InStep'
  <2>1. /\ area' = NoRecord /\ ledger' = <<>> /\ written' = 0
        /\ cursor' = 0 /\ out_records' = <<>> /\ out_disk' = <<>>
        /\ counts' = [i \in DOMAIN use.every |-> 0]
    BY DEF StartJob
  <2>2. \A i \in DOMAIN counts' : counts'[i] = cursor'
    BY <2>1
  <2>3. Out' = <<>>
    BY <1>2, <2>1 DEF Out, OnOs
  <2>4. <<>> \in Seq(Records)
    BY EmptySeq
  <2>5. Upto(Len(ledger))' = <<>> /\ Upto(written)' = <<>>
    BY <1>7, <2>1 DEF Upto
  <2>6. Len(ledger') = 0
    BY <1>7, <2>1
  <2>7. /\ area' = IF cursor' = 0 THEN NoRecord ELSE <<master', cursor'>>
        /\ Len(ledger') \in {cursor' - 1, cursor'}
        /\ written' <= Len(ledger') /\ written' >= cursor' - 1
    BY <2>1, <2>6
  <2>8. /\ ledger' = Upto(Len(ledger))' /\ Out' = Upto(written)'
        /\ out_records' \in Seq(Records) /\ out_disk' \in Seq(Records)
    BY <2>1, <2>3, <2>4, <2>5
  <2> QED  BY <2>2, <2>7, <2>8, Zenon DEF InStep
<1> QED  BY <1>2, <1>6, <1>8
         DEF StartJob, IInv, Ended, DoneIsComplete, LastIsTaken

(* A READ finds everything put out, and the job in step.                   *)
LEMMA AtRead ==
  ASSUME IInv, CanRead
  PROVE  /\ use \in Profiles /\ use.every \in Seq(Nat \ {0})
         /\ Count \in Nat /\ cursor \in 0..Count /\ cursor < Count
         /\ master \in Versions
         /\ Len(ledger) = cursor /\ ledger = Cut(master, cursor)
         /\ written = cursor /\ phase = "running" /\ InStep
<1>1. /\ use \in Profiles /\ use.every \in Seq(Nat \ {0})
      /\ Count \in Nat /\ MaxCrashes \in Nat
  BY RerunAssumption DEF IInv, Always, TypeOK
<1>2. /\ phase = "running" /\ InStep /\ written = cursor /\ cursor < Count
      /\ cursor \in 0..Count /\ master \in Versions
  BY DEF IInv, Always, TypeOK, CanRead, MoreRecords
<1> DEFINE k == Len(ledger)
<1>3. /\ k \in {cursor - 1, cursor} /\ written <= k
      /\ ledger = Cut(master, k)
  BY <1>2 DEF InStep, Upto, Cut
<1> HIDE DEF k
<1>4. k = cursor
  BY <1>2, <1>3
<1> QED  BY <1>1, <1>2, <1>3, <1>4 DEF k

(* What a READ counts, and the snapshot it takes, are in step.             *)
LEMMA SnapshotIsGood ==
  ASSUME IInv, ReadMaster
  PROVE  /\ counts' \in Seq(0..Count) /\ DOMAIN counts' = DOMAIN use.every
         /\ \A i \in DOMAIN counts' : counts'[i] = cursor + 1
         /\ GoodSnapshot(use, Snapshot)
         /\ Snapshot.earlier = Len(junk_records)
         /\ Snapshot.cursor = cursor'
<1>1. /\ use \in Profiles /\ use.every \in Seq(Nat \ {0})
      /\ Count \in Nat /\ cursor \in 0..Count /\ cursor < Count
      /\ master \in Versions
      /\ Len(ledger) = cursor /\ ledger = Cut(master, cursor)
      /\ written = cursor /\ phase = "running" /\ InStep
  BY AtRead DEF ReadMaster
<1>2. /\ cursor' = cursor + 1 /\ area' = <<master, cursor + 1>>
      /\ ledger' = ledger /\ written' = written
      /\ counts' = [i \in DOMAIN counts |-> counts[i] + 1]
  BY DEF ReadMaster
<1>3. DOMAIN counts = DOMAIN use.every /\ DOMAIN use.every = 1..Len(use.every)
      /\ Len(use.every) \in Nat
  BY <1>1, LenProperties DEF IInv, Always
<1>4. \A i \in DOMAIN counts : counts[i] = cursor
  BY <1>1 DEF InStep
<1>5. \A i \in DOMAIN counts' : counts'[i] = cursor + 1
  BY <1>2, <1>4
<1>6. DOMAIN counts' = 1..Len(use.every)
  BY <1>2, <1>3
<1>7. counts' \in [1..Len(use.every) -> 0..Count]
  BY <1>1, <1>2, <1>3, <1>4
<1>8. counts' \in Seq(0..Count)
  BY <1>3, <1>7, SeqDef
<1>9. /\ Snapshot.area = area' /\ Snapshot.ledger = ledger'
      /\ Snapshot.written = written' /\ Snapshot.cursor = cursor'
      /\ Snapshot.counts = counts' /\ Snapshot.out = out_records
      /\ Snapshot.print = <<master, IF OnOs THEN out_disk ELSE <<>> >>
      /\ Snapshot.earlier = Len(junk_records)
  BY DEF Snapshot, SavedCounts
<1>10. Snapshot \in Snapshots
  <2>1. area' \in Records /\ cursor' \in 0..Count /\ written' \in 0..Count
    BY <1>1, <1>2 DEF Records
  <2>2. ledger' \in Seq(Records)
    BY <1>1, <1>2, CutType
  <2>3. /\ out_records \in Seq(Records) /\ <<>> \in Seq(Records)
        /\ OnOs => out_disk \in Seq(Records)
    BY <1>1, EmptySeq DEF InStep
  <2>4. Len(junk_records) \in Nat
    BY LenProperties DEF IInv, Always, Checkpointed
  <2>5. <<master, IF OnOs THEN out_disk ELSE <<>> >>
          \in Versions \X Seq(Records)
    BY <1>1, <2>3
  <2> QED  BY <1>8, <2>1, <2>2, <2>3, <2>4, <2>5
           DEF Snapshot, SavedCounts, Snapshots
<1>11. use.out # "OS OUTPUT" =>
         (IF use.out = "OS EXTEND" THEN Snapshot.print[2] ELSE Snapshot.out)
            = Cut(Snapshot.print[1], Snapshot.written)
  <2>1. use.out # "OS OUTPUT" => Out = Cut(master, cursor)
    BY <1>1 DEF InStep, Upto, Cut
  <2>2. use.out # "OS OUTPUT" =>
          (IF use.out = "OS EXTEND" THEN out_disk ELSE out_records) = Out
    BY DEF Out, OnOs
  <2>3. use.out = "OS EXTEND" => Snapshot.print[2] = out_disk
    <3> SUFFICES ASSUME use.out = "OS EXTEND"
                 PROVE  Snapshot.print[2] = out_disk
      OBVIOUS
    <3>1. OnOs
      BY DEF OnOs
    <3>2. Snapshot.print = <<master, out_disk>>
      BY <1>9, <3>1
    <3>3. <<master, out_disk>>[2] = out_disk
      OBVIOUS
    <3> QED  BY <3>2, <3>3, Zenon
  <2>4. Snapshot.print[1] = master /\ Snapshot.written = cursor
    BY <1>1, <1>2, <1>9
  <2> QED  BY <1>9, <2>1, <2>2, <2>3, <2>4
<1>12. GoodSnapshot(use, Snapshot)
  <2> DEFINE s == Snapshot
  <2>1. s.print[1] = master
    BY <1>9
  <2>2. /\ s.cursor >= 1 /\ s.written = s.cursor - 1
        /\ s.area = <<s.print[1], s.cursor>>
        /\ s.ledger = Cut(s.print[1], s.written)
    BY <1>1, <1>2, <1>9, <2>1
  <2>3. /\ DOMAIN s.counts = DOMAIN use.every
        /\ \A i \in DOMAIN s.counts : s.counts[i] = s.cursor
    BY <1>2, <1>3, <1>5, <1>6, <1>9
  <2> HIDE DEF s
  <2>4. s \in Snapshots
    BY <1>10 DEF s
  <2>5. use.out # "OS OUTPUT" =>
          (IF use.out = "OS EXTEND" THEN s.print[2] ELSE s.out)
             = Cut(s.print[1], s.written)
    BY <1>11 DEF s
  <2>6. GoodSnapshot(use, s)
    BY <2>2, <2>3, <2>4, <2>5 DEF GoodSnapshot
  <2> QED  BY <2>6 DEF s
<1> QED  BY <1>3, <1>5, <1>6, <1>8, <1>9, <1>12

(* The checkpoints of a READ join those on the tape.                       *)
LEMMA ReadChecks ==
  ASSUME IInv, ReadMaster
  PROVE  /\ Checkpointed(use, junk_records')
         /\ Due # {} => /\ junk_records' # <<>>
                        /\ junk_records'[Len(junk_records')] = Snapshot
<1>1. /\ GoodSnapshot(use, Snapshot) /\ Snapshot.earlier = Len(junk_records)
      /\ Checkpointed(use, junk_records)
  BY SnapshotIsGood DEF IInv, Always
<1>2. use.every \in Seq(Nat \ {0})
  BY AtRead DEF ReadMaster
<1>3. DOMAIN counts = 1..Len(use.every) /\ Len(use.every) \in Nat
  BY <1>2, LenProperties DEF IInv, Always
<1>4. Due \in SUBSET (1..Len(use.every))
  BY <1>3 DEF Due
<1> DEFINE k == Cardinality(Due)
<1>5. k \in Nat /\ (Due # {} => k >= 1)
  BY <1>3, <1>4, SomeDue
<1>6. junk_records' = junk_records \o [i \in 1..k |-> Snapshot]
  BY DEF ReadMaster
<1> DEFINE s == Snapshot
           r == junk_records
           m == junk_records'
<1>7. /\ Checkpointed(use, r) /\ GoodSnapshot(use, s) /\ s.earlier = Len(r)
      /\ k \in Nat
  BY <1>1, <1>5
<1>8. m = More(r, k, s)
  BY <1>6 DEF More
<1> HIDE DEF k, s, r, m
<1>9. Checkpointed(use, m) /\ (k >= 1 => m # <<>> /\ m[Len(m)] = s)
  BY <1>7, <1>8, CheckpointedMore
<1> QED  BY <1>5, <1>9 DEF s, m

(* What a READ leaves, whatever becomes of the write of its checkpoints.   *)
LEMMA ReadMasterStep ==
  ASSUME IInv, ReadMaster,
         junk_disk' = BadImage \/ Checkpointed(use, junk_disk'),
         phase' \in {"running", "abended"}, crashes' \in 0..MaxCrashes
  PROVE  Always' /\ InStep'
<1>1. /\ use \in Profiles /\ use.every \in Seq(Nat \ {0})
      /\ Count \in Nat /\ cursor \in 0..Count /\ cursor < Count
      /\ master \in Versions
      /\ Len(ledger) = cursor /\ ledger = Cut(master, cursor)
      /\ written = cursor /\ phase = "running" /\ InStep
  BY AtRead DEF ReadMaster
<1>2. /\ cursor' = cursor + 1 /\ area' = <<master, cursor + 1>>
      /\ ledger' = ledger /\ written' = written
      /\ use' = use /\ master' = master
      /\ out_disk' = out_disk /\ out_records' = out_records
  BY DEF ReadMaster
<1>3. /\ counts' \in Seq(0..Count) /\ DOMAIN counts' = DOMAIN use.every
      /\ \A i \in DOMAIN counts' : counts'[i] = cursor + 1
  BY SnapshotIsGood
<1>4. Checkpointed(use, junk_records')
  BY ReadChecks
<1>5. /\ junk_records' \in Seq(Snapshots)
      /\ junk_disk' \in {BadImage} \cup Seq(Snapshots)
  BY <1>4 DEF Checkpointed
<1>6. /\ area' \in Records /\ cursor' \in 0..Count /\ written' \in 0..Count
      /\ \A i \in DOMAIN counts' : counts'[i] \in 0..Count
  BY <1>1, <1>2, <1>3 DEF Records
<1>7. TypeOK'
  BY <1>1, <1>2, <1>5, <1>6 DEF TypeOK
<1>8. Always'
  BY <1>2, <1>3, <1>4, <1>7 DEF Always
<1>9. InStep'
  <2>1. /\ area' = IF cursor' = 0 THEN NoRecord ELSE <<master', cursor'>>
        /\ Len(ledger') \in {cursor' - 1, cursor'}
        /\ written' <= Len(ledger') /\ written' >= cursor' - 1
    BY <1>1, <1>2
  <2>2. \A i \in DOMAIN counts' : counts'[i] = cursor'
    BY <1>2, <1>3
  <2>3. ledger' = Upto(Len(ledger))'
    BY <1>1, <1>2 DEF Upto, Cut
  <2>4. /\ out_records' \in Seq(Records)
        /\ OnOs' => out_disk' \in Seq(Records)
        /\ use'.out # "OS OUTPUT" => Out' = Upto(written)'
    BY <1>1, <1>2 DEF InStep, OnOs, Out, Upto
  <2> QED  BY <2>1, <2>2, <2>3, <2>4, Zenon DEF InStep
<1> QED  BY <1>8, <1>9

(* Read.                                                                   *)
LEMMA ReadStep == IInv /\ Read => IInv'
<1> SUFFICES ASSUME IInv, Read PROVE IInv'
  OBVIOUS
<1>1. /\ ReadMaster /\ phase = "running" /\ phase' = "running"
      /\ crashes' = crashes /\ crashes \in 0..MaxCrashes
      /\ Always /\ LastIsTaken
  BY DEF Read, ReadMaster, CanRead, IInv, Always, TypeOK
<1>2. /\ Checkpointed(use, junk_records')
      /\ Due # {} => /\ junk_records' # <<>>
                     /\ junk_records'[Len(junk_records')] = Snapshot
  BY <1>1, ReadChecks
<1>3. CASE Due = {}
  <2>1. junk_disk' = junk_disk /\ taken' = taken
    BY <1>3 DEF Read
  <2>2. junk_disk' = BadImage \/ Checkpointed(use, junk_disk')
    BY <1>1, <2>1 DEF Always
  <2>3. Always' /\ InStep'
    BY <1>1, <2>2, ReadMasterStep
  <2> QED  BY <1>1, <2>1, <2>3
           DEF IInv, Ended, DoneIsComplete, LastIsTaken
<1>4. CASE Due # {}
  <2>1. junk_disk' = junk_records' /\ taken' = Snapshot
    BY <1>4 DEF Read
  <2>2. Always' /\ InStep'
    BY <1>1, <1>2, <2>1, ReadMasterStep
  <2>3. junk_records' # BadImage
    BY <1>2, RerunAssumption DEF Checkpointed
  <2> QED  BY <1>1, <1>2, <1>4, <2>1, <2>2, <2>3
           DEF IInv, Ended, DoneIsComplete, LastIsTaken
<1> QED  BY <1>3, <1>4

(* Account.                                                                *)
LEMMA AccountStep == IInv /\ Account => IInv'
<1> SUFFICES ASSUME IInv, Account PROVE IInv'
  OBVIOUS
<1>1. /\ phase = "running" /\ InStep /\ Always /\ LastIsTaken
      /\ cursor \in 0..Count /\ master \in Versions /\ Count \in Nat
      /\ written \in 0..Count
  BY RerunAssumption DEF Account, IInv, Always, TypeOK
<1>2. /\ Len(ledger) < cursor /\ ledger' = Append(ledger, area)
      /\ UNCHANGED <<use, phase, crashes, master, out_disk, junk_disk, area,
                     written, cursor, counts, out_records, junk_records,
                     taken>>
  BY DEF Account, disks
<1> DEFINE k == Len(ledger)
<1>3. /\ k \in {cursor - 1, cursor} /\ written <= k /\ k < cursor
      /\ ledger = Cut(master, k)
      /\ area = IF cursor = 0 THEN NoRecord ELSE <<master, cursor>>
      /\ written >= cursor - 1
  BY <1>1, <1>2 DEF InStep, Upto, Cut
<1>n. ledger' = Append(ledger, area)
  BY <1>2
<1> HIDE DEF k
<1>4. k = cursor - 1 /\ k \in Nat /\ cursor = k + 1
  BY <1>1, <1>3
<1>5. area = <<master, k + 1>>
  BY <1>3, <1>4
<1>6. ledger' = Cut(master, cursor)
  BY <1>1, <1>3, <1>4, <1>5, <1>n, CutGrows
<1>7. Len(ledger') = cursor
  BY <1>1, <1>6, CutType
<1>8. InStep'
  <2>1. ledger' = Upto(Len(ledger))'
    BY <1>2, <1>6, <1>7 DEF Upto, Cut
  <2>2. /\ area' = IF cursor' = 0 THEN NoRecord ELSE <<master', cursor'>>
        /\ Len(ledger') \in {cursor' - 1, cursor'}
        /\ written' <= Len(ledger') /\ written' >= cursor' - 1
    BY <1>1, <1>2, <1>3, <1>4, <1>7
  <2>3. \A i \in DOMAIN counts' : counts'[i] = cursor'
    BY <1>1, <1>2 DEF InStep
  <2>4. /\ out_records' \in Seq(Records)
        /\ OnOs' => out_disk' \in Seq(Records)
        /\ use'.out # "OS OUTPUT" => Out' = Upto(written)'
    BY <1>1, <1>2 DEF InStep, OnOs, Out, Upto
  <2> QED  BY <2>1, <2>2, <2>3, <2>4, Zenon DEF InStep
<1>9. Always'
  BY <1>1, <1>2 DEF Always, TypeOK
<1> QED  BY <1>1, <1>2, <1>8, <1>9
         DEF IInv, Ended, DoneIsComplete, LastIsTaken

(* A write finds one record accounted for and not on OUT.                  *)
LEMMA AtWrite ==
  ASSUME IInv, CanWrite
  PROVE  /\ phase = "running" /\ InStep /\ master \in Versions
         /\ Count \in Nat /\ written \in Nat /\ cursor = written + 1
         /\ cursor <= Count /\ Len(ledger) = cursor
         /\ area = <<master, written + 1>> /\ area \in Records
<1>1. /\ phase = "running" /\ InStep /\ cursor \in 0..Count
      /\ written \in 0..Count /\ Count \in Nat /\ master \in Versions
  BY RerunAssumption DEF CanWrite, IInv, Always, TypeOK
<1> DEFINE k == Len(ledger)
<1>2. /\ k \in {cursor - 1, cursor} /\ written < k /\ written >= cursor - 1
      /\ area = IF cursor = 0 THEN NoRecord ELSE <<master, cursor>>
  BY <1>1 DEF InStep, CanWrite
<1> HIDE DEF k
<1>3. k = cursor /\ cursor = written + 1 /\ cursor # 0 /\ cursor <= Count
  BY <1>1, <1>2
<1>4. area = <<master, written + 1>>
  BY <1>2, <1>3
<1>5. area \in Records
  BY <1>1, <1>3, <1>4 DEF Records
<1> QED  BY <1>1, <1>3, <1>4, <1>5 DEF k

(* Write.                                                                  *)
LEMMA WriteStep == IInv /\ Write => IInv'
<1> SUFFICES ASSUME IInv, Write PROVE IInv'
  OBVIOUS
<1>1. /\ phase = "running" /\ InStep /\ master \in Versions
      /\ Count \in Nat /\ written \in Nat /\ cursor = written + 1
      /\ cursor <= Count /\ Len(ledger) = cursor
      /\ area = <<master, written + 1>> /\ area \in Records
  BY AtWrite DEF Write
<1>2. /\ written' = written + 1
      /\ UNCHANGED <<use, phase, crashes, master, junk_disk, area, ledger,
                     cursor, counts, junk_records, taken>>
  BY DEF Write
<1>3. Always /\ LastIsTaken
  BY DEF IInv
<1>4. Always'
  BY <1>1, <1>2, <1>3 DEF Always, TypeOK
<1>5. use.out # "OS OUTPUT" => Out = Cut(master, written)
  BY <1>1 DEF InStep, Upto, Cut
<1>6. use.out # "OS OUTPUT" => Append(Cut(master, written), area)
                                 = Cut(master, written')
  BY <1>1, <1>2, CutGrows
<1>o. use.out \in {"TAPE", "MEM", "OS EXTEND", "OS OUTPUT"}
  BY <1>3, RerunAssumption DEF Always, TypeOK
<1>7. /\ out_records' \in Seq(Records)
      /\ OnOs => out_disk' \in Seq(Records)
      /\ use.out # "OS OUTPUT" =>
           (IF OnOs THEN out_disk' ELSE out_records') = Cut(master, written')
  <2>0. out_records \in Seq(Records) /\ (OnOs => out_disk \in Seq(Records))
    BY <1>1 DEF InStep
  <2>1. CASE OnOs
    <3>1. out_records' = out_records /\ out_disk' = Append(out_disk, area)
      BY <2>1 DEF Write, OnOs
    <3>2. out_disk' \in Seq(Records)
      BY <1>1, <2>0, <2>1, <3>1, AppendProperties
    <3>3. Out = out_disk
      BY <2>1 DEF Out
    <3> QED  BY <1>5, <1>6, <2>0, <2>1, <3>1, <3>2, <3>3
  <2>2. CASE ~OnOs
    <3>1. out_records' = Append(out_records, area)
      BY <2>2 DEF Write
    <3>2. out_records' \in Seq(Records)
      BY <1>1, <2>0, <3>1, AppendProperties
    <3>3. Out = out_records
      BY <2>2 DEF Out
    <3> QED  BY <1>5, <1>6, <2>2, <3>1, <3>2, <3>3
  <2> QED  BY <2>1, <2>2
<1>8. InStep'
  <2>1. ledger' = Upto(Len(ledger))'
    BY <1>1, <1>2 DEF InStep, Upto
  <2>2. /\ area' = IF cursor' = 0 THEN NoRecord ELSE <<master', cursor'>>
        /\ Len(ledger') \in {cursor' - 1, cursor'}
        /\ written' <= Len(ledger') /\ written' >= cursor' - 1
    BY <1>1, <1>2
  <2>3. \A i \in DOMAIN counts' : counts'[i] = cursor'
    BY <1>1, <1>2 DEF InStep
  <2>4. /\ out_records' \in Seq(Records)
        /\ OnOs' => out_disk' \in Seq(Records)
        /\ use'.out # "OS OUTPUT" => Out' = Upto(written)'
    BY <1>2, <1>7 DEF OnOs, Out, Upto, Cut
  <2> QED  BY <2>1, <2>2, <2>3, <2>4, Zenon DEF InStep
<1> QED  BY <1>1, <1>2, <1>3, <1>4, <1>8
         DEF IInv, Ended, DoneIsComplete, LastIsTaken

(* Finish: what is on OUT is everything.                                   *)
LEMMA FinishStep == IInv /\ Finish => IInv'
<1> SUFFICES ASSUME IInv, Finish PROVE IInv'
  OBVIOUS
<1>1. /\ InStep /\ Always /\ LastIsTaken
      /\ cursor = Count /\ written = Count
      /\ use.out \in {"TAPE", "MEM", "OS EXTEND", "OS OUTPUT"}
  BY RerunAssumption DEF Finish, IInv, Always, TypeOK
<1>2. /\ phase' = "done"
      /\ out_disk' = IF use.out = "TAPE" THEN out_records ELSE out_disk
      /\ junk_disk' = junk_records
      /\ UNCHANGED <<use, crashes, master, area, ledger, written, cursor,
                     counts, out_records, junk_records, taken>>
  BY DEF Finish, runtime
<1>3. junk_records \in Seq(Snapshots)
  BY <1>1 DEF Always, Checkpointed
<1>4. Always'
  BY <1>1, <1>2, <1>3 DEF Always, TypeOK
<1>5. use.out # "OS OUTPUT" =>
        (IF OnOs THEN out_disk ELSE out_records) = Upto(Count)
  BY <1>1 DEF InStep, Out
<1>6. Upto(Count)' = Upto(Count)
  BY <1>2 DEF Upto
<1>7. Ended'
  BY <1>1, <1>2, <1>5, <1>6 DEF Ended, DoneIsComplete, OnOs
<1> QED  BY <1>2, <1>4, <1>7 DEF IInv, LastIsTaken

-----------------------------------------------------------------------------
(* A tape that was cut short is rejected or holds the first checkpoints.   *)
LEMMA TornTape ==
  ASSUME NEW u, NEW t, Checkpointed(u, t), NEW d \in Torn(t)
  PROVE  d = BadImage \/ Checkpointed(u, d)
<1>1. d = BadImage \/ \E k \in 0..Len(t) : d = SubSeq(t, 1, k)
  BY DEF Torn
<1> QED  BY <1>1, CheckpointedPrefix

(* What the death of the process leaves.                                   *)
LEMMA DownStep ==
  ASSUME IInv, Fresh, use' = use, phase' = "down", master' = master,
         crashes' \in 0..MaxCrashes,
         junk_disk' = BadImage \/ Checkpointed(use, junk_disk')
  PROVE  Always' /\ junk_records' = <<>> /\ Ended'
<1>1. /\ use \in Profiles /\ use.every \in Seq(Nat \ {0}) /\ Count \in Nat
      /\ Always
  BY RerunAssumption DEF IInv, Always, TypeOK
<1>2. Checkpointed(use, junk_records') /\ junk_records' = <<>>
  BY CheckpointedNone DEF Fresh
<1>3. /\ junk_records' \in Seq(Snapshots)
      /\ junk_disk' \in {BadImage} \cup Seq(Snapshots)
  BY <1>2 DEF Checkpointed
<1>4. TypeOK'
  BY <1>1, <1>3 DEF Always, TypeOK, Fresh
<1>5. Always'
  BY <1>2, <1>4 DEF Always, Fresh
<1> QED  BY <1>2, <1>5 DEF Ended, DoneIsComplete

(* A death or an abend is one more.                                        *)
LEMMA MayFailType == IInv /\ MayFail => crashes' \in 0..MaxCrashes
<1>1. MaxCrashes \in Nat
  BY RerunAssumption
<1> QED  BY <1>1 DEF MayFail, IInv, Always, TypeOK

(* Crash.                                                                  *)
LEMMA CrashStep == IInv /\ Crash => IInv'
<1> SUFFICES ASSUME IInv, Crash PROVE IInv'
  OBVIOUS
<1>1. /\ phase' = "down" /\ Fresh /\ crashes' \in 0..MaxCrashes
      /\ UNCHANGED <<use, master, junk_disk, taken>> /\ phase # "done"
      /\ Always /\ LastIsTaken
  BY MayFailType DEF Crash, IInv, disks
<1>2. Always' /\ junk_records' = <<>> /\ Ended'
  BY <1>1, DownStep DEF Always
<1> QED  BY <1>1, <1>2 DEF IInv, LastIsTaken

(* Abend.                                                                  *)
LEMMA AbendStep == IInv /\ Abend => IInv'
<1> SUFFICES ASSUME IInv, Abend PROVE IInv'
  OBVIOUS
<1>1. /\ phase = "running" /\ phase' = "abended"
      /\ crashes' \in 0..MaxCrashes
      /\ UNCHANGED <<use, disks, runtime, taken>>
      /\ Always /\ LastIsTaken
  BY MayFailType DEF Abend, IInv
<1>2. Always'
  BY <1>1 DEF Always, TypeOK, disks, runtime
<1> QED  BY <1>1, <1>2
         DEF IInv, Ended, DoneIsComplete, LastIsTaken, disks, runtime

(* AbendInCheckpoint.                                                      *)
LEMMA AbendInCheckpointStep == IInv /\ AbendInCheckpoint => IInv'
<1> SUFFICES ASSUME IInv, AbendInCheckpoint PROVE IInv'
  OBVIOUS
<1>1. /\ ReadMaster /\ junk_disk' \in Torn(junk_records')
      /\ phase' = "abended" /\ taken' = NoSnapshot
      /\ crashes' \in 0..MaxCrashes
  BY MayFailType DEF AbendInCheckpoint
<1>2. Checkpointed(use, junk_records')
  BY <1>1, ReadChecks
<1> DEFINE t == junk_records'
           d == junk_disk'
<1>3. Checkpointed(use, t) /\ d \in Torn(t)
  BY <1>1, <1>2
<1> HIDE DEF t, d
<1>4. d = BadImage \/ Checkpointed(use, d)
  BY <1>3, TornTape
<1>5. Always'
  BY <1>1, <1>4, ReadMasterStep DEF d
<1> QED  BY <1>1, <1>5 DEF IInv, Ended, DoneIsComplete, LastIsTaken

(* CrashInCheckpoint.                                                      *)
LEMMA CrashInCheckpointStep == IInv /\ CrashInCheckpoint => IInv'
<1> SUFFICES ASSUME IInv, CrashInCheckpoint PROVE IInv'
  OBVIOUS
<1>1. /\ junk_disk' \in Torn(junk_records)
      /\ phase' = "down" /\ taken' = NoSnapshot /\ Fresh
      /\ crashes' \in 0..MaxCrashes /\ use' = use /\ master' = master
  BY MayFailType DEF CrashInCheckpoint
<1>2. Checkpointed(use, junk_records)
  BY DEF IInv, Always
<1> DEFINE d == junk_disk'
<1>3. d \in Torn(junk_records)
  BY <1>1
<1> HIDE DEF d
<1>4. d = BadImage \/ Checkpointed(use, d)
  BY <1>2, <1>3, TornTape
<1>5. Always' /\ junk_records' = <<>> /\ Ended'
  BY <1>1, <1>4, DownStep DEF d
<1> QED  BY <1>1, <1>5 DEF IInv, LastIsTaken

(* CrashInWrite.                                                           *)
LEMMA CrashInWriteStep == IInv /\ CrashInWrite => IInv'
<1> SUFFICES ASSUME IInv, CrashInWrite PROVE IInv'
  OBVIOUS
<1>1. /\ phase = "running" /\ phase' = "down" /\ Fresh
      /\ crashes' \in 0..MaxCrashes
      /\ UNCHANGED <<use, master, junk_disk, taken>>
      /\ Always /\ LastIsTaken
  BY MayFailType DEF CrashInWrite, CanWrite, IInv
<1>2. Always' /\ junk_records' = <<>> /\ Ended'
  BY <1>1, DownStep DEF Always
<1> QED  BY <1>1, <1>2 DEF IInv, LastIsTaken

(* ReplaceMaster.                                                          *)
LEMMA ReplaceStep == IInv /\ ReplaceMaster => IInv'
<1> SUFFICES ASSUME IInv, ReplaceMaster PROVE IInv'
  OBVIOUS
<1>1. /\ phase = "down" /\ phase' = "down" /\ master' \in Versions
      /\ UNCHANGED <<use, crashes, out_disk, junk_disk, runtime, taken>>
      /\ Always /\ LastIsTaken
  BY DEF ReplaceMaster, IInv
<1>2. Always'
  BY <1>1 DEF Always, TypeOK, runtime
<1> QED  BY <1>1, <1>2
         DEF IInv, Ended, DoneIsComplete, LastIsTaken, runtime

-----------------------------------------------------------------------------
(* The checkpoints a restart looks among are in step with their files.     *)
LEMMA LatestIsGood ==
  ASSUME IInv, HasCheckpoint
  PROVE  /\ Checkpointed(use, Checkpoints) /\ GoodSnapshot(use, Latest)
         /\ Latest.earlier \in 0..Len(Checkpoints) /\ PrintsAgree(Latest)
<1> DEFINE c == Checkpoints
<1>1. c # BadImage /\ c # <<>>
  BY DEF HasCheckpoint
<1>2. Checkpointed(use, c)
  BY <1>1 DEF Checkpoints, IInv, Always
<1>3. Latest = c[Len(c)] /\ PrintsAgree(Latest)
  BY DEF Latest, HasCheckpoint
<1> HIDE DEF c
<1>4. Len(c) \in Nat \ {0}
  BY <1>1, <1>2, EmptySeq DEF Checkpointed
<1>5. GoodSnapshot(use, c[Len(c)]) /\ c[Len(c)].earlier < Len(c)
  BY <1>2, <1>4 DEF Checkpointed
<1> DEFINE s == c[Len(c)]
<1>6. GoodSnapshot(use, s) /\ s.earlier < Len(c)
  BY <1>5
<1> HIDE DEF s
<1>7. s.earlier \in Nat
  BY <1>6 DEF GoodSnapshot, Snapshots
<1>8. s.earlier \in 0..Len(c)
  BY <1>4, <1>6, <1>7
<1>9. Latest = s
  BY <1>3 DEF s
<1> QED  BY <1>2, <1>3, <1>6, <1>8, <1>9 DEF c

(* Restore: what the snapshot says holds of the files its print agrees     *)
(* with.                                                                   *)
LEMMA RestoreStep == IInv /\ Restore => IInv'
<1> SUFFICES ASSUME IInv, Restore PROVE IInv'
  OBVIOUS
<1> DEFINE s == Latest
           c == Checkpoints
<1>1. /\ Checkpointed(use, c) /\ GoodSnapshot(use, s)
      /\ s.earlier \in 0..Len(c) /\ PrintsAgree(s)
  BY LatestIsGood DEF Restore
<1>2. /\ area' = s.area /\ ledger' = s.ledger /\ written' = s.written
      /\ cursor' = s.cursor /\ counts' = s.counts
      /\ out_records' = s.out
      /\ junk_records' = SubSeq(c, 1, s.earlier)
      /\ out_disk' = IF use.out = "OS OUTPUT" THEN <<>> ELSE out_disk
      /\ phase' = "running" /\ phase \in {"down", "abended"}
      /\ UNCHANGED <<use, crashes, master, junk_disk, taken>>
  BY DEF Restore, RestoredOut, RestoredDisk
<1>3. Always /\ LastIsTaken /\ master \in Versions /\ Count \in Nat
  BY RerunAssumption DEF IInv, Always, TypeOK
<1> HIDE DEF s, c
<1>4. Checkpointed(use, junk_records')
  BY <1>1, <1>2, CheckpointedPrefix
<1>5. /\ s \in Snapshots /\ s.cursor >= 1 /\ s.written = s.cursor - 1
      /\ s.area = <<s.print[1], s.cursor>>
      /\ s.ledger = Cut(s.print[1], s.written)
      /\ DOMAIN s.counts = DOMAIN use.every
      /\ \A i \in DOMAIN s.counts : s.counts[i] = s.cursor
  BY <1>1 DEF GoodSnapshot
<1>6. /\ s.area \in Records /\ s.cursor \in 0..Count /\ s.written \in 0..Count
      /\ s.out \in Seq(Records) /\ s.print \in Versions \X Seq(Records)
  BY <1>5 DEF Snapshots
<1>7. s.print = <<master, IF OnOs THEN out_disk ELSE <<>> >>
  BY <1>1 DEF PrintsAgree
<1>8. s.print[1] = master
  BY <1>7
<1>9. OnOs => s.print[2] = out_disk
  <2> SUFFICES ASSUME OnOs PROVE s.print[2] = out_disk
    OBVIOUS
  <2>1. s.print = <<master, out_disk>>
    BY <1>7
  <2>2. <<master, out_disk>>[2] = out_disk
    OBVIOUS
  <2> QED  BY <2>1, <2>2, Zenon
<1>10. s.print[2] \in Seq(Records)
  BY <1>6
<1>11. TypeOK'
  <2>1. junk_records' \in Seq(Snapshots)
    BY <1>4 DEF Checkpointed
  <2>2. \A i \in DOMAIN counts' : counts'[i] \in 0..Count
    BY <1>2, <1>5, <1>6
  <2> QED  BY <1>2, <1>3, <1>6, <2>1, <2>2 DEF Always, TypeOK
<1>12. Always'
  BY <1>2, <1>3, <1>4, <1>5, <1>11 DEF Always
<1>13. ledger' = Cut(master, written') /\ Len(ledger') = written'
  BY <1>2, <1>3, <1>5, <1>6, <1>8, CutType
<1>14. /\ OnOs => out_disk' \in Seq(Records)
       /\ use.out # "OS OUTPUT" =>
            (IF OnOs THEN out_disk' ELSE out_records') = Cut(master, written')
  <2>1. <<>> \in Seq(Records)
    BY EmptySeq
  <2>2. use.out # "OS OUTPUT" =>
          (IF use.out = "OS EXTEND" THEN s.print[2] ELSE s.out)
             = Cut(s.print[1], s.written)
    BY <1>1 DEF GoodSnapshot
  <2>3. use.out # "OS OUTPUT" => (OnOs <=> use.out = "OS EXTEND")
    BY DEF OnOs
  <2> QED  BY <1>2, <1>8, <1>9, <1>10, <2>1, <2>2, <2>3
<1>c. /\ cursor' \in Nat /\ cursor' # 0 /\ written' = cursor' - 1
      /\ area' = <<master', cursor'>>
  <2>1. s.cursor \in Nat /\ s.cursor # 0
    BY <1>3, <1>5, <1>6
  <2>2. s.area = <<master, s.cursor>>
    BY <1>5, <1>8
  <2> QED  BY <1>2, <1>5, <2>1, <2>2
<1>15. InStep'
  <2>1. ledger' = Upto(Len(ledger))'
    BY <1>2, <1>13 DEF Upto, Cut
  <2>2. area' = IF cursor' = 0 THEN NoRecord ELSE <<master', cursor'>>
    BY <1>c
  <2>3. /\ Len(ledger') \in {cursor' - 1, cursor'}
        /\ written' <= Len(ledger') /\ written' >= cursor' - 1
    <3> DEFINE k == Len(ledger')
    <3>1. k = written'
      BY <1>13
    <3> HIDE DEF k
    <3>2. written' \in Int /\ cursor' - 1 \in Int /\ written' = cursor' - 1
      BY <1>c
    <3>3. k \in {cursor' - 1, cursor'}
      BY <3>1, <3>2
    <3>4. written' <= k /\ written' >= cursor' - 1
      BY <3>1, <3>2
    <3> QED  BY <3>3, <3>4 DEF k
  <2>4. \A i \in DOMAIN counts' : counts'[i] = cursor'
    BY <1>2, <1>5
  <2>5. /\ out_records' \in Seq(Records)
        /\ OnOs' => out_disk' \in Seq(Records)
        /\ use'.out # "OS OUTPUT" => Out' = Upto(written)'
    BY <1>2, <1>6, <1>14 DEF OnOs, Out, Upto, Cut
  <2> QED  BY <2>1, <2>2, <2>3, <2>4, <2>5, Zenon DEF InStep
<1> QED  BY <1>2, <1>3, <1>12, <1>15
         DEF IInv, Ended, DoneIsComplete, LastIsTaken

(* RestoreRefused.                                                         *)
LEMMA RefusedStep == IInv /\ RestoreRefused => IInv'
<1> SUFFICES ASSUME IInv, RestoreRefused PROVE IInv'
  OBVIOUS
<1>1. /\ phase' = "refused" /\ phase \in {"down", "abended"}
      /\ junk_records' =
           IF Checkpoints = BadImage THEN junk_records ELSE Checkpoints
      /\ UNCHANGED <<use, crashes, master, out_disk, junk_disk, area, ledger,
                     written, cursor, counts, out_records, taken>>
      /\ Always /\ LastIsTaken
  BY DEF RestoreRefused, AfterRefusal, IInv, disks, storage
<1>2. Checkpointed(use, junk_records')
  BY <1>1 DEF Always, Checkpoints
<1>3. junk_records' \in Seq(Snapshots)
  BY <1>2 DEF Checkpointed
<1>4. Always'
  BY <1>1, <1>2, <1>3 DEF Always, TypeOK
<1> QED  BY <1>1, <1>4 DEF IInv, Ended, DoneIsComplete, LastIsTaken

(* Every step keeps the invariant.                                         *)
LEMMA NextIInv == IInv /\ [Next]_vars => IInv'
<1> SUFFICES ASSUME IInv, [Next]_vars PROVE IInv'
  OBVIOUS
<1>1. CASE Work
  BY <1>1, StartStep, ReadStep, AccountStep, WriteStep, FinishStep,
     RestoreStep, RefusedStep DEF Work
<1>2. CASE \/ Crash \/ Abend \/ AbendInCheckpoint \/ CrashInCheckpoint
           \/ CrashInWrite \/ ReplaceMaster
  BY <1>2, CrashStep, AbendStep, AbendInCheckpointStep,
     CrashInCheckpointStep, CrashInWriteStep, ReplaceStep
<1>3. CASE UNCHANGED vars
  <2>1. /\ UNCHANGED <<use, phase, crashes, taken>>
        /\ UNCHANGED <<master, out_disk, junk_disk>>
        /\ UNCHANGED <<area, ledger, written, cursor, counts, out_records,
                       junk_records>>
    BY <1>3 DEF vars, disks, runtime
  <2>2. (Always' <=> Always) /\ (InStep' <=> InStep)
    BY <2>1 DEF Always, TypeOK, InStep, OnOs, Out, Upto
  <2>3. (Ended' <=> Ended) /\ (LastIsTaken' <=> LastIsTaken)
    BY <2>1 DEF Ended, DoneIsComplete, Upto, LastIsTaken
  <2>4. phase' = phase
    BY <2>1
  <2> QED  BY <2>2, <2>3, <2>4, Zenon DEF IInv
<1> QED  BY <1>1, <1>2, <1>3 DEF Next

(* The invariant holds in every reachable state.                           *)
THEOREM CheckpointsInStep == Spec => []IInv
  BY InitIInv, NextIInv, PTL DEF Spec

-----------------------------------------------------------------------------
(* Whatever interrupts it, a running job has accounted for the records of  *)
(* MASTER it has read, once and in order, and its counters have counted    *)
(* these READs.                                                            *)
THEOREM StorageStaysInStep == Spec => []StorageInStep
<1>1. IInv => StorageInStep
  BY DEF IInv, Always, InStep, StorageInStep
<1> QED  BY <1>1, CheckpointsInStep, PTL

(* What a running job will write next follows what is on OUT, unless OUT   *)
(* is a file of the operating system that the job opened OUTPUT, which a   *)
(* restore truncates.                                                      *)
THEOREM OutStaysInStep == Spec => [](use.out # "OS OUTPUT" => OutInStep)
<1>1. IInv => (use.out # "OS OUTPUT" => OutInStep)
  BY DEF IInv, InStep, OutInStep
<1> QED  BY <1>1, CheckpointsInStep, PTL

(* A job that ends has put out every record once, with the same exception. *)
THEOREM DoneStaysComplete ==
  Spec => [](use.out # "OS OUTPUT" => DoneIsComplete)
<1>1. IInv => (use.out # "OS OUTPUT" => DoneIsComplete)
  BY DEF IInv, Ended
<1> QED  BY <1>1, CheckpointsInStep, PTL

(* A restart in a new process goes on from the last checkpoint taken, when *)
(* nothing it has fingerprinted has changed.                               *)
THEOREM RestartsFromLast == Spec => RestartFindsCheckpoint
<1>1. ASSUME IInv, phase = "down", taken # NoSnapshot, PrintsAgree(taken)
      PROVE  HasCheckpoint /\ Latest = taken
  <2>1. /\ Checkpoints = junk_disk /\ junk_disk \notin {BadImage, <<>>}
        /\ junk_disk[Len(junk_disk)] = taken
    BY <1>1 DEF IInv, LastIsTaken, Checkpoints
  <2>2. Latest = taken
    BY <2>1 DEF Latest
  <2> QED  BY <1>1, <2>1, <2>2 DEF HasCheckpoint
<1>2. IInv /\ [Next]_vars =>
        [(Restore \/ RestoreRefused) /\ phase = "down"
            /\ taken # NoSnapshot /\ PrintsAgree(taken) =>
           phase' = "running" /\ cursor' = taken.cursor
             /\ written' = taken.written]_vars
  BY <1>1 DEF Restore, RestoreRefused
<1> QED  BY <1>2, CheckpointsInStep, PTL DEF Spec, RestartFindsCheckpoint
=============================================================================
