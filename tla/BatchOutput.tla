---------------------------- MODULE BatchOutput ----------------------------
(***************************************************************************)
(* What the output and the verdict of a batch command should be, said of   *)
(* its whole input at once: the input is cut into frames, one per record,  *)
(* and the command is compared with them at every step.                    *)
(*                                                                         *)
(* A frame is [rows, whole]: the rows of its record, or the one row it is  *)
(* refused with as a whole.                                                *)
(***************************************************************************)
EXTENDS BatchDecode, FiniteSets

Whole(rows) == [rows |-> rows, whole |-> TRUE]
Torn(code) == [rows |-> <<ErrorOf(code)>>, whole |-> FALSE]

-----------------------------------------------------------------------------
(* A stream.  Each record begins where the one before ends; past a refused *)
(* counter no record can be told from the next.                            *)

\* Where the record ends that begins after the first start bytes.
RecordEnd(j, start) ==
  LET head == start + HeaderOf(j.plan)
      length == LengthAt(j, start)
  IN  IF head > Len(j.input) THEN head
      ELSE IF length = RefusedLen THEN RefusedLen ELSE start + length

Stops(j, end) == end = RefusedLen \/ end >= Len(j.input)

\* The ends of the records, one after the other; the last one stays.
RecordEnds(j) ==
  LET end[i \in 0 .. Len(j.input)] ==
        IF i = 0 THEN 0
        ELSE LET start == end[i - 1]
             IN  IF Stops(j, start) THEN start ELSE RecordEnd(j, start)
  IN  end

FirstStop(j, n) ==
  /\ Stops(j, RecordEnds(j)[n])
  /\ \A i \in 0 .. n - 1 : ~Stops(j, RecordEnds(j)[i])

StreamCount(j) == CHOOSE n \in 0 .. Len(j.input) : FirstStop(j, n)

FrameAt(j, start, end) ==
  CASE end = RefusedLen -> Torn("E_OCCURS_COUNT")
    [] end > Len(j.input) -> Torn("E_RECORD_LENGTH")
    [] OTHER -> Whole(RowsOf(j, SubSeq(j.input, start + 1, end)))

StreamFrames(j) ==
  [i \in 1 .. StreamCount(j) |-> FrameAt(j, RecordEnds(j)[i - 1], RecordEnds(j)[i])]

-----------------------------------------------------------------------------
(* Lines.  Those with a record, up to the first that cannot be read.       *)

RecordKinds == {"bad", "bytes", "fields"}

RecordLines(j) ==
  {k \in 1 .. Len(j.input) :
     /\ j.input[k].kind \in RecordKinds
     /\ \A i \in 1 .. k : j.input[i].kind # "unreadable"}

RecordsUpTo(j, k) == Cardinality({i \in RecordLines(j) : i <= k})

LineFrame(j, line) ==
  CASE line.kind = "bad" -> Torn("E_LINE")
    [] line.kind = "fields" -> Whole(RowsOf(j, line.fields))
    [] line.kind = "bytes" ->
         CASE LengthOf(j, line.bytes) = Len(line.bytes) ->
                Whole(RowsOf(j, line.bytes))
           [] LengthOf(j, line.bytes) = RefusedLen ->
                Torn("E_OCCURS_COUNT")
           [] OTHER -> Torn("E_RECORD_LENGTH")

LineFrames(j) ==
  [i \in 1 .. Cardinality(RecordLines(j)) |->
     LineFrame(j, j.input[CHOOSE k \in RecordLines(j) :
                            RecordsUpTo(j, k) = i])]

-----------------------------------------------------------------------------
UpToLimit(j, frames) ==
  IF j.limit # NoLimit /\ j.limit < Len(frames)
    THEN SubSeq(frames, 1, j.limit) ELSE frames

FramesOf(j) ==
  UpToLimit(j, IF j.encoding = "stream" THEN StreamFrames(j)
                                        ELSE LineFrames(j))

Frames == FramesOf(job)

Good(frame) == frame.whole /\ AllValid(frame.rows)

\* The last record has a counter that was refused.
CounterRefused(frames) ==
  /\ job.encoding = "stream" /\ frames # <<>>
  /\ frames[Len(frames)] = Torn("E_OCCURS_COUNT")

\* The command went on reading after it, and takes bytes of the refused
\* record's table for records.
Adrift(frames) ==
  /\ CounterRefused(frames)
  /\ \/ idx > Len(frames)
     \/ idx = Len(frames) /\ pc = "emit"

Tagged(rows, i) == [k \in DOMAIN rows |-> [record |-> i - 1, row |-> rows[k]]]

\* What the policy lets through of the i-th frame.
Passed(frames, i) ==
  IF Atomic /\ ~Good(frames[i]) THEN <<>> ELSE Tagged(frames[i].rows, i)

OfFirst(frames, n) == FlattenSeq([i \in 1 .. n |-> Passed(frames, i)])

\* What has been put out of the record in progress.
OfCurrent(frames) ==
  IF pc # "emit" THEN <<>>
  ELSE LET rows == frames[idx + 1].rows
       IN  Tagged(SubSeq(rows, 1, Len(rows) - Len(pending)), idx + 1)

-----------------------------------------------------------------------------
(* Correctness.                                                            *)

\* A buffer that overflows, or that is lost, holds part of a record.
Complete == job.sink # "audit" /\ (job.sink = "buffer" => exit # "data")

\* Once the command reads, what has become of the records in frames.
OutputOf(frames) ==
  LET count == Len(frames)
  IN  IF Adrift(frames)
        THEN Complete => IsPrefix(OfFirst(frames, count), Written)
        ELSE /\ idx <= count
             /\ Complete => Written = OfFirst(frames, idx) \o OfCurrent(frames)
             /\ exit = "ok" =>
                  idx = count /\ (job.sink # "audit" => out = Written)
             /\ job.sink = "buffer" => out \in {<<>>, OfFirst(frames, count)}

\* At every step the rows written are those of the input's records, in their
\* order, each record whole or not at all where rows are held back; a command
\* that ends well has written them all, and one that buffers writes all or
\* nothing.
OutputIsOfInput ==
  (pc \notin {"load", "header"} /\ exit # "config") => OutputOf(Frames)

Passes(frames) ==
  /\ \A i \in DOMAIN frames : Good(frames[i])
  /\ job.strict => Plan.full
NoRows(frames) == \A i \in DOMAIN frames : frames[i].rows = <<>>

\* Why a command may end with an error whose records are all good.
Unreadable ==
  /\ job.encoding # "stream"
  /\ \E i \in 1 .. Len(job.input) : job.input[i].kind = "unreadable"
Headless == job.encoding = "csv" /\ job.input[1].kind # "header"
Overflowing == job.sink = "buffer" /\ Len(buffer) = MaxBuffered

VerdictOf(frames) ==
  LET passes == Passes(frames) \/ NoRows(frames)
  IN  /\ exit = "ok" => passes
      /\ passes /\ exit # "ok" => Unreadable \/ Headless \/ Overflowing

\* A verification succeeds exactly when every record of the input does, or
\* when there is nothing to verify, or is cut short by an unreadable line.
VerdictIsOfInput ==
  (pc = "exit" /\ exit # "config" /\ job.verify) => VerdictOf(Frames)

\* A record that was framed is refused for its bytes only: it reaches as far
\* as its items, its counters are in range, and what decodes is rebuilt to the
\* same bytes.  It may be too short where the layout is not listed in the
\* order in which its items lie: its length is the end of the item listed
\* last, while the check of the layout looks for overlaps only.
ForBytes(row) ==
  row.field # <<"<record>">> =>
    /\ row.code \notin {"E_OCCURS_COUNT", "E_VERIFY"}
    /\ Plan.ordered => row.code # "E_OFFSET"

FramedRecordsDecode ==
  LET refused == {row \in Range(pending) : ~row.valid}
                   \cup {s.row : s \in Range(audit.samples)}
  IN  \A row \in refused : ForBytes(row)
=============================================================================
