---------------------------- MODULE BatchDecode ----------------------------
(***************************************************************************)
(* The batch commands of cobol-packed: a job reads the records of its      *)
(* input one after another, decodes each into rows, counts records and     *)
(* rows in the audit, and writes rows to its sink under an error policy.   *)
(*                                                                         *)
(* A job is a record                                                       *)
(*   layout    the name of its schema                                      *)
(*   plan      what RecordLayout makes of the schema: whether it is ok,    *)
(*             has a table (occurs), covers the record (full), its length  *)
(*             and that of the header, the bytes up to the last counter;   *)
(*             and whether it is listed in the order of its offsets        *)
(*             (ordered), which no command looks at                        *)
(*   encoding  "stream" (binary), "hex", "csv" or "jsonl"                  *)
(*   on_error  "fail", "skip-record" or "emit-error-row"                   *)
(*   verify    whether the command is batch verify                         *)
(*   strict    whether whole records must be verified                      *)
(*   sink      "stream" (jsonl, csv, table), "buffer" (json), "audit"      *)
(*   limit     --max-records, or NoLimit                                   *)
(*   samples   --sample-failures                                           *)
(*   input     bytes of a stream, or lines: [kind |-> "bytes", bytes],     *)
(*             [kind |-> "fields", fields], or a kind without a record:    *)
(*             "blank", "header", "bad" (does not parse) or "unreadable"   *)
(*             (too long, or not UTF-8)                                    *)
(***************************************************************************)
EXTENDS Integers, Sequences, SequencesExt

CONSTANTS
  Jobs,               \* the jobs that may run
  LengthOf(_, _),     \* (job, bytes): length of the record that starts so,
                      \*   or RefusedLen when its counter is refused
  RowsOf(_, _),       \* (job, record): the rows the record decodes to
  MaxBuffered         \* MAX_BUFFERED_ROWS

NoLimit == -1
RefusedLen == -1

\* With a table, the bytes up to the last counter tell the record's length.
HeaderOf(plan) == IF plan.occurs THEN plan.header ELSE plan.length

\* How long the record is that begins after the first start bytes.
LengthAt(j, start) ==
  LengthOf(j, SubSeq(j.input, start + 1, start + HeaderOf(j.plan)))

\* The records a job may decode: bytes of a stream as many as their header
\* says, a line of that many bytes, and a line's fields.
StreamRecords(j) ==
  {SubSeq(j.input, at[1] + 1, at[2]) :
     at \in {at \in (0 .. Len(j.input)) \X (0 .. Len(j.input)) :
              /\ at[1] + HeaderOf(j.plan) <= Len(j.input)
              /\ at[2] = at[1] + LengthAt(j, at[1])}}
LineRecords(j) ==
  UNION {CASE line.kind = "bytes" ->
                {bytes \in {line.bytes} : LengthOf(j, bytes) = Len(bytes)}
           [] line.kind = "fields" -> {line.fields}
           [] OTHER -> {} : line \in {j.input[i] : i \in 1 .. Len(j.input)}}
Decodable(j) ==
  IF j.encoding = "stream" THEN StreamRecords(j) ELSE LineRecords(j)

IsSequence(s) == s \in Seq({s[i] : i \in DOMAIN s})

ASSUME BufferAssumption == MaxBuffered \in Nat
ASSUME JobAssumption ==
  \A j \in Jobs : /\ j.samples \in Nat /\ j.limit \in Nat \cup {NoLimit}
                  /\ j.on_error \in {"fail", "skip-record", "emit-error-row"}
                  /\ j.sink \in {"stream", "buffer", "audit"}
                  /\ IsSequence(j.input)
                  /\ \A i \in DOMAIN j.input :
                       j.encoding # "stream" /\ j.input[i].kind = "bytes" =>
                         IsSequence(j.input[i].bytes)

\* A plan that was accepted has a field, so that records are not empty.
ASSUME LengthAssumption ==
  \A j \in Jobs : j.plan.ok /\ j.encoding = "stream" =>
    /\ HeaderOf(j.plan) \in Nat \ {0}
    /\ \A start \in 0 .. Len(j.input) :
         start + HeaderOf(j.plan) <= Len(j.input) =>
           LengthAt(j, start) \in {RefusedLen} \cup (Nat \ {0})

\* Records decode to rows, each valid or not.
ASSUME RowsAssumption ==
  \A j \in Jobs : j.plan.ok =>
    \A record \in Decodable(j) :
      /\ IsSequence(RowsOf(j, record))
      /\ \A i \in DOMAIN RowsOf(j, record) :
           RowsOf(j, record)[i].valid \in BOOLEAN

VARIABLES
  job,                \* the command that runs
  pc,                 \* "load", "header", "read", "emit", "finish", "exit"
  rest,               \* the input not yet read
  idx,                \* index of the record, counted from 0
  pending,            \* rows of the record not yet counted and written
  before,             \* fields_invalid when the record began
  audit,              \* the counters and failure samples
  buffer,             \* rows held back by a buffering sink
  out,                \* rows that reached the output
  exit                \* "none", "ok", "config" or "data"

vars == <<job, pc, rest, idx, pending, before, audit, buffer, out, exit>>

Plan == job.plan

EmptyAudit ==
  [records_seen |-> 0, records_valid |-> 0, records_invalid |-> 0,
   fields_seen |-> 0, fields_valid |-> 0, fields_invalid |-> 0,
   samples |-> <<>>]

Init ==
  /\ job \in Jobs
  /\ pc = "load" /\ rest = job.input /\ idx = 0
  /\ pending = <<>> /\ before = 0 /\ audit = EmptyAudit
  /\ buffer = <<>> /\ out = <<>> /\ exit = "none"

-----------------------------------------------------------------------------
(* The audit and the sink.                                                 *)

Row(row) == [record |-> idx, row |-> row]
ErrorOf(code) == [field |-> <<"<record>">>, at |-> 0, valid |-> FALSE,
                  code |-> code]

\* One row is counted; the first failures are kept as samples.
RecordAudit(a, row) ==
  IF row.valid
    THEN [a EXCEPT !.fields_seen = @ + 1, !.fields_valid = @ + 1]
    ELSE [a EXCEPT !.fields_seen = @ + 1, !.fields_invalid = @ + 1,
                   !.samples = IF Len(@) < job.samples
                                 THEN Append(@, Row(row)) ELSE @]

RecordSeen(a) == [a EXCEPT !.records_seen = @ + 1]
RecordInvalid(a) == [a EXCEPT !.records_invalid = @ + 1]

\* The command ends with an error: what a buffer holds is lost.
Abort ==
  /\ pc' = "exit" /\ exit' = "data"
  /\ UNCHANGED <<buffer, out>>

\* A row goes to the sink, and the command goes on at next.
Emitted(row, next) ==
  IF job.sink = "buffer" /\ Len(buffer) >= MaxBuffered THEN Abort
  ELSE /\ pc' = next
       /\ out' = IF job.sink = "stream" THEN Append(out, Row(row)) ELSE out
       /\ buffer' = IF job.sink = "buffer" THEN Append(buffer, Row(row))
                                           ELSE buffer
       /\ UNCHANGED exit

\* The command goes on at next without writing.
Proceed(next) == pc' = next /\ UNCHANGED <<buffer, out, exit>>

\* A whole record is refused for one row: every policy counts it.
Refuse(row, next) ==
  CASE job.on_error = "fail" -> Abort
    [] job.on_error = "skip-record" -> Proceed(next)
    [] job.on_error = "emit-error-row" -> Emitted(row, next)

RecordError(code, next) ==
  /\ audit' = RecordAudit(RecordInvalid(RecordSeen(audit)), ErrorOf(code))
  /\ Refuse(ErrorOf(code), next)
  /\ idx' = idx + 1
  /\ UNCHANGED <<job, pending, before>>

\* The policies that hold a record's rows back until all of them are valid.
Atomic == job.on_error # "emit-error-row"
AllValid(rows) == \A i \in 1 .. Len(rows) : rows[i].valid
FirstInvalid(rows, i) ==
  ~rows[i].valid /\ AllValid(SubSeq(rows, 1, i - 1))

RefuseRow(row) ==
  /\ audit' = RecordAudit(RecordInvalid(RecordSeen(audit)), row)
  /\ Refuse(row, "read")
  /\ idx' = idx + 1
  /\ UNCHANGED <<job, pending, before>>

\* Mutant: invalid rows are counted from the start of the job.
BeginRecord_SinceStart(rows) ==
  /\ audit' = RecordSeen(audit)
  /\ pending' = rows
  /\ Proceed("emit")
  /\ UNCHANGED <<job, idx, before>>

BeginRecord(rows) ==
  /\ audit' = RecordSeen(audit)
  /\ pending' = rows
  /\ before' = audit.fields_invalid
  /\ Proceed("emit")
  /\ UNCHANGED <<job, idx>>

\* Mutant: rows are written before all of them were looked at.
TakeRecord_Rowwise(record) ==
  \E rows \in {RowsOf(job, record)} : BeginRecord(rows)

TakeRecord(record) ==
  \E rows \in {RowsOf(job, record)} :
    \/ /\ Atomic
       /\ \E i \in 1 .. Len(rows) :
            FirstInvalid(rows, i) /\ RefuseRow(rows[i])
    \/ /\ Atomic => AllValid(rows)
       /\ BeginRecord(rows)

EmitRow ==
  /\ pc = "emit" /\ pending # <<>>
  /\ audit' = RecordAudit(audit, Head(pending))
  /\ pending' = Tail(pending)
  /\ Emitted(Head(pending), "emit")
  /\ UNCHANGED <<job, rest, idx, before>>

EndRecord ==
  /\ pc = "emit" /\ pending = <<>>
  /\ audit' = IF audit.fields_invalid = before
                THEN [audit EXCEPT !.records_valid = @ + 1]
                ELSE RecordInvalid(audit)
  /\ idx' = idx + 1
  /\ Proceed("read")
  /\ UNCHANGED <<job, rest, pending, before>>

-----------------------------------------------------------------------------
(* Starting and ending the command.                                        *)

Accepted ==
  /\ Plan.ok /\ job.limit # 0
  /\ job.strict => job.encoding \in {"stream", "hex"}

Load ==
  /\ pc = "load" /\ Accepted
  /\ Proceed(IF job.encoding = "csv" THEN "header" ELSE "read")
  /\ UNCHANGED <<job, rest, idx, pending, before, audit>>

RefuseJob ==
  /\ pc = "load" /\ ~Accepted
  /\ pc' = "exit" /\ exit' = "config"
  /\ UNCHANGED <<job, rest, idx, pending, before, audit, buffer, out>>

NothingSeen == audit.records_seen = 0 \/ audit.fields_seen = 0
NothingInvalid == audit.records_invalid = 0 /\ audit.fields_invalid = 0

\* Mutant: bytes no item covers do not count.
Status_NoCoverage ==
  IF NothingSeen THEN "empty"
  ELSE IF NothingInvalid THEN "passed" ELSE "failed"

Status ==
  IF NothingSeen THEN "empty"
  ELSE IF NothingInvalid /\ ~(job.verify /\ job.strict /\ ~Plan.full)
         THEN "passed" ELSE "failed"

Finish ==
  /\ pc = "finish"
  /\ out' = IF job.sink = "buffer" THEN buffer ELSE out
  /\ exit' = IF job.verify /\ Status = "failed" THEN "data" ELSE "ok"
  /\ pc' = "exit"
  /\ UNCHANGED <<job, rest, idx, pending, before, audit, buffer>>

AtLimit == job.limit # NoLimit /\ idx >= job.limit

-----------------------------------------------------------------------------
(* A stream of bytes.  With a table, the bytes up to the last counter are  *)
(* read first and tell how long the record is.                             *)

Reading == pc = "read" /\ job.encoding = "stream"
HeaderLength == HeaderOf(Plan)
Header == SubSeq(rest, 1, HeaderLength)
Left(n) == SubSeq(rest, n + 1, Len(rest))

EndOfStream ==
  /\ Reading /\ (AtLimit \/ rest = <<>>)
  /\ Proceed("finish")
  /\ UNCHANGED <<job, rest, idx, pending, before, audit>>

TornHeader ==
  /\ Reading /\ ~AtLimit /\ rest # <<>> /\ Len(rest) < HeaderLength
  /\ rest' = <<>>
  /\ RecordError("E_RECORD_LENGTH", "finish")

HeaderRead == Reading /\ ~AtLimit /\ rest # <<>> /\ Len(rest) >= HeaderLength

\* Only the header was read: the next record begins right after it.  The row
\* really has the table's name; it is written as <record> here.
RefuseCounter ==
  /\ HeaderRead /\ LengthOf(job, Header) = RefusedLen
  /\ rest' = Left(HeaderLength)
  /\ RecordError("E_OCCURS_COUNT", "read")

TornRecord ==
  /\ HeaderRead /\ LengthOf(job, Header) > Len(rest)
  /\ rest' = <<>>
  /\ RecordError("E_RECORD_LENGTH", "finish")

ReadRecord ==
  /\ HeaderRead
  /\ \E length \in {LengthOf(job, Header)} \cap (0 .. Len(rest)) :
       /\ rest' = Left(length)
       /\ \E record \in {SubSeq(rest, 1, length)} : TakeRecord(record)

-----------------------------------------------------------------------------
(* Lines of text.                                                          *)

\* The first line of CSV names the fields; an error there ends the command.
ReadHeader ==
  /\ pc = "header" /\ rest # <<>> /\ Head(rest).kind = "header"
  /\ rest' = Tail(rest)
  /\ Proceed("read")
  /\ UNCHANGED <<job, idx, pending, before, audit>>

NoHeader ==
  /\ pc = "header" /\ (rest # <<>> => Head(rest).kind # "header")
  /\ IF rest = <<>> THEN Proceed("finish") ELSE Abort
  /\ UNCHANGED <<job, rest, idx, pending, before, audit>>

AtLine(kinds) ==
  /\ pc = "read" /\ job.encoding # "stream"
  /\ rest # <<>> /\ Head(rest).kind \in kinds

EndOfLines ==
  /\ pc = "read" /\ job.encoding # "stream" /\ rest = <<>>
  /\ Proceed("finish")
  /\ UNCHANGED <<job, rest, idx, pending, before, audit>>

\* Whatever the policy, such a line ends the command.
UnreadableLine ==
  /\ AtLine({"unreadable"})
  /\ Abort
  /\ UNCHANGED <<job, rest, idx, pending, before, audit>>

\* Mutant: the line is not consumed.
BlankLine_Kept ==
  /\ AtLine({"blank"})
  /\ Proceed("read")
  /\ UNCHANGED <<job, rest, idx, pending, before, audit>>

BlankLine ==
  /\ AtLine({"blank"})
  /\ rest' = Tail(rest)
  /\ Proceed("read")
  /\ UNCHANGED <<job, idx, pending, before, audit>>

\* The limit is looked at once a line with a record in it has been read.
LimitLine ==
  /\ AtLine({"bad", "bytes", "fields"}) /\ AtLimit
  /\ rest' = Tail(rest)
  /\ Proceed("finish")
  /\ UNCHANGED <<job, idx, pending, before, audit>>

BadLine ==
  /\ AtLine({"bad"}) /\ ~AtLimit
  /\ rest' = Tail(rest)
  /\ RecordError("E_LINE", "read")

HexLine ==
  /\ AtLine({"bytes"}) /\ ~AtLimit
  /\ rest' = Tail(rest)
  /\ LET bytes == Head(rest).bytes
         length == LengthOf(job, bytes)
     IN  \/ length = Len(bytes) /\ TakeRecord(bytes)
         \/ length = RefusedLen /\ RecordError("E_OCCURS_COUNT", "read")
         \/ /\ length \notin {RefusedLen, Len(bytes)}
            /\ RecordError("E_RECORD_LENGTH", "read")

NamedLine ==
  /\ AtLine({"fields"}) /\ ~AtLimit
  /\ rest' = Tail(rest)
  /\ TakeRecord(Head(rest).fields)

-----------------------------------------------------------------------------
Next ==
  \/ Load \/ RefuseJob \/ EmitRow \/ EndRecord \/ Finish
  \/ EndOfStream \/ TornHeader \/ RefuseCounter \/ TornRecord \/ ReadRecord
  \/ ReadHeader \/ NoHeader \/ EndOfLines \/ UnreadableLine \/ BlankLine
  \/ LimitLine \/ BadLine \/ HexLine \/ NamedLine

\* One thread runs the command to its end.
Spec == Init /\ [][Next]_vars /\ WF_vars(Next)
-----------------------------------------------------------------------------
(* Correctness.                                                            *)

\* Records begun and not yet found valid or invalid.
Open == audit.records_seen - audit.records_valid - audit.records_invalid
Written == IF job.sink = "buffer" THEN buffer ELSE out

\* The counters of the audit account for each other at every step: every
\* record begun was found valid or invalid, every row as well, each invalid
\* record has an invalid row, exactly one where rows are held back, the
\* samples are the first invalid rows, and no row is written uncounted.
ReportAddsUp ==
  /\ Open \in 0 .. 1
  /\ pc \in {"read", "finish"} \/ exit = "ok" => Open = 0
  /\ pc = "emit" => Open = 1
  /\ audit.fields_seen = audit.fields_valid + audit.fields_invalid
  /\ audit.records_invalid <= audit.fields_invalid
  /\ Atomic => audit.records_invalid = audit.fields_invalid
  /\ Len(audit.samples) <= job.samples
  /\ Len(audit.samples) <= audit.fields_invalid
  /\ Len(audit.samples) < job.samples
       => Len(audit.samples) = audit.fields_invalid
  /\ Len(buffer) <= MaxBuffered
  /\ exit = "none" /\ job.sink # "audit" =>
       Len(Written) = IF Atomic THEN audit.fields_valid
                                ELSE audit.fields_seen

\* Every command ends.
Finishes == <>(pc = "exit")

=============================================================================
