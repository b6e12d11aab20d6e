--------------------------- MODULE MCBatchDecode ---------------------------
(***************************************************************************)
(* Jobs of cobol-packed over small layouts and every short input of a few  *)
(* byte values or lines.                                                   *)
(***************************************************************************)
EXTENDS BatchOutput, RecordLayout

CONSTANTS MaxBytes, MaxLines

\* A function whose values TLC keeps, where ENABLED would compute them anew.
Table(f) == f @@ <<>>

-----------------------------------------------------------------------------
(* Layouts.                                                                *)

Pfd(digits) ==
  [type |-> "packed", digits |-> digits, signed |-> TRUE, mode |-> "pfd"]
Unsigned == [type |-> "packed", digits |-> 1, signed |-> FALSE,
             mode |-> "nopfd"]
Binary == [type |-> "binary", width |-> 2, signed |-> TRUE]

Field(name, codec, offset) ==
  [kind |-> "field", name |-> name, codec |-> codec, sync |-> FALSE,
   offset |-> offset]
Synced(name, codec) == [Field(name, codec, NoOffset) EXCEPT !.sync = TRUE]
Filler(offset) ==
  [kind |-> "filler", name |-> "f", length |-> 1, offset |-> offset]
TableOf(counter, min, offset) ==
  [kind |-> "occurs", name |-> "t", counter |-> counter, min |-> min,
   max |-> 2, offset |-> offset,
   layout |-> <<Field("e", Pfd(1), IF offset = NoOffset
                                        THEN NoOffset ELSE 0)>>]
Overlay(offset) ==
  [kind |-> "redefines", name |-> "r", base_length |-> 0, offset |-> offset,
   variants |->
     <<[name |-> "a", selector |-> <<"n", 1>>,
        layout |-> <<Field("x", Pfd(1), 0), Field("y", Pfd(1), 1)>>],
       [name |-> "b", selector |-> <<>>,
        layout |-> <<Field("z", Pfd(2), 0)>>]>>]

Schema(mode, length, layout) ==
  [mode |-> mode, platform |-> "ibm", record_length |-> length,
   strict |-> FALSE, layout |-> layout]

Schemas ==
  [fixed |-> Schema("declared", 2,
     <<Field("a", Pfd(1), 0), Field("b", Pfd(1), 1)>>),
   loose |-> Schema("declared", 2, <<Field("a", Pfd(1), 0)>>),
   odo |-> Schema("sequential", NoOffset,
     <<Field("n", Unsigned, NoOffset), TableOf("n", 1, NoOffset)>>),
   suffix |-> Schema("declared", NoOffset,
     <<Field("n", Unsigned, 0), TableOf("n", 0, 1), Field("s", Pfd(1), 3)>>),
   aligned |-> Schema("sequential", NoOffset,
     <<Field("n", Unsigned, NoOffset), Synced("b", Binary)>>),
   windows |-> Schema("declared", 4,
     <<Field("n", Unsigned, 0), Overlay(1), Filler(3)>>),
   \* Accepted, though not listed in the order in which the fields lie: a
   \* field past the end, also of a length that is given, one behind a table,
   \* and one past the end of its occurrence.
   unordered |-> Schema("declared", NoOffset,
     <<Field("b", Pfd(1), 1), Field("a", Pfd(1), 0)>>),
   past |-> Schema("declared", 2,
     <<Field("b", Pfd(1), 3), Field("a", Pfd(1), 0)>>),
   shuffled |-> Schema("declared", NoOffset,
     <<Field("n", Unsigned, 0), Field("s", Pfd(1), 3), TableOf("n", 0, 1)>>),
   element |-> Schema("declared", NoOffset,
     <<Field("n", Unsigned, 0),
       [TableOf("n", 0, 1) EXCEPT
          !.layout = <<Field("y", Pfd(1), 1), Field("x", Pfd(1), 0)>>]>>),
   \* Refused: an offset where there is none, a table before the end, a
   \* counter after its table, two fields on one byte, a byte uncovered.
   offset |-> Schema("sequential", NoOffset, <<Field("n", Unsigned, 0)>>),
   table |-> Schema("sequential", NoOffset,
     <<Field("n", Unsigned, NoOffset), TableOf("n", 1, NoOffset),
       Field("s", Pfd(1), NoOffset)>>),
   counter |-> Schema("declared", 3,
     <<Field("n", Unsigned, 2), TableOf("n", 1, 0)>>),
   overlap |-> Schema("declared", 2,
     <<Field("a", Pfd(2), 0), Field("b", Pfd(1), 1)>>),
   uncovered |-> [Schema("declared", 2, <<Field("a", Pfd(1), 0)>>)
                    EXCEPT !.strict = TRUE]]
Refused == {"offset", "table", "counter", "overlap", "uncovered"}

\* CSV and JSONL: the fields by name, the second one optional.
Names == [items |-> <<[name |-> "a", codec |-> Pfd(1), required |-> TRUE],
                      [name |-> "b", codec |-> Pfd(1), required |-> FALSE]>>,
          ok |-> TRUE, ordered |-> TRUE, full |-> FALSE, occurs |-> FALSE,
          header |-> 0, length |-> 0]

\* The layouts an item holds: of an occurrence, of each variant.
Inner(item) ==
  CASE item.kind = "occurs" -> {item.items}
    [] item.kind = "redefines" -> {v.items : v \in Range(item.variants)}
    [] OTHER -> {}

RECURSIVE InnerInOrder(_)
InnerInOrder(items) ==
  \A item \in Range(items) : \A inner \in Inner(item) :
    InOrder(inner) /\ InnerInOrder(inner)

\* With a table a record is as long as the item that ends last, wherever it
\* is listed.
IsOrdered(plan) ==
  InnerInOrder(plan.items) /\ (plan.occurs \/ InOrder(plan.items))

PlanOf(schema) ==
  LET plan == PlanSchema(schema)
  IN  plan @@ [ordered |-> plan.ok => IsOrdered(plan)]

Plans ==
  Table([layout \in DOMAIN Schemas |-> PlanOf(Schemas[layout])])
  @@ [names |-> Names]

-----------------------------------------------------------------------------
(* Inputs.  16 * digit + sign: 28 is +1, 44 is +2, 29 is -1, 156 is +9,    *)
(* 255 is no digit.                                                        *)

Streams(bytes, n) == UNION {[1 .. k -> bytes] : k \in 0 .. n}

Kind(kind) == [kind |-> kind]
Hex(bytes) == [kind |-> "bytes", bytes |-> bytes]
Text(byte) == [kind |-> "hex", bytes |-> <<byte>>]
Fields(fields) == [kind |-> "fields", fields |-> fields]

Marks == {Kind("blank"), Kind("bad"), Kind("unreadable")}
OdoLines ==
  {Hex(<<28, 29>>), Hex(<<44, 28>>), Hex(<<28, 255>>),
   Hex(<<255, 28>>)} \cup Marks
AlignedLines == {Hex(<<28, 0, 1, 0>>), Hex(<<28, 1, 0>>), Kind("blank")}
NameLines ==
  {Fields([a |-> Text(28), b |-> Text(29)]), Fields([a |-> Text(28)]),
   Fields([b |-> Text(28)]), Fields([a |-> Text(28), b |-> Kind("nontext")]),
   Fields([a |-> Kind("nonhex")])} \cup Marks
CsvLines ==
  {Fields([a |-> Text(28)]), Fields([b |-> Text(29)]),
   Fields([c |-> Text(28)]), Kind("bad")}
CsvInputs ==
  {<<>>, <<Kind("bad")>>} \cup
  {<<Kind("header")>> \o lines : lines \in Streams(CsvLines, MaxLines)}

-----------------------------------------------------------------------------
(* Records.  What each may hold is decoded once, before the jobs run.      *)

Digits ==
  [fixed |-> {28, 13, 255}, loose |-> {28, 255}, odo |-> {28, 44, 156, 255},
   suffix |-> {28, 12, 255}, windows |-> {28, 12, 255},
   unordered |-> {28, 255}, past |-> {28, 255}, shuffled |-> {28, 12},
   element |-> {28, 12}]

BytesOf(lines) == {line.bytes : line \in {l \in lines : l.kind = "bytes"}}
FieldsOf(lines) ==
  {line.fields : line \in {l \in lines : l.kind = "fields"}}

Records ==
  [fixed |-> Streams(Digits.fixed, MaxBytes),
   loose |-> Streams(Digits.loose, MaxBytes),
   odo |-> Streams(Digits.odo, MaxBytes) \cup BytesOf(OdoLines),
   suffix |-> Streams(Digits.suffix, MaxBytes),
   windows |-> Streams(Digits.windows, MaxBytes),
   unordered |-> Streams(Digits.unordered, MaxBytes),
   past |-> Streams(Digits.past, MaxBytes),
   shuffled |-> Streams(Digits.shuffled, MaxBytes),
   element |-> Streams(Digits.element, MaxBytes),
   aligned |-> BytesOf(AlignedLines),
   names |-> FieldsOf(NameLines \cup CsvLines)]

Framed ==
  Table([layout \in DOMAIN Records \ {"names"} |->
    Table([bytes \in Records[layout] |->
             RecordLength(Plans[layout], bytes)])])

DecodedBy(layout, record, verify) ==
  CASE layout = "names" -> NamedRows(Plans[layout].items, record, verify)
    [] Framed[layout][record] = Len(record) ->
         DecodeRows(Plans[layout], record, verify)
    [] OTHER -> <<>>

Decoded ==
  Table([layout \in DOMAIN Records |-> Table([verify \in BOOLEAN |->
    Table([record \in Records[layout] |->
             DecodedBy(layout, record, verify)])])])

MCLengthOf(j, bytes) == Framed[j.layout][bytes]
MCRowsOf(j, record) == Decoded[j.layout][j.verify][record]

-----------------------------------------------------------------------------
(* Jobs.                                                                   *)

\* A plan without its items.
Summary(plan) ==
  [ok |-> plan.ok, ordered |-> plan.ordered, occurs |-> plan.occurs,
   header |-> plan.header, length |-> plan.length, full |-> plan.full]

Policies == {"fail", "skip-record", "emit-error-row"}

JobsOf(layout, encoding, inputs, verifies, stricts, sinks, limits) ==
  [layout : {layout}, plan : {Summary(Plans[layout])},
   encoding : {encoding}, on_error : Policies, verify : verifies,
   strict : stricts, sink : sinks, limit : limits, samples : {2},
   input : inputs]

StreamJobs(layout, verifies, stricts, sinks, limits) ==
  JobsOf(layout, "stream", Streams(Digits[layout], MaxBytes), verifies,
         stricts, sinks, limits)

MCJobs ==
  LET no == {FALSE} yes == {TRUE} stream == {"stream"} all == {NoLimit}
  IN  StreamJobs("fixed", BOOLEAN, no, {"stream", "buffer", "audit"},
                 {NoLimit, 1})
      \cup StreamJobs("odo", yes, no, {"stream", "buffer"}, all)
      \cup StreamJobs("suffix", no, no, stream, all)
      \cup StreamJobs("loose", yes, BOOLEAN, stream, all)
      \cup StreamJobs("windows", yes, BOOLEAN, stream, all)
      \cup UNION {StreamJobs(layout, yes, no, stream, all)
                    : layout \in {"unordered", "past", "shuffled", "element"}}
      \cup JobsOf("odo", "hex", Streams(OdoLines, MaxLines), yes, no, stream,
                  {NoLimit, 1})
      \cup JobsOf("aligned", "hex", Streams(AlignedLines, MaxLines), no, no,
                  {"buffer"}, all)
      \cup JobsOf("names", "jsonl", Streams(NameLines, MaxLines), yes, no,
                  stream, {NoLimit, 2})
      \cup JobsOf("names", "csv", CsvInputs, yes, BOOLEAN, stream,
                  {NoLimit, 0})
      \cup UNION {JobsOf(name, "stream", {<<28>>}, yes, no, stream, all)
                    : name \in Refused}

-----------------------------------------------------------------------------
(* The lengths of records, said of their first byte: 16 * digit + sign.    *)

\* With a table of one item each, the digit counts the items that follow;
\* "suffix" ends with a field at a fixed place.
KnownLength(layout, byte) ==
  CASE layout = "unordered" -> 1
    [] layout \in {"fixed", "loose", "past"} -> 2
    [] layout = "windows" -> 4
    [] layout \in {"suffix", "shuffled"} -> IF byte = 255 THEN RefusedLen ELSE 4
    [] layout = "element" -> 1 + byte \div 16
    [] layout = "odo" -> IF byte \div 16 \in 1 .. 2 THEN 1 + byte \div 16
                                                   ELSE RefusedLen

ASSUME LengthsAreKnown ==
  \A layout \in DOMAIN Digits : \A bytes \in Records[layout] \ {<<>>} :
    Framed[layout][bytes] = KnownLength(layout, bytes[1])

\* Accepted layouts are planned as the proofs about their fields ask for.
ASSUME PlansAreWell ==
  \A layout \in DOMAIN Schemas \ Refused :
    LET plan == Plans[layout]
    IN  /\ IsPlan(plan)
        /\ plan.ordered /\ ~plan.occurs =>
             FitsInOrder(plan.items, plan.length)
        /\ plan.ordered =>
             \A i \in DOMAIN plan.items :
               \A items \in Inner(plan.items[i]) :
                 FitsInOrder(items, IF plan.items[i].kind = "occurs"
                                      THEN plan.items[i].size
                                      ELSE plan.items[i].length)

\* Records in full, the occurrences they count included.
FramedRecords(layout) ==
  {record \in Records[layout] \ {<<>>} : Framed[layout][record] = Len(record)}

PastTheEnd(layout, record) ==
  \E row \in Range(Decoded[layout][FALSE][record]) : row.code = "E_OFFSET"

\* A layout may be listed in any order.  Without a table, and in each
\* occurrence, it is as long as the item listed last: every record of such a
\* layout has a field past its end.  A table's record has none.
ASSUME OrderMatters ==
  /\ \A layout \in {"unordered", "past"} :
       /\ Plans[layout].ok
       /\ \A record \in FramedRecords(layout) : PastTheEnd(layout, record)
  /\ Plans.element.ok
  /\ \A record \in FramedRecords("element") :
       Len(record) > 1 => PastTheEnd("element", record)
  /\ Plans.shuffled.ok
  /\ \A record \in FramedRecords("shuffled") : ~PastTheEnd("shuffled", record)

=============================================================================
