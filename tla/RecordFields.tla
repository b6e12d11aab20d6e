---------------------------- MODULE RecordFields ----------------------------
(***************************************************************************)
(* The fields of a planned record in cobol-packed: how one decodes at its  *)
(* place, and how long a record is whose counters have been read.          *)
(*                                                                         *)
(* A planned item is a record of one of the kinds                          *)
(*   [kind |-> "field", path, offset, codec]                               *)
(*   [kind |-> "gap", offset, length]                                      *)
(*   [kind |-> "occurs", path, offset, min, max, size, counter, items]     *)
(*   [kind |-> "redefines", path, offset, length, variants]                *)
(* and a path is the sequence of the names that lead to an item.           *)
(***************************************************************************)
EXTENDS PackedCodec, FiniteSetsExt

-----------------------------------------------------------------------------
(* Codecs.  A codec is a packed shape with type |-> "packed", or           *)
(* [type |-> "binary", width, signed] or [type |-> "bytes", width].        *)

ByteLen(codec) ==
  IF codec.type = "packed" THEN ExpectedLen(codec.digits) ELSE codec.width

BigEndian(bytes) == FoldLeft(LAMBDA sum, byte: sum * 256 + byte, 0, bytes)

TwosComplement(n, width) ==
  IF n >= 2 ^ (8 * width - 1) THEN n - 2 ^ (8 * width) ELSE n

DecodeBytes(bytes, codec) ==
  CASE codec.type = "packed" -> DecodePacked(bytes, codec)
    [] codec.type = "binary" ->
         [ok |-> TRUE, value |-> IF codec.signed
                                   THEN TwosComplement(BigEndian(bytes),
                                                       codec.width)
                                   ELSE BigEndian(bytes)]
    [] OTHER -> [ok |-> TRUE, value |-> bytes]

\* Binary and raw bytes are always what their own encoding gives back.
SameBytes(bytes, codec) == codec.type = "packed" => VerifyPacked(bytes, codec)

-----------------------------------------------------------------------------
(* Decoding.  A row is [field, at, valid, code]: the path of the field     *)
(* with the occurrences that lead to it, its offset, and how it went; a    *)
(* valid one holds the value too.                                          *)

ErrorRow(path, at, code) ==
  [field |-> path, at |-> at, valid |-> FALSE, code |-> code]

\* A field of a record, as bytes, when the record reaches that far.
Reaches(at, codec, record) == at + ByteLen(codec) <= Len(record)
BytesAt(at, codec, record) == SubSeq(record, at + 1, at + ByteLen(codec))

\* The row of a field at its place in the record, from how decoding went.
FieldRow(field, at, same, outcome) ==
  CASE ~outcome.ok -> ErrorRow(field.path, at, outcome.code)
    [] outcome.ok /\ ~same -> ErrorRow(field.path, at, "E_VERIFY")
    [] OTHER -> [field |-> field.path, at |-> at, valid |-> TRUE,
                 code |-> "none", value |-> outcome.value]

FieldAt(field, at, record, verify) ==
  LET bytes == BytesAt(at, field.codec, record)
  IN  IF Reaches(at, field.codec, record)
        THEN FieldRow(field, at, verify => SameBytes(bytes, field.codec),
                      DecodeBytes(bytes, field.codec))
        ELSE ErrorRow(field.path, at, "E_OFFSET")

DecodeField(field, base, record, verify) ==
  FieldAt(field, base + field.offset, record, verify)

\* The number a table holds, or -1 for a count that is refused.
RefusedCount == -1
CountIn(group, row) ==
  IF row.valid /\ row.value \in group.min .. group.max
    THEN row.value ELSE RefusedCount

OccursCount(group, record) ==
  CountIn(group, DecodeField(group.counter, 0, record, FALSE))

-----------------------------------------------------------------------------
(* Framing: how long the record is whose first bytes are given.            *)

RefusedLength == -1

ItemEnd(item) ==
  CASE item.kind = "field" -> item.offset + ByteLen(item.codec)
    [] item.kind = "occurs" -> item.offset + item.max * item.size
    [] OTHER -> item.offset + item.length

ActualEnd(item, count) ==
  IF item.kind = "occurs" THEN item.offset + count * item.size
                          ELSE ItemEnd(item)

LastEnd(items, counts, header) ==
  IF RefusedCount \in Range(counts) THEN RefusedLength
  ELSE Max({ActualEnd(items[i], counts[i]) : i \in DOMAIN items}
             \cup {header})

ActualLength(plan, bytes) ==
  LastEnd(plan.items,
       [i \in DOMAIN plan.items |->
          IF plan.items[i].kind = "occurs"
            THEN OccursCount(plan.items[i], bytes) ELSE 0],
       plan.header)

\* Without a table every record is as long as the layout.
RecordLength(plan, bytes) ==
  IF plan.occurs THEN ActualLength(plan, bytes) ELSE plan.length

-----------------------------------------------------------------------------
(* What the plan of an accepted layout is.                                 *)

\* The shape of a packed field.
Shapes ==
  [digits : Nat \ {0}, signed : BOOLEAN, mode : {"pfd", "nopfd"},
   type : {"packed"}]

Codecs ==
  Shapes \cup [type : {"binary"}, width : Nat \ {0}, signed : BOOLEAN]
         \cup [type : {"bytes"}, width : Nat \ {0}]

\* A field has its codec and its place; every item has an end.
IsPlaced(field) == field.offset \in Nat /\ field.codec \in Codecs
IsItem(item) ==
  /\ item.offset \in Nat /\ ItemEnd(item) \in Nat
  /\ item.offset <= ItemEnd(item)
  /\ item.kind = "field" => IsPlaced(item)
  /\ item.kind = "redefines" => item.length \in Nat
  /\ item.kind = "occurs" =>
       /\ item.min \in Nat /\ item.max \in Nat /\ item.size \in Nat
       /\ IsPlaced(item.counter)

IsItems(items) ==
  /\ DOMAIN items = 1 .. Len(items) /\ Len(items) \in Nat
  /\ \A i \in DOMAIN items : IsItem(items[i])

\* With a table at the top it says so, and its header holds the counters.
IsPlan(plan) ==
  /\ plan.length \in Nat /\ plan.header \in Nat /\ plan.occurs \in BOOLEAN
  /\ IsItems(plan.items)
  /\ \A i \in DOMAIN plan.items : plan.items[i].kind = "occurs" =>
       /\ plan.occurs
       /\ plan.items[i].counter.offset + ByteLen(plan.items[i].counter.codec)
            <= plan.header

\* Items listed in the order in which they lie, the last one of which ends
\* within a length, as the last one listed always does.
InOrder(items) ==
  \A i, j \in DOMAIN items : i < j => ItemEnd(items[i]) <= items[j].offset

FitsInOrder(items, length) ==
  /\ IsItems(items) /\ InOrder(items)
  /\ Len(items) > 0 => ItemEnd(items[Len(items)]) <= length
=============================================================================
