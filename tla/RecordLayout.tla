---------------------------- MODULE RecordLayout ----------------------------
(***************************************************************************)
(* Schema version 2 of cobol-packed: a layout of fields, fillers, tables   *)
(* (OCCURS DEPENDING ON) and overlays (REDEFINES) is planned into items    *)
(* with offsets, and records are decoded into rows by the plan.            *)
(*                                                                         *)
(* A raw item is a record of one of the kinds                              *)
(*   [kind |-> "field", name, codec, sync, offset]                         *)
(*   [kind |-> "filler", name, length, offset]                             *)
(*   [kind |-> "occurs", name, counter, min, max, layout, offset]          *)
(*   [kind |-> "redefines", name, base_length, variants, offset]           *)
(* where offset is NoOffset when the text gives none, and a variant is     *)
(* [name, selector, layout] with selector <<>> or <<name, value>>.         *)
(* A path is the sequence of the names that lead to an item.               *)
(***************************************************************************)
EXTENDS RecordFields, FiniteSets

NoOffset == -1

-----------------------------------------------------------------------------
(* Planning.  A plan in the making is a record: cursor is the end of the   *)
(* last item, fields the fields a counter or a selector may name, header   *)
(* the bytes that hold every counter, ok is FALSE once an item is refused. *)

\* GnuCOBOL aligns nothing; the mainframe aligns numbers on their width.
Alignment(codec, platform) ==
  IF platform = "gnucobol" \/ codec.type = "bytes" THEN 1
  ELSE Min({ByteLen(codec), 8})

SyncSlack(offset, align) == (align - (offset % align)) % align

EmptyPlan(fields, header) ==
  [cursor |-> 0, items |-> <<>>, fields |-> fields, header |-> header,
   occurs |-> FALSE, ok |-> TRUE]

OffsetOf(raw, mode, cursor) ==
  IF mode = "declared" THEN raw.offset ELSE cursor

OffsetGiven(raw, mode) == (mode = "declared") = (raw.offset # NoOffset)

\* The fields a name reaches, as a sequence: the first one counts.
Named(fields, name) ==
  SelectSeq(fields, LAMBDA field: name \in {field.path, Last(field.path)})

PlanField(raw, ctx, plan) ==
  LET start == OffsetOf(raw, ctx.mode, plan.cursor)
      slack == IF ctx.mode = "sequential" /\ raw.sync
                 THEN SyncSlack(start, Alignment(raw.codec, ctx.platform))
                 ELSE 0
      field == [kind |-> "field", path |-> Append(ctx.path, raw.name),
                offset |-> start + slack, codec |-> raw.codec]
      gap == [kind |-> "gap", offset |-> start, length |-> slack]
  IN  [plan EXCEPT !.cursor = start + slack + ByteLen(raw.codec),
                   !.items = @ \o (IF slack > 0 THEN <<gap>> ELSE <<>>)
                               \o <<field>>,
                   !.fields = Append(@, field),
                   !.ok = /\ OffsetGiven(raw, ctx.mode)
                          /\ \A f \in Range(plan.fields) :
                               f.path # field.path]

PlanFiller(raw, ctx, plan) ==
  LET start == OffsetOf(raw, ctx.mode, plan.cursor)
  IN  [plan EXCEPT !.cursor = start + raw.length,
                   !.items = Append(@, [kind |-> "gap", offset |-> start,
                                        length |-> raw.length]),
                   !.ok = OffsetGiven(raw, ctx.mode) /\ raw.length > 0]

\* The fields of a group, moved to where its first occurrence lies.
Moved(fields, offset) ==
  [i \in DOMAIN fields |-> [fields[i] EXCEPT !.offset = @ + offset]]

NewFields(plan, fields) == SubSeq(fields, Len(plan.fields) + 1, Len(fields))

\* A counter is a whole number that ends before its table begins.
CounterFits(counter, offset) ==
  /\ counter.codec.type \in {"packed", "binary"}
  /\ counter.offset + ByteLen(counter.codec) <= offset

PlanOccurs(raw, last, ctx, plan, element) ==
  LET start == OffsetOf(raw, ctx.mode, plan.cursor)
      counters == Named(plan.fields, raw.counter)
      counter == counters[1]
      accepted == /\ OffsetGiven(raw, ctx.mode)
                  /\ ctx.mode = "sequential" => last
                  /\ raw.min <= raw.max
                  /\ element.ok /\ element.cursor > 0
                  /\ counters # <<>> /\ CounterFits(counter, start)
      group == [kind |-> "occurs", path |-> Append(ctx.path, raw.name),
                offset |-> start, min |-> raw.min, max |-> raw.max,
                size |-> element.cursor, counter |-> counter,
                items |-> element.items]
      known == plan.fields \o Moved(NewFields(plan, element.fields), start)
  IN  IF ~accepted THEN [plan EXCEPT !.ok = FALSE]
      ELSE [cursor |-> start + raw.max * element.cursor,
            items |-> Append(plan.items, group),
            fields |-> known, occurs |-> TRUE, ok |-> TRUE,
            header |-> Max({element.header,
                            counter.offset + ByteLen(counter.codec)})]

RECURSIVE PlanItems(_, _, _)
RECURSIVE PlanVariants(_, _, _, _)

\* One more variant, whose own layout is planned from the window's first byte;
\* selected is the field its selector names, at most one.
WithVariant(acc, raw, start, selected, body) ==
  [acc EXCEPT
     !.length = Max({@, body.cursor}),
     !.variants = Append(@, [selector |-> IF selected = <<>> THEN <<>>
                                ELSE <<selected[1], raw.selector[2]>>,
                             items |-> body.items]),
     !.fields = @ \o Moved(NewFields(acc, body.fields), start),
     !.header = body.header,
     !.occurs = @ \/ body.occurs,
     !.ok = /\ @ /\ body.ok
            /\ raw.selector # <<>> => selected # <<>>]

PlanVariants(variants, start, ctx, acc) ==
  IF variants = <<>> THEN acc
  ELSE LET raw == Head(variants)
       IN  PlanVariants(Tail(variants), start, ctx,
             WithVariant(acc, raw, start,
               IF raw.selector = <<>> THEN <<>>
                 ELSE Named(acc.fields, raw.selector[1]),
               PlanItems(raw.layout, [ctx EXCEPT !.path = Append(@, raw.name)],
                         EmptyPlan(acc.fields, acc.header))))

\* The window is as wide as the widest of its variants.
WithWindow(raw, start, path, ctx, plan, over) ==
  [cursor |-> start + over.length,
   items |-> Append(plan.items,
               [kind |-> "redefines", path |-> path, offset |-> start,
                length |-> over.length, variants |-> over.variants]),
   fields |-> over.fields, header |-> over.header, occurs |-> over.occurs,
   ok |-> /\ OffsetGiven(raw, ctx.mode) /\ raw.variants # <<>>
          /\ over.ok /\ over.length > 0]

PlanRedefines(raw, ctx, plan) ==
  LET start == OffsetOf(raw, ctx.mode, plan.cursor)
      path == Append(ctx.path, raw.name)
  IN  WithWindow(raw, start, path, ctx, plan,
        PlanVariants(raw.variants, start, [ctx EXCEPT !.path = path],
          [length |-> raw.base_length, variants |-> <<>>,
           fields |-> plan.fields, header |-> plan.header,
           occurs |-> plan.occurs, ok |-> TRUE]))

PlanItems(raws, ctx, plan) ==
  IF raws = <<>> \/ ~plan.ok THEN plan
  ELSE LET raw == Head(raws)
           inner == [ctx EXCEPT !.path = Append(@, raw.name)]
           next ==
             CASE raw.kind = "field" -> PlanField(raw, ctx, plan)
               [] raw.kind = "filler" -> PlanFiller(raw, ctx, plan)
               [] raw.kind = "occurs" ->
                    PlanOccurs(raw, Len(raws) = 1, ctx, plan,
                      PlanItems(raw.layout, inner,
                                EmptyPlan(plan.fields, plan.header)))
               [] raw.kind = "redefines" -> PlanRedefines(raw, ctx, plan)
       IN  PlanItems(Tail(raws), ctx, next)

\* The items that cover a byte of the record.
Covering(items, byte) ==
  {i \in DOMAIN items : items[i].offset <= byte /\ byte < ItemEnd(items[i])}

Bytes(items) == 0 .. Max({0} \cup {ItemEnd(item) : item \in Range(items)}) - 1

Overlapping(items) ==
  \E byte \in Bytes(items) : Cardinality(Covering(items, byte)) > 1

\* Nothing is covered twice, and exactly the bytes of the record are.
FullCoverage(items, schema) ==
  /\ ~Overlapping(items)
  /\ {byte \in Bytes(items) : Covering(items, byte) # {}}
       = 0 .. schema.record_length - 1

Planned(schema, plan, length) ==
  [items |-> plan.items, occurs |-> plan.occurs, header |-> plan.header,
   length |-> length, full |-> FullCoverage(plan.items, schema),
   ok |-> /\ plan.ok /\ plan.fields # <<>> /\ plan.cursor <= length
          /\ ~Overlapping(plan.items)
          /\ schema.strict => FullCoverage(plan.items, schema)]

RecordLengthOf(schema, plan) ==
  IF schema.record_length = NoOffset THEN plan.cursor ELSE schema.record_length

WithLength(schema, plan) ==
  Planned(schema, plan, RecordLengthOf(schema, plan))

\* A schema is [mode, platform, record_length, strict, layout];
\* record_length is NoOffset when the text gives none.
PlanSchema(schema) ==
  WithLength(schema,
    PlanItems(schema.layout,
      [mode |-> schema.mode, platform |-> schema.platform, path |-> <<>>],
      EmptyPlan(<<>>, 0)))

-----------------------------------------------------------------------------
(* Decoding a record into its rows, level by level.                        *)

\* Rows of one occurrence, or of a variant with its selector's outcome.
Marked(rows, mark) ==
  [i \in DOMAIN rows |-> [rows[i] EXCEPT !.field = Append(@, mark)]]

RECURSIVE DecodeItems(_, _, _, _)

DecodeOccurrences(group, record, verify, count) ==
  IF count = RefusedCount
    THEN <<ErrorRow(group.path, group.offset, "E_OCCURS_COUNT")>>
    ELSE FlattenSeq([i \in 1 .. count |->
           Marked(DecodeItems(group.items, group.offset + (i - 1) * group.size,
                              record, verify), i - 1)])

DecodeOccurs(group, record, verify) ==
  DecodeOccurrences(group, record, verify, OccursCount(group, record))

\* The rows of every variant, marked by whether its selector chose it.
VariantRows(selector, probe, rows) ==
  CASE ~probe.valid -> <<ErrorRow(probe.field, probe.at, "E_SELECTOR")>>
    [] probe.valid /\ probe.value = selector[2] -> Marked(rows, "active")
    [] OTHER -> Marked(rows, "inactive")

DecodeVariant(variant, group, record, verify) ==
  LET rows == DecodeItems(variant.items, group.offset, record, verify)
  IN  IF variant.selector = <<>> THEN rows
      ELSE VariantRows(variant.selector,
             DecodeField(variant.selector[1], 0, record, FALSE), rows)

DecodeRedefines(group, record, verify) ==
  IF group.offset + group.length > Len(record)
    THEN <<ErrorRow(group.path, group.offset, "E_OFFSET")>>
    ELSE FlattenSeq([i \in DOMAIN group.variants |->
           DecodeVariant(group.variants[i], group, record, verify)])

DecodeItem(item, base, record, verify) ==
  CASE item.kind = "field" -> <<DecodeField(item, base, record, verify)>>
    [] item.kind = "gap" -> <<>>
    [] item.kind = "occurs" -> DecodeOccurs(item, record, verify)
    [] item.kind = "redefines" -> DecodeRedefines(item, record, verify)

DecodeItems(items, base, record, verify) ==
  FlattenSeq([i \in DOMAIN items |->
                DecodeItem(items[i], base, record, verify)])

DecodeRows(plan, record, verify) ==
  DecodeItems(plan.items, 0, record, verify)

-----------------------------------------------------------------------------
(* Records of CSV and JSONL lines hold their fields by name, as text that  *)
(* should be hexadecimal: [kind |-> "hex", bytes], or of kind "nonhex" or  *)
(* "nontext".  Fields are [name, codec, required].                         *)

TextRow(field, text, verify) ==
  LET path == <<field.name>>
  IN  CASE text.kind = "nontext" -> ErrorRow(path, 0, "E_JSON_TYPE")
        [] text.kind = "nonhex" -> ErrorRow(path, 0, "E_HEX")
        [] OTHER ->
             FieldRow([path |-> path], 0,
                      verify => VerifyPacked(text.bytes, field.codec),
                      DecodePacked(text.bytes, field.codec))

NamedRow(field, record, verify) ==
  CASE field.name \in DOMAIN record ->
         <<TextRow(field, record[field.name], verify)>>
    [] field.name \notin DOMAIN record /\ field.required ->
         <<ErrorRow(<<field.name>>, 0, "E_REQUIRED")>>
    [] OTHER -> <<>>

NamedRows(fields, record, verify) ==
  FlattenSeq([i \in DOMAIN fields |-> NamedRow(fields[i], record, verify)])
=============================================================================
