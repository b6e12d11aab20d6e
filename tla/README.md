# A formal model of the COBOL virtual machine and its tools

This directory holds TLA+ modules about this repository: the virtual machine
in `crates/cobol-vm` that the Rust code generated from COBOL programs runs on;
what the analysis (`crates/cobol-sema`) and the generator
(`crates/cobol-codegen-rust`) make of the text such a program has; and the
batch commands of the packed-decimal tool (`cobol-packed`).  TLC checks them on
small instances; TLAPS proves most of their safety properties for every value of
the constants.  Line numbers below are those of `crates/cobol-vm/src/lib.rs` unless
another file is named: *sema* is `crates/cobol-sema/src/lib.rs`, *codegen*
`crates/cobol-codegen-rust/src/lib.rs`, *cli* the directory `src/cli` of
`cobol-packed-cobol2rust-preview-package/cobol-packed`.

    tlc -config OsFile.cfg MCOsFile        one run (see PROJECT.json for all)
    tlapm OdoTable_proofs.tla              the proofs of one module

## 1. The system

The repository turns COBOL into Rust and runs it.

| Part | Source | State it keeps | Operations |
|---|---|---|---|
| Virtual machine | `crates/cobol-vm` | storage cells, ODO tables, indexes, files, RERUN clauses, activations, SORT entries, declarative guards, ALTER targets | executes the procedures the generator emits |
| Generator | `crates/cobol-codegen-rust` | none | emits a Rust program against `VmRuntime` |
| Semantics, IR | `crates/cobol-sema`, `cobol-ir`, `cobol-record` | none that outlives a call | checks, lowering, record layouts |
| Front end | `crates/cobol-text`, `cobol-source`, `cobol-syntax`, `cobol-dialect`, `cobol-platform` | none | source formats, COPY and REPLACE, parsing, platform tables |
| Helpers | `crates/cobol-runtime` | none | decimal and display conversions |
| Converter | `crates/cobol-python`, `python/cobol_converter` | the output directories of a batch | converts, checks the build, compares with an oracle, serves an editor |
| Packed decimals | `cobol-packed-cobol2rust-preview-package/cobol-packed` | none; the command line keeps counters and an output | COMP-3 codec, batch decoding of record files |

Generated code builds one `VmRuntime`, registers fields, files, tables and
programs with it and calls `execute_procedure`.  Everything the program does
from then on are calls between methods of that one object: statements call the
file runtime (`VmFileRuntime`), which calls the operating system; a READ that
succeeds calls back into the runtime to count for RERUN; a file that fails
calls the statements of a declarative; a write to a counter field calls the
tables that depend on it.  There is no second thread, no async code and no
lock, so nothing here interleaves at the level of instructions.  What is hard
comes from elsewhere:

* **protocols**: a program may issue OPEN, READ, WRITE, REWRITE, DELETE and
  CLOSE in any order, and each request leaves bookkeeping (cursor, current
  record, handle position, record length) that the next one relies on;
* **several copies of one fact**: vector and tape image; counter field, active
  count and cells of a table; cursor and handle position;
* **partial failure**: an operating-system call fails half way through a
  request, or one table refuses a count when others took it;
* **crash and restart**: RERUN checkpoints are taken in the middle of a READ
  and restored in a new process, or in the one that survived an error;
* **names found at run time**: a CALL leaves the bindings of its arguments on a
  stack that every later lookup goes through, an ALTER changes where another
  paragraph's GO TO leads, RELEASE and RETURN find their SORT on a stack;
* **two readings of one thing**: the analysis and the generator each decide
  where a paragraph ends; the planner and the reader of a record layout each
  decide how long a record is; rows, counters and verdict of a batch each say
  which records were good;
* **nested calls**: GO TO, STOP RUN and errors travel through nested PERFORMs,
  CALLs, SORTs and declaratives as return values, and every call on the way has
  to undo what it had set up.

The components, with what makes each correct, are listed in `PROJECT.json`
(`components`), the places where this code is hard to test in `hazards`.

| Component | Correct when | Module |
|---|---|---|
| File in memory | it is a sequence of records; REWRITE and DELETE act on the record last read | `MemoryFile` |
| File of the operating system | bookkeeping agrees with handle and disk; updates touch one record; dispositions protect | `OsFile` |
| Tape, LINAGE | vector and image are one tape; failures show in the status; no page is longer than LINAGE | `TapeFile` |
| RERUN and restart | a restarted job puts out every record once | `Rerun` |
| OCCURS DEPENDING ON, SEARCH | counter, counts and cells agree; SEARCH is right and ends | `OdoTable` |
| Control flow | PERFORM, GO TO, CALL and STOP RUN do what their stack of ranges says; nothing is left behind | `PerformControl` |
| CALL, linkage, INITIAL | a name means the item of the program that says it, arguments are the caller's cells | `ProgramCalls` |
| SORT records | records come back once, sorted, equal keys in order of release | `SortWork` |
| Analysis and generator, paragraphs | what is warned of or accepted is what the run does | `ProcedureText`, `ProcedureRun` |
| Packed codec, record layouts | decode inverts encode or refuses; a layout listed in order holds its fields; items do not overlap | `PackedCodec`, `RecordFields`, `RecordLayout` |
| Batch decoding | rows, audit and verdict are those of the input's records; the command ends | `BatchDecode`, `BatchOutput` |
| Batch conversion, COPY | see section 7 | planned |

## 2. Modules

| Module | Models | Source |
|---|---|---|
| `SequentialFile` | the promise of a file: a sequence of records, a mode, the next record, the current one, a status | abstract, after `VmFileHandler`, 1016-1036 |
| `MemoryFile` | `VmFileBacking::Memory` | `VmFileHandler` 2289-2882, reset 1627-1668 |
| `OsFile` | `VmFileBacking::OsSequential` | the same, with 2164-2262 |
| `TapeFile` | `VmFileBacking::Tape` | the same, with 1670-1722 and 1736-1809 |
| `Rerun` | checkpoints and the restart of a job | 3165-3865, 4785-4816 |
| `OdoTable` | OCCURS DEPENDING ON, indexes, SEARCH | 264-570, 3906-4086, 5452-5693 |
| `PerformStack` | the promise of PERFORM, GO TO, CALL, STOP RUN: a stack of ranges and programs | abstract, after 5493-5592, 6588-7021 |
| `PerformControl` | the nested Rust calls that keep it | 4839-4907, 5493-5592, 5783-5889, 6252-6311, 6554-6786, 6964-7021 |
| `ProgramCalls` | CALL by literal and dynamic name, arguments, bindings, INITIAL, recursion | 4922-4990, 5523-5546, 5853-5886, 6788-6962; codegen 2175-2316, 2654-3067 |
| `SortWork` | the records of the SORTs in progress, part of `ProgramCalls` | 6252-6552 |
| `ProcedureText` | a text's paragraphs: reachability, accepted or refused, operations and transfer of a block | sema 429-497, 2345-2516, 2954-3325, 8667-8673; codegen 4003-4089, 6255-6260 |
| `ProcedureRun` | compiling a text and running its blocks | codegen 213-262; 5509-5592, 5783-5852, 6554-6743, 6964-7021 |
| `PackedCodec` | a packed field: its bytes, two sign modes, the encoding that keeps the sign read | `cobol-packed/src/lib.rs` |
| `RecordFields` | one field of a planned record, the count of a table, the length of a record | cli/record.rs |
| `RecordLayout` | a schema planned into items: DEPENDING ON, REDEFINES, fillers, SYNC; records decoded by the plan | cli/record.rs |
| `BatchDecode` | `batch decode` and `batch verify`: reading, framing, policies, sinks, audit, verdict | cli/mod.rs, cli/record.rs |
| `BatchOutput` | what output and verdict should be, said of the whole input: its frames | the properties of `BatchDecode` |
| `OsFile_proofs`, `TapeFile_proofs` (with those of `MemoryFile`), `Rerun_proofs`, `OdoTable_proofs`, `PerformControl_proofs`, `ProgramCalls_proofs`, `ProcedureRun_proofs`, `BatchDecode_proofs` | theorems | |
| `MC*` | the instances TLC checks | |

`MemoryFile`, `OsFile` and `TapeFile` each implement `SequentialFile` by
`INSTANCE ... WITH`; `PerformControl` implements `PerformStack`, and
`ProcedureRun` takes the one step a GO TO is from there.  `ProgramCalls` is
composed of itself and `SortWork`, which shares its stack of activations;
`MCBatchDecode` of `BatchDecode` with `BatchOutput`, `RecordLayout`,
`RecordFields` and `PackedCodec`.

**Files.**  Variables have the names of the fields of `VmFile` (`cursor`,
`open_mode`, `last_status`, `last_record_index`, `last_record_len`,
`fixed_record_len`) plus what the backing holds: `records`; or `disk` and
`handle`, bytes and a position in them; or `records` and `image`.  `current` is
a history variable: the record the last successful READ delivered; `got` is what
the last request delivered.  Each request of the trait is one action, a
disjunction of its outcomes: refused by the open mode, refused later, done,
failed at some call of the operating system with the effect the calls before
had.  `use` fixes the surroundings a run asks about: the disposition, the record lengths
the program uses, which verbs it issues, whether the host fails.  A length of
bytes matters for `OsFile`, so records are short sequences there; an offset is
computed as in the code, and a WRITE past the end leaves a gap.

WRITE ADVANCING (`WriteAdvancing`) is in `TapeFile`: it is a write of the record
and a write of the line feeds or form feed, each of the whole image, in the
order the phrase asks for, and either may fail.  `Stored` are the records and
the advances that are records of the vector too.  `current_line` is the code's
count, which every OPEN sets to 1; `start` is history, the length of the vector
at that moment, so that `PagesFit` can count the lines on the tape itself.

**Rerun.**  The job (read, account in storage, write) and the host that starts
and restarts it are the surroundings; the runtime's part is `Read` with the
checkpoint it may take (`note_rerun_successful_read`, `Snapshot`), and
`Restore` and `RestoreRefused` (`restore_last_rerun_checkpoint`).  A snapshot
is a record with a field per kind of row that matters: storage, counters,
cursor, the vectors of tapes and files in memory, and fingerprints, for which the content
itself stands: two contents with one FNV-1a value are left out.  What a crash
leaves is everything on the disk; what an error leaves is also the runtime.

**OdoTable.**  Per program one table: `count` is the counter field, `active`
`VmOdoState.active`, `pool` the descriptor's count in the storage pool, `cells`
the cells of the occurrences that exist.  A statement is one action; a search
is a statement that starts it and one action per probe of its loop, with the
loop's own variables `low`, `high`.  A move to the counter writes the field,
then resizes, and may fail between the two, as the code does.

**PerformControl.**  `frames` is the stack of Rust calls in progress that wait
for each other: `execute_procedure_body` ("body"), `execute_perform_range`
("range"), the two declarative handlers ("debug", "file") and the two phases of
`execute_active_sort_procedure` ("input", "output").  `signal` is the value
being returned (`VmProcedureSignal` or `Err`).  A block may do at any time
what the VM can be told to do, so that a run covers all programs over its
blocks at once; conditions are choices, and a loop of PERFORM TIMES or UNTIL is
PERFORM after PERFORM.  `activation_stack` is the sequence of the bodies.
STOP RUN in a branch, and a GOBACK there, are one operation,
`VmProcedureOp::StopRun`, and the body it is in consumes it.  A GOBACK that is
a statement of its own is the transfer "to no next block" (codegen 4070): it
ends whatever runs the block, a PERFORM or the program.  `Gobacks` are the
blocks that have one.

**ProgramCalls, SortWork.**  `cells` are the bytes of every item and temporary
by program and name; `stack` is `activation_stack`, each entry with the
bindings of its arguments.  `Denotes` is `storage_descriptor_for`: the bindings
of all activations, innermost first, then the program's own items.  `Call` is
the whole handler: it resolves the target, converts the arguments that need it
into temporaries of the caller, resets an INITIAL callee, pushes the
activation.  `scopes` is a history variable: what each name should mean by the
text alone, and which names no caller hides (`clear`).  The statements of a
program are given per program (`Moves`, `Calls`, `Releases`, `Returns`) and
issued in any order.  `SortWork` keeps `sorts` as `sort_states` does, and as
history in `work` what was released and returned, and whether AT END came.

**ProcedureText, ProcedureRun.**  A text is a sequence of paragraphs; of a
statement what moves control is kept, and whether it is nested in another one.
`ProcedureText` translates the functions of the analysis (`Find`, `LeadsTo`,
`Successors`, `Unreachable`, `BadThru`, `BadSlot`, `Accepted`) and of the
generator (`EndsOps`, `Transfer`).  `Unreachable` is written as what some set
closed under the successors leaves out; the code's work list computes the
complement of the least such set.  `ProcedureRun` compiles the text (an error
blocks it, warnings do not), then runs it with one frame per range: operations
in order, nested ones or not, and the transfer.  Conditions, data items and the
numbers of DEPENDING ON are choices.

**PackedCodec, RecordFields, RecordLayout, BatchDecode, BatchOutput.**  `PackedCodec` decodes
nibbles under the strict and the permissive sign mode, and encodes a value with
the sign nibble it was read with, as `verify` does.  `RecordFields` decodes one
field at its place and says how long a record is by its counters; it has no
recursive operator, so that `BatchDecode_proofs` can speak of it.
`RecordLayout` is the planner of schema version 2: the offsets of items, which
overlap, and the rows a record decodes to, with those of each variant of a
REDEFINES.  `BatchDecode` is the command: `rest` is the input not
yet read, `pending` the rows of the record at hand, `buffer` what a sink holds
back, `out` the rows written, `audit` the counters.  A step is one read with the
whole record it takes or refuses, one row put out, or one of the ends (limit,
error, end of file).  Decoding is a parameter (`LengthOf`, `RowsOf`) that
`MCBatchDecode` gives by `RecordLayout`.

`BatchOutput` states what the command should come to without following its
steps: the input is cut into *frames*, one per record, each the rows of the
record or the one row it is refused with.  A stream is cut from the first byte
on, each record where the one before ends; lines are counted.  `OutputIsOfInput`
compares what is written, at every step, with the frames up to `idx`, and
`VerdictIsOfInput` the end with all of them.

## 3. Runs

| Run | Shows | States |
|---|---|---|
| `memory_file` | the current record is the one last read and in its place; the file is the abstract one | 3 392 |
| `os_file` | bookkeeping, location of the current record, no other record lost, dispositions; the abstract file for programs that update by REWRITE | 165 019 |
| `os_wrong_record` | **violation**: READ, WRITE, REWRITE, READ leaves another record current than was read | 2 572 |
| `tape_file` | vector and image agree, pages keep to LINAGE, failures show in the status, closing keeps the tape; the abstract file on a good host | 248 765 |
| `tape_reset_wipes` | **violation**: resetting an INITIAL program empties a tape it has not opened | about 30 |
| `rerun` | every restart is in step with its files, a finished job is complete, it finishes | 87 108 |
| `rerun_output` | **violation**: a restore truncates the OUTPUT file whose fingerprint it has just accepted | 67 |
| `odo_table` | cells and counts agree, cells are fresh, SEARCH finds what is there and ends | 347 010 |
| `perform_control` | ranges hold, guards and SORT entries are exact, the stack promise is kept | 834 581 |
| `program_calls` | names mean what the text says, other programs' cells stay, RETURN delivers what was released | 748 199 |
| `procedure_run` | warned paragraphs never run, accepted texts never miss a block, a checked THRU is left only by what the check does not see | 66 970 |
| `batch_decode` | the audit adds up, rows and verdict are those of the input, framed records of layouts listed in order fail for their bytes only, the command ends | 702 923 |

**Bounds.**  Each is a constant of a module, named in its comment.

* `MaxRecords` 3 or 4, with records of lengths 0 to 2.  A request compares the
  cursor with the length and touches one record; three records give a first,
  a middle and a last one, and a deleted one between two others.
* Pages of one and of three lines and none, advances by `PAGE`, by 0 lines,
  which the code takes for 1, and by 2, tapes of up to four records: a page is
  full at once, after one WRITE, and in the middle of two.
* `MaxBytes` 4 and `MaxCursor` 5, contents of up to 3 bytes at the start,
  record lengths 1 and 2: whole records, a truncated last one, one length
  misread as the other, and a gap after the end all occur.
* `MaxCrashes` 3 with four records and checkpoints every one, two and three
  READs: a crash before the first checkpoint, between two, within one, and one
  of a restarted job, in which the tape of checkpoints was itself restored, and
  one after that.
* Tables of 1 to 3 and of 0 to 1 occurrences, counters from -1 to 4, keys 0
  and 1: the binary search has zero, one and two probes on either side.
* Three blocks, a range `1..2` in text order and one `3..2` against it,
  overlapping in block 2; block 2 has a debugging declarative and an ALTERable
  GO TO; block 1 ends with a GOBACK; one file declarative; five nested calls:
  a SORT within a declarative within a CALL within a PERFORM, with a GO TO that
  has to pass them all.
* Three programs, one INITIAL, three activations and two SORTs deep, items of
  one or two bytes: a program is called by two others, calls itself, is reset
  under its own activation, and a name is bound two levels up; two records per
  SORT, with keys that are equal, ordered or bad.
* 13 520 texts: 15 first paragraphs, 14 second and third ones, two fourth ones,
  each with and without a second paragraph of one name; three frames.  Every
  kind of statement occurs before and behind the end of a paragraph, nested and
  not, in a performed range and out of it; ranges are 1 to 3 paragraphs long
  and one is written backwards.  Each exception the properties make is reached:
  without it, TLC finds a violation.
* Fifteen schemas (fixed, with a byte uncovered, DEPENDING ON with and without a
  field behind the table, REDEFINES, SYNC, four that are not listed in the order
  of their offsets, and five that are refused) and fields by name, streams of up
  to six bytes and files of up to three lines, a buffer of three rows: a record is cut by the end of the input in its header and
  behind it, refused for its counter, for one field of several or for all, and
  the buffer overflows within a record.  `LengthsAreKnown`, an assumption TLC
  evaluates, says for each of the byte values how long the record is that
  begins with it, so that the frames do not rest on the planner alone;
  `OrderMatters` says which layouts out of order have a field past the end of
  each of their records, and `PlansAreWell` that accepted layouts are planned as
  `FramedFieldsDecode` supposes.

**Fairness.**  `Rerun` assumes weak fairness of `Work`: a program that can go
on does, and the host restarts a dead one; crashes are bounded and not fair.
`OdoTable` assumes it of `Probe` only: a search is one loop of the runtime, and
a program is in no other statement until it ends.  `BatchDecode` assumes it of
`Next`: one thread runs the command, and an input ends.  The other modules
state no liveness: a COBOL program may loop for ever, and the VM ends it by a
step limit that is no part of a promise.

**Deadlock** is checked in every run but `odo_table`, in which a table that
failed a search stops, as the generated program does on the error, and
`procedure_run` and `batch_decode`, whose programs come to their end.

**Types.**  `TypeOK` is an invariant of its own or a conjunct of one
(`CurrentIsInPlace`, `BookkeepingAgrees`, `VectorIsTape`, `StorageInStep`,
`SortDelivers`) of each
run but those of `OdoTable`, `PerformControl` and `ProcedureRun`, for which it
is a theorem, and `BatchDecode`, whose `ReportAddsUp` says more of the counters.

**Every property has a mutant** in `PROJECT.json`: a plausible bug (written
next to the definition it replaces) under which the run finds the property
violated.

## 4. Proofs

All for arbitrary values of the constants, from the named assumptions of the
modules (`MemoryFileAssumption`, `OsFileAssumption`, `TapeFileAssumption`,
`RerunAssumption`, `OdoTableAssumption`, `ControlAssumption`, `CallAssumption`,
`TextAssumption`, `NumberAssumption`, `TextsAssumption`, `BufferAssumption`,
`JobAssumption`, `LengthAssumption`, `RowsAssumption`), which TLC evaluates in
each run.  Three theorems have a hypothesis on the constants of their own, which
those of the runs satisfy: `PagesAlwaysFit` (`RecordsAreText`), `SortsDeliver`
and `OthersCellsAreKept` (`RanksAreNumbers`).

* `OsFile_proofs` has three invariants, each resting on the one before.
  `Bookkeeping` ties mode, record length and current record together; it holds
  whatever fails, and gives `BookkeepingAgrees`, `UpdateLosesNoOther` and
  `DispositionProtects`.  `Positions` says where the handle and the current
  record are as long as the program does not both WRITE and REWRITE in I-O mode,
  hence `CurrentIsOnDiskUnlessMixed`; run `os_wrong_record` shows what that
  exception is for.  `Located` says that the cursor finds the handle if updates
  are by REWRITE alone, hence `CursorLocatesHandle` and the refinement.  A DELETE
  that the host interrupts has moved some records and not others: `MoveSlots`
  describes the disk after any number of moves.  Offsets are products of two
  variables, which the SMT solver does not see through; they are kept behind the
  operator `Off` and compared by its lemmas (`OffNext`, `OffApart`, `DivIs`).
* `TapeFile_proofs`: `VectorIsTape` is inductive: each request that changes the
  vector writes the whole image in the same step, and what a spoilt write leaves
  is a beginning of the vector or is rejected as a whole.  With it each request
  of a tidy program on a good host is one of `SequentialFile`, and WRITE
  ADVANCING one that adds two records (`WriteBoth`).  For `PagesFit` the
  invariant `Printed` says that `current_line` is the line on which the tape,
  read from `start`, really ends, and that no page before it is too long; how the
  count goes on over one more record or advance is a lemma for each of them.  A
  byte of a record that is itself a line feed or form feed would move the
  printer and not the count: that there is none is `RecordsAreText`.
* The last section of `TapeFile_proofs` is about `MemoryFile`, as `Memory`.
  `CurrentIsInPlace`, types included, is inductive, and with it each request maps
  to a request, a refusal or a stutter of `SequentialFile`.  The invariant is
  needed there: without knowing that the current index is inside the vector, a
  REWRITE could not be mapped.
* `Rerun_proofs`: `StorageInStep`, `OutInStep` and `DoneIsComplete` speak of the
  running job only, and a restart takes its state from a tape.  `IInv` says of
  every checkpoint on that tape, in memory or on the disk, cut short or not, what
  they say of the job: that it is in step with the files whose print it holds
  (`GoodSnapshot`), and knows only of checkpoints before it.  `LastIsTaken` adds
  that the last one taken is the last on the disk, from which
  `RestartFindsCheckpoint` follows.  `OutStaysInStep` and `DoneStaysComplete`
  except an OUT that was open OUTPUT on the operating system: run
  `rerun_output` shows why.
* `OdoTable_proofs`: the inductive invariant `IInv` joins the table part
  (types, active cells exist, cells fresh, counts agree) with a loop invariant
  of the search: a serial one has no match before `low`, and a binary one of a
  sorted table has all its matches between `low` and `high`.
  `SearchIsRight` alone is not inductive: it speaks only of finished searches.
  `SearchNeverFails` follows as an action property, as a probe lies between 1
  and the active count, which the pool agrees on.
* `PerformControl_proofs`: `Inv == TypeOK /\ Good(frames) /\ Records`.  `Good`
  says of every single call that it is inside its range, in a form kept by
  pushing, popping and replacing a call; `Records` says of the sequence of
  calls which guards are set and which SORT entries there are.  Lemmas about
  any sequence of calls (`ExactPush`, `SortsPop`, ...) show what the three
  changes do to the records, and each action is one of the three, or a few.
  `PerformStackRefines` maps the calls to the ranges of `PerformStack`, a
  recursive function over the sequence (`RangesOf`): lemmas say what it gives
  after a push, a pop and a replacement.  A signal on its way through the calls
  is mapped to where it will land (`Landing`), so that the abstract machine takes
  one step where the code returns many times.  That needs two invariants more:
  a signal is always on its way through a call (`Held`), the first call is the
  body of a program and every PERFORMed range ends in the text (`Anchored`).
* `ProgramCalls_proofs`: `NamesAreStatic` speaks of all activations at once;
  what it needs besides is `FramesMatch`, that each of them binds just the names
  of its program's parameters.  A lookup at depth d then meets a binding of d's
  own program, or none, or one that hides a name that is not `clear`.
  `OthersKeepTheirCells` needs the invariant `Storage`: types; that what is
  bound by reference is never a number that is only passed as a copy
  (`BindingsShared`); and that such a number still has its first value
  (`StoreOK`), so that the reset of an INITIAL program does not change it.  What
  is read and written through a group goes through sums of lengths, recursive
  functions, of which the lemmas on `Total`, `Read` and `Written` say what is
  needed.  `SortDelivers` needs `SortsServe`, which says of each SORT in
  progress, not only of the innermost one, which records it holds, in which
  order, and how many are gone: a procedure of a SORT may itself execute one, or
  call a program that does.
  That the code's insertion (`Place`) gives the order that is due is a theorem
  about `SortedBy`: it keeps each record once, the order of keys and, among
  equal ones, that of release, and there is only one such order.  The hypothesis
  `RanksAreNumbers` is about `Rank`, the value a key's bytes have: a number, or
  the mark of a key that does not decode.
* `ProcedureRun_proofs`: first what the definitions give for one statement
  (`LedTo`, `FallsOn`, `TargetsMayRun`, `NextMayRun`): a place control can go
  from a reached paragraph is one of its successors, hence in every closed set.
  `Inv` then says of each frame that its block may run and, inside a checked
  range, lies in it, and of each altered name that it leads to such a block.
  That `WarnedNeverRuns` needs all three of its exceptions shows in the proof:
  `NextMayRun` uses that nothing stands behind a `GO TO .`, `FindOwn` that names
  are distinct, and `DynamicKeeps` that nothing else performs a data item.
* `BatchDecode_proofs` is about every job: any input, schema, policy, sink and
  limit, and any decoder that gives an accepted schema a record length of a
  byte or more (`LengthAssumption`) and each record a sequence of rows
  (`RowsAssumption`).  Its invariant `IInv` has three parts.  `Inv` is about
  counters: the audit changes with the record and row at hand only, which is
  counted by where in a record the command is; `ReportAddsUp` follows.
  `Situated` says where the command is in its input: what it has not read is the
  end of the input, `idx` records were cut off before, and so the next one it
  cuts, by looking at the bytes ahead, is the next frame, which is cut by a
  recursive function from the first byte on.  `InStep` says what has become of
  the frames: those up to `idx` are written and counted, of the one in progress
  all rows but the pending ones, and past a refused counter, where the command
  reads on in the refused record, what came before stays as it was.
  `OutputIsOfInput` is not inductive, as it does not say which rows are pending;
  `VerdictIsOfInput` is not, as it speaks of ended commands only.  The proof has
  a lemma for each action about the input alone (`TornHeaderIs`,
  `ReadRecordIs`, `HexLineIs`, ...), which says that the action takes or refuses
  the next frame, and then one for each of the few things done with a frame
  (`RefusedInStep`, `BegunInStep`, `EmitInStep`, `EndInStep`).  That the frames
  exist and are finitely many is shown first: records of a stream end further
  on each time (`SomeRecordStops`), and counting lines up to one tells which one
  it is.
* The last sections of `BatchDecode_proofs` are about one packed field and one
  record.  Of the field:
  `DecodedVerifies`, that what decodes is rebuilt to the same bytes, for every
  number of digits, and `EncodedDecodes`, that a value that fits the digits,
  encoded with a sign nibble the mode reads, decodes to the same value and
  nibble.  Decoding multiplies by ten from the first digit on, encoding divides
  from the last one back: what is left after k divisions is what there was k
  digits before the end.  Of the record, `FramedFieldsDecode`: if it is as long
  as its header tells, no count in it is refused, no overlay lies past its end,
  and a field, of the record, an occurrence or a variant, decodes or is refused
  for its padding, a digit or its sign, never for its place and, by
  `DecodedVerifies`, never by `verify`.  The record must have a table or a
  layout listed in order, and so must the occurrence or the variant:
  `InOrderFits` shows that each item then ends where the last one does or
  before, `TableReaches` that the length of a record with a table is not less
  than the end of any item, and `HeaderTells` that the length is the same by the
  header and by the whole record.

The library's induction theorems take an operator as a parameter, which the
provers cannot instantiate.  What a recursive function computes is proved by a
least element instead: if the claim failed for some number there would be a
least one (the well-foundedness of `<` on the naturals), and the definition
refutes that.

Only model-checked: `FramedRecordsDecode`, of all rows of a record and of the
commands that count them, since `RecordLayout` has RECURSIVE operators over the
levels of a schema, of which each level by itself is proved
(`FramedFieldsDecode`); that the planner makes plans of the kind that theorem
asks for (`PlansAreWell`, of the ten accepted schemas); and the liveness
properties `SearchEnds`, `JobFinishes` and `Finishes`, since liveness under fairness and ENABLED are out
of the prover's reach.

## 5. What the model shows of the code

Three runs refute what the code's own messages or tests say (`findings` in
`PROJECT.json`, each with the line):

1. READ of a file of the operating system names `cursor - 1` as the current
   record, whatever record it has read (2509).
2. CLOSE, and the reset of an INITIAL program, write the empty vector of an
   unopened tape over its image (1660, 2875).
3. A restore reopens a file that was OUTPUT with `truncate(true)` (3803).

The following were met while modelling; nothing in the repository says
otherwise of them, so that they are assumptions of the properties rather than
findings:

* DELETE in a file of the operating system leaves the handle at the end of the
  file, so that the next READ meets AT END (2834); `CursorLocatesHandle` and
  the refinement are stated for programs that do not DELETE.
* A disposition is compared with the mode of the OPEN and with nothing else
  (2233): whether the file exists is not asked, so that NEW on one that does is
  OPEN OUTPUT, which empties it.  `DispositionProtects` is about MOD, OLD and
  SHR.
* An error of OPEN or CLOSE of a tape does not set `last_status` (2396).  A
  failing WRITE leaves the record in the vector (2585).  `StatusTellsFailure` is
  stated for programs whose OPENs and CLOSEs do not fail.
* WRITE BEFORE ADVANCING writes the advance first and then the record (1676,
  with the phrase as syntax 2683 reads it).  An advance that failed stays in the
  vector without being counted, so that a later WRITE may print past LINAGE, and
  OPEN EXTEND counts from line 1 whatever the page holds: `PagesFit` is stated
  for a good host and counts from the OPEN.
* The reset of an INITIAL program leaves `VmOdoState.active` as it was (6826),
  and tables of one name in two programs are resized together (464):
  `CountsAgree` is stated for programs that do neither (`Plain`).
* A second restart in one process starts from an earlier checkpoint than the
  last (3850), as the restore has put back the vector of the checkpoint tape.
* A snapshot holds all earlier snapshots, each in hexadecimal, so that its size
  doubles with each (3185); it does not hold the place in the procedure.
* STOP RUN in a called program ends that program only (5570-5592).
* A GOBACK of its own ends only the innermost PERFORM (codegen 4070), one in a
  branch the program (codegen 4358).

Of CALL and SORT (`ProgramCalls`):

* A parameter's name hides the item of that name of every program called
  meanwhile (4922).  `NamesAreStatic` is about the names that are not hidden.
* A dynamic CALL that is refused has already reset its INITIAL callee, and the
  reset wipes arguments that are the callee's own items (5866):
  `OthersKeepTheirCells` lets a CALL reset the program it names, whether or not
  that program is entered.  Recursion uses
  the caller's temporaries again.
* Parameters are matched with arguments in the order in which the LINKAGE
  SECTION declares its items, not in that of PROCEDURE DIVISION USING.  Dispatch
  checks their number and the shape of groups, no more.
* RELEASE and RETURN find a SORT by the names of file and record without the
  program: another program that has the same names acts on its caller's SORT,
  the record cut or padded to its own length.

Of paragraphs (`ProcedureText`, `ProcedureRun`):

* W_UNREACHABLE_PARAGRAPH can be wrong in four kinds of text: where only the
  DECLARATIVES perform a paragraph or go to it, as the search is given the other
  paragraphs alone (sema 496, 2954); with a PERFORM of a data item; with two
  paragraphs of one name, as every lookup takes the first
  (such a text may also loop for ever where it should fall through), and IR002,
  which would refuse it, is never asked for; and when a GO TO or STOP RUN stands
  behind `GO TO .`, which the analysis takes for the end of the paragraph and
  the generator drops.  `WarnedNeverRuns` excepts the last three; the model has
  no DECLARATIVES, where the first would occur.
* A `GO TO .` in a branch is accepted if some ALTER names its paragraph, but is
  compiled to a GO TO a paragraph called `.`, and fails when it runs.
* E_PERFORM_THRU_ESCAPES looks at the plain GO TOs of the paragraphs of a range,
  as written: a nested one, or one whose target is altered, leaves the range.
* ALTER of a paragraph that does not consist of `GO TO .` has no effect on its
  own GO TO, but redirects every GO TO to that paragraph (5514).

Of the batch commands (`BatchDecode`):

* A declared layout may be listed in any order, but its length is the end of the
  item listed *last* (cli/record.rs 1766-1780, 1866-1872), and validation looks
  for overlaps only (486-516).  A field b at 1 listed before a field a at 0 is
  accepted as a record of one byte, and b is refused with E_OFFSET in every
  record; the same with `record_length` 2 and b at 3, though a layout that
  "extends past record_length" should be refused (1777) and docs/cli.md:316 says
  that the lengths are validated before decoding; and with the fields of an
  occurrence.  A table's record has no such field at the top level, where the
  length is the greatest end.  `OrderMatters`, an assumption TLC evaluates, says
  this of all records of four such layouts; `FramedRecordsDecode` and
  `FramedFieldsDecode` are stated for layouts listed in order.
* When the counter of a DEPENDING ON is refused and the policy goes on, reading
  goes on right after the header: the refused record's table is read as records
  (cli/record.rs 2705).  `OutputIsOfInput` says of what comes after only that the
  rows before it stay (`Adrift`); the verdict is right all the same, as the
  refusal counts.
* A line that cannot be read, and an error in the header of a CSV file, end the
  command whatever the policy; the limit of the line length is checked after the
  line was read.
* `batch verify` of an empty input succeeds with the status "empty".
* A field of a REDEFINES variant that is not active refuses the record all the
  same if its bytes are bad.

## 6. Not modelled, and why

* Lexing and parsing, COPY, the lowering of data, and the analysis of single
  statements (types, conditions, files): pure functions of texts and trees that
  the crates' tests compare case by case.  Of the generator, the text of
  expressions and of statements that move no control.
* Moves, arithmetic, editing, STRING, UNSTRING, INSPECT: transformations of
  bytes that the unit tests compare value by value.  In `ProgramCalls` a move
  copies, cuts and pads.
* WRITE ADVANCING on files that are no tapes, where the same code runs over the
  WRITE of that backing; external names mapped to paths.
* The step limits (100 000 blocks, iterations): `Fail` covers their effect.  A
  program that is only long is taken for one that loops.
* In `Rerun`: ALTER targets, indexes, guards and SORT entries of a snapshot.
* In `ProgramCalls`: arguments that are an occurrence of a table; ALTER targets
  two programs share; files of several programs.
* In `ProcedureText`: DECLARATIVES, whose statements the search for unreachable
  paragraphs leaves out as well (section 5), and the ranges of a SORT, which the
  analysis treats as those of a PERFORM; a nested statement stands for
  every branch that may hold one.
* In `BatchDecode`: errors of the host (opening or reading the input, writing the
  output or the report), which end the command with an error; text and zoned
  fields, scales, the vector code, the format of rows and reports, and the
  commands that are not `batch`.
* Groups nested in groups with counters of their own: the planner reads those
  counters at offsets of the record (cli/record.rs), which no layout here has.

## 7. Plan

Done since the first version: `ProgramCalls` and `SortWork` (planned as
`CallBinding`, `SortWork`), `PackedCodec`, `RecordLayout` and `BatchDecode`,
`ProcedureText` and `ProcedureRun`, WRITE ADVANCING (planned as `Linage`, now in
`TapeFile`), and the proofs of `TapeFile`, `Rerun` and `BatchDecode`.
Left, in this order:

1. Restart and control: the guards, SORT entries, ALTER targets and indexes a
   snapshot brings back (3497-3565, 3751-3777), as an extension of `Rerun`.
2. `MigrationBatch`: the crash between project and map in the converter.
3. `CopyExpansion`: cycles and nesting of COPY.
4. Proofs: that every layout listed in order is planned as `FramedFieldsDecode`
   supposes, and all its levels decode as that theorem says of one, for which
   `RecordLayout` has to be written with recursive functions.
