------------------------------ MODULE TapeFile ------------------------------
(***************************************************************************)
(* A file of VmFileRuntime whose backing is VmFileBacking::Tape: a vector  *)
(* of records in memory and its image in a file of the host, which holds   *)
(* each record with its length.  The image is read as a whole by OPEN and  *)
(* rewritten as a whole by OPEN OUTPUT, WRITE, CLOSE and the reset of an   *)
(* INITIAL program; the module is about the two staying together.          *)
(*                                                                         *)
(* WRITE ADVANCING writes line feeds or a form feed as a record of its own *)
(* before or after the record, and counts the lines of the page.           *)
(***************************************************************************)
EXTENDS Integers, Sequences, SequencesExt

CONSTANTS
  Record,         \* the records a program writes, as sequences
  Space,          \* the byte READ pads a short record with
  RecLens,        \* the record lengths the program reads with
  NewLine, FormFeed,  \* the bytes an advance consists of
  Skips,          \* the lines a WRITE advances by, PAGE among them
  Profiles,       \* the surroundings a tape may be used in, see `use'
  InitialImages,  \* what the tape may hold at the start
  NoImage,        \* the path does not exist
  BadImage,       \* the path holds something read_tape_image rejects
  MaxRecords      \* bound on the length of the tape

PAGE == -1

\* lines.max(1)
AtLeast1(n) == IF n < 1 THEN 1 ELSE n

\* The records on a tape: those of the program, form feeds and line feeds.
LineFeeds(n) == [i \in 1..AtLeast1(n) |-> NewLine]
Stored == Record \cup {<<FormFeed>>} \cup {LineFeeds(n) : n \in Skips}

\* A profile fixes whether the program closes only what it has opened (tidy),
\* the requests whose write of the image the host may refuse or spoil, whether
\* the program uses ADVANCING (prints), and LINAGE (0 without the clause).
ASSUME TapeFileAssumption ==
  /\ \A r \in Record : Len(r) \in Nat
  /\ RecLens \subseteq Nat /\ MaxRecords \in Nat
  /\ Skips \subseteq Nat \cup {PAGE}
  /\ NoImage \notin Seq(Stored) /\ BadImage \notin Seq(Stored)
  /\ InitialImages \subseteq {NoImage, BadImage} \cup Seq(Stored)
  /\ Profiles \subseteq [tidy : BOOLEAN,
                         errors : SUBSET {"open", "write", "close"},
                         prints : BOOLEAN, linage : Nat]

VARIABLES
  use,           \* the profile the tape is used in; never changes
  image,         \* the tape itself
  records, open_mode, cursor, last_status,
  outcome,       \* "ok" or "error": the Result of the last request
  got,           \* what the last request delivered: {record} or {}
  current_line,  \* of the page
  start          \* history: how many records there were at line 1 of OPEN

page == <<current_line, start>>
vars == <<use, image, records, open_mode, cursor, last_status, outcome, got,
          page>>

Readable == image \notin {NoImage, BadImage}

Tape == IF Readable THEN image ELSE <<>>

\* normalize_tape_read_record
Normalize(r, n) ==
  IF n = 0 THEN r
  ELSE [i \in 1..n |-> IF i <= Len(r) THEN r[i] ELSE Space]

Reply(o, s) == outcome' = o /\ last_status' = s /\ got' = {} /\ use' = use

\* An error the code passes on with `?', before it has set a status.
FailsWithoutStatus ==
  outcome' = "error" /\ got' = {} /\ UNCHANGED <<use, last_status>>

Init ==
  /\ use \in Profiles /\ image \in InitialImages
  /\ records = <<>> /\ open_mode = "CLOSED" /\ cursor = 0
  /\ last_status = "NONE" /\ outcome = "ok" /\ got = {}
  /\ current_line = 1 /\ start = 0

\* fs::write fails before it has changed the file, or leaves it cut short: in
\* the middle of a record, or where read_tape_image cannot tell.
SpoilFrom(request, old) ==
  /\ request \in use.errors
  /\ image' \in {old, BadImage} \cup
                  {SubSeq(records', 1, k) : k \in 0..Len(records')}

SpoilImage(request) == SpoilFrom(request, image)

\* OPEN starts with line 1, also when it fails.
FirstLine == current_line' = 1 /\ start' = Len(records')

\* Mutant: the image is left to a later write.
WriteImage_Lazy == UNCHANGED image

WriteImage == image' = records'             \* write_tape_image

-----------------------------------------------------------------------------
OpenIo ==                                   \* not supported for a tape
  /\ cursor' = 0 /\ open_mode' = "CLOSED" /\ Reply("error", "90")
  /\ UNCHANGED <<image, records>>

OpenInput ==
  /\ cursor' = 0
  /\ IF Readable
     THEN records' = image /\ open_mode' = "INPUT" /\ Reply("ok", "00")
     ELSE UNCHANGED records /\ open_mode' = "CLOSED" /\ Reply("error", "35")
  /\ UNCHANGED image

OpenOutput ==
  /\ cursor' = 0 /\ records' = <<>>
  /\ \/ WriteImage /\ open_mode' = "OUTPUT" /\ Reply("ok", "00")
     \/ SpoilImage("open") /\ FailsWithoutStatus /\ UNCHANGED open_mode

\* Mutant: EXTEND starts from an empty vector.
ExtendFrom_Nothing == <<>>

ExtendFrom == Tape

OpenExtend ==
  \/ /\ image # BadImage
     /\ records' = ExtendFrom
     /\ cursor' = Len(records')
     /\ open_mode' = "EXTEND" /\ Reply("ok", "00")
     /\ UNCHANGED image
  \/ /\ image = BadImage
     /\ cursor' = 0
     /\ FailsWithoutStatus
     /\ UNCHANGED <<image, records, open_mode>>

Open == (OpenIo \/ OpenInput \/ OpenOutput \/ OpenExtend) /\ FirstLine

\* Mutant: a refused request leaves the status of a success.
Refused_Silently ==
  /\ Reply("error", "00")
  /\ UNCHANGED <<image, records, open_mode, cursor, page>>

Refused ==
  /\ Reply("error", "90")
  /\ UNCHANGED <<image, records, open_mode, cursor, page>>

Read(n) ==
  \/ open_mode # "INPUT" /\ Refused
  \/ /\ open_mode = "INPUT" /\ cursor < Len(records)
     /\ cursor' = cursor + 1
     /\ got' = {Normalize(records[cursor + 1], n)}
     /\ outcome' = "ok" /\ last_status' = "00"
     /\ UNCHANGED <<use, image, records, open_mode, page>>
  \/ /\ open_mode = "INPUT" /\ cursor >= Len(records)
     /\ Reply("ok", "10")
     /\ UNCHANGED <<image, records, open_mode, cursor, page>>

\* The record joins the vector before the image is written: a WRITE that
\* fails has still added it.
Write(r) ==
  \/ open_mode \notin {"OUTPUT", "EXTEND"} /\ Refused
  \/ /\ open_mode \in {"OUTPUT", "EXTEND"} /\ Len(records) < MaxRecords
     /\ records' = Append(records, r)
     /\ cursor' = Len(records')
     /\ \/ WriteImage /\ Reply("ok", "00")
        \/ SpoilImage("write") /\ Reply("error", "30")
     /\ UNCHANGED <<open_mode, page>>

\* Mutant: the last line of a page is not used up.
NeedsPage_Late(n) ==
  \/ n = PAGE
  \/ use.linage > 0 /\ current_line + AtLeast1(n) > use.linage + 1

NeedsPage(n) ==
  \/ n = PAGE
  \/ use.linage > 0 /\ current_line + AtLeast1(n) > use.linage

\* advance_page and advance_lines
Advance(n)   == IF NeedsPage(n) THEN <<FormFeed>> ELSE LineFeeds(n)
LineAfter(n) == IF NeedsPage(n) THEN 1 ELSE current_line + AtLeast1(n)

\* write_with_advancing: two writes, of which the first or the second may
\* fail; the line is counted when the advance is on the tape.
WriteAdvancing(r, n, before) ==
  LET one == IF before THEN Advance(n) ELSE r
      two == IF before THEN r ELSE Advance(n)
  IN  \/ open_mode \notin {"OUTPUT", "EXTEND"} /\ Refused
      \/ /\ open_mode \in {"OUTPUT", "EXTEND"}
         /\ Len(records) + 1 < MaxRecords
         /\ \/ /\ records' = records \o <<one, two>>
               /\ WriteImage /\ Reply("ok", "00")
               /\ current_line' = LineAfter(n)
            \/ /\ records' = Append(records, one)
               /\ SpoilImage("write") /\ Reply("error", "30")
               /\ UNCHANGED current_line
            \/ /\ records' = records \o <<one, two>>
               /\ SpoilFrom("write", Append(records, one))
               /\ Reply("error", "30")
               /\ current_line' = IF before THEN LineAfter(n)
                                  ELSE current_line
         /\ cursor' = Len(records')
         /\ UNCHANGED <<open_mode, start>>

RewriteOrDelete == Refused                  \* not open I-O, or not supported

Close ==
  /\ ~use.tidy \/ open_mode # "CLOSED"
  /\ UNCHANGED <<records, cursor, page>>
  /\ \/ WriteImage /\ open_mode' = "CLOSED" /\ Reply("ok", "00")
     \/ SpoilImage("close") /\ FailsWithoutStatus /\ UNCHANGED open_mode

\* reset_lifecycle_file: an INITIAL program is called again.
ResetLifecycle ==
  /\ ~use.tidy \/ open_mode # "CLOSED"
  /\ UNCHANGED records
  /\ \/ /\ WriteImage /\ open_mode' = "CLOSED" /\ cursor' = 0
        /\ outcome' = "ok" /\ got' = {} /\ FirstLine
        /\ UNCHANGED <<use, last_status>>
     \/ /\ SpoilImage("close") /\ FailsWithoutStatus
        /\ UNCHANGED <<open_mode, cursor, page>>

Next ==
  \/ Open
  \/ \E n \in RecLens : Read(n)
  \/ \E r \in Record : Write(r)
  \/ \E r \in Record, n \in Skips, before \in BOOLEAN :
       use.prints /\ WriteAdvancing(r, n, before)
  \/ RewriteOrDelete \/ Close \/ ResetLifecycle

Spec == Init /\ [][Next]_vars

-----------------------------------------------------------------------------
TypeOK ==
  /\ use \in Profiles
  /\ image \in {NoImage, BadImage} \cup Seq(Stored)
  /\ records \in Seq(Stored)
  /\ open_mode \in {"CLOSED", "INPUT", "OUTPUT", "EXTEND"}
  /\ cursor \in Nat
  /\ last_status \in {"NONE", "00", "10", "30", "35", "90"}
  /\ outcome \in {"ok", "error"}
  /\ got # {} => cursor > 0
  /\ current_line \in Nat \ {0} /\ start \in Nat

\* A tape open for output is either spoilt or holds a beginning of what the
\* program wrote, even when the host refused some of the writes, so that the
\* next write that succeeds repairs it.  As long as the host writes what it
\* is told to, the vector and the tape agree while the file is open.
VectorIsTape ==
  /\ TypeOK
  /\ "open" \notin use.errors =>
       /\ open_mode \in {"OUTPUT", "EXTEND"} =>
            image \in {NoImage, BadImage} \/ IsPrefix(image, records)
       /\ use.errors = {} /\ open_mode # "CLOSED" => records = Tape

\* The line of the page a sequence of records ends on: one more than there
\* are line feeds behind its last form feed.
LineFeedsAt(s) ==
  UNION {{<<i, j>> : j \in {k \in DOMAIN s[i] : s[i][k] = NewLine}} :
         i \in {k \in DOMAIN s : \A l \in k..Len(s) : s[l] # <<FormFeed>>}}

LineOf(s) == 1 + Cardinality(LineFeedsAt(s))

\* current_line is the line the printer is on, counted from the OPEN, and no
\* page is longer than LINAGE, however records with and without ADVANCING,
\* before and after, follow each other.
PagesFit ==
  use.errors = {} /\ open_mode \in {"OUTPUT", "EXTEND"} =>
    /\ current_line = LineOf(SubSeq(records, start + 1, Len(records)))
    /\ use.linage > 0 => current_line <= use.linage

\* A program that writes and closes only good tapes learns of every failure
\* by a status other than success.
StatusTellsFailure ==
  outcome = "error" /\ use.errors \subseteq {"write"} /\ image # BadImage =>
    last_status \notin {"NONE", "00", "10"}

\* Closing a tape, or resetting the INITIAL program that owns it, does not
\* change the records on it, for a program that closes what it opened.
ClosingKeepsTape ==
  [][use.tidy /\ use.errors = {} /\ (Close \/ ResetLifecycle)
       => Tape' = Tape]_vars

\* The reset of an INITIAL program closes its files without clearing what is
\* recorded on them.
ResetKeepsTape == [][ResetLifecycle => Tape' = Tape]_vars

\* A tape as an abstract sequential file; READ pads or cuts what it delivers
\* to the length asked for, which RecLens = {0} rules out.
File == INSTANCE SequentialFile WITH
  Record  <- Stored,
  content <- Tape,
  mode    <- open_mode,
  next    <- IF open_mode = "INPUT" THEN cursor ELSE 0,
  last    <- IF open_mode = "INPUT" /\ got # {} THEN cursor - 1 ELSE -1,
  status  <- last_status,
  got     <- IF got = {} THEN {} ELSE {Tape[cursor]}

\* Every request of a tidy program on a good tape, and a good host, is a step
\* of the abstract sequential file; what READ delivers is the abstract record
\* fitted to the length asked for.
RefinesSequentialFile ==
  [][/\ use.tidy /\ use.errors = {} /\ image # BadImage =>
          File!Next \/ UNCHANGED File!vars
     /\ \A n \in RecLens : Read(n) /\ got' # {} /\ use.errors = {} =>
          \E r \in Stored : got' = {Normalize(r, n)} /\ r = Tape[cursor + 1]
    ]_vars
=============================================================================
