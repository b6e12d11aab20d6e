----------------------------- MODULE MCTapeFile -----------------------------
(***************************************************************************)
(* TapeFile with records of one and two bytes.                             *)
(***************************************************************************)
EXTENDS TapeFile

CONSTANTS a, b

Records == {<<a>>, <<a, b>>}

Images == {NoImage, BadImage} \cup UNION {[1..n -> Records] : n \in 0..2}

\* ADVANCING PAGE, and by no line, which is taken for one, and two.
SkipLines == {PAGE, 0, 2}

\* A good host; one that may fail to write the image on WRITE and CLOSE; one
\* that may fail to write it on OPEN OUTPUT too.  Printing with pages of one
\* and three lines, and of any length.
AllProfiles ==
  [tidy : {TRUE}, errors : {{}, {"write"}, {"write", "close"},
                            {"open", "write", "close"}},
   prints : {FALSE}, linage : {0}]
  \cup [tidy : {TRUE}, errors : {{}, {"write"}}, prints : {TRUE},
        linage : {0, 1, 3}]

\* A program reset, or closing its files, before it has opened them.
ResetProfiles == [tidy : {FALSE}, errors : {{}}, prints : {FALSE},
                  linage : {0}]
=============================================================================
