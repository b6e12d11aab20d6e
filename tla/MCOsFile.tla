------------------------------ MODULE MCOsFile ------------------------------
(***************************************************************************)
(* OsFile on small files: every content of up to three bytes, read and     *)
(* written in records of one and of two bytes, under several profiles.     *)
(***************************************************************************)
EXTENDS OsFile

CONSTANTS a, b

Disks == UNION {[1..k -> {a, b}] : k \in 0..3} \cup {NoFile}

AllVerbs == {"write", "rewrite", "delete"}

Using(d, lens, verbs, errors) ==
  [disposition |-> d, lens |-> lens, verbs |-> verbs, errors |-> errors]

\* One profile per question: every verb and error; updates by REWRITE alone;
\* WRITE and DELETE without REWRITE; a dataset to extend; one to share.
AllProfiles ==
  { Using("NONE", {1, 2}, AllVerbs, TRUE),
    Using("NONE", {1}, {"rewrite"}, FALSE),
    Using("NONE", {2}, {"rewrite"}, FALSE),
    Using("NONE", {1, 2}, {"rewrite"}, FALSE),
    Using("NONE", {1, 2}, {"write", "delete"}, FALSE),
    Using("NEW", {1}, AllVerbs, FALSE),
    Using("MOD", {1, 2}, AllVerbs, TRUE),
    Using("OLD", {1, 2}, AllVerbs, TRUE) }

\* A program that mixes WRITE and REWRITE on a file open I-O.
MixedProfiles == { Using("NONE", {1}, {"write", "rewrite"}, FALSE) }
=============================================================================
