------------------------------ MODULE MCRerun ------------------------------
(***************************************************************************)
(* Rerun with a MASTER of four records and two versions, one or two RERUN  *)
(* clauses, and every way of being interrupted.                            *)
(***************************************************************************)
EXTENDS Rerun

Using(out, every, keep, torn, replace) ==
  [out |-> out, every |-> every, keep |-> keep, torn |-> torn,
   replace |-> replace]

\* OUT on a tape, appended to a file of the operating system, and in memory.
AllProfiles ==
  { Using(out, every, keep, FALSE, TRUE) :
      out \in {"TAPE", "MEM", "OS EXTEND"}, every \in {<<2>>, <<1, 3>>},
      keep \in BOOLEAN }
  \cup { Using(out, <<2>>, FALSE, TRUE, FALSE) : out \in {"TAPE", "OS EXTEND"} }

\* OUT as a file of the operating system opened OUTPUT.
OutputProfiles == { Using("OS OUTPUT", <<2>>, FALSE, FALSE, FALSE) }
=============================================================================
