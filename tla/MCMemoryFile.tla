---------------------------- MODULE MCMemoryFile ----------------------------
(***************************************************************************)
(* MemoryFile with an empty record and two others of different lengths.    *)
(***************************************************************************)
EXTENDS MemoryFile

CONSTANTS a, b

Records == {<<>>, <<a>>, <<a, b>>}
=============================================================================
