----------------------------- MODULE MCOdoTable -----------------------------
(* Two programs: a table of one to three occurrences and one of none or one. *)
EXTENDS OdoTable

MCMinOf == <<1, 0>>
MCMaxOf == <<3, 1>>
MCStartOf == <<1, 1>>

\* The generated code as it is; with an INITIAL program; with two tables of
\* one name; and with SetOdo.
MCProfiles ==
  {[shared |-> sh, reset |-> re, setodo |-> so] :
     <<sh, re, so>> \in {<<FALSE, FALSE, FALSE>>, <<FALSE, TRUE, FALSE>>,
                         <<TRUE, FALSE, FALSE>>, <<FALSE, FALSE, TRUE>>}}
=============================================================================
