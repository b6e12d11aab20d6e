-------------------------- MODULE MCPerformControl --------------------------
EXTENDS PerformControl

(* A range in the order of the text whose first block has a GOBACK, and    *)
(* one written backwards in which a block falls into the next.             *)
MCPerformable == {<<1, 2>>, <<3, 1>>}

MCAlters == {<<2, 1>>}
=============================================================================
