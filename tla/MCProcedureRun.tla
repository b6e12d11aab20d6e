--------------------------- MODULE MCProcedureRun ---------------------------
EXTENDS ProcedureRun

Plain(op, to) == [op |-> op, to |-> to, nested |-> FALSE]
Nested(op, to) == [op |-> op, to |-> to, nested |-> TRUE]

(* What the first paragraph may do: set out to the others.                 *)
MCEntries == {
    <<>>,
    <<Plain("perform", <<"b">>)>>,
    <<Plain("perform", <<"b", "c">>), Plain("stop", <<>>)>>,
    <<Plain("perform", <<"c", "d">>)>>,
    <<Plain("perform", <<"d", "b">>)>>,
    <<Plain("alter", <<"b", "d">>), Plain("perform", <<"b", "c">>),
      Plain("goto", <<"d">>)>>,
    <<Plain("alter", <<"c", "b">>), Plain("goto", <<"c">>)>>,
    <<Plain("alter", <<"b", "z">>), Plain("goto", <<"b">>)>>,
    <<Plain("dynamic", <<>>), Plain("goback", <<>>)>>,
    <<Plain("depending", <<"c", "d">>), Plain("stop", <<>>)>>,
    <<Nested("goto", <<"c">>), Plain("stop", <<>>)>>,
    <<Plain("perform", <<"b", "c">>), Nested("perform", <<"c", "d">>)>>,
    <<Plain("alter", <<"c", "d">>), Plain("perform", <<"b">>),
      Plain("perform", <<"b", "c">>), Plain("goto", <<"c">>)>>,
    <<Plain("goto", <<"c">>)>>,
    <<Nested("perform", <<"z">>)>>}

(* What each of the others may do.                                         *)
MCBodies == {
    <<>>,
    <<Plain("goto", <<>>)>>,
    <<Plain("goto", <<>>), Plain("stop", <<>>)>>,
    <<Nested("goto", <<>>), Plain("other", <<>>)>>,
    <<Plain("goto", <<"d">>), Plain("perform", <<"b">>)>>,
    <<Nested("goto", <<"a">>)>>,
    <<Plain("goto", <<"b">>)>>,
    <<Plain("depending", <<"b", "d">>)>>,
    <<Plain("perform", <<"c">>), Plain("goback", <<>>)>>,
    <<Plain("perform", <<"b", "c">>)>>,
    <<Plain("goto", <<"c">>), Plain("dynamic", <<>>)>>,
    <<Plain("depending", <<"c">>), Plain("stop", <<>>)>>,
    <<Nested("stop", <<>>)>>,
    <<Nested("alter", <<"c", "d">>), Nested("goback", <<>>)>>}

(* The last one ends the text; before it may be one of the second's name.  *)
MCEnds == {<<>>, <<Nested("goto", <<"b">>)>>}
MCCopies == {<<>>, <<[name |-> "b", body |-> <<>>]>>}

MCTexts ==
    {<<[name |-> "a", body |-> e], [name |-> "b", body |-> b],
       [name |-> "c", body |-> c]>>
       \o copy \o <<[name |-> "d", body |-> d]>> :
       e \in MCEntries, b \in MCBodies, c \in MCBodies,
       copy \in MCCopies, d \in MCEnds}

MCNames == {"a", "b", "c", "d", "z"}
=============================================================================
