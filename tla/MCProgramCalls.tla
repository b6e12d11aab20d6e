--------------------------- MODULE MCProgramCalls ---------------------------
EXTENDS ProgramCalls

(* MAIN calls SUB, an INITIAL program, with a number, which is converted,  *)
(* and with one that has no VALUE, and LOW with a group of its record, and *)
(* with one of too many items; SUB calls LOW with a group and with an      *)
(* item.  LOW calls itself with its own record, and SUB without arguments, *)
(* which is refused after SUB has been reset; its item F has the name of   *)
(* SUB's parameter.  MAIN and LOW have a SORT file of the same name.       *)
MCItems ==
    [MAIN |-> [N |-> <<"1">>, M |-> <<" ">>, K |-> <<"1">>, T |-> <<"x">>],
     SUB  |-> [B |-> <<"1">>],
     LOW  |-> [F |-> <<"x">>]]

MCGroups == [MAIN |-> [R |-> <<"K", "T">>, X |-> <<"K">>],
             SUB |-> [G |-> <<"B">>],
             LOW |-> [R |-> <<"F">>]]

MCFormals ==
    [MAIN |-> <<>>,
     SUB  |-> <<[name |-> "F", children |-> <<>>, len |-> 1]>>,
     LOW  |-> <<[name |-> "P", children |-> <<"PK">>, len |-> 1]>>]

MCNumeric == [MAIN |-> {"N", "M"}, SUB |-> {}, LOW |-> {}]

Number1 == [given |-> TRUE, first |-> 1, last |-> 1, descending |-> FALSE]

MCSortFiles ==
    [MAIN |-> [S |-> [record |-> "R", key |-> Number1]],
     SUB  |-> <<>>,
     LOW  |-> [S |-> [record |-> "R",
                      key |-> [Number1 EXCEPT !.descending = TRUE]]]]

MCMoves == [MAIN |-> {}, SUB |-> {},
            LOW |-> {[from |-> "PK", to |-> "F"]}]

MCLiterals == [MAIN |-> {},
               SUB |-> {},
               LOW |-> {[bytes |-> <<"2">>, to |-> "PK"]}]

Call(dynamic, target, using) ==
    [dynamic |-> dynamic, target |-> target, using |-> using]

MCCalls ==
    [MAIN |-> {Call(FALSE, "SUB", <<"N">>), Call(FALSE, "SUB", <<"M">>),
               Call(TRUE, "LOW", <<"X">>), Call(FALSE, "LOW", <<"R">>),
               Call(TRUE, "NOSUCH", <<"K">>)},
     SUB  |-> {Call(TRUE, "LOW", <<"B">>), Call(FALSE, "LOW", <<"G">>),
               Call(TRUE, "", <<>>)},
     LOW  |-> {Call(TRUE, "LOW", <<"R">>), Call(TRUE, "SUB", <<>>)}]

MCReleases == [MAIN |-> {[record |-> "R", from |-> "R"]}, SUB |-> {},
               LOW |-> {[record |-> "R", from |-> "PK"]}]

MCReturns == [MAIN |-> {[file |-> "S", record |-> "R", into |-> "R"]},
              SUB |-> {},
              LOW |-> {[file |-> "S", record |-> "R", into |-> "PK"]}]

MCRank(bytes) == CASE bytes = <<" ">> -> 0 [] bytes = <<"1">> -> 1
                   [] bytes = <<"2">> -> 2 [] OTHER -> 9
=============================================================================
