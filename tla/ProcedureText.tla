--------------------------- MODULE ProcedureText ---------------------------
(***************************************************************************)
(* What the compiler makes of the text of a PROCEDURE DIVISION: which      *)
(* texts the semantic analysis refuses and which paragraphs it warns       *)
(* cannot be reached (cobol-sema), and what the code generator keeps of a  *)
(* paragraph and makes its transfer (cobol-codegen-rust).                  *)
(*                                                                         *)
(* A text is a sequence of paragraphs, each with its name and its          *)
(* statements.  Of a statement only what moves control is kept:            *)
(*   perform    PERFORM of to[1], or of to[1] THRU to[2]                   *)
(*   dynamic    PERFORM of a data item that holds a paragraph's name       *)
(*   goto       GO TO to[1]; `GO TO .` when `to` is empty                  *)
(*   depending  GO TO one of `to`, DEPENDING ON a number                   *)
(*   alter      ALTER to[1] TO PROCEED TO to[2]                            *)
(*   goback, stop, other                                                   *)
(* and whether it is nested: in a branch of an IF, an AT END and so on.    *)
(***************************************************************************)
EXTENDS Naturals, Sequences

Operations == {"perform", "dynamic", "goto", "depending", "alter",
               "goback", "stop", "other"}

Statement(Names) ==
    {s \in [op : Operations, to : Seq(Names), nested : BOOLEAN] :
       CASE s.op = "perform" -> Len(s.to) \in {1, 2}
         [] s.op = "goto" -> Len(s.to) \in {0, 1}
         [] s.op = "depending" -> s.to # <<>>
         [] s.op = "alter" -> Len(s.to) = 2
         [] OTHER -> s.to = <<>>}

Paragraph(Names) == [name : Names, body : Seq(Statement(Names))]

(* paragraph_index: the first paragraph of that name, 0 when there is none.*)
Named(text, name) == {i \in DOMAIN text : text[i].name = name}

Find(text, name) ==
    IF Named(text, name) = {} THEN 0
    ELSE CHOOSE i \in Named(text, name) :
            \A j \in Named(text, name) : i <= j

(* IR002 would report a second paragraph of the same name, but no caller   *)
(* asks for the shape diagnostics: such texts are compiled.                *)
DistinctNames(text) ==
    \A i, j \in DOMAIN text : text[i].name = text[j].name => i = j

Has(text, Test(_)) == \E i \in DOMAIN text :
                        \E k \in DOMAIN text[i].body : Test(text[i].body[k])

IsDynamic(s) == s.op = "dynamic"
IsSlot(s) == s.op = "goto" /\ s.to = <<>> /\ ~s.nested
IsNestedSlot(s) == s.op = "goto" /\ s.to = <<>> /\ s.nested

(* `GO TO .` ends its paragraph; that it does is not checked.                *)
SlotsAreAlone(text) ==
    \A i \in DOMAIN text : \A k \in DOMAIN text[i].body :
        IsSlot(text[i].body[k]) => k = Len(text[i].body)

Analysed(text) ==
    DistinctNames(text) /\ SlotsAreAlone(text) /\ ~Has(text, IsDynamic)

-----------------------------------------------------------------------------
(* cobol-sema: reachability.                                               *)

(* The paragraphs a statement may lead to.  A PERFORM of a data item is    *)
(* taken to lead nowhere; an ALTER leads where it may send a later GO TO.  *)
RangeOf(i, j) == IF j = 0 THEN {i}
                 ELSE IF i <= j THEN i..j ELSE j..i

LeadsTo_AlterIgnored(text, s) ==      \* mutant: ALTER as any other statement
    CASE s.op = "perform" /\ Find(text, s.to[1]) # 0 ->
           RangeOf(Find(text, s.to[1]), Find(text, s.to[Len(s.to)]))
      [] s.op \in {"goto", "depending"} ->
           {Find(text, s.to[k]) : k \in DOMAIN s.to} \ {0}
      [] OTHER -> {}

LeadsTo(text, s) ==
    CASE s.op = "perform" /\ Find(text, s.to[1]) # 0 ->
           RangeOf(Find(text, s.to[1]), Find(text, s.to[Len(s.to)]))
      [] s.op \in {"goto", "depending"} ->
           {Find(text, s.to[k]) : k \in DOMAIN s.to} \ {0}
      [] s.op = "alter" -> {Find(text, s.to[2])} \ {0}
      [] OTHER -> {}

(* statement_is_terminal_transfer: what follows it is not looked at.       *)
IsTerminal(text, s) ==
    /\ ~s.nested
    /\ \/ s.op \in {"goback", "stop"}
       \/ s.op = "goto" /\ s.to # <<>> /\ Find(text, s.to[1]) # 0

Successors(text, i) ==
    LET body == text[i].body
        looked == {k \in DOMAIN body :
                     \A j \in 1..(k - 1) : ~IsTerminal(text, body[j])}
        ends == \E k \in DOMAIN body : IsTerminal(text, body[k])
    IN  (UNION {LeadsTo(text, body[k]) : k \in looked})
          \cup (IF ends THEN {} ELSE {i + 1} \cap DOMAIN text)

(* The paragraphs the search from the first one never comes to: those that *)
(* some set closed under the successors leaves out.                        *)
Closed(text, S) == \A i \in S : Successors(text, i) \subseteq S

Unreachable(text) ==
    {i \in DOMAIN text : \E S \in SUBSET DOMAIN text :
        1 \in S /\ Closed(text, S) /\ i \notin S}

-----------------------------------------------------------------------------
(* cobol-sema: what is refused.                                            *)
Unresolved(text, s) == \E k \in DOMAIN s.to : Find(text, s.to[k]) = 0

(* E_PERFORM_THRU_ESCAPES: a GO TO in the performed paragraphs, none of    *)
(* the nested ones, to outside of them; `GO TO .` counts as outside.       *)
Escapes_PlainOnly(text, lo, hi) ==    \* mutant: DEPENDING ON forgotten
    \E i \in lo..hi : \E k \in DOMAIN text[i].body :
        LET s == text[i].body[k]
        IN  /\ s.op = "goto" /\ ~s.nested
            /\ s.to = <<>> \/ \E t \in DOMAIN s.to :
                                 Find(text, s.to[t]) \notin lo..hi

Escapes(text, lo, hi) ==
    \E i \in lo..hi : \E k \in DOMAIN text[i].body :
        LET s == text[i].body[k]
        IN  /\ s.op \in {"goto", "depending"} /\ ~s.nested
            /\ s.to = <<>> \/ \E t \in DOMAIN s.to :
                                 Find(text, s.to[t]) \notin lo..hi

(* E_INVALID_PERFORM_THRU_RANGE: the range is written backwards.           *)
BadThru(text, s) ==
    /\ s.op = "perform" /\ Len(s.to) = 2
    /\ LET lo == Find(text, s.to[1])
           hi == Find(text, s.to[2])
       IN  lo > hi \/ Escapes(text, lo, hi)

(* E_INVALID_GO_TO_TARGET: a `GO TO .` that no ALTER names.                *)
BadSlot(text, i, s) ==
    /\ s.op = "goto" /\ s.to = <<>>
    /\ ~Has(text, LAMBDA a : a.op = "alter" /\ a.to[1] = text[i].name)

IsWrong_AlterUnchecked(text, i, s) == \* mutant: the names of an ALTER are not
    (s.op # "alter" /\ Unresolved(text, s))
        \/ BadThru(text, s) \/ BadSlot(text, i, s)

IsWrong(text, i, s) ==
    Unresolved(text, s) \/ BadThru(text, s) \/ BadSlot(text, i, s)

Accepted(text) ==
    \A i \in DOMAIN text : \A k \in DOMAIN text[i].body :
        ~IsWrong(text, i, text[i].body[k])

-----------------------------------------------------------------------------
(* cobol-codegen-rust: the first statement that ends a paragraph becomes   *)
(* its transfer, what is before it its operations; the rest is dropped.    *)
EndsOps(s) == s.op \in {"goto", "goback", "stop"} /\ ~s.nested

IsOp(body, k) == \A j \in 1..k : ~EndsOps(body[j])

FallsThrough == [op |-> "other", to |-> <<>>, nested |-> FALSE]

Transfer(body) ==
    IF \E k \in DOMAIN body : EndsOps(body[k])
    THEN body[CHOOSE k \in DOMAIN body :
                EndsOps(body[k]) /\ \A j \in 1..(k - 1) : ~EndsOps(body[j])]
    ELSE FallsThrough
=============================================================================
