----------------------------- MODULE MCCompiler -----------------------------
(***************************************************************************)
(* The two halves of the compiler, which meet in the number of cells that  *)
(* are published: a run reads a statement to a tree and publishes it, or   *)
(* lays the statements of a program or of CODE() out in blocks.            *)
(***************************************************************************)
EXTENDS Code

VARIABLES half, source, plus, text, tree, ELEMND, EXELND, EXPRND, EXOPND, stack, part, kept, step, todo, code
expressions == <<source, plus, text, tree, ELEMND, EXELND, EXPRND, EXOPND, stack, part, kept, step, todo, code>>

(***************************************************************************)
(* Statements: every order of operators behind a subject, and operands of  *)
(* every kind in every place between them.                                 *)
(***************************************************************************)
Operand(k, v, in) == [un |-> <<>>, kind |-> k, v |-> v, in |-> in, subs |-> <<>>]
V(v)       == Operand("name", v, <<>>)
None       == Operand("null", "", <<>>)
E1(a)      == [args |-> <<a>>, ops |-> <<>>]
E2(a, o, b) == [args |-> <<a, b>>, ops |-> <<o>>]
With(o, un, subs) == [o EXCEPT !.un = un, !.subs = subs]
Names == <<V("a"), V("b"), V("c"), V("d"), V("e"), V("h")>>
NoArg == <<E1(None)>>

Chains(n, ops) == {[args |-> SubSeq(Names, 1, n + 1), ops |-> <<o>> \o p] : o \in {"SCAN", "ASGN"}, p \in [1..(n - 1) -> ops]}
Orders == {E1(V("a"))} \cup Chains(1, {})
            \cup UNION {Chains(n, {"ASGN", "SCAN", "CONCAT", "ADD", "EXP"}) : n \in 2..5}
\* Nothing as the last operand.
Ended(es) == {[e EXCEPT !.args[Len(e.args)] = None] : e \in {x \in es : x.ops # <<>> /\ x.ops # <<"SCAN">>}}

Sum   == E2(V("x"), "ADD", V("y"))
Lists == E2(Operand("paren", "", <<Sum, E1(V("z"))>>), "OR", V("w"))
Open  == Operand("unclosed", "", <<Sum>>)
Kinds == {
  With(V("x"), <<"minus">>, <<>>), With(V("x"), <<"minus", "dot">>, <<<<Sum>>>>),
  With(V("x"), <<>>, <<<<Sum, E1(V("z"))>>>>), With(V("x"), <<>>, <<<<Sum>>, NoArg>>),
  With(V("x"), <<"minus">>, <<<<Sum>>, <<Sum>>>>),
  Operand("literal", "'1'", <<>>), Operand("paren", "", <<Sum>>),
  With(Operand("paren", "", <<Sum>>), <<"minus">>, <<>>), With(Operand("paren", "", <<Sum>>), <<>>, <<<<Lists>>>>),
  Operand("paren", "", <<Sum, E1(None), Lists>>), Operand("paren", "", NoArg),
  With(Operand("paren", "", <<Sum, Sum>>), <<"dot">>, <<>>),
  Operand("paren", "", <<[args |-> <<V("x"), V("y"), V("z")>>, ops |-> <<"SCAN", "ASGN">>]>>),
  Operand("paren", "", <<E2(V("x"), "ASGN", None)>>), Operand("paren", "", <<E2(V("x"), "ADD", None)>>),
  Operand("call", "f", NoArg), Operand("call", "f", <<Sum, Lists>>), Operand("call", "f", <<E1(V("x")), Sum, E1(None)>>),
  With(Operand("call", "g", <<Sum>>), <<"minus">>, <<>>),
  With(Operand("call", "g", <<E1(Operand("call", "f", <<E1(With(V("x"), <<>>, <<<<Lists>>>>))>>))>>), <<>>, <<<<Sum>>>>),
  With(None, <<"minus">>, <<>>), Open, Operand("call", "g", <<E1(Open), Sum>>), With(V("x"), <<>>, <<<<E1(Open)>>>>)}
Bases == {[args |-> SubSeq(Names, 1, n + 1), ops |-> SubSeq(o, 1, n)] :
            n \in 0..3, o \in {<<"SCAN", "EXP", "ADD">>, <<"ASGN", "ADD", "EXP">>, <<"SCAN", "OR", "ASGN">>}}
Mixed == UNION {{[e EXCEPT !.args[i_] = k] : i_ \in DOMAIN e.args} : e \in Bases, k \in Kinds}
           \cup {[args |-> <<V("a"), Operand("paren", "", <<Sum>>), V("c")>>, ops |-> <<"SCAN", "none">>],
                 [args |-> <<Operand("paren", "", <<Sum>>), V("c")>>, ops |-> <<"none">>]}
\* Only the last operand may be nothing at all.
MCStatements == {e \in Orders \cup Ended(Orders) \cup Mixed :
                   \A k \in DOMAIN e.args : e.args[k].kind = "null" /\ e.args[k].un = <<>> => k = Len(e.args) /\ k > 1}
MCArity == [f |-> 2, g |-> 0]

(***************************************************************************)
(* Statements with every kind of body and goto, labelled and not, in       *)
(* blocks that are full somewhere among them.                              *)
(***************************************************************************)
Shape(body, lead, go, s, f) == [label |-> "", body |-> body, lead |-> lead, go |-> go, s |-> s, f |-> f, bad |-> "no"]
Shapes == {Shape(0, FALSE, "none", "", ""), Shape(1, FALSE, "none", "", ""), Shape(3, TRUE, "S", "A", ""),
           Shape(6, TRUE, "none", "", ""), Shape(2, FALSE, "F", "", "B"), Shape(0, FALSE, "U", "B", ""),
           Shape(1, FALSE, "SF", "A", "END"), Shape(0, FALSE, "F", "", "A")}
Some   == Shapes \cup {[Shape(2, FALSE, "none", "", "") EXCEPT !.bad = "early"],
                       [Shape(6, TRUE, "none", "", "") EXCEPT !.bad = "late"]}
\* A at statement a, B at statement b.
LabelledAt(p, a, b) == [j \in DOMAIN p |-> [p[j] EXCEPT !.label = IF j = a THEN "A" ELSE IF j = b THEN "B" ELSE ""]]
Three == {LabelledAt(p, ab[1], ab[2]) : p \in [1..3 -> Some], ab \in {<<1, 0>>, <<2, 3>>, <<3, 2>>}}
Two   == {LabelledAt(p, 2, 0) : p \in [1..2 -> Shapes]}
Twice == {LabelledAt(p, 1, 0) \o LabelledAt(p, 1, 2) : p \in [1..2 -> Some]}
In(mode, sizes, ps) == {[mode |-> mode, size |-> s, stmts |-> p] : s \in sizes, p \in ps}
MCPrograms == In("program", {15}, Three) \cup In("program", 9..24, Two) \cup In("program", {22}, Twice)
                \cup In("code", {0}, Three \cup Twice)
\* Strings for CODE(), of variables and gotos on failure: ' A; B; C; :F(A)'.
MCStrings  == In("code", {0}, [1..4 -> {Shape(1, FALSE, "none", "", ""), Shape(0, FALSE, "F", "", "A")}])

-----------------------------------------------------------------------------
Exp == INSTANCE Expressions WITH Statements <- MCStatements, Arity <- MCArity, pc <- step

AllInit ==
  \/ half = "expressions" /\ Exp!Init /\ program = <<>> /\ i = 0 /\ m = <<>> /\ pc = "idle"
  \/ /\ half = "code" /\ Init /\ step = "idle"
     /\ source = <<>> /\ plus = FALSE /\ text = <<>> /\ tree = <<>> /\ stack = <<>> /\ part = "" /\ kept = <<>>
     /\ ELEMND = 0 /\ EXELND = 0 /\ EXPRND = 0 /\ EXOPND = 0 /\ todo = <<>> /\ code = <<>>
AllNext ==
  \/ half = "expressions" /\ Exp!Next /\ UNCHANGED <<half, vars>>
  \/ half = "code" /\ Next /\ UNCHANGED <<half, expressions>>
AllSpec == AllInit /\ [][AllNext]_<<half, vars, expressions>>

\* A statement is read as it is meant.
TreeAsMeant == half = "expressions" => Exp!TreeAsMeant
\* The code in the blocks does what the statements say.
CodeAsWritten == half = "code" => CodeDoes
\* What v311.sil:6587 says of the cells kept behind the limit of a block, that
\* they are room for safety: nothing is written behind the block.
CodeFits == pc # "overrun"
=============================================================================
