---------------------------- MODULE Expressions ----------------------------
(***************************************************************************)
(* The compiler of a statement's subject, pattern and object: words are    *)
(* read from left to right into a tree of nodes with links to the father,  *)
(* the first son and the next sibling, operators find their place by the   *)
(* levels of those before them, and the tree is published, functions       *)
(* before arguments, as the code of the statement.                         *)
(*                                                                         *)
(* A procedure that is called within itself (EXPR within ELEMNT) keeps its *)
(* registers on the stack.  A literal is one node here.                    *)
(***************************************************************************)
EXTENDS Meanings

CONSTANT Statements      \* the statements that are compiled

VARIABLES source, plus,  \* the statement; SPITCL: the operators of PLUSOPS are enabled
          text,          \* TEXTSP: the words not read yet
          tree,          \* nodes [code, f, s, r, n]; 0 is no node
          ELEMND, EXELND, EXPRND, EXOPND,
          stack,         \* calls of EXPR within an element
          part,          \* what CMPILE compiles: subject, scan, pattern, form, object
          kept,          \* SUBJND and PATND
          pc, todo,      \* trees to publish, the node in hand first (YPTR)
          code
registers == <<ELEMND, EXELND, EXPRND, EXOPND>>
vars == <<source, plus, text, tree, registers, stack, part, kept, pc, todo, code>>

Node(c)  == [code |-> c, f |-> 0, s |-> 0, r |-> 0, n |-> 0]
New(t)   == Len(t) + 1
ADDSON(t, a, b) == [t EXCEPT ![b].f = a, ![b].r = t[a].s, ![a].s = b, ![a].n = @ + 1]
ADDSIB(t, a, b) == [t EXCEPT ![b].r = t[a].r, ![b].f = t[a].f, ![a].r = b, ![t[a].f].n = @ + 1]
\* Mutant of INSERT: b becomes the first son, as if a had been.
InsertFirst(t, a, b) ==
  [t EXCEPT ![t[a].f].s = b, ![b].f = t[a].f, ![b].s = a, ![b].n = @ + 1, ![a].f = b]
\* b between a, not the first son, and its father.
INSERT(t, a, b) ==
  LET y == CHOOSE y \in DOMAIN t : t[y].r = a
  IN  [t EXCEPT ![y].r = b, ![b].f = t[a].f, ![b].s = a, ![b].n = @ + 1, ![a].f = b]
\* b below a when there is an a.
Under(t, a, b) == IF a = 0 THEN t ELSE ADDSON(t, a, b)
RECURSIVE Root(_, _)
Root(t, x) == IF t[x].f = 0 THEN x ELSE Root(t, t[x].f)

Ahead == IF text = <<>> THEN EndOfText ELSE Head(text)
Is(w) == Ahead.k = w
Read  == text' = Tail(text)
\* FORWRD, FORBLK: the characters that end an element or an expression.
Breaks == Ahead.k \in {")", ",", ">", "eos"} \/ (Ahead = Word("op", "ASGN") /\ ~plus)

Init ==
  /\ source \in Statements /\ plus \in BOOLEAN
  /\ text = Words(source) /\ tree = <<>> /\ stack = <<>>
  /\ ELEMND = 0 /\ EXELND = 0 /\ EXPRND = 0 /\ EXOPND = 0
  /\ part = "subject" /\ kept = <<>> /\ pc = "ELEMNT" /\ todo = <<>> /\ code = <<>>

Fail == pc' = "error" /\ UNCHANGED <<source, plus, text, tree, registers, stack, part, kept, todo, code>>

-----------------------------------------------------------------------------
(* Elements.                                                               *)
\* ELEMNT is called, by EXPR (EXPRND is 0) or by EXPR1.
Enter(expr) == pc' = "ELEMNT" /\ ELEMND' = 0 /\ EXPRND' = expr
\* EXPR within an element: registers it changes are kept.
Within(kind, node) ==
  /\ stack' = Append(stack, [kind |-> kind, node |-> node, EXPRND |-> EXPRND])
  /\ Enter(0) /\ UNCHANGED <<EXELND, EXOPND>>
\* ELEMRR, ELEM10: the element is done, but for subscripts.
Element(t, x) == tree' = t /\ EXELND' = Root(t, x) /\ pc' = "ELEM10"
\* ELEARG: e is the first argument of a node c below elem.
Arguments(t, elem, e, c) == ADDSON(Under(Append(t, Node(c)), elem, New(t)), New(t), e)

UNOP ==
  /\ pc = "ELEMNT" /\ Is("unary") /\ Read
  /\ tree' = Under(Append(tree, Node(Ahead.v)), ELEMND, New(tree)) /\ ELEMND' = New(tree)
  /\ UNCHANGED <<source, plus, EXELND, EXPRND, EXOPND, stack, part, kept, pc, todo, code>>
\* ELEVBL, ELEILT, ELEFLT and the quoted literal.
Variable ==
  /\ pc = "ELEMNT" /\ Ahead.k \in {"name", "literal"} /\ Read
  /\ Element(Under(Append(tree, Node(Ahead.v)), ELEMND, New(tree)), New(tree))
  /\ UNCHANGED <<source, plus, ELEMND, EXPRND, EXOPND, stack, part, kept, todo, code>>
\* ELENST
Parenthesis ==
  /\ pc = "ELEMNT" /\ Is("(") /\ Read
  /\ Within("paren", ELEMND)
  /\ UNCHANGED <<source, plus, tree, part, kept, todo, code>>
\* ELEFNC
Function ==
  /\ pc = "ELEMNT" /\ Is("call") /\ Read
  /\ tree' = Under(Append(tree, Node(Ahead.v)), ELEMND, New(tree))
  /\ Within("call", New(tree))
  /\ UNCHANGED <<source, plus, part, kept, todo, code>>
\* ELEARY
Item ==
  /\ pc = "ELEMNT" /\ Is("item") /\ Read
  /\ tree' = Arguments(Append(tree, Node(Ahead.v)), ELEMND, New(tree), "ITEM")
  /\ Within("item", New(tree))
  /\ UNCHANGED <<source, plus, part, kept, todo, code>>
\* ELEM10: another subscript, or back to the caller of ELEMNT.
Subscript ==
  /\ pc = "ELEM10" /\ Is("index") /\ Read
  /\ tree' = Arguments(tree, 0, EXELND, "ITEM")
  /\ Within("item", EXELND)
  /\ UNCHANGED <<source, plus, part, kept, todo, code>>
Plain ==
  /\ pc = "ELEM10" /\ ~Is("index")
  /\ pc' = IF part = "subject" /\ stack = <<>> THEN "CMPILE" ELSE "EXPR2"
  /\ UNCHANGED <<source, plus, text, tree, registers, stack, part, kept, todo, code>>
\* ELEICH: no element.
NoElement ==
  /\ pc = "ELEMNT" /\ Fail
  /\ \/ Is("op") /\ ~Breaks
     \/ Breaks /\ ELEMND # 0

-----------------------------------------------------------------------------
(* Expressions.                                                            *)
\* EXPR7: the last operand e finds its place, the root is returned.
Finish(t, e) ==
  LET done == IF EXPRND = 0 THEN t ELSE ADDSIB(t, EXPRND, e)
  IN  tree' = done /\ EXELND' = Root(done, e) /\ pc' = "return"
\* EXPNUL, EXPR12: no element is the null string as a whole expression and on
\* the right of =.
Null ==
  /\ pc = "ELEMNT" /\ Breaks /\ ELEMND = 0
  /\ IF EXPRND = 0 \/ (plus /\ tree[EXOPND].code \in {"SJSR", "ASGN"})
     THEN /\ Finish(Append(tree, Node("null")), New(tree))
          /\ UNCHANGED <<source, plus, text, ELEMND, EXPRND, EXOPND, stack, part, kept, todo, code>>
     ELSE Fail
EndOfExpression ==
  /\ pc = "EXPR2" /\ Breaks /\ Finish(tree, EXELND)
  /\ UNCHANGED <<source, plus, text, ELEMND, EXPRND, EXOPND, stack, part, kept, todo, code>>
\* BINOP: an element that follows another immediately.
NoOperator == pc = "EXPR2" /\ ~Breaks /\ ~Is("op") /\ Fail

\* EXPR15: the scan above EXPRND, 0 if there is none.
RECURSIVE ScanAbove(_, _)
ScanAbove(t, x) ==
  IF t[x].f = 0 THEN 0 ELSE IF t[t[x].f].code = "SCAN" THEN t[x].f ELSE ScanAbove(t, t[x].f)
\* EXPR16: the son of the root above x.
RECURSIVE BelowRoot(_, _)
BelowRoot(t, x) == IF t[t[x].f].f = 0 THEN x ELSE BelowRoot(t, t[x].f)
\* EXPR5: the first above x whose father does not bind the new operator's
\* left operand first, or the root.
RECURSIVE Higher(_, _, _)
Higher(t, x, level) ==
  LET up == t[x].f
  IN  IF t[up].f = 0 THEN up ELSE IF Left[t[t[up].f].code] > level THEN Higher(t, up, level) ELSE up

\* EXPR2 at = in an expression with a scan: the scan is one with replacement.
Replacement ==
  LET scan == ScanAbove(tree, EXPRND)
      t    == ADDSIB([tree EXCEPT ![scan].code = "SJSR"], EXPRND, EXELND)
      x    == BelowRoot(t, EXELND)
  IN  /\ pc = "EXPR2" /\ plus /\ Ahead = Word("op", "ASGN")
      /\ EXPRND # 0 /\ ScanAbove(tree, EXPRND) # 0 /\ Read
      /\ tree' = t /\ EXOPND' = t[x].f /\ Enter(x)
      /\ UNCHANGED <<source, plus, EXELND, stack, part, kept, todo, code>>
\* EXPR14: the operator takes the element, takes the place of the element, or
\* takes what has been read down to an operator of a lower level.
OperatorNode ==
  LET o == Operator(Ahead.v, plus)
      t == Append(tree, Node(o))
      op == New(tree)
      closed == ADDSIB(t, EXPRND, EXELND)
      x == Higher(closed, EXPRND, Right[o])
  IN  /\ pc = "EXPR2" /\ Is("op") /\ Ahead.v # "none" /\ ~Breaks /\ Read
      /\ ~(plus /\ o = "ASGN" /\ EXPRND # 0 /\ ScanAbove(tree, EXPRND) # 0)
      /\ EXOPND' = op
      /\ IF EXPRND = 0 THEN tree' = ADDSON(t, op, EXELND) /\ Enter(EXELND)
         ELSE IF Left[tree[tree[EXPRND].f].code] <= Right[o]
         THEN tree' = ADDSON(ADDSIB(t, EXPRND, op), op, EXELND) /\ Enter(EXELND)
         ELSE IF closed[x].f = 0 THEN tree' = ADDSON(closed, op, x) /\ Enter(x)
         ELSE tree' = INSERT(closed, x, op) /\ Enter(x)
      /\ UNCHANGED <<source, plus, EXELND, stack, part, kept, todo, code>>

\* EXPR returns to the element that called it, at a break character.
RECURSIVE Filled(_, _, _)
Filled(t, x, f) ==                          \* ELEMN4: missing arguments are null
  IF t[f].n >= Arity[t[f].code] THEN t ELSE Filled(ADDSIB(Append(t, Node("null")), x, New(t)), New(t), f)
Return ==
  LET top   == Last(stack)
      first == top.kind = "call"            \* the first argument of a call
      t == IF first THEN ADDSON(tree, top.node, EXELND) ELSE ADDSIB(tree, top.node, EXELND)
      f == t[EXELND].f
      close == IF top.kind = "item" THEN ">" ELSE ")"
      again(kind, node) == /\ stack' = Append(Front(stack), [top EXCEPT !.kind = kind, !.node = node])
                           /\ Enter(0) /\ UNCHANGED <<EXELND, EXOPND>>
  IN  /\ pc = "return" /\ stack # <<>>
      /\ \/ /\ top.kind = "paren" /\ Is(")") /\ Read
            /\ stack' = Front(stack) /\ EXPRND' = top.EXPRND /\ ELEMND' = top.node
            /\ Element(Under(tree, top.node, EXELND), EXELND) /\ UNCHANGED EXOPND
         \/ /\ top.kind = "paren" /\ plus /\ Is(",") /\ Read
            /\ tree' = Arguments(tree, top.node, EXELND, "CMA") /\ again("list", EXELND)
         \/ /\ top.kind # "paren" /\ Is(",") /\ Read
            /\ tree' = t /\ again(IF first THEN "args" ELSE top.kind, EXELND)
         \/ /\ top.kind # "paren" /\ Is(close) /\ Read
            /\ stack' = Front(stack) /\ EXPRND' = top.EXPRND
            /\ Element(IF top.kind \in {"call", "args"} THEN Filled(t, EXELND, f) ELSE t, EXELND)
            /\ UNCHANGED <<ELEMND, EXOPND>>
      /\ UNCHANGED <<source, plus, part, kept, todo, code>>
\* ELECMA
Unclosed ==
  /\ pc = "return" /\ stack # <<>>
  /\ LET kind == Last(stack).kind
     IN  /\ ~(Is(",") /\ (kind = "paren" => plus))
         /\ ~Is(IF kind = "item" THEN ">" ELSE ")")
  /\ Fail

-----------------------------------------------------------------------------
(* CMPILE: the body of a statement.                                        *)
Publish(codes, trees) ==
  /\ pc' = "TREPUB" /\ code' = codes /\ todo' = trees
  /\ UNCHANGED <<source, plus, text, tree, registers, stack, part, kept>>
\* EXPR is called for the next part, the node in EXELND is kept.
Continue(next) ==
  /\ Read /\ part' = next /\ kept' = Append(kept, EXELND) /\ Enter(0)
  /\ UNCHANGED <<source, plus, tree, EXELND, EXOPND, stack, todo, code>>
\* CMPSUB: what follows the subject; a blank or ? is a scan.
Subject ==
  /\ pc = "CMPILE"
  /\ \/ Is("eos") /\ Publish(<<>>, <<EXELND>>)
     \/ Ahead = Word("op", "ASGN") /\ Continue("form")
     \/ Ahead = Word("op", "SCAN") /\ ~plus /\ Continue("pattern")
     \/ /\ Ahead = Word("op", "SCAN") /\ plus /\ Read      \* CMPATN
        /\ tree' = ADDSON(Append(tree, Node("SCAN")), New(tree), EXELND) /\ EXOPND' = New(tree)
        /\ part' = "scan" /\ Enter(EXELND)
        /\ UNCHANGED <<source, plus, EXELND, stack, kept, todo, code>>
     \/ ~Is("eos") /\ Ahead \notin {Word("op", "ASGN"), Word("op", "SCAN")} /\ Fail
\* CMPAT2, CMPFRM, CMPASP: the expression ended at Ahead.
Body ==
  LET cell(c, n) == <<[code |-> c, n |-> n]>>
      trees == Append(kept, EXELND)
  IN  /\ pc = "return" /\ stack = <<>>
      /\ \/ part = "scan"    /\ Is("eos") /\ Publish(<<>>, <<EXELND>>)
         \/ part = "form"    /\ Is("eos") /\ Publish(cell("ASGN", 2), trees)
         \/ part = "pattern" /\ Is("eos") /\ Publish(cell("SCAN", 2), trees)
         \/ part = "object"  /\ Is("eos") /\ Publish(cell("SJSR", 3), trees)
         \/ part = "pattern" /\ Is("op")  /\ Continue("object")
         \/ ~Is("eos") /\ ~(part = "pattern" /\ Is("op")) /\ Fail

\* The next sibling of y or of a node above it.
RECURSIVE Beside(_, _)
Beside(t, y) == IF t[y].r # 0 THEN t[y].r ELSE IF t[y].f = 0 THEN 0 ELSE Beside(t, t[y].f)
TREPUB ==
  LET y    == Head(todo)
      next == IF tree[y].s # 0 THEN tree[y].s ELSE Beside(tree, y)
  IN  /\ pc = "TREPUB"
      /\ code' = Append(code, [code |-> tree[y].code, n |-> tree[y].n])
      /\ todo' = IF next = 0 THEN Tail(todo) ELSE <<next>> \o Tail(todo)
      /\ pc' = IF todo' = <<>> THEN "done" ELSE pc
      /\ UNCHANGED <<source, plus, text, tree, registers, stack, part, kept>>

Next ==
  \/ UNOP \/ Variable \/ Parenthesis \/ Function \/ Item \/ Subscript \/ Plain \/ NoElement
  \/ Null \/ EndOfExpression \/ NoOperator \/ Replacement \/ OperatorNode \/ Return \/ Unclosed
  \/ Subject \/ Body \/ TREPUB
Spec == Init /\ [][Next]_vars

-----------------------------------------------------------------------------
\* The code of a statement is what the statement means, and an error message
\* is for statements that mean nothing, except for what is known to be read
\* otherwise: operators find their place by level and side however they
\* follow one another, in whatever is read around and within them.
TreeAsMeant ==
  CarefulStatement(source, plus) =>
    /\ pc = "done"  => SoundStatement(source, plus) /\ code = Prefix(SenseOfStatement(source, plus))
    /\ pc = "error" => ~SoundStatement(source, plus)
=============================================================================
