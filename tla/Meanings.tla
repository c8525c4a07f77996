------------------------------ MODULE Meanings ------------------------------
(***************************************************************************)
(* What the expressions and statements of a program mean, by the levels    *)
(* and sides of the operators, and the words they are written with: the    *)
(* reference of the compiler, which reads the words from left to right     *)
(* (module Expressions).                                                   *)
(*                                                                         *)
(* An expression is a list of operands, ops standing between them.  An     *)
(* operand is a name, a literal or nothing, expressions in parentheses or  *)
(* the call of a function, all but nothing with unary operators before and *)
(* subscripts behind it.                                                   *)
(***************************************************************************)
EXTENDS Integers, SequencesExt

CONSTANT Arity      \* [functions -> the arguments they are defined with]

\* The higher level first, the last of a level first, or the first when the
\* level and that of its right side are the same; PLUSOPS gives a meaning to
\* = and another to the question mark.
Left  == [ASGN |-> 1, SCAN |-> 3, SJSR |-> 3, BIAM |-> 5, OR |-> 10, CONCAT |-> 20, BIAT |-> 25, ADD |-> 30, SUB |-> 30,
          BIPD |-> 35, DIV |-> 40, MPY |-> 42, BIPR |-> 45, EXP |-> 50, NAM |-> 60, DOL |-> 60, BING |-> 70, BIQS |-> 70]
Right == [ASGN |-> 1, SCAN |-> 2, SJSR |-> 2, BIAM |-> 4, OR |-> 9, CONCAT |-> 19, BIAT |-> 24, ADD |-> 29, SUB |-> 29,
          BIPD |-> 34, DIV |-> 39, MPY |-> 41, BIPR |-> 44, EXP |-> 50, NAM |-> 59, DOL |-> 59, BING |-> 70, BIQS |-> 69]
Operator(o, plus) == IF o = "SCAN" /\ ~plus THEN "BIQS" ELSE o

\* The words: names open their subscripts and arguments, a subscript follows
\* any other element immediately; nothing stands for an operator left out.
Word(k, v) == [k |-> k, v |-> v]
EndOfText  == Word("eos", "")
RECURSIVE Words(_)
Listed(es, close) ==
  FlattenSeq([i \in DOMAIN es |-> Words(es[i]) \o <<IF i < Len(es) THEN Word(",", "") ELSE Word(close, "")>>])
Primary(o) ==
  CASE o.kind = "null"     -> <<>>
    [] o.kind = "literal"  -> <<Word("literal", o.v)>>
    [] o.kind = "name"     -> IF o.subs = <<>> THEN <<Word("name", o.v)>>
                              ELSE <<Word("item", o.v)>> \o Listed(o.subs[1], ">")
    [] o.kind = "call"     -> <<Word("call", o.v)>> \o Listed(o.in, ")")
    [] o.kind = "paren"    -> <<Word("(", "")>> \o Listed(o.in, ")")
    [] o.kind = "unclosed" -> <<Word("(", "")>> \o Words(o.in[1])
Subscripts(o) == IF o.kind = "name" /\ o.subs # <<>> THEN Tail(o.subs) ELSE o.subs
Spelled(o) ==
  [i \in DOMAIN o.un |-> Word("unary", o.un[i])] \o Primary(o)
    \o FlattenSeq([i \in DOMAIN Subscripts(o) |-> <<Word("index", "")>> \o Listed(Subscripts(o)[i], ">")])
Words(e) ==
  FlattenSeq([i \in DOMAIN e.args |->
    (IF i = 1 \/ e.ops[i - 1] = "none" THEN <<>> ELSE <<Word("op", e.ops[i - 1])>>) \o Spelled(e.args[i])])

\* The meaning, a tree of functions and arguments.
Call(f, args) == [code |-> f, args |-> args]
Nothing == Call("null", <<>>)
RECURSIVE Sense(_, _)
Senses(es, plus) == [i \in DOMAIN es |-> Sense(es[i], plus)]
SenseOfOperand(o, plus) ==
  LET plain == CASE o.kind = "null"            -> Nothing
                 [] o.kind \in {"name", "literal"} -> Call(o.v, <<>>)
                 [] o.kind = "call"  -> Call(o.v, [i \in 1..(IF Len(o.in) < Arity[o.v] THEN Arity[o.v] ELSE Len(o.in)) |->
                                                    IF i <= Len(o.in) THEN Sense(o.in[i], plus) ELSE Nothing])
                 [] o.kind = "paren" -> IF Len(o.in) = 1 THEN Sense(o.in[1], plus) ELSE Call("CMA", Senses(o.in, plus))
      item(m, es)  == Call("ITEM", <<m>> \o Senses(es, plus))
      unary(u, m)  == Call(u, <<m>>)
  IN  FoldRight(unary, o.un, FoldLeft(item, plain, o.subs))
RECURSIVE SenseOfPart(_, _, _, _)
SenseOfPart(e, lo, hi, plus) ==
  LET level(i) == Left[Operator(e.ops[i], plus)]
      lowest == {i \in lo..(hi - 1) : \A j \in lo..(hi - 1) : level(i) <= level(j)}
      split  == CHOOSE i \in lowest : \A j \in lowest :
                  IF level(i) = Right[Operator(e.ops[i], plus)] THEN i <= j ELSE j <= i
      left   == SenseOfPart(e, lo, split, plus)
      right  == SenseOfPart(e, split + 1, hi, plus)
  IN  IF lo = hi THEN SenseOfOperand(e.args[lo], plus)
      ELSE IF e.ops[split] = "ASGN" /\ split > lo /\ left.code = "SCAN" THEN Call("SJSR", Append(left.args, right))
      ELSE Call(Operator(e.ops[split], plus), <<left, right>>)
Sense(e, plus) == SenseOfPart(e, 1, Len(e.args), plus)
\* A statement: without PLUSOPS its first operator and = are not operators.
Place(o, ops, from) == SelectInSubSeq(ops, from, Len(ops), LAMBDA x : x = o)
SenseOfStatement(e, plus) ==
  LET part(lo, hi) == SenseOfPart(e, lo, hi, plus)
      end == Len(e.args)
      eq  == Place("ASGN", e.ops, 2)
  IN  IF plus \/ end = 1 THEN Sense(e, plus)
      ELSE IF eq = 0 \/ e.ops[1] = "ASGN" THEN Call(e.ops[1], <<part(1, 1), part(2, end)>>)
      ELSE Call("SJSR", <<part(1, 1), part(2, eq), part(eq + 1, end)>>)
\* As the interpreter gets it: functions before their arguments, with the
\* number of them.
RECURSIVE Prefix(_)
Prefix(m) ==
  <<[code |-> m.code, n |-> Len(m.args)]>> \o FlattenSeq([i \in DOMAIN m.args |-> Prefix(m.args[i])])

\* What can be compiled: parentheses are closed, operators have two operands
\* (= may have nothing on its right), the operators and lists of PLUSOPS need it.
RECURSIVE Sound(_, _)
SoundOperand(o, plus) ==
  /\ o.kind # "unclosed" /\ (o.kind = "paren" /\ Len(o.in) > 1 => plus)
  /\ o.kind = "null" => o.un = <<>>
  /\ \A i \in DOMAIN o.in : Sound(o.in[i], plus)
  /\ \A i \in DOMAIN o.subs : \A j \in DOMAIN o.subs[i] : Sound(o.subs[i][j], plus)
SoundPart(e, plus) ==
  /\ \A i \in DOMAIN e.args : /\ SoundOperand(e.args[i], plus)
                              /\ e.args[i].kind = "null" /\ i > 1 => e.ops[i - 1] = "ASGN"
  /\ \A i \in DOMAIN e.ops : e.ops[i] # "none"
Sound(e, plus) == SoundPart(e, plus) /\ (~plus => \A i \in DOMAIN e.ops : e.ops[i] # "ASGN")
SoundStatement(e, plus) ==
  SoundPart(e, plus) /\ (~plus => LET marked == {i \in DOMAIN e.ops : e.ops[i] = "ASGN"}
                                  IN  \A i, j \in marked : i = j)

\* What the compiler is known to read otherwise: an assignment that has a scan
\* with an assignment on its right; a scan or an assignment on the right of a
\* scan with replacement; subscripts behind an element with a unary operator.
RECURSIVE Careful(_, _)
CarefulOperand(o, plus) ==
  /\ o.un # <<>> => Subscripts(o) = <<>>
  /\ \A i \in DOMAIN o.in : Careful(o.in[i], plus)
  /\ \A i \in DOMAIN o.subs : \A j \in DOMAIN o.subs[i] : Careful(o.subs[i][j], plus)
CarefulPart(e, from, plus) ==
  /\ \A i \in DOMAIN e.args : CarefulOperand(e.args[i], plus)
  /\ plus => ~\E i, j, k \in from..Len(e.ops) :
       /\ i < j /\ j < k
       /\ \/ <<e.ops[i], e.ops[j], e.ops[k]>> = <<"ASGN", "SCAN", "ASGN">>
          \/ <<e.ops[i], e.ops[j]>> = <<"SCAN", "ASGN">> /\ e.ops[k] \in {"SCAN", "ASGN"}
Careful(e, plus) == CarefulPart(e, 1, plus)
CarefulStatement(e, plus) == CarefulPart(e, IF e.ops # <<>> /\ e.ops[1] = "ASGN" THEN 2 ELSE 1, plus)
=============================================================================
