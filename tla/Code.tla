-------------------------------- MODULE Code --------------------------------
(***************************************************************************)
(* The code the compiler writes for statements: cells in blocks.  A label  *)
(* begins a new base; offsets, of the place a statement fails to and of    *)
(* the place it succeeds to, count from the base they were written for.    *)
(* Where a block is full, what was written from the base on moves to a     *)
(* larger block, and a goto to that block takes its place.                 *)
(*                                                                         *)
(* The text of a statement is reduced to its label, the number of cells    *)
(* published for its body and whether one is written before without a      *)
(* question about the limit (lead), its gotos and whether it is in error.  *)
(***************************************************************************)
EXTENDS Integers, SequencesExt

CONSTANTS Programs,   \* [mode, size, stmts]: the statements of a program, the cells of
                      \* its first block; or of a string that CODE() compiles
          Labels,     \* "END" among them
          Extra       \* CODELT
ASSUME ExtraAssumption == Extra \in Nat /\ Extra > 7   \* the cells kept for safety

VARIABLES program, i, m, pc
vars == <<program, i, m, pc>>

Nowhere == [b |-> 0, o |-> 0]
Cell(op, v) == [op |-> op, v |-> v]
Blank(size) == [k \in 1..size |-> Cell("free", 0)]
Stmt(j)  == program.stmts[j]
Empty(s) == s.body = 0 /\ s.go = "none" /\ s.bad = "no"
\* The characters of a statement, at least.
Chars(s) == (IF s.label = "" THEN 0 ELSE 1) + (IF s.body = 0 THEN 0 ELSE s.body + 1) + 1
              + (CASE s.go = "none" -> 0 [] s.go = "U" -> 5 [] s.go \in {"S", "F"} -> 6 [] s.go = "SF" -> 10)

\* CMBSCL is base o of block b, CMOFCL is of, OCLIM is lim; over: a cell was
\* written behind the block.
Init ==
  /\ program \in Programs /\ i = 1 /\ pc = "compile"
  /\ LET chars == FoldLeft(+, 0, [j \in DOMAIN program.stmts |-> Chars(Stmt(j))])
         size  == IF program.mode = "code" THEN chars + 6 ELSE program.size
     IN  m = [mem |-> <<Blank(size)>>, b |-> 1, o |-> 0, of |-> 0, over |-> FALSE,
              lim |-> IF program.mode = "code" THEN chars ELSE size - 7,
              LPTR |-> "", attr |-> [l \in Labels |-> Nowhere]]

-----------------------------------------------------------------------------
Put(n, c) ==
  LET at == n.o + n.of + 1
  IN  IF n.over \/ at > Len(n.mem[n.b]) THEN [n EXCEPT !.over = TRUE, !.of = @ + 1]
      ELSE [n EXCEPT !.mem[n.b][at] = c, !.of = @ + 1]
\* The value of a cell that was left open.
Fill(n, at, v) == IF n.over THEN n ELSE [n EXCEPT !.mem[n.b][n.o + at].v = v]
\* From cell at on, block b goes to a new one; SPLIT frees the rest.
Linked(n, at, new) ==
  LET link == <<Cell("GOTG", 0), Cell("LIT", 0), Cell("block", Len(n.mem) + 1)>>
      cell(k) == IF k < at THEN n.mem[n.b][k] ELSE IF k > at + 2 THEN Cell("free", 0) ELSE link[k - at + 1]
  IN  IF n.over \/ at + 2 > Len(n.mem[n.b]) THEN [n EXCEPT !.over = TRUE]
      ELSE [n EXCEPT !.mem = Append([@ EXCEPT ![n.b] = [k \in DOMAIN @ |-> cell(k)]], new),
                     !.b = Len(n.mem) + 1, !.o = 0, !.lim = Len(new) - 7]
\* One node of a tree; TREPU5 moves the base, and the label that stands for it.
TREPUB(n, c) ==
  LET p     == Put(n, c)
      moved == [k \in 1..(p.of + Extra) |-> IF k <= p.of THEN p.mem[p.b][p.o + k] ELSE Cell("free", 0)]
      q     == Linked(p, p.o + 1, moved)
  IN  IF p.over \/ p.o + p.of <= p.lim \/ q.over THEN [p EXCEPT !.over = @ \/ (p.o + p.of > p.lim /\ q.over)]
      ELSE IF p.LPTR = "" THEN q ELSE [q EXCEPT !.attr[p.LPTR] = [b |-> q.b, o |-> 0]]
Goto(n, l) == TREPUB(Put(n, Cell("GOTL", 0)), Cell("label", l))

\* CMPILE: a label is a new base, in a new block at the limit; in a program a
\* label that is there keeps its place.
Again(n, l) == program.mode = "program" /\ l # "" /\ n.attr[l] # Nowhere
\* Mutant: no question about the limit.
LabelledUnasked(n, l) ==
  LET p == Put(n, Cell("BASE", 0))
  IN  IF l = "" THEN n
      ELSE [p EXCEPT !.o = n.o + p.of, !.of = 0, !.LPTR = l,
                     !.attr[l] = IF Again(n, l) THEN @ ELSE [b |-> p.b, o |-> n.o + p.of]]
Labelled(n, l) ==
  LET p == Put(n, Cell("BASE", 0))
      at == p.o + p.of
      q == IF p.over \/ at < p.lim THEN [p EXCEPT !.o = at]
           ELSE [Linked(p, at, [Blank(Extra) EXCEPT ![1] = Cell("BASE", 0)]) EXCEPT !.o = 1]
  IN  IF l = "" THEN n
      ELSE [q EXCEPT !.of = 0, !.LPTR = l, !.attr[l] = IF Again(n, l) THEN @ ELSE [b |-> q.b, o |-> q.o]]
\* INIT, its failure offset, line and file; subject, pattern and object.
Body(n, j) ==
  LET head == FoldLeft(Put, n, <<Cell("INIT", j), Cell("fail", 0), Cell("line", 0), Cell("file", 0)>>)
      s    == Stmt(j)
      cell(k) == Cell("body", k)
  IN  FoldLeft(TREPUB, IF s.lead THEN Put(head, cell(1)) ELSE head,
               [k \in 1..(IF s.lead THEN s.body - 1 ELSE s.body) |-> cell(IF s.lead THEN k + 1 ELSE k)])
\* CMPNGO, CMPUGO, CMPSGO, CMPFGO, CMPILM.
Statement(n, j) ==
  LET s     == Stmt(j)
      frn   == n.of + 2
      body  == Body(n, j)
      fails(x) == Fill(x, frn, x.of)
      succeeds == Goto(body, s.s)
      skip  == Put(Put(body, Cell("GOTO", 0)), Cell("offset", 0))
      failed == Goto(fails(skip), s.f)
  IN  CASE s.go = "none" -> fails(body)
        [] s.go = "U"    -> Goto(fails(body), s.s)
        [] s.go = "S"    -> fails(succeeds)
        [] s.go = "F"    -> Fill(failed, skip.of, failed.of)
        [] s.go = "SF"   -> Goto(fails(succeeds), s.f)
\* CDIAG: the error takes the place of what was written of the statement.
Erroneous(n, j, began) ==
  LET p == IF began THEN Body(n, j) ELSE n
  IN  FoldLeft(Put, [p EXCEPT !.of = n.of], <<Cell("EROR", j), Cell("stno", j), Cell("line", 0), Cell("file", 0)>>)

Written(n, next, ended) ==
  /\ m' = n /\ i' = next /\ pc' = IF n.over THEN "overrun" ELSE IF ended THEN "done" ELSE pc
  /\ UNCHANGED program
Wrong(j) == Stmt(j).bad # "no" \/ Again(m, Stmt(j).label)
CMPILE ==
  /\ pc = "compile" /\ i <= Len(program.stmts) /\ ~Wrong(i)
  /\ LET n == Labelled(m, Stmt(i).label)
     IN  Written(IF Empty(Stmt(i)) THEN n ELSE Statement(n, i), i + 1, FALSE)
\* In CODE() the first error is the end (RECOMF).
CDIAG ==
  /\ pc = "compile" /\ i <= Len(program.stmts) /\ Wrong(i)
  /\ LET n == Erroneous(Labelled(m, Stmt(i).label), i, Stmt(i).bad = "late")
     IN  IF program.mode = "code" THEN Written(Put(n, Cell("END", 0)), i + 1, TRUE) ELSE Written(n, i + 1, FALSE)
End ==
  /\ pc = "compile" /\ i > Len(program.stmts)
  /\ Written(Put(IF program.mode = "program" THEN Labelled(m, "END") ELSE m, Cell("END", 0)), i, TRUE)
Next == CMPILE \/ CDIAG \/ End
Spec == Init /\ [][Next]_vars

-----------------------------------------------------------------------------
(* What the interpreter finds.  A place is OCBSCL and OCICL.               *)
CellAt(p) == m.mem[p.b][p.o + p.of + 1]
After(p, k) == [p EXCEPT !.of = @ + k]
At(a) == [b |-> a.b, o |-> a.o, of |-> 0]
\* BASE, a link and GOTO are passed.
RECURSIVE Settled(_)
Settled(p) ==
  CASE CellAt(p).op = "BASE" -> Settled([p EXCEPT !.o = p.o + p.of + 1, !.of = 0])
    [] CellAt(p).op = "GOTG" -> Settled(At([b |-> CellAt(After(p, 2)).v, o |-> 0]))
    [] CellAt(p).op = "GOTO" -> Settled([p EXCEPT !.of = CellAt(After(p, 1)).v])
    [] OTHER -> p
\* The code at p does what the statements from j on say, whether they succeed
\* or fail.
RECURSIVE Does(_, _)
Leads(p, target, j) ==
  IF target = "" THEN Does(p, j + 1)
  ELSE CellAt(Settled(p)).op = "GOTL" /\ CellAt(After(Settled(p), 1)) = Cell("label", target)
Does(p, j) ==
  LET q == Settled(p)
      s == Stmt(j)
  IN  IF j >= i THEN CellAt(q).op = "END"
      ELSE IF s.bad # "no" THEN CellAt(q) = Cell("EROR", j) /\ CellAt(After(q, 1)) = Cell("stno", j)
      ELSE IF Empty(s) THEN Does(p, j + 1)
      ELSE /\ CellAt(q) = Cell("INIT", j)
           /\ \A k \in 1..s.body : CellAt(After(q, 3 + k)) = Cell("body", k)
           /\ Leads(After(q, 4 + s.body), IF s.go \in {"U", "S", "SF"} THEN s.s ELSE "", j)
           /\ Leads([q EXCEPT !.of = CellAt(After(q, 1)).v], IF s.go = "U" THEN s.s ELSE IF s.go \in {"F", "SF"} THEN s.f ELSE "", j)

\* Statements that are no more than a goto on failure, and errors a statement
\* without a label follows, take more cells than are kept for safety.
Tight(s, j) ==
  \/ s.body = 0 /\ s.go = "F"
  \/ s.bad # "no" /\ program.mode = "program" /\ j < Len(program.stmts) /\ Stmt(j + 1).label = ""
Places(l) == {j \in 1..(i - 1) : Stmt(j).label = l}
Distinct  == \A l \in Labels : program.mode = "program" => \A j, k \in Places(l) : j = k
\* From the first statement, and from the label of any other that is compiled,
\* the code does what the statements say, wherever blocks were full, however
\* often the code moved, and when a later statement is in error; it stays in its
\* blocks, but for the statements above.
CodeDoes ==
  /\ pc = "overrun" => \E j \in 1..(i - 1) : Tight(Stmt(j), j)
  /\ pc = "done" /\ Distinct =>
       /\ Does(At([b |-> 1, o |-> 0]), 1)
       /\ \A l \in Labels \ {"END"} :
            IF Places(l) = {} THEN m.attr[l] = Nowhere
            ELSE m.attr[l] # Nowhere /\ Does(At(m.attr[l]), CHOOSE j \in Places(l) : \A k \in Places(l) : k <= j)
=============================================================================
