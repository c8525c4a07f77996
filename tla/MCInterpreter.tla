--------------------------- MODULE MCInterpreter ----------------------------
(***************************************************************************)
(* Programs for the interpreter, as the compiler lays them out.            *)
(***************************************************************************)
EXTENDS Interpreter, SequencesExt

CONSTANT Family
MCNames == {"f", "g", "t", "x", "y", "a", "b", "d", "e", "h", "m", "text", "undefined", "g(f)",
            "F", "G", "T", "H", "TAIL", "MISSING", "RETURN", "FRETURN", "NRETURN", "CONTINUE", "SCONTINUE", "ABORT"}

------------------------------------------------------------------------------
\* Cells: a call is followed by its arguments, in prefix order.
S(s)       == [t |-> "S", s |-> s]
X(x)       == <<[c |-> "name", x |-> x]>>
L(v)       == <<[c |-> "lit", v |-> v]>>
F(f, args) == <<[c |-> "call", f |-> f, n |-> Len(args)]>> \o FlattenSeq(args)
Op(o, args) == <<[c |-> "op", o |-> o, n |-> Len(args)]>> \o FlattenSeq(args)
Set(x, v)  == Op("ASGN", <<X(x), v>>)
Error      == Op("BAD", <<L(S("a"))>>)
Arm(l)     == Op("SETEXIT", <<L(S(l))>>)
Match(ps)  == Op("SCAN", <<L([t |-> "P", ps |-> ps])>>)
Eval1(b)   == Op("EVAL", <<L([t |-> "E", b |-> b])>>)

\* A statement: its body, the labels of its success and failure go-tos.
St(body, s, f) == [body |-> body, s |-> s, f |-> f]
GoCell(l)      == [c |-> "gotl", l |-> l]

\* INIT with the offset of the failure part, the body, the go-tos.
Laid(t, no, at) ==
  LET end  == at + 1 + Len(t.body)
      succ == IF t.s # "" THEN <<GoCell(t.s)>>
              ELSE IF t.f # "" THEN <<[c |-> "goto", o |-> end + 2]>> ELSE <<>>
      fail == IF t.f # "" THEN <<GoCell(t.f)>> ELSE <<>>
  IN <<[c |-> "stmt", no |-> no, line |-> 100 + no, f |-> end + Len(succ)]>> \o t.body \o succ \o fail
Block(ts, no, last) ==
  FoldLeft(LAMBDA s, i : s \o Laid(ts[i], no + i, Len(s)), <<>>, [i \in DOMAIN ts |-> i]) \o last
EndCell     == <<[c |-> "end"]>>
BaseCell(l) == <<[c |-> "base", b |-> l]>>

Def(f, label, args, locals) == [f |-> f, label |-> label, args |-> args, locals |-> locals]
DefCall(s) == Op("DEFINE", <<L(S(s))>>)

------------------------------------------------------------------------------
\* What programs are put together from.
V(x) == <<"VALUE", x>>
K(x) == <<"KEYWORD", x>>
PartOf(q, x) == IF q = "EXP" THEN [q |-> q, b |-> x] ELSE [q |-> q, x |-> x, v |-> S("m")]
Plain == <<St(Set("g", L(S("x"))), "RETURN", "")>>

\* Statements of the main program, which runs on into the label TAIL.
Mains == <<
  \* 1-2: calls, in arguments, for a name, twice
  <<St(Set("x", L(S("f"))), "", ""), St(Set("y", F("f", <<F("g", <<>>), X("x")>>)), "", "TAIL"), St(Set("g", X("y")), "", "")>>,
  <<St(Op("ASGN", <<F("f", <<X("y")>>), F("g", <<>>)>>), "TAIL", ""), St(F("f", <<>>), "", "")>>,
  \* 3-6: errors after SETEXIT: here, in a function, in an argument, at a go-to
  <<St(Arm("H"), "", ""), St(Set("y", Error), "", "TAIL")>>,
  <<St(Arm("H"), "", ""), St(Set("y", F("f", <<X("y")>>)), "TAIL", "")>>,
  <<St(Arm("H"), "", ""), St(Set("x", F("f", <<Error>>)), "", "TAIL"), St(F("undefined", <<>>), "", "")>>,
  <<St(Arm("H"), "MISSING", "")>>,
  \* 7-8: errors that nothing waits for
  <<St(Arm("MISSING"), "", ""), St(F("f", <<Error>>), "TAIL", "")>>,
  <<St(Op("ASGN", <<F("g", <<>>), L(S("b"))>>), "", "CONTINUE")>>,
  \* 9-11: operations and their arguments
  <<St(Arm("H"), "", ""), St(Op("SETEXIT", <<F("f", <<>>)>>), "", "TAIL")>>,
  <<St(Arm("H"), "", ""), St(Op("ASGN", <<L(S("a")), X("x")>>), "", ""), St(Op("SETEXIT", <<L([t |-> "A"])>>), "", "")>>,
  <<St(DefCall("b"), "", ""), St(Op("EVAL", <<L(S("x"))>>), "", ""), St(Op("EVAL", <<L([t |-> "A"])>>), "", ""),
    St(Op("EVAL", <<L(S("g(f)"))>>), "", ""), St(Op("EVAL", <<L(S(""))>>), "", "TAIL"), St(DefCall(""), "", ""), St(Op("DEFINE", <<L([t |-> "A"])>>), "TAIL", "")>>>>

Tails == << <<St(Set("y", L(S("d"))), "", "")>>, <<St(X("x"), "", ""), St(F("g", <<>>), "SCONTINUE", "")>>, <<St(<<>>, "TAIL", "")>> >>

Fs == <<
  <<St(Set("f", X("x")), "", ""), St(<<>>, "RETURN", "")>>,
  <<St(Set("x", F("g", <<>>)), "FRETURN", "")>>,
  <<St(Set("f", L(S("y"))), "NRETURN", "")>>,
  <<St(F("g", <<X("x"), X("y")>>), "", "FRETURN"), St(<<>>, "NRETURN", "")>>,
  <<St(DefCall("g(f)"), "", ""), St(Set("f", F("g", <<L(S("b"))>>)), "RETURN", "")>>,
  <<St(Set("y", X("f")), "", ""), St(Error, "RETURN", "FRETURN")>>,
  \* 7-9: run by a match
  <<St(Match(<<PartOf("NAME", "x"), PartOf("NOW", "y")>>), "RETURN", "FRETURN")>>,
  <<St(Eval1("e2"), "RETURN", "FRETURN")>>,
  <<St(Set("f", L([t |-> "A"])), "RETURN", "")>>>>

Gs == <<Plain, <<St(Set("y", L(S("e"))), "FRETURN", "")>>, <<St(Set("g", L(S("x"))), "NRETURN", "")>>,
        <<St(Match(<<PartOf("NAME", "y")>>), "RETURN", "FRETURN")>>>>

Ts == <<Plain,
        <<St(Set("y", L(S("t"))), "", ""), St(Match(<<PartOf("NAME", "x"), PartOf("NOW", "y")>>), "FRETURN", "RETURN")>>,
        <<St(Error, "RETURN", "RETURN")>>>>

Hs == [i \in 1 .. 5 |-> <<St(Set("x", L(S("h"))), "", ""),
                          St(<<>>, <<"CONTINUE", "SCONTINUE", "ABORT", "RETURN", "TAIL">>[i], "")>>] \o
      << <<St(Arm("H"), "CONTINUE", "")>>, <<St(F("g", <<>>), "SCONTINUE", "CONTINUE")>>,
         <<St(Error, "", ""), St(<<>>, "SCONTINUE", "")>>, <<St(<<>>, "MISSING", "")>> >>

Defs == <<Def("f", "F", <<"x">>, <<"y">>), Def("f", "F", <<"x", "x">>, <<>>), Def("f", "F", <<"f">>, <<"x", "y">>),
          Def("f", "F", <<>>, <<"x", "g">>), Def("f", "MISSING", <<"x">>, <<"y">>)>>

Traces == <<{}, {V("x"), K("STCOUNT")}, {<<"CALL", "f">>, <<"RETURN", "g">>}, {V("y"), K("ERRTYPE"), <<"LABEL", "TAIL">>}, {V("y")}>>

\* A statement that matches, for each pair of parts.
Texts == <<PartOf("EXP", "e1"), PartOf("EXP", "e2"), PartOf("EXP", "e3"), PartOf("EXP", "e4"),
           PartOf("NAME", "x"), PartOf("NAME", "y"), PartOf("NOW", "x")>>
Matching2(i, j) == <<St(Match(<<Texts[i], Texts[j]>>), "TAIL", ""), St(Eval1("e3"), "", "")>>

Blocks(ts, no, last) == [i \in DOMAIN ts |-> Block(ts[i], no, last)]
MainBlocks  == Blocks(Mains, 0, BaseCell("TAIL"))
MatchBlocks == [i, j \in DOMAIN Texts |-> Block(Matching2(i, j), 0, BaseCell("TAIL"))]
TailBlocks  == Blocks(Tails, 10, BaseCell("END"))
FBlocks == Blocks(Fs, 20, EndCell)
GBlocks == Blocks(Gs, 30, EndCell)
TBlocks == Blocks(Ts, 40, EndCell)
HBlocks == Blocks(Hs, 50, EndCell)
TraceBlock == F("t", <<L(S("a")), L(S("b"))>>)
Exprs == [e1 |-> X("x"), e2 |-> F("g", <<>>), e3 |-> F("f", <<L(S("e"))>>), e4 |-> Error]

\* Which pieces a program has.
Program(c) ==
  [code |-> [MAIN  |-> IF Len(c.main) = 2 THEN MatchBlocks[c.main[1], c.main[2]]
                       ELSE MainBlocks[c.main[1]],
             TAIL  |-> TailBlocks[c.tail], END |-> EndCell, TRACE |-> TraceBlock,
             F |-> FBlocks[c.f], G |-> GBlocks[c.g], T |-> TBlocks[c.t], H |-> HBlocks[c.h]] @@ Exprs,
   protos |-> "g(f)" :> Def("g", "F", <<"f">>, <<>>), compiled |-> "x" :> "e1",
   fun  |-> "f" :> Defs[c.def] @@ "g" :> Def("g", "G", <<>>, <<"y">>) @@ "t" :> Def("g", "T", <<"x">>, <<>>),
   traced |-> Traces[c.tr], main |-> "MAIN", trace |-> IF c.tr = 1 THEN 0 ELSE 2,
   errs |-> c.errs, fatals |-> c.fatals, limit |-> c.limit, interrupts |-> c.keys, handlers |-> {"H"}]
Pieces == [main : {<<1>>}, tail : {1}, f : {1}, g : {1}, t : {1}, h : {1}, def : {1}, tr : {1},
           errs : {3}, fatals : {0}, limit : {9}, keys : {0}]

\* Calls: what a function binds, how it is left, what is traced.
Calls == {[c EXCEPT !.main = m1, !.f = f, !.g = g, !.def = tr[1], !.tr = tr[2], !.t = tr[3]] :
            c \in Pieces, m1 \in {<<1>>, <<2>>}, f \in 1 .. 6, g \in 1 .. 3,
            tr \in {<<1, 1, 1>>, <<2, 1, 1>>, <<3, 1, 1>>, <<4, 1, 1>>, <<1, 2, 1>>, <<1, 3, 2>>, <<3, 3, 2>>, <<4, 4, 2>>}}

\* Errors, and what the handler does about them; the handler that has an error
\* of its own is not the one END begins.
Faults == {c \in {[c EXCEPT !.main = <<i>>, !.tail = n[1], !.errs = n[2], !.f = f, !.h = h[1], !.tr = h[2], !.limit = 12] :
             c \in Pieces, i \in 3 .. 8, f \in {3, 6},
             h \in ((1 .. 8) \X {1}) \cup ((1 .. 2) \X {4}),
                 n \in {<<1, 0>>, <<1, 1>>, <<1, 3>>, <<2, 3>>, <<3, 3>>}} :
           c.h = 8 => c.main # <<4>> \/ c.f = 6}
Wrong == {[c EXCEPT !.main = <<i>>, !.f = f, !.errs = n] : c \in Pieces, i \in 9 .. 11, f \in {2, 6}, n \in {3, 9}}
  \cup {[c EXCEPT !.main = <<i>>, !.def = 5, !.tr = t] : c \in Pieces, i \in {1, 4}, t \in 1 .. 4}
  \cup {[c EXCEPT !.main = <<1>>, !.f = 4, !.errs = n] : c \in Pieces, n \in 0 .. 1}
Fatal  == {[c EXCEPT !.main = <<6>>, !.h = h, !.fatals = n] : c \in Pieces, h \in 1 .. 6, n \in 1 .. 2}

\* Matches: program text run by a match, by what it assigns, and by traces.
Pairs   == ((1 .. 4) \X (DOMAIN Texts)) \cup {<<5, 3>>, <<6, 2>>, <<7, 3>>, <<7, 6>>}
Matches == {[c EXCEPT !.main = p, !.f = f, !.g = t[1], !.tr = t[2], !.t = t[3], !.limit = 7] :
              c \in Pieces, p \in Pairs, f \in 7 .. 9,
              t \in {<<1, 1, 1>>, <<4, 1, 1>>, <<1, 2, 2>>, <<4, 5, 3>>}}

\* The interrupt key, struck anywhere once a handler waits for it.
Interrupts == {[c EXCEPT !.main = <<m1>>, !.f = f, !.h = h, !.keys = 1, !.errs = 1] :
                 c \in Pieces, m1 \in {3, 4}, f \in {1, 6}, h \in 3 .. 5}
Resumed1   == {[c EXCEPT !.main = <<4>>, !.f = 1, !.h = 2, !.keys = 1] : c \in Pieces}

Chosen == IF Family = "all" THEN Calls \cup Faults \cup Wrong \cup Fatal \cup Matches \cup Interrupts ELSE Resumed1
MCPrograms == [c \in Chosen |-> Program(c)]
=============================================================================
