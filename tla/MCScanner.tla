------------------------------ MODULE MCScanner ------------------------------
(***************************************************************************)
(* Instances of Scanner for TLC: families of match statements, and the     *)
(* program compared with the meaning of its pattern.                       *)
(*                                                                         *)
(* A family F has its patterns PF, the blocks MF of all it can reach and   *)
(* the statements RF.  A pattern stands for the address of its block.      *)
(***************************************************************************)
EXTENDS Scanner, PatternSemantics

Alphabet == {"a", "b", "(", ")", "0", "1", "2", "3"}

\* Subjects: every word over some letters, up to a length.
Words(letters, n) == UNION {[1..k -> letters] : k \in 0..n}

Cat(P, Q) == {<<"cat", p, q>> : p \in P, q \in Q}
Alt(P, Q) == {<<"alt", p, q>> : p \in P, q \in Q}
Rep(P)    == {<<"arbno", p>> : p \in P}
Nam(P, v) == {<<"nam", p, v>> : p \in P}
Dol(P, v) == {<<"dol", p, v>> : p \in P}
Fence(P)  == {<<"fence", p>> : p \in P}

a   == <<"chr", <<"a">> >>
b   == <<"chr", <<"b">> >>
ab  == <<"chr", <<"a", "b">> >>
len1 == <<"len", 1>>
arb  == <<"arb">>
end  == <<"rpos", 0>>
aOrAb == <<"alt", a, ab>>
X    == <<"star", "x">>

\* A large memory is split by what its patterns begin with, twice (TLC looks
\* through the domain of a function from its beginning).
Begins(p, i)   == IF p[1] \in {"cat", "alt"} THEN p[i][1] ELSE p[1]
Split(M, Key(_)) == [k \in {Key(p) : p \in DOMAIN M} |-> [p \in {q \in DOMAIN M : Key(q) = k} |-> M[p]]]
Ordered(M) ==
  LET parts == Split(M, LAMBDA p : Begins(p, 2))
  IN [k \in DOMAIN parts |-> Split(parts[k], LAMBDA p : Begins(p, 3))]
Find(S, p) == S[Begins(p, 2)][Begins(p, 3)][p]

\* Variables: x and y, null unless given a value.
Pattern(p) == [t |-> "P", p |-> p]
Chars1(s)  == [t |-> "S", s |-> s]
Number(n)  == [t |-> "I", i |-> n]
Unset      == [x |-> Chars1(<<>>), y |-> Chars1(<<>>)]
Where(v)   == [Unset EXCEPT !.x = v]

\* Pairs of primitive patterns, in sequence and as alternatives.
Simple == {a, b, ab, <<"any", {"a"}>>, <<"notany", {"a"}>>, len1,
           <<"span", {"a"}>>, <<"break", {"b"}>>, <<"breakx", {"b"}>>, arb,
           <<"rem">>, <<"pos", 1>>, end, <<"tab", 1>>, <<"rtab", 1>>,
           <<"bal">>, <<"at", "y">>,
           <<"prim", "FNCE">>, <<"prim", "ABORT">>, <<"prim", "SALF">>}
Few    == {a, ab, len1, arb, end}
Chains == Cat(Simple, Simple) \cup Cat(Alt(Few, Few), Few)
            \cup Alt(Cat(Few, Few), {b})
Pairs == Alt(Simple, Few) \cup Alt(Few, Simple)
P1 == Chains \cup Pairs
Bals == Cat({<<"bal">>}, {a, arb, end, <<"bal">>}) \cup Cat({len1}, {<<"bal">>})
M1 == MemoryOf(P1 \cup Bals)
R1 == Statements(Words({"a", "b"}, 3), Chains, {Unset}, BOOLEAN, BOOLEAN)
        \cup Statements(Words({"a", "b"}, 2), Pairs, {Unset}, BOOLEAN, BOOLEAN)
        \cup Statements(Words({"a", "(", ")"}, 4), Bals, {Unset}, BOOLEAN, BOOLEAN)

\* Repetition and captures: P must take a character, for FULLSCAN's ARBNO
\* goes on matching the empty string until the history list is full.
Taking  == {a, ab, len1, aOrAb, <<"span", {"a"}>>}
Named1  == Nam(Taking \cup {<<"alt", ab, a>>}, "x")
Compound == Cat(Rep(Taking), Few) \cup Cat({len1, arb}, Rep(Taking))
              \cup Cat(Rep(Cat({aOrAb}, Taking)), {ab, end})
              \cup Cat(Named1, Few) \cup Cat(Rep(Named1), Few)
              \cup Alt(Cat(Named1, Few), Nam({ab, arb}, "y"))
              \cup Nam(Cat(Dol(Taking, "x"), Few), "y")

\* Patterns that name a variable.  QUICKSCAN takes its value to need one
\* character at least, so values that match the empty string need FULLSCAN.
Held == {aOrAb, <<"alt", ab, a>>, <<"alt", len1, <<"len", 2>>>>,
         <<"cat", a, arb>>, <<"cat", <<"arbno", a>>, b>>,
         <<"nam", aOrAb, "y">>}
Empty == {arb, <<"arbno", a>>, <<"alt", end, ab>>}
Indirect == {X} \cup Cat({X}, Taking \cup Few) \cup Cat(Few, {X})
              \cup Alt(Cat({X}, Few), {a, b}) \cup Cat({<<"arbno", X>>}, Few)
              \cup Cat({<<"cat", X, X>>}, {b, end})
Holding(ps) == {Where(Pattern(p)) : p \in ps} \cup {Where(Chars1(<<"a">>))}
M2 == MemoryOf(Compound \cup Indirect \cup Held \cup Empty)
R2 == Statements(Words({"a", "b"}, 3), Compound, {Unset}, BOOLEAN, BOOLEAN)
       \cup Statements(Words({"a", "b"}, 3), Indirect, Holding(Held), {FALSE}, BOOLEAN)
       \cup Statements(Words({"a", "b"}, 2), Indirect \ Cat({<<"arbno", X>>}, Few),
                       Holding(Empty), BOOLEAN, {TRUE})
       \cup Statements(Words({"a", "1"}, 2), Indirect, {Where(Number(1))}, BOOLEAN, BOOLEAN)

\* Both families.
R12 == R1 \cup R2
M12 == MemoryOf(P1 \cup Bals \cup Compound \cup Indirect \cup Held \cup Empty)
A12 == DOMAIN M12
S12 == Ordered(M12)
B12(p) == Find(S12, p)


\* Anchored statements of the first two families, without BREAKX and without
\* the pairs of alternatives, which run the same handlers; FENCE(P)
\* with nothing to go back to outside it; variables whose values match in one
\* way only, so that nothing is left to resume in them.
NoRetry == {p \in Chains \cup Compound \cup Bals : \A q \in Parts(p) : q[1] # "breakx"}
Sealed  == Fence(Taking \cup Few) \cup Cat(Fence(Taking \cup {arb}), Few)
             \cup Cat({a, len1}, Fence(Taking))
             \cup Cat(Fence(Cat({aOrAb, arb}, Few)), Few)
Single  == {a, ab, <<"span", {"a"}>>, <<"cat", a, b>>, <<"nam", a, "y">>}
M3 == MemoryOf(NoRetry \cup Sealed \cup Indirect \cup Single)
R3 == Statements(Words({"a", "b"}, 2), NoRetry, {Unset}, {TRUE}, BOOLEAN)
        \cup Statements(Words({"a", "b"}, 3), Compound, {Unset}, {TRUE}, BOOLEAN)
        \cup Statements(Words({"a", "(", ")"}, 4), Bals, {Unset}, {TRUE}, BOOLEAN)
        \cup Statements(Words({"a", "b"}, 3), Sealed, {Unset}, {TRUE}, {TRUE})
        \cup Statements(Words({"a", "b"}, 3), Indirect, Holding(Single), {TRUE}, BOOLEAN)
A3 == DOMAIN M3
S3 == Ordered(M3)
B3(p) == Find(S3, p)

\* Everything together, also what leads nowhere: SUCCEED, ARBNO of an empty
\* match, FENCE(P) inside a variable's pattern, a short history list.
Deep == {<<"cat", <<"fence", aOrAb>>, b>>, <<"fence", X>>, aOrAb, arb}
P4 == Cat({<<"prim", "SUCF">>}, {a, end, <<"prim", "SALF">>})
        \cup Cat(Rep({arb, X, <<"fence", aOrAb>>}), {b, end})
        \cup Cat(Fence({aOrAb, X, <<"nam", a, "y">>}), {b, X})
        \cup Cat({<<"nam", X, "y">>, <<"dol", X, "y">>, <<"cat", a, X>>}, {b, X})
        \cup Alt(Cat({X, <<"fence", X>>}, {b}), {ab})
        \cup Cat(Fence(Cat({a}, {<<"fence", X>>})), {b})
M4 == MemoryOf(P4 \cup Deep)
R4 == Statements(Words({"a", "b"}, 3), P4,
                 {Where(Pattern(p)) : p \in Deep}, BOOLEAN, BOOLEAN)
A4 == DOMAIN M4
B4(p) == M4[p]

(***************************************************************************)
(* The program against the meaning of the pattern                          *)
(***************************************************************************)
Observed == [matched |-> TRUE, head |-> head, end |-> cursor, names |-> nam]
Abstract == INSTANCE Matching WITH
  Asked     <- Requests,
  statement <- req,
  result    <- CASE pc = "matched" -> [done |-> TRUE, outcome |-> Observed]
                 [] pc = "failed"  -> [done |-> TRUE, outcome |-> NoMatch]
                 [] OTHER          -> [done |-> FALSE]

\* The program implements the match statement: it matches exactly when the
\* pattern does, at the first place and in the first way, under QUICKSCAN as
\* under FULLSCAN, with the names of exactly that way.
MatchesAsMeant == Abstract!Match

(***************************************************************************)
(* What the repository says of the program and the program does not do     *)
(***************************************************************************)
\* Unanchored statements; BREAKX; a variable with two ways.
R5  == Statements(Words({"a", "b"}, 3), Cat(Few, Few), {Unset}, {FALSE}, BOOLEAN)
A5  == DOMAIN M1
B5(p) == M1[p]

P6  == Cat({<<"breakx", {"b"}>>},
           {<<"cat", len1, a>>,
            <<"alt", <<"cat", b, <<"pos", 4>>>>,
                     <<"cat", <<"chr", <<"b", "a">>>>, <<"len", 2>>>>>>})
M6  == MemoryOf(P6)
R6  == Statements(Words({"a", "b"}, 4), P6, {Unset}, {TRUE}, BOOLEAN)
A6  == DOMAIN M6
B6(p) == M6[p]

\* cmd = (LEN(1) | LEN(2)) and a pattern with *cmd in it.
Cmd == <<"alt", len1, <<"len", 2>>>>
P9 == Cat({X}, {a, b})
M9 == MemoryOf(P9 \cup {Cmd})
R9 == Statements(Words({"a", "b"}, 3), P9, {Where(Pattern(Cmd))}, {TRUE}, BOOLEAN)
A9 == DOMAIN M9
B9(p) == M9[p]

\* The ways the pattern matches at a start, none of which aborts here.
Ways(start) == Outcomes(req.pat, Subject, req.env, start)

\* A statement fails only when its pattern matches at none of the starts it
\* may have: every alternative outside a sealed one is tried, and without
\* &ANCHOR every start is.
NoneMissed == pc = "failed" =>
  \A start \in (IF req.anchor THEN {0} ELSE 0..L) : Ways(start) = <<>>

\* A statement matches only text its whole pattern matches: going back into
\* the value of a variable resumes what comes after the variable.
OfItsPattern == pc = "matched" =>
  \E k \in DOMAIN Ways(head) : Ways(head)[k].end = cursor

\* BREAKX(S) is BREAK(S) ARBNO(LEN(1) BREAK(S)).
Equivalent(p) ==
  LET break == <<"break", p[2][2]>> IN
  <<"cat", <<"cat", break, <<"arbno", <<"cat", len1, break>>>>>>, p[3]>>
BreakxIsItsEquivalent == pc \in {"matched", "failed"} =>
  Expected([req EXCEPT !.pat = Equivalent(@)])
    = (IF pc = "matched" THEN Observed ELSE NoMatch)
==============================================================================
