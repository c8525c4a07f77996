------------------------- MODULE InterpreterProofs -------------------------
(***************************************************************************)
(* The interpreter, for every object code: what registers, frames and      *)
(* values hold, the depth of calls, dynamic scope, and matches in matches. *)
(***************************************************************************)
EXTENDS Interpreter, FiniteSetTheorems, SequenceTheorems, TLAPS

ProgOK  == prog \in DOMAIN Programs
TypeInv == ProgOK /\ TypeOK

\* The stack's part of TypeOK, for any stack.
Good(s) == s \in Seq(Frames) /\ s # <<>> /\ s[1].k = "interp" /\ \A i \in DOMAIN s : FrameOK(s[i])

LEMMA TheProgram == ASSUME ProgOK PROVE IsProgram(P)
BY ProgramsAssumption DEF ProgOK, ProgramsAssumption, P

LEMMA NullTyped == ASSUME ProgOK PROVE Null \in Values(P) /\ Null \in Str
BY DEF Null, Values, Str, Strings

\* The cell the program is at.
LEMMA HereTyped ==
  ASSUME TypeInv
  PROVE  /\ Here.c = "name" => Here.x \in Names
         /\ Here.c = "lit" => Here.v \in Values(P)
         /\ Here.c = "stmt" => Here.no \in Nat /\ Here.line \in Nat /\ Here.f \in Nat
         /\ Here.c = "goto" => Here.o \in Nat
         /\ Here.c = "base" => Here.b \in DOMAIN P.code
         /\ Here.c = "gotl" => Here.l \in Strings
         /\ Here.c = "call" => Here.f \in Names /\ Here.n \in Nat
         /\ Here.c = "op" => Here.o \in {"ASGN"} \cup Unary /\ Here.n = IF Here.o = "ASGN" THEN 2 ELSE 1
<1>1. Here \in Cells(P) \/ Here = [c |-> "wild"]
  <2>1. r.base \in DOMAIN P.code => P.code[r.base] \in Seq(Cells(P)) BY TheProgram DEF TypeInv, IsProgram
  <2>2. r.off + 1 \in DOMAIN P.code[r.base] /\ P.code[r.base] \in Seq(Cells(P)) => P.code[r.base][r.off + 1] \in Cells(P)
    OBVIOUS
  <2> QED BY <2>1, <2>2 DEF Here, Cell
<1> DEFINE h == Here
<1>2. h \in Cells(P) \/ h = [c |-> "wild"] BY <1>1
<1> HIDE DEF h
<1>3. /\ h.c = "name" => h.x \in Names
      /\ h.c = "lit" => h.v \in Values(P)
      /\ h.c = "stmt" => h.no \in Nat /\ h.line \in Nat /\ h.f \in Nat
      /\ h.c = "goto" => h.o \in Nat
      /\ h.c = "base" => h.b \in DOMAIN P.code
      /\ h.c = "gotl" => h.l \in Strings
      /\ h.c = "call" => h.f \in Names /\ h.n \in Nat
      /\ h.c = "op" => h.o \in {"ASGN"} \cup Unary /\ h.n = IF h.o = "ASGN" THEN 2 ELSE 1
  BY <1>2 DEF Cells, Unary
<1> QED BY <1>3 DEF h

LEMMA FrameTyped ==
  ASSUME NEW f \in Frames
  PROVE  /\ f.k \in {"interp", "error", "trap", "goto", "op", "deff", "expv", "match"}
         /\ f.k = "trap" => f.r \in Registers
         /\ f.k = "goto" => f.l \in Strings
         /\ f.k = "op" => f \in [k : {"op"}, o : {"ASGN"} \cup Unary, n : 1 .. 2, args : Seq(Values(P) \cup NameRef), ph : {"args", "traced"}]
         /\ f.k = "deff" => f.ph \in {"args", "entered", "body", "left"}
         /\ f.k = "deff" /\ f.ph = "args" => f \in [k : {"deff"}, f : Names, n : Nat, args : Seq(Values(P)), ph : {"args"}]
         /\ f.k = "deff" /\ f.ph # "args" => f.d \in Definition /\ f.old \in Seq(Values(P)) /\ f.r \in Registers
         /\ f.k = "deff" /\ f.ph \in {"entered", "body"} =>
              f \in [k : {"deff"}, ph : {"entered", "body"}, d : Definition, old : Seq(Values(P)), r : Registers]
         /\ f.k = "deff" /\ f.ph = "left" => f.how \in Nat
         /\ f.k = "expv" => f.scl \in 0 .. 1 /\ f.base \in Labels /\ f.off \in Nat /\ f.m \in MatchRegs
         /\ f.k = "match" => f \in [k : {"match"}, id : Nat, ps : Seq(Parts(P)), ph : {"scan", "now", "names", "named"}, i : Nat, m : MatchRegs]
<1> DEFINE R == Registers  V == Values(P)  M == MatchRegs  S == Strings  D == Definition
           L == Labels  Q == Seq(Parts(P))  A == Seq(Values(P) \cup NameRef) B == Seq(Values(P))
<1>1. f \in [k : {"interp", "error"}] \cup [k : {"trap"}, r : R] \cup [k : {"goto"}, l : S]
  \cup [k : {"op"}, o : {"ASGN"} \cup Unary, n : 1 .. 2, args : A, ph : {"args", "traced"}]
  \cup [k : {"deff"}, f : Names, n : Nat, args : B, ph : {"args"}]
  \cup [k : {"deff"}, ph : {"entered", "body"}, d : D, old : B, r : R]
  \cup [k : {"deff"}, ph : {"left"}, d : D, old : B, r : R, how : Nat]
  \cup [k : {"expv"}, scl : 0 .. 1, base : L, off : Nat, m : M]
  \cup [k : {"match"}, id : Nat, ps : Q, ph : {"scan", "now", "names", "named"}, i : Nat, m : M]
  BY DEF Frames
<1> HIDE DEF R, V, M, S, D, L, Q, A, B
<1>2. /\ f.k \in {"interp", "error", "trap", "goto", "op", "deff", "expv", "match"}
      /\ f.k = "trap" => f.r \in R
      /\ f.k = "goto" => f.l \in S
      /\ f.k = "op" => f \in [k : {"op"}, o : {"ASGN"} \cup Unary, n : 1 .. 2, args : A, ph : {"args", "traced"}]
      /\ f.k = "expv" => f.scl \in 0 .. 1 /\ f.base \in L /\ f.off \in Nat /\ f.m \in M
      /\ f.k = "match" => f \in [k : {"match"}, id : Nat, ps : Q, ph : {"scan", "now", "names", "named"}, i : Nat, m : M]
  BY <1>1
<1>3. /\ f.k = "deff" => f.ph \in {"args", "entered", "body", "left"}
      /\ f.k = "deff" /\ f.ph = "args" => f \in [k : {"deff"}, f : Names, n : Nat, args : B, ph : {"args"}]
      /\ f.k = "deff" /\ f.ph # "args" => f.d \in D /\ f.old \in B /\ f.r \in R
      /\ f.k = "deff" /\ f.ph \in {"entered", "body"} =>
              f \in [k : {"deff"}, ph : {"entered", "body"}, d : D, old : B, r : R]
      /\ f.k = "deff" /\ f.ph = "left" => f.how \in Nat
  BY <1>1
<1> QED BY <1>2, <1>3 DEF R, V, M, S, D, L, Q, A, B

------------------------------------------------------------------------------
\* Stacks: pushing, popping and replacing a frame.
LEMMA Pushed ==
  ASSUME NEW s, Good(s), NEW f \in Frames, FrameOK(f)
  PROVE  /\ Good(Append(s, f)) /\ Len(Append(s, f)) = Len(s) + 1
         /\ Append(s, f)[Len(s) + 1] = f /\ \A i \in 1 .. Len(s) : Append(s, f)[i] = s[i]
<1> DEFINE t == Append(s, f)
<1>1. t \in Seq(Frames) /\ Len(t) = Len(s) + 1 /\ t[Len(s) + 1] = f /\ \A i \in 1 .. Len(s) : t[i] = s[i]
  BY AppendProperties DEF Good
<1>2. Len(s) \in Nat /\ Len(s) > 0 /\ DOMAIN s = 1 .. Len(s) BY DEF Good
<1> HIDE DEF t
<1>3. t # <<>> /\ t[1] = s[1] /\ DOMAIN t = 1 .. Len(s) + 1 BY <1>1, <1>2
<1>4. \A i \in DOMAIN t : FrameOK(t[i])
  <2> SUFFICES ASSUME NEW i \in 1 .. Len(s) + 1 PROVE FrameOK(t[i]) BY <1>3
  <2>1. i = Len(s) + 1 \/ (i \in 1 .. Len(s) /\ i \in DOMAIN s) BY <1>2
  <2> QED BY <1>1, <2>1 DEF Good
<1>5. Good(t) BY <1>1, <1>3, <1>4 DEF Good
<1> QED BY <1>1, <1>5 DEF t

LEMMA StackTop ==
  ASSUME Good(stack)
  PROVE  /\ Len(stack) \in Nat \ {0} /\ DOMAIN stack = 1 .. Len(stack)
         /\ Top \in Frames /\ FrameOK(Top) /\ (Top.k # "interp" => Len(stack) > 1)
BY DEF Good, Top

LEMMA Popped ==
  ASSUME Good(stack), Len(stack) > 1
  PROVE  Good(Below) /\ Len(Below) = Len(stack) - 1 /\ \A i \in 1 .. Len(stack) - 1 : Below[i] = stack[i]
<1>1. Len(stack) - 1 \in Nat /\ Len(stack) \in Nat /\ DOMAIN stack = 1 .. Len(stack) BY DEF Good
<1>2. /\ Below \in Seq(Frames) /\ Len(Below) = Len(stack) - 1
      /\ \A i \in 1 .. Len(stack) - 1 : Below[i] = stack[i]
  BY <1>1, SubSeqProperties DEF Good, Below
<1>3. Below # <<>> /\ Below[1] = stack[1] /\ DOMAIN Below = 1 .. Len(stack) - 1 BY <1>1, <1>2
<1> QED BY <1>1, <1>2, <1>3 DEF Good

LEMMA Replaced ==
  ASSUME Good(stack), Len(stack) > 1, NEW f \in Frames, FrameOK(f)
  PROVE  /\ Good(With(f)) /\ Len(With(f)) = Len(stack) /\ With(f)[Len(stack)] = f
         /\ \A i \in 1 .. Len(stack) - 1 : With(f)[i] = stack[i]
<1>1. Good(Below) /\ Len(Below) = Len(stack) - 1 /\ \A i \in 1 .. Len(stack) - 1 : Below[i] = stack[i] BY Popped
<1>2. Len(stack) \in Nat /\ Len(stack) - 1 + 1 = Len(stack) BY DEF Good
<1> HIDE DEF Below
<1>3. /\ Good(Append(Below, f)) /\ Len(Append(Below, f)) = Len(Below) + 1
      /\ Append(Below, f)[Len(Below) + 1] = f /\ \A i \in 1 .. Len(Below) : Append(Below, f)[i] = Below[i]
  BY <1>1, Pushed
<1> QED BY <1>1, <1>2, <1>3 DEF With

------------------------------------------------------------------------------
\* What traces, errors and calls of functions do to the stack and to registers.
\* A stack that has grown has more frames, none of them one that matches, waits
\* for EXPVAL or is a call that has begun.
Plain(f)    == f.k \notin {"match", "expv"} /\ ~Entered(f)
Grown(t, s) == /\ Len(t) >= Len(s) /\ \A i \in 1 .. Len(s) : t[i] = s[i]
               /\ \A i \in Len(s) + 1 .. Len(t) : Plain(t[i])

LEMMA GrownBy ==
  ASSUME NEW s, Good(s), NEW f \in Frames, FrameOK(f), Plain(f)
  PROVE  Good(Append(s, f)) /\ Grown(Append(s, f), s)
<1> DEFINE t == Append(s, f)
<1>1. /\ Good(t) /\ Len(t) = Len(s) + 1
      /\ t[Len(s) + 1] = f /\ \A i \in 1 .. Len(s) : t[i] = s[i]
  BY Pushed
<1>2. Len(s) \in Nat BY DEF Good
<1> HIDE DEF t
<1>3. \A i \in Len(s) + 1 .. Len(t) : i = Len(s) + 1 BY <1>1, <1>2
<1>4. Grown(t, s) BY <1>1, <1>2, <1>3 DEF Grown
<1> QED BY <1>1, <1>4 DEF t

LEMMA GrownMore ==
  ASSUME NEW s, NEW t, NEW u, Good(s), Good(t), Good(u), Grown(t, s), Grown(u, t)
  PROVE  Grown(u, s)
<1>1. Len(s) \in Nat /\ Len(t) \in Nat /\ Len(u) \in Nat BY DEF Good
<1>2. \A i \in 1 .. Len(s) : i \in 1 .. Len(t) BY <1>1 DEF Grown
<1>3. ASSUME NEW i \in Len(s) + 1 .. Len(u) PROVE Plain(u[i])
  <2>1. (i \in Len(s) + 1 .. Len(t) /\ i \in 1 .. Len(t)) \/ i \in Len(t) + 1 .. Len(u) BY <1>1
  <2> QED BY <1>1, <2>1 DEF Grown
<1> QED BY <1>1, <1>2, <1>3 DEF Grown

LEMMA Traps ==
  ASSUME ProgOK, NEW ev, NEW q \in Registers, NEW s, Good(s), Trap(ev, q, s)
  PROVE  Good(stack') /\ Grown(stack', s) /\ r' \in Registers
<1>1. CASE ~Traced(q, ev)
  <2>1. stack' = s /\ r' = q BY <1>1 DEF Trap
  <2>2. Len(s) \in Nat BY DEF Good
  <2> QED BY <2>1, <2>2 DEF Grown
<1>2. CASE Traced(q, ev)
  <2> DEFINE w == [k |-> "trap", r |-> [q EXCEPT !.trap = @ - 1]]
  <2>1. stack' = Append(s, w) /\ r' = [q EXCEPT !.base = "TRACE", !.off = 0, !.trap = 0] BY <1>2 DEF Trap
  <2>2. q.trap > 0 BY <1>2 DEF Traced
  <2>3. "TRACE" \in Labels BY TheProgram DEF IsProgram, Labels
  <2>4. r' \in Registers BY <2>1, <2>3 DEF Registers
  <2>5. [q EXCEPT !.trap = @ - 1] \in Registers BY <2>2 DEF Registers
  <2>6. w \in Frames /\ FrameOK(w) /\ Plain(w) BY <2>5 DEF Frames, FrameOK, Plain, Entered
  <2> HIDE DEF w
  <2> QED BY <2>1, <2>4, <2>6, GrownBy
<1> QED BY <1>1, <1>2

LEMMA Raises ==
  ASSUME TypeInv, NEW ee \in Errors, ee.errs = e.errs, ee.fatals = e.fatals, NEW typ \in Nat, NEW kind,
         NEW q \in Registers, NEW s, Good(s), Raise(ee, typ, kind, q, s)
  PROVE  /\ Good(stack') /\ Grown(stack', s) /\ r' \in Registers
         /\ e' \in Errors /\ ret' = None /\ halted' \in BOOLEAN
<1> DEFINE ends == Ending(kind)
<1>1. Good(stack) /\ ProgOK /\ r \in Registers BY DEF TypeInv, TypeOK, Good
<1>2. ends \/ ee.errs - 1 \in Nat BY DEF Ending, Errors
<1>3. e' \in Errors
  <2> DEFINE a == IF ends THEN ee.errs ELSE ee.errs - 1
             b == IF kind = "fatal" /\ ee.fatals > 0 THEN ee.fatals - 1 ELSE ee.fatals
             c == IF kind = "scan" THEN ee.fatal ELSE kind = "fatal"
  <2>1. a \in Nat /\ b \in Nat /\ ee.fatal \in BOOLEAN BY <1>2 DEF Errors
  <2>3. (kind = "fatal") \in BOOLEAN OBVIOUS
  <2>4. c \in BOOLEAN BY <2>1, <2>3
  <2>2. e' = [ee EXCEPT !.typ = typ, !.errs = a, !.fatals = b, !.fatal = c] BY DEF Raise
  <2> HIDE DEF a, b, c
  <2> QED BY <2>1, <2>2, <2>4 DEF Errors
<1>4. ret' = None /\ halted' = ends BY DEF Raise
<1>5. ends \in BOOLEAN BY DEF Ending
<1>6. CASE ends
  <2>1. stack' = s /\ r' = q BY <1>6 DEF Raise
  <2>2. Len(s) \in Nat BY DEF Good
  <2>3. Grown(s, s) BY <2>2 DEF Grown
  <2> QED BY <1>1, <1>3, <1>4, <1>5, <2>1, <2>3
<1>7. CASE ~ends
  <2> DEFINE w == [k |-> "error"]
             t == Append(s, w)
  <2>1. Trap(<<"KEYWORD", "ERRTYPE">>, q, t) BY <1>7 DEF Raise
  <2>2. w \in Frames /\ FrameOK(w) /\ Plain(w) BY DEF Frames, FrameOK, Plain, Entered
  <2>3. Good(t) /\ Grown(t, s) BY <2>2, GrownBy
  <2> HIDE DEF t
  <2>4. Good(stack') /\ Grown(stack', t) /\ r' \in Registers BY <1>1, <2>1, <2>3, Traps
  <2>5. Grown(stack', s) BY <2>3, <2>4, GrownMore
  <2> QED BY <1>3, <1>4, <1>5, <2>4, <2>5
<1> QED BY <1>6, <1>7

LEMMA PastTyped == ASSUME TypeInv PROVE Past \in Registers /\ r \in Registers
<1>1. r \in Registers BY DEF TypeInv, TypeOK
<1> QED BY <1>1 DEF Past, Registers

LEMMA Invokes ==
  ASSUME TypeInv, Here.c \in {"call", "op"}, Invoke(Here), ret \in Returns, halted \in BOOLEAN
  PROVE  /\ Good(stack') /\ Grown(stack', stack) /\ r' \in Registers
         /\ e' \in Errors /\ ret' \in Returns /\ halted' \in BOOLEAN
<1>1. Good(stack) /\ ProgOK /\ e \in Errors BY DEF TypeInv, TypeOK, Good
<1>2. Past \in Registers BY PastTyped
<1>3. None \in Returns BY DEF None, Returns
<1>4. CASE Here.c = "call" /\ Here.f \notin DOMAIN fun
  <2>1. Raise(e, 5, "test", Past, stack) BY <1>4 DEF Invoke
  <2>2. Len(stack) \in Nat BY <1>1 DEF Good
  <2>3. Grown(stack, stack) BY <2>2 DEF Grown
  <2> QED BY <1>1, <1>2, <1>3, <2>1, <2>3, Raises
<1>5. CASE ~(Here.c = "call" /\ Here.f \notin DOMAIN fun)
  <2> DEFINE w == IF Here.c = "op" THEN [k |-> "op", o |-> Here.o, n |-> Here.n, args |-> <<>>, ph |-> "args"]
                  ELSE [k |-> "deff", f |-> Here.f, n |-> Here.n, args |-> <<>>, ph |-> "args"]
  <2>1. stack' = Append(stack, w) /\ r' = Past /\ ret' = ret /\ e' = e /\ halted' = halted BY <1>5 DEF Invoke, Go
  <2>2. <<>> \in Seq(Values(P)) /\ <<>> \in Seq(Values(P) \cup NameRef) OBVIOUS
  <2>3. CASE Here.c = "op"
    <3>1. w = [k |-> "op", o |-> Here.o, n |-> Here.n, args |-> <<>>, ph |-> "args"] BY <2>3
    <3>2. Here.o \in {"ASGN"} \cup Unary /\ Here.n = IF Here.o = "ASGN" THEN 2 ELSE 1 BY <2>3, HereTyped
    <3>3. w \in Frames BY <2>2, <3>1, <3>2 DEF Frames
    <3>4. FrameOK(w) /\ Plain(w) BY <3>1, <3>2 DEF FrameOK, Plain, Entered
    <3> HIDE DEF w
    <3> QED BY <1>1, <1>2, <2>1, <3>3, <3>4, GrownBy
  <2>4. CASE Here.c = "call"
    <3>1. w = [k |-> "deff", f |-> Here.f, n |-> Here.n, args |-> <<>>, ph |-> "args"] BY <2>4
    <3>2. Here.f \in Names /\ Here.n \in Nat /\ Here.f \in DOMAIN fun BY <1>5, <2>4, HereTyped
    <3>3. w \in Frames BY <2>2, <3>1, <3>2 DEF Frames
    <3>4. FrameOK(w) /\ Plain(w) BY <3>1, <3>2 DEF FrameOK, Plain, Entered
    <3> HIDE DEF w
    <3> QED BY <1>1, <1>2, <2>1, <3>3, <3>4, GrownBy
  <2> QED BY <2>3, <2>4
<1> QED BY <1>4, <1>5

------------------------------------------------------------------------------
\* The calls that have begun: which frames of a stack they are.
Calls(s)   == {i \in DOMAIN s : Entered(s[i])}
Kept(t, s) == Calls(t) = Calls(s) /\ \A i \in Calls(s) : t[i] = s[i]

LEMMA GrownKept ==
  ASSUME NEW s, NEW t, Good(s), Good(t), Grown(t, s)
  PROVE  Kept(t, s)
<1>1. DOMAIN s = 1 .. Len(s) /\ DOMAIN t = 1 .. Len(t) /\ Len(s) \in Nat /\ Len(t) \in Nat /\ Len(t) >= Len(s)
  BY DEF Good, Grown
<1>2. ASSUME NEW i \in DOMAIN t, Entered(t[i]) PROVE i \in DOMAIN s
  <2>1. i \in 1 .. Len(s) \/ i \in Len(s) + 1 .. Len(t) BY <1>1
  <2> QED BY <1>1, <1>2, <2>1 DEF Grown, Plain
<1>3. \A i \in DOMAIN s : i \in DOMAIN t /\ t[i] = s[i] BY <1>1 DEF Grown
<1> QED BY <1>2, <1>3 DEF Kept, Calls

LEMMA PoppedKept ==
  ASSUME Good(stack), Len(stack) > 1, ~Entered(Top)
  PROVE  Kept(Below, stack)
<1>1. Good(Below) /\ Len(Below) = Len(stack) - 1 /\ \A i \in 1 .. Len(stack) - 1 : Below[i] = stack[i] BY Popped
<1>2. DOMAIN stack = 1 .. Len(stack) /\ DOMAIN Below = 1 .. Len(stack) - 1 /\ Len(stack) \in Nat BY <1>1 DEF Good
<1>3. \A i \in DOMAIN stack : Entered(stack[i]) => i \in 1 .. Len(stack) - 1 BY <1>2 DEF Top
<1>4. \A i \in 1 .. Len(stack) - 1 : i \in DOMAIN stack BY <1>2
<1> HIDE DEF Below
<1> QED BY <1>1, <1>2, <1>3, <1>4 DEF Kept, Calls

LEMMA ReplacedKept ==
  ASSUME Good(stack), Len(stack) > 1, ~Entered(Top), NEW f \in Frames, FrameOK(f), ~Entered(f)
  PROVE  Kept(With(f), stack)
<1>1. /\ Good(With(f)) /\ Len(With(f)) = Len(stack) /\ With(f)[Len(stack)] = f
      /\ \A i \in 1 .. Len(stack) - 1 : With(f)[i] = stack[i]
  BY Replaced
<1>2. DOMAIN stack = 1 .. Len(stack) /\ DOMAIN With(f) = 1 .. Len(stack) /\ Len(stack) \in Nat BY <1>1 DEF Good
<1>3. \A i \in DOMAIN stack : Entered(stack[i]) => i \in 1 .. Len(stack) - 1 BY <1>2 DEF Top
<1>4. \A i \in DOMAIN With(f) : Entered(With(f)[i]) => i \in 1 .. Len(stack) - 1 BY <1>1, <1>2
<1> QED BY <1>1, <1>2, <1>3, <1>4 DEF Kept, Calls

LEMMA KeptMore == ASSUME NEW s, NEW t, NEW u, Kept(t, s), Kept(u, t) PROVE Kept(u, s)
BY DEF Kept

LEMMA KeptSame == ASSUME NEW s PROVE Kept(s, s)
BY DEF Kept

------------------------------------------------------------------------------
\* What a step has to keep.
LEMMA TypesKeptBy ==
  ASSUME TypeInv, UNCHANGED prog, DOMAIN fun \subseteq DOMAIN fun', DOMAIN fun' \subseteq Names,
         \A f \in DOMAIN fun' : fun'[f] \in Definition, Good(stack'), r' \in Registers, m' \in MatchRegs, Within(m)',
         e' \in Errors, ret' \in Returns, hist' \in Seq(Nat), Len(hist) <= Len(hist'),
         list' \in Seq([own : Nat, x : Names, v : Str]), Len(list) <= Len(list'), fresh' \in Nat,
         val' \in [Names -> Values(P)], lvl' \in Nat, count' \in 0 .. P.limit, struck' \in 0 .. P.interrupts,
         halted' \in BOOLEAN
  PROVE  TypeInv'
<1>1. P' = P BY DEF P
<1>2. Values(P)' = Values(P) /\ Labels' = Labels BY <1>1 DEF Values, Parts, Labels
<1>3. Registers' = Registers /\ Errors' = Errors BY <1>2 DEF Registers, Errors
<1>4. Returns' = Returns BY <1>2 DEF Returns
<1>5. Parts(P)' = Parts(P) BY <1>1 DEF Parts
<1>6. Frames' = Frames BY <1>2, <1>3, <1>5 DEF Frames
<1>7. (\A i \in DOMAIN stack : FrameOK(stack[i]))'
  <2>1. Len(hist) \in Nat /\ Len(hist') \in Nat /\ Len(list) \in Nat /\ Len(list') \in Nat BY DEF TypeInv, TypeOK
  <2>2. \A q \in MatchRegs : Within(q) => Within(q)' BY <2>1 DEF Within, MatchRegs
  <2> SUFFICES ASSUME NEW i \in DOMAIN stack' PROVE FrameOK(stack[i])' OBVIOUS
  <2>3. stack'[i] \in Frames /\ FrameOK(stack'[i]) BY DEF Good
  <2>4. stack'[i].k \in {"expv", "match"} => stack'[i].m \in MatchRegs
    <3>1. \A f \in Frames : f.k = "match" => f.m \in MatchRegs BY FrameTyped
    <3> QED BY <2>3, <3>1, FrameTyped
  <2>5. stack'[i].k \in {"expv", "match"} /\ Within(stack'[i].m) => Within(stack[i].m)' BY <2>2, <2>4
  <2> QED BY <2>3, <2>5 DEF FrameOK
<1>8. ProgOK' BY DEF TypeInv, ProgOK
<1>10. stack' \in Seq(Frames') /\ stack' # <<>> /\ stack'[1].k = "interp" BY <1>6 DEF Good
<1>11. TypeOK' BY <1>1, <1>2, <1>3, <1>4, <1>7, <1>10 DEF TypeOK
<1> QED BY <1>8, <1>11 DEF TypeInv

LEMMA TypesKept ==
  ASSUME TypeInv, UNCHANGED <<prog, fun, m, hist, list, fresh>>, Good(stack'), r' \in Registers, e' \in Errors,
         ret' \in Returns, val' \in [Names -> Values(P)], lvl' \in Nat, count' \in 0 .. P.limit,
         struck' \in 0 .. P.interrupts, halted' \in BOOLEAN
  PROVE  TypeInv'
<1>1. DOMAIN fun' \subseteq Names /\ \A f \in DOMAIN fun' : fun'[f] \in Definition BY DEF TypeInv, TypeOK
<1>2. DOMAIN fun \subseteq DOMAIN fun' OBVIOUS
<1>3. /\ m' \in MatchRegs /\ hist' \in Seq(Nat) /\ list' \in Seq([own : Nat, x : Names, v : Str]) /\ fresh' \in Nat
      /\ Len(hist) <= Len(hist') /\ Len(list) <= Len(list') /\ Within(m)'
  BY DEF TypeInv, TypeOK, Within
<1> QED BY <1>1, <1>2, <1>3, TypesKeptBy

\* A step that leaves the match, values and functions alone.
LEMMA Quiet ==
  ASSUME TypeInv, UNCHANGED <<rest, match, store, lvl>>, Good(stack'), r' \in Registers, e' \in Errors,
         ret' \in Returns, count' \in 0 .. P.limit, halted' \in BOOLEAN
  PROVE  TypeInv'
<1>1. val' \in [Names -> Values(P)] /\ lvl' \in Nat /\ struck' \in 0 .. P.interrupts
  BY DEF TypeInv, TypeOK, rest, store
<1>2. UNCHANGED <<prog, fun, m, hist, list, fresh>> BY DEF rest, store, match
<1> QED BY <1>1, <1>2, TypesKept

\* What TypeInv says, by the piece.
LEMMA Typed ==
  ASSUME TypeInv
  PROVE  /\ ProgOK /\ Good(stack) /\ r \in Registers /\ m \in MatchRegs /\ Within(m) /\ e \in Errors /\ ret \in Returns
         /\ val \in [Names -> Values(P)] /\ lvl \in Nat /\ count \in Nat /\ count \in 0 .. P.limit
         /\ halted \in BOOLEAN /\ fresh \in Nat /\ hist \in Seq(Nat)
         /\ list \in Seq([own : Nat, x : Names, v : Str]) /\ struck \in 0 .. P.interrupts
         /\ None \in Returns /\ Fail \in Returns /\ \A n \in {4, 5, 6} : [n |-> n] \in Returns
         /\ \A x \in Names : Named(x) \in Returns /\ val[x] \in Values(P)
         /\ \A v \in Values(P) : Value(v) \in Returns
         /\ Resumed \in Returns
<1>1. /\ ProgOK /\ Good(stack) /\ r \in Registers /\ m \in MatchRegs /\ Within(m) /\ e \in Errors /\ ret \in Returns
      /\ val \in [Names -> Values(P)] /\ lvl \in Nat /\ count \in 0 .. P.limit
      /\ halted \in BOOLEAN /\ fresh \in Nat /\ hist \in Seq(Nat)
      /\ list \in Seq([own : Nat, x : Names, v : Str]) /\ struck \in 0 .. P.interrupts
  BY DEF TypeInv, TypeOK, Good
<1>2. P.limit \in Nat BY <1>1, TheProgram DEF IsProgram
<1>3. None \in Returns /\ Fail \in Returns /\ Resumed \in Returns BY DEF None, Fail, Resumed, Returns
<1>4. \A n \in {4, 5, 6} : [n |-> n] \in Returns BY DEF Returns
<1>5. \A x \in Names : Named(x) \in Returns BY DEF Named, Returns
<1>6. \A v \in Values(P) : Value(v) \in Returns BY DEF Value, Returns
<1> QED BY <1>1, <1>2, <1>3, <1>4, <1>5, <1>6

------------------------------------------------------------------------------
\* The actions, one by one: types are kept, and so are the calls that have begun.
Keeps == TypeInv' /\ Kept(stack', stack)

\* Steps that leave the stack, or push, or pop and then push, plain frames.
LEMMA Pushes == ASSUME Good(stack), Good(stack'), Grown(stack', stack) PROVE Kept(stack', stack)
BY GrownKept

LEMMA Pops ==
  ASSUME Good(stack), Len(stack) > 1, ~Entered(Top), Good(stack'),
         stack' = Below \/ Grown(stack', Below)
  PROVE  Kept(stack', stack)
<1>1. Good(Below) /\ Kept(Below, stack) BY Popped, PoppedKept
<1>2. CASE Grown(stack', Below)
  <2>1. Kept(stack', Below) BY <1>1, <1>2, GrownKept
  <2> QED BY <1>1, <2>1, KeptMore
<1> QED BY <1>1, <1>2

LEMMA TraceTyped == ASSUME TypeInv, Trace PROVE Keeps
<1>1. /\ Good(stack') /\ Grown(stack', stack) /\ r' \in Registers
      /\ e' \in Errors /\ ret' \in Returns /\ halted' \in BOOLEAN
  <2>1. Here.c \in {"call", "op"} /\ Invoke(Here) BY DEF Trace
  <2> QED BY <2>1, Typed, Invokes
<1>2. UNCHANGED <<rest, match, store, lvl>> /\ count' = count BY DEF Trace
<1> QED BY <1>1, <1>2, Typed, Quiet, Pushes DEF Keeps

LEMMA TrapReturnTyped == ASSUME TypeInv, TrapReturn PROVE Keeps
<1>1. Top.k = "trap" /\ r' = Top.r /\ stack' = Below /\ ret' = None /\ UNCHANGED <<rest, match, store, e, lvl, count, halted>>
  BY DEF TrapReturn, Back
<1>2. Top \in Frames /\ Len(stack) > 1 BY <1>1, Typed, StackTop
<1>3. Top.r \in Registers /\ ~Entered(Top) BY <1>1, <1>2, FrameTyped DEF Entered
<1>4. Good(stack') BY <1>1, <1>2, Typed, Popped
<1>5. TypeInv' BY <1>1, <1>3, <1>4, Typed, Quiet
<1>6. Kept(stack', stack) BY <1>1, <1>2, <1>3, <1>4, Typed, Pops
<1> QED BY <1>5, <1>6 DEF Keeps

LEMMA LeaveTyped ==
  ASSUME TypeInv, NEW ee \in Errors, NEW q \in Registers, Leave(ee, q)
  PROVE  e' \in Errors /\ r' \in Registers
<1>1. CASE ee.xit = "" BY <1>1 DEF Leave
<1>2. CASE ee.xit # ""
  <2>1. r' = [q EXCEPT !.base = ee.xit, !.frtn = 0, !.lastno = q.stno, !.lastline = q.line] BY <1>2 DEF Leave, HandlerExit
  <2>2. r' \in Registers BY <2>1 DEF Registers, Errors
  <2> DEFINE on == q.base # ""
             sv == [on |-> on, base |-> q.base, off |-> q.off, frtn |-> q.frtn, stno |-> q.stno, line |-> q.line,
                    lastline |-> q.lastline, typ |-> ee.typ, begun |-> count]
  <2>3. e' = [ee EXCEPT !.xit = "", !.saved = sv] BY <1>2 DEF Leave, SavedExit
  <2>4. on \in BOOLEAN OBVIOUS
  <2>5. count \in Nat BY Typed
  <2> HIDE DEF on
  <2>6. sv \in [on : BOOLEAN, base : Labels, off : Nat, frtn : Nat, stno : Nat, line : Nat,
                lastline : Nat, typ : Nat, begun : Nat]
    BY <2>4, <2>5 DEF Registers, Errors
  <2>7. "" \in Labels \cap Strings BY DEF Labels, Strings
  <2> HIDE DEF sv
  <2>8. e' \in Errors BY <2>3, <2>6, <2>7 DEF Errors
  <2> QED BY <2>2, <2>8
<1> QED BY <1>1, <1>2

LEMMA XithndTyped == ASSUME TypeInv, Xithnd PROVE Keeps
<1>1. Top.k = "error" /\ Leave(e, r) /\ ret' = Fail /\ stack' = Below /\ UNCHANGED <<rest, match, store, lvl, count, halted>>
  BY DEF Xithnd, In, Return
<1>2. Top \in Frames /\ Len(stack) > 1 /\ ~Entered(Top) BY <1>1, Typed, StackTop DEF Entered
<1>3. e' \in Errors /\ r' \in Registers BY <1>1, Typed, LeaveTyped
<1>4. Good(stack') BY <1>1, <1>2, Typed, Popped
<1>5. TypeInv' BY <1>1, <1>3, <1>4, Typed, Quiet
<1>6. Kept(stack', stack) BY <1>1, <1>2, <1>4, Typed, Pops
<1> QED BY <1>5, <1>6 DEF Keeps

LEMMA InterruptTyped == ASSUME TypeInv, Interrupt PROVE Keeps
<1>1. /\ struck < P.interrupts /\ struck' = struck + 1 /\ e' = [e EXCEPT !.uint = TRUE]
      /\ UNCHANGED <<prog, r, match, store, stack, ret, lvl, count, halted>>
  BY DEF Interrupt
<1>2. P.interrupts \in Nat BY Typed, TheProgram DEF IsProgram
<1>3. struck' \in 0 .. P.interrupts BY <1>1, <1>2, Typed
<1>4. e' \in Errors BY <1>1, Typed DEF Errors
<1>5. Good(stack') BY <1>1, Typed
<1>6. UNCHANGED <<prog, fun, m, hist, list, fresh>> /\ val' = val BY <1>1 DEF match, store
<1>7. TypeInv' BY <1>1, <1>3, <1>4, <1>5, <1>6, Typed, TypesKept
<1>8. Kept(stack', stack) BY <1>1, KeptSame
<1> QED BY <1>7, <1>8 DEF Keeps

LEMMA SkipTyped == ASSUME TypeInv, Skip PROVE Keeps
<1>1. r' = Past /\ ret' = ret /\ UNCHANGED <<rest, match, store, e, stack, lvl, count, halted>> BY DEF Skip, Go
<1>2. TypeInv' BY <1>1, Typed, PastTyped, Quiet
<1> QED BY <1>1, <1>2, KeptSame DEF Keeps

LEMMA GotoTyped == ASSUME TypeInv, Goto PROVE Keeps
<1>1. Here.c = "goto" /\ r' = [r EXCEPT !.off = Here.o] /\ ret' = ret /\ UNCHANGED <<rest, match, store, e, stack, lvl, count, halted>>
  BY DEF Goto, Go, At
<1>2. Here.o \in Nat BY <1>1, HereTyped
<1>3. r' \in Registers BY <1>1, <1>2, Typed DEF Registers
<1>4. TypeInv' BY <1>1, <1>3, Typed, Quiet
<1> QED BY <1>1, <1>4, KeptSame DEF Keeps

LEMMA BaseTyped == ASSUME TypeInv, Base PROVE Keeps
<1>1. Here.c = "base" /\ r' = [r EXCEPT !.base = Here.b, !.off = 0] /\ ret' = ret /\ UNCHANGED <<rest, match, store, e, stack, lvl, count, halted>>
  BY DEF Base, Go, At
<1>2. Here.b \in DOMAIN P.code BY <1>1, HereTyped
<1>3. r' \in Registers BY <1>1, <1>2, Typed DEF Registers, Labels
<1>4. TypeInv' BY <1>1, <1>3, Typed, Quiet
<1> QED BY <1>1, <1>4, KeptSame DEF Keeps

LEMMA EndTyped == ASSUME TypeInv, End PROVE Keeps
<1>1. /\ halted' = (e.errs <= 0 \/ e.xit = "") /\ UNCHANGED <<rest, match, store, stack, ret, lvl, count>>
      /\ IF e.errs <= 0 THEN UNCHANGED <<e, r>>
         ELSE Leave([e EXCEPT !.errs = @ - 1, !.typ = 0],
                [Past EXCEPT !.frtn = r.off, !.lastno = r.stno, !.lastline = r.line])
  BY DEF End
<1>2. e' \in Errors /\ r' \in Registers
  <2>1. CASE e.errs <= 0 BY <1>1, <2>1, Typed
  <2>2. CASE ~(e.errs <= 0)
    <3>1. e \in Errors /\ e.errs \in Nat BY Typed DEF Errors
    <3>2. e.errs - 1 \in Nat BY <2>2, <3>1
    <3>3. [e EXCEPT !.errs = @ - 1, !.typ = 0] \in Errors BY <3>1, <3>2 DEF Errors
    <3>4. [Past EXCEPT !.frtn = r.off, !.lastno = r.stno, !.lastline = r.line] \in Registers
      <4>1. \A p, q \in Registers : [p EXCEPT !.frtn = q.off, !.lastno = q.stno, !.lastline = q.line] \in Registers
        BY DEF Registers
      <4> QED BY <4>1, PastTyped
    <3> QED BY <1>1, <2>2, <3>3, <3>4, LeaveTyped
  <2> QED BY <2>1, <2>2
<1>3. TypeInv' BY <1>1, <1>2, Typed, Quiet
<1> QED BY <1>1, <1>3, KeptSame DEF Keeps

LEMMA DoTyped == ASSUME TypeInv, Do PROVE Keeps
<1>1. Here.c \in {"call", "op"} /\ Invoke(Here) /\ UNCHANGED <<rest, match, store, lvl, count>> BY DEF Do, At
<1>2. /\ Good(stack') /\ Grown(stack', stack) /\ r' \in Registers
      /\ e' \in Errors /\ ret' \in Returns /\ halted' \in BOOLEAN
  BY <1>1, Typed, Invokes
<1> QED BY <1>1, <1>2, Typed, Quiet, Pushes DEF Keeps

LEMMA ReturnedTyped == ASSUME TypeInv, Returned PROVE Keeps
<1>1. /\ Top.k = "interp" /\ UNCHANGED <<rest, match, store, e, lvl, count>>
      /\ \/ ret.n \in 2 .. 3 /\ ret' = None /\ UNCHANGED <<r, stack, halted>>
         \/ ret.n = 1 /\ r' = [r EXCEPT !.off = r.frtn] /\ ret' = None /\ UNCHANGED <<stack, halted>>
         \/ ret.n > 3 /\ Len(stack) = 1 /\ halted' = TRUE /\ UNCHANGED <<r, stack, ret>>
         \/ ret.n > 3 /\ Len(stack) > 1 /\ ret' = ret /\ stack' = Below /\ UNCHANGED <<r, halted>>
  BY DEF Returned, Back, Return
<1>2. Good(stack') /\ Kept(stack', stack)
  <2>1. CASE stack' = stack BY <2>1, Typed, KeptSame
  <2>2. CASE stack' = Below /\ Len(stack) > 1
    <3>1. Good(stack) /\ ~Entered(Top) BY <1>1, Typed DEF Entered
    <3>2. Good(stack') BY <2>2, <3>1, Popped
    <3> QED BY <2>2, <3>1, <3>2, Pops
  <2> QED BY <1>1, <2>1, <2>2
<1>3. r' \in Registers
  <2>1. r \in Registers /\ [r EXCEPT !.off = r.frtn] \in Registers BY Typed DEF Registers
  <2> QED BY <1>1, <2>1
<1>4. ret' \in Returns /\ halted' \in BOOLEAN /\ e' \in Errors BY <1>1, Typed
<1>5. count' \in 0 .. P.limit BY <1>1, Typed
<1>6. TypeInv' BY <1>1, <1>2, <1>3, <1>4, <1>5, Quiet
<1> QED BY <1>2, <1>6 DEF Keeps

LEMMA GotlTyped == ASSUME TypeInv, Gotl PROVE Keeps
<1> DEFINE w == [k |-> "goto", l |-> Here.l]
<1>1. /\ Here.c = "gotl" /\ Trap(<<"LABEL", Here.l>>, Past, Append(stack, w))
      /\ UNCHANGED <<rest, match, store, e, ret, lvl, count, halted>>
  BY DEF Gotl, At
<1>2. w \in Frames /\ FrameOK(w) /\ Plain(w)
  <2>1. Here.l \in Strings BY <1>1, HereTyped
  <2> QED BY <2>1 DEF Frames, FrameOK, Plain, Entered
<1>3. Good(Append(stack, w)) /\ Grown(Append(stack, w), stack) BY <1>2, Typed, GrownBy
<1> HIDE DEF w
<1>4. Good(stack') /\ Grown(stack', Append(stack, w)) /\ r' \in Registers BY <1>1, <1>3, Typed, PastTyped, Traps
<1>5. Grown(stack', stack) BY <1>3, <1>4, Typed, GrownMore
<1>6. TypeInv' BY <1>1, <1>4, Typed, Quiet
<1>7. Kept(stack', stack) BY <1>4, <1>5, Typed, Pushes
<1> QED BY <1>6, <1>7 DEF Keeps

LEMMA Init1Typed == ASSUME TypeInv, Init1 PROVE Keeps
<1> DEFINE q == [Past EXCEPT !.lastno = r.stno, !.lastline = r.line]
           b == [q EXCEPT !.stno = Here.no, !.line = Here.line, !.frtn = Here.f]
           z == [e EXCEPT !.uint = FALSE]
<1>1. /\ Here.c = "stmt" /\ UNCHANGED <<rest, match, store, lvl>>
      /\ IF e.uint THEN Raise(z, 34, "test", q, stack) /\ UNCHANGED count
         ELSE IF count >= P.limit
         THEN halted' = TRUE /\ r' = b /\ UNCHANGED <<e, stack, ret, count>>
         ELSE /\ Trap(<<"KEYWORD", "STCOUNT">>, b, stack) /\ count' = Counted
              /\ UNCHANGED <<e, ret, halted>>
  BY DEF Init1, At
<1>2. q \in Registers
  <2>1. \A p, s \in Registers : [p EXCEPT !.lastno = s.stno, !.lastline = s.line] \in Registers BY DEF Registers
  <2> QED BY <2>1, PastTyped
<1>3. b \in Registers
  <2>1. Here.no \in Nat /\ Here.line \in Nat /\ Here.f \in Nat BY <1>1, HereTyped
  <2> HIDE DEF q
  <2> QED BY <1>2, <2>1 DEF Registers
<1>4. z \in Errors /\ z.errs = e.errs /\ z.fatals = e.fatals BY Typed DEF Errors
<1> HIDE DEF q, b, z
<1>5. CASE e.uint
  <2>1. /\ Good(stack') /\ Grown(stack', stack) /\ r' \in Registers
        /\ e' \in Errors /\ ret' = None /\ halted' \in BOOLEAN
    <3>1. Raise(z, 34, "test", q, stack) BY <1>1, <1>5
    <3> QED BY <1>2, <1>4, <3>1, Typed, Raises
  <2>2. count' = count BY <1>1, <1>5
  <2> QED BY <1>1, <2>1, <2>2, Typed, Quiet, Pushes DEF Keeps
<1>6. CASE ~e.uint /\ count >= P.limit
  <2>1. halted' = TRUE /\ r' = b /\ UNCHANGED <<e, stack, ret, count>> BY <1>1, <1>6
  <2> QED BY <1>1, <1>3, <2>1, Typed, Quiet, KeptSame DEF Keeps
<1>7. CASE ~e.uint /\ ~(count >= P.limit)
  <2>1. Trap(<<"KEYWORD", "STCOUNT">>, b, stack) /\ count' = count + 1 /\ UNCHANGED <<e, ret, halted>>
    BY <1>1, <1>7 DEF Counted
  <2>2. Good(stack') /\ Grown(stack', stack) /\ r' \in Registers BY <1>3, <2>1, Typed, Traps
  <2>3. P.limit \in Nat BY Typed, TheProgram DEF IsProgram
  <2>4. count' \in 0 .. P.limit BY <1>7, <2>1, <2>3, Typed
  <2> QED BY <1>1, <2>1, <2>2, <2>4, Typed, Quiet, Pushes DEF Keeps
<1> QED BY <1>5, <1>6, <1>7

\* A frame that is not INTERP's or a call's may be popped.
LEMMA TopIs ==
  ASSUME TypeInv, Top.k \in {"goto", "op", "expv", "match", "trap", "error"} \/ (Top.k = "deff" /\ Top.ph = "args")
  PROVE  /\ Good(stack) /\ Len(stack) > 1 /\ Top \in Frames /\ FrameOK(Top) /\ ~Entered(Top)
         /\ Good(Below) /\ Kept(Below, stack)
<1>1. Good(stack) /\ Len(stack) > 1 /\ Top \in Frames /\ FrameOK(Top) BY Typed, StackTop
<1>2. ~Entered(Top) BY DEF Entered
<1> QED BY <1>1, <1>2, Popped, PoppedKept

\* What an error does that is found with the top frame gone.
LEMMA RaisesBelow ==
  ASSUME TypeInv, ~Entered(Top), Len(stack) > 1, NEW typ \in Nat, NEW kind, NEW q \in Registers, Raise(e, typ, kind, q, Below)
  PROVE  /\ Good(stack') /\ Kept(stack', stack) /\ r' \in Registers
         /\ e' \in Errors /\ ret' \in Returns /\ halted' \in BOOLEAN
<1>1. Good(Below) BY Typed, Popped
<1>2. /\ Good(stack') /\ Grown(stack', Below) /\ r' \in Registers
      /\ e' \in Errors /\ ret' = None /\ halted' \in BOOLEAN
  BY <1>1, Typed, Raises
<1>3. Kept(stack', stack) BY <1>2, Typed, Pops
<1> QED BY <1>2, <1>3, Typed

LEMMA GotoLabelTyped == ASSUME TypeInv, GotoLabel PROVE Keeps
<1> DEFINE l == Top.l
<1>1. Top.k = "goto" /\ UNCHANGED <<rest, match, store, lvl, count>> BY DEF GotoLabel, In
<1>2. Good(stack) /\ Len(stack) > 1 /\ ~Entered(Top) /\ Good(Below) /\ Kept(Below, stack) BY <1>1, TopIs
<1>3. SUFFICES /\ Good(stack') /\ Kept(stack', stack) /\ r' \in Registers
               /\ e' \in Errors /\ ret' \in Returns /\ halted' \in BOOLEAN
  BY <1>1, Typed, Quiet DEF Keeps
<1>4. CASE l \in DOMAIN Leaves
  <2>1. Leaves[l] \in {4, 5, 6} BY <1>4 DEF Leaves
  <2>2. ret' = [n |-> Leaves[l]] /\ stack' = Below /\ UNCHANGED <<r, e, halted>> BY <1>4 DEF GotoLabel, Return
  <2>3. ret' \in Returns BY <2>1, <2>2, Typed
  <2> QED BY <1>2, <2>2, <2>3, Typed
<1>5. ASSUME NEW off \in Nat, Resume(off)
      PROVE /\ Good(stack') /\ Kept(stack', stack) /\ r' \in Registers
            /\ e' \in Errors /\ ret' \in Returns /\ halted' \in BOOLEAN
  <2>1. CASE e.fatal
    <3>1. halted' = TRUE /\ UNCHANGED <<r, e, stack, ret>> BY <1>5, <2>1 DEF Resume
    <3> QED BY <3>1, Typed, KeptSame
  <2>2. CASE ~e.fatal /\ ~e.saved.on
    <3>1. Raise(e, 35, "fatal", [r EXCEPT !.frtn = off], Below) BY <1>5, <2>2 DEF Resume
    <3>2. [r EXCEPT !.frtn = off] \in Registers BY Typed DEF Registers
    <3> QED BY <1>2, <3>1, <3>2, RaisesBelow
  <2>3. CASE ~e.fatal /\ e.saved.on
    <3>1. /\ r' = [r EXCEPT !.base = e.saved.base, !.frtn = off, !.stno = e.saved.stno,
                         !.line = e.saved.line, !.lastno = e.saved.line, !.lastline = e.saved.lastline]
          /\ e' = [e EXCEPT !.saved.on = FALSE, !.typ = IF @ = 0 THEN 0 ELSE e.saved.typ]
          /\ halted' = (e.typ = 0) /\ ret' = Resumed /\ stack' = Below
      BY <1>5, <2>3 DEF Resume, Return
    <3>2. e \in Errors /\ r \in Registers BY Typed
    <3>3. r' \in Registers BY <3>1, <3>2 DEF Registers, Errors
    <3> DEFINE typ == IF e.typ = 0 THEN 0 ELSE e.saved.typ
               sv  == [e.saved EXCEPT !.on = FALSE]
    <3>4. typ \in Nat BY <3>2 DEF Errors
    <3>5. sv \in [on : BOOLEAN, base : Labels, off : Nat, frtn : Nat, stno : Nat, line : Nat,
                  lastline : Nat, typ : Nat, begun : Nat]
      BY <3>2 DEF Errors
    <3>6. e' = [e EXCEPT !.saved = sv, !.typ = typ] BY <3>1, <3>2 DEF Errors
    <3> HIDE DEF typ, sv
    <3>7. e' \in Errors BY <3>2, <3>4, <3>5, <3>6 DEF Errors
    <3> QED BY <1>2, <3>1, <3>3, <3>7, Typed
  <2> QED BY <2>1, <2>2, <2>3
<1>6. CASE l \notin DOMAIN Leaves /\ l = "ABORT"
  <2>1. CASE e.saved.on
    <3>1. halted' = TRUE /\ UNCHANGED <<r, e, stack, ret>> BY <1>6, <2>1 DEF GotoLabel
    <3> QED BY <3>1, Typed, KeptSame
  <2>2. CASE ~e.saved.on
    <3>1. Raise(e, 35, "fatal", r, Below) BY <1>6, <2>2 DEF GotoLabel
    <3> QED BY <1>2, <3>1, Typed, RaisesBelow
  <2> QED BY <2>1, <2>2
<1>7. CASE l \notin DOMAIN Leaves /\ l # "ABORT" /\ l \in {"SCONTINUE", "CONTINUE"}
  <2>1. Resume(e.saved.off) \/ Resume(e.saved.frtn) BY <1>7 DEF GotoLabel
  <2>2. e.saved.off \in Nat /\ e.saved.frtn \in Nat BY Typed DEF Errors
  <2> QED BY <1>5, <2>1, <2>2
<1>8. CASE l \notin DOMAIN Leaves \cup {"ABORT", "SCONTINUE", "CONTINUE"} /\ l \in DOMAIN P.code
  <2>1. r' = [r EXCEPT !.base = l, !.off = 0] /\ ret' = Value(Null) /\ stack' = Below /\ UNCHANGED <<e, halted>>
    BY <1>8 DEF GotoLabel, Return
  <2>2. r' \in Registers BY <1>8, <2>1, Typed DEF Registers, Labels
  <2> QED BY <1>2, <2>1, <2>2, Typed, NullTyped
<1>9. CASE l \notin DOMAIN Leaves \cup {"ABORT", "SCONTINUE", "CONTINUE"} /\ l \notin DOMAIN P.code
  <2>1. Raise(e, 24, "fatal", [r EXCEPT !.base = ""], Below) BY <1>9 DEF GotoLabel
  <2>2. [r EXCEPT !.base = ""] \in Registers BY Typed DEF Registers, Labels
  <2> QED BY <1>2, <2>1, <2>2, RaisesBelow
<1> QED BY <1>4, <1>6, <1>7, <1>8, <1>9

------------------------------------------------------------------------------
\* Operands and operations.
LEMMA Replaces ==
  ASSUME TypeInv, ~Entered(Top), Len(stack) > 1, NEW f \in Frames, FrameOK(f), ~Entered(f)
  PROVE  Good(With(f)) /\ Kept(With(f), stack)
BY Typed, Replaced, ReplacedKept

LEMMA TakeTyped ==
  ASSUME TypeInv, Collects, NEW v \in Values(P) \cup NameRef, Take(v), v \in NameRef <=> ForName
  PROVE  Good(stack') /\ Kept(stack', stack)
<1> DEFINE f == [Top EXCEPT !.args = Append(@, v)]
<1>1. stack' = With(f) BY DEF Take
<1>2. Top.k \in {"op", "deff"} /\ Top.ph = "args" /\ Len(Top.args) < Top.n BY DEF Collects
<1>3. Len(stack) > 1 /\ Top \in Frames /\ FrameOK(Top) /\ ~Entered(Top) BY <1>2, TopIs
<1>4. v.t = "N" <=> v \in NameRef BY DEF Values, Str, NameRef
<1>5. CASE Top.k = "op"
  <2>1. Top \in [k : {"op"}, o : {"ASGN"} \cup Unary, n : 1 .. 2, args : Seq(Values(P) \cup NameRef), ph : {"args", "traced"}]
    BY <1>3, <1>5, FrameTyped
  <2> DEFINE a == Append(Top.args, v)
  <2>2. a \in Seq(Values(P) \cup NameRef) /\ Len(a) = Len(Top.args) + 1 /\ a[Len(Top.args) + 1] = v
        /\ \A i \in 1 .. Len(Top.args) : a[i] = Top.args[i]
    BY <2>1, AppendProperties
  <2>3. f = [Top EXCEPT !.args = a] OBVIOUS
  <2>4. DOMAIN a = 1 .. Len(Top.args) + 1 /\ DOMAIN Top.args = 1 .. Len(Top.args) /\ Len(Top.args) \in Nat BY <2>1, <2>2
  <2> HIDE DEF f, a
  <2>5. f \in [k : {"op"}, o : {"ASGN"} \cup Unary, n : 1 .. 2, args : Seq(Values(P) \cup NameRef), ph : {"args", "traced"}]
        /\ f.o = Top.o /\ f.n = Top.n /\ f.ph = Top.ph /\ f.args = a /\ f.k = "op"
    BY <2>1, <2>2, <2>3
  <2>6. f \in Frames /\ ~Entered(f) BY <2>5 DEF Frames, Entered
  <2>7. ForName <=> Top.o = "ASGN" /\ Len(Top.args) = 0 BY <1>5, <2>1 DEF ForName, Doing
  <2>8. \A i \in DOMAIN a : a[i].t = "N" <=> f.o = "ASGN" /\ i = 1
    <3> SUFFICES ASSUME NEW i \in 1 .. Len(Top.args) + 1 PROVE a[i].t = "N" <=> Top.o = "ASGN" /\ i = 1 BY <2>4, <2>5
    <3>1. CASE i = Len(Top.args) + 1 BY <1>4, <2>2, <2>4, <2>7, <3>1
    <3>2. CASE i \in 1 .. Len(Top.args) BY <1>3, <1>5, <2>2, <2>4, <3>2 DEF FrameOK
    <3> QED BY <2>4, <3>1, <3>2
  <2>9. FrameOK(f) BY <1>2, <1>3, <1>5, <2>5, <2>8 DEF FrameOK
  <2> QED BY <1>1, <1>3, <2>6, <2>9, Replaces
<1>6. CASE Top.k = "deff"
  <2>1. Top \in [k : {"deff"}, f : Names, n : Nat, args : Seq(Values(P)), ph : {"args"}]
    BY <1>2, <1>3, <1>6, FrameTyped
  <2>2. v \in Values(P) BY <1>6 DEF ForName, Doing
  <2> DEFINE a == Append(Top.args, v)
  <2>3. a \in Seq(Values(P)) BY <2>1, <2>2
  <2>4. f = [Top EXCEPT !.args = a] OBVIOUS
  <2> HIDE DEF f, a
  <2>5. f \in [k : {"deff"}, f : Names, n : Nat, args : Seq(Values(P)), ph : {"args"}] /\ f.f = Top.f /\ f.k = "deff" /\ f.ph = "args"
    BY <2>1, <2>3, <2>4
  <2>6. f \in Frames /\ ~Entered(f) /\ FrameOK(f) BY <1>2, <1>3, <1>6, <2>5 DEF Frames, Entered, FrameOK
  <2> QED BY <1>1, <1>3, <2>6, Replaces
<1> QED BY <1>2, <1>5, <1>6

LEMMA TakeNameTyped ==
  ASSUME TypeInv, Collects, NEW x \in Names, TakeName(x)
  PROVE  Good(stack') /\ Kept(stack', stack)
<1> DEFINE v == IF ForName THEN [t |-> "N", s |-> x] ELSE val[x]
<1>1. val[x] \in Values(P) BY Typed
<1>2. val[x] \notin NameRef BY <1>1 DEF Values, Str, NameRef
<1>3. [t |-> "N", s |-> x] \in NameRef BY DEF NameRef
<1>4. v \in Values(P) \cup NameRef /\ (v \in NameRef <=> ForName) BY <1>1, <1>2, <1>3
<1>5. Take(v) BY DEF TakeName
<1> HIDE DEF v
<1> QED BY <1>4, <1>5, TakeTyped

LEMMA CollectsTop == ASSUME TypeInv, Collects PROVE ~Entered(Top) /\ Len(stack) > 1 /\ Good(Below) /\ Kept(Below, stack)
<1>1. Top.k = "op" \/ (Top.k = "deff" /\ Top.ph = "args") BY DEF Collects
<1> QED BY <1>1, TopIs

LEMMA NotNameRef == ASSUME NEW v \in Values(P) PROVE v \notin NameRef
BY DEF Values, Str, NameRef

LEMMA OperandTyped == ASSUME TypeInv, Operand PROVE Keeps
<1>1. Collects /\ UNCHANGED <<rest, match, store, lvl, count>> BY DEF Operand
<1>2. SUFFICES /\ Good(stack') /\ Kept(stack', stack) /\ r' \in Registers
               /\ e' \in Errors /\ ret' \in Returns /\ halted' \in BOOLEAN
  BY <1>1, Typed, Quiet DEF Keeps
<1>3. CASE Here.c = "name" /\ TakeName(Here.x) /\ Go(Past) /\ UNCHANGED <<e, halted>>
  <2>1. Here.x \in Names BY <1>3, HereTyped
  <2>2. Good(stack') /\ Kept(stack', stack) BY <1>1, <1>3, <2>1, TakeNameTyped
  <2>3. r' = Past /\ ret' = ret BY <1>3 DEF Go
  <2> QED BY <1>3, <2>2, <2>3, Typed, PastTyped
<1>4. CASE Here.c = "lit" /\ ~ForName /\ Take(Here.v) /\ Go(Past) /\ UNCHANGED <<e, halted>>
  <2>1. Here.v \in Values(P) BY <1>4, HereTyped
  <2>2. Good(stack') /\ Kept(stack', stack) BY <1>1, <1>4, <2>1, NotNameRef, TakeTyped
  <2>3. r' = Past /\ ret' = ret BY <1>4 DEF Go
  <2> QED BY <1>4, <2>2, <2>3, Typed, PastTyped
<1>5. CASE Raise(e, 8, "test", Past, Below) BY <1>1, <1>5, CollectsTop, PastTyped, RaisesBelow
<1>6. CASE Here.c \in {"call", "op"} /\ Invoke(Here)
  <2>1. /\ Good(stack') /\ Grown(stack', stack) /\ r' \in Registers
        /\ e' \in Errors /\ ret' \in Returns /\ halted' \in BOOLEAN
    BY <1>6, Typed, Invokes
  <2> QED BY <2>1, Typed, Pushes
<1> QED BY <1>3, <1>4, <1>5, <1>6 DEF Operand

LEMMA BackTyped ==
  ASSUME TypeInv
  PROVE  (ret.n = 2 => ret.x \in Names) /\ (ret.n = 3 => ret.v \in Values(P)) /\ ret.n \in 0 .. 6
<1> DEFINE V == Values(P)
<1>1. ret \in Returns BY Typed
<1>2. ret \in [n : {0, 1, 4, 5, 6}] \cup [n : {1}, by : {"CONTINUE"}] \cup [n : {2}, x : Names] \cup [n : {3}, v : V]
  BY <1>1 DEF Returns
<1> HIDE DEF V
<1>3. ret.n \in 0 .. 6 BY <1>2
<1>4. (ret.n = 2 => ret.x \in Names) /\ (ret.n = 3 => ret.v \in V) BY <1>2
<1> QED BY <1>3, <1>4 DEF V

LEMMA OperandBackTyped == ASSUME TypeInv, OperandBack PROVE Keeps
<1>1. Collects /\ UNCHANGED <<rest, match, store, lvl, count>> BY DEF OperandBack
<1>2. SUFFICES /\ Good(stack') /\ Kept(stack', stack) /\ r' \in Registers
               /\ e' \in Errors /\ ret' \in Returns /\ halted' \in BOOLEAN
  BY <1>1, Typed, Quiet DEF Keeps
<1>3. CASE Return(Fail) /\ UNCHANGED <<r, e, halted>> BY <1>1, <1>3, CollectsTop, Typed DEF Return
<1>4. CASE Raise(e, 30, "test", r, Below) \/ Raise(e, 8, "test", r, Below)
  BY <1>1, <1>4, CollectsTop, Typed, RaisesBelow
<1>5. CASE ret.n = 2 /\ TakeName(ret.x) /\ ret' = None /\ UNCHANGED <<r, e, halted>>
  <2>1. ret.x \in Names BY <1>5, BackTyped
  <2>2. Good(stack') /\ Kept(stack', stack) BY <1>1, <1>5, <2>1, TakeNameTyped
  <2> QED BY <1>5, <2>2, Typed
<1>6. CASE ret.n = 3 /\ ~ForName /\ Take(ret.v) /\ ret' = None /\ UNCHANGED <<r, e, halted>>
  <2>1. ret.v \in Values(P) BY <1>6, BackTyped
  <2>2. Good(stack') /\ Kept(stack', stack) BY <1>1, <1>6, <2>1, NotNameRef, TakeTyped
  <2> QED BY <1>6, <2>2, Typed
<1> QED BY <1>3, <1>4, <1>5, <1>6 DEF OperandBack

\* The frame and the arguments of an operation that has them all.
LEMMA Arguments ==
  ASSUME TypeInv, NEW o \in {"ASGN"} \cup Unary, Ready(o)
  PROVE  /\ ~Entered(Top) /\ Len(stack) > 1 /\ Good(Below) /\ Kept(Below, stack)
         /\ Top \in [k : {"op"}, o : {"ASGN"} \cup Unary, n : 1 .. 2, args : Seq(Values(P) \cup NameRef), ph : {"args", "traced"}]
         /\ FrameOK(Top) /\ Top.o = o
         /\ o # "ASGN" => Arg(1) \in Values(P)
         /\ o = "ASGN" => Len(Top.args) = 2 /\ Arg(1) \in NameRef /\ Arg(2) \in Values(P)
<1>1. Top.k = "op" /\ Top.o = o /\ Top.ph = "args" /\ Len(Top.args) = Top.n BY DEF Ready, In
<1>2. Len(stack) > 1 /\ Top \in Frames /\ FrameOK(Top) /\ ~Entered(Top) /\ Good(Below) /\ Kept(Below, stack) BY <1>1, TopIs
<1>3. Top \in [k : {"op"}, o : {"ASGN"} \cup Unary, n : 1 .. 2, args : Seq(Values(P) \cup NameRef), ph : {"args", "traced"}]
  BY <1>1, <1>2, FrameTyped
<1>4. Top.args \in Seq(Values(P) \cup NameRef) /\ DOMAIN Top.args = 1 .. Len(Top.args) BY <1>3
<1>5. Len(Top.args) = (IF o = "ASGN" THEN 2 ELSE 1) BY <1>1, <1>2 DEF FrameOK
<1>6. \A i \in 1 .. Len(Top.args) : Top.args[i] \in Values(P) \cup NameRef BY <1>4
<1>7. \A i \in 1 .. Len(Top.args) : Top.args[i].t = "N" <=> o = "ASGN" /\ i = 1 BY <1>1, <1>2, <1>4 DEF FrameOK
<1>8. \A v \in Values(P) \cup NameRef : v.t = "N" <=> v \in NameRef BY DEF Values, Str, NameRef
<1>9. o # "ASGN" => Arg(1) \in Values(P) BY <1>5, <1>6, <1>7, <1>8 DEF Arg
<1>10. o = "ASGN" => Len(Top.args) = 2 /\ Arg(1) \in NameRef /\ Arg(2) \in Values(P) BY <1>5, <1>6, <1>7, <1>8 DEF Arg
<1> QED BY <1>1, <1>2, <1>3, <1>9, <1>10

LEMMA BadTyped == ASSUME TypeInv, Bad PROVE Keeps
<1>1. Ready("BAD") /\ Raise(e, 2, "test", r, Below) /\ UNCHANGED <<rest, match, store, lvl, count>> BY DEF Bad
<1>2. ~Entered(Top) /\ Len(stack) > 1 BY <1>1, Arguments DEF Unary
<1>3. /\ Good(stack') /\ Kept(stack', stack) /\ r' \in Registers
      /\ e' \in Errors /\ ret' \in Returns /\ halted' \in BOOLEAN
  BY <1>1, <1>2, Typed, RaisesBelow
<1> QED BY <1>1, <1>3, Typed, Quiet DEF Keeps

\* A trace over a stack that has the same calls.
LEMMA TrapsOver ==
  ASSUME TypeInv, NEW s, Good(s), Kept(s, stack), NEW ev, NEW q \in Registers, Trap(ev, q, s)
  PROVE  Good(stack') /\ Kept(stack', stack) /\ r' \in Registers
<1>1. Good(stack') /\ Grown(stack', s) /\ r' \in Registers BY Typed, Traps
<1>2. Kept(stack', s) BY <1>1, GrownKept
<1> QED BY <1>1, <1>2, KeptMore

LEMMA AsgnTyped == ASSUME TypeInv, Asgn PROVE Keeps
<1> DEFINE f == [Top EXCEPT !.ph = "traced"]
<1>1. /\ Ready("ASGN") /\ val' = [val EXCEPT ![Arg(1).s] = Arg(2)]
      /\ Trap(<<"VALUE", Arg(1).s>>, r, With(f))
      /\ UNCHANGED <<rest, match, fun, e, ret, lvl, count, halted>>
  BY DEF Asgn
<1>2. /\ ~Entered(Top) /\ Len(stack) > 1 /\ FrameOK(Top) /\ Top.o = "ASGN" /\ Len(Top.args) = 2
      /\ Top \in [k : {"op"}, o : {"ASGN"} \cup Unary, n : 1 .. 2, args : Seq(Values(P) \cup NameRef), ph : {"args", "traced"}]
      /\ Arg(1) \in NameRef /\ Arg(2) \in Values(P)
  BY <1>1, Arguments
<1>3. /\ f \in [k : {"op"}, o : {"ASGN"} \cup Unary, n : 1 .. 2, args : Seq(Values(P) \cup NameRef), ph : {"args", "traced"}]
      /\ f.o = Top.o /\ f.n = Top.n /\ f.args = Top.args /\ f.k = "op" /\ Top.k = "op"
  BY <1>2
<1> HIDE DEF f
<1>4. f \in Frames /\ ~Entered(f) BY <1>3 DEF Frames, Entered
<1>5. FrameOK(f) BY <1>2, <1>3 DEF FrameOK
<1>6. Good(With(f)) /\ Kept(With(f), stack) BY <1>2, <1>4, <1>5, Replaces
<1>7. Good(stack') /\ Kept(stack', stack) /\ r' \in Registers BY <1>1, <1>6, Typed, TrapsOver
<1>8. val' \in [Names -> Values(P)] BY <1>1, <1>2, Typed
<1>9. UNCHANGED <<prog, fun, m, hist, list, fresh>> /\ struck' = struck
  BY <1>1 DEF rest, match
<1>10. TypeInv' BY <1>1, <1>7, <1>8, <1>9, Typed, TypesKept
<1> QED BY <1>7, <1>10 DEF Keeps

LEMMA AsgnedTyped == ASSUME TypeInv, Asgned PROVE Keeps
<1>1. /\ Top.k = "op" /\ Top.ph = "traced" /\ ret' = Value(Arg(2)) /\ stack' = Below
      /\ UNCHANGED <<rest, match, store, r, e, lvl, count, halted>>
  BY DEF Asgned, In, Return
<1>2. Good(stack) /\ Len(stack) > 1 /\ Top \in Frames /\ FrameOK(Top) /\ ~Entered(Top) /\ Good(Below) /\ Kept(Below, stack)
  BY <1>1, TopIs
<1>3. Arg(2) \in Values(P)
  <2>1. Top \in [k : {"op"}, o : {"ASGN"} \cup Unary, n : 1 .. 2, args : Seq(Values(P) \cup NameRef), ph : {"args", "traced"}]
    BY <1>1, <1>2, FrameTyped
  <2>2. Len(Top.args) = 2 /\ Top.args \in Seq(Values(P) \cup NameRef) BY <1>1, <1>2, <2>1 DEF FrameOK
  <2>3. 2 \in DOMAIN Top.args /\ Top.args[2] \in Values(P) \cup NameRef BY <2>2
  <2>4. Top.args[2].t # "N" BY <1>1, <1>2, <2>3 DEF FrameOK
  <2>5. \A v \in NameRef : v.t = "N" BY DEF NameRef
  <2> QED BY <2>3, <2>4, <2>5 DEF Arg
<1>4. ret' \in Returns BY <1>1, <1>3, Typed
<1> QED BY <1>1, <1>2, <1>4, Typed, Quiet DEF Keeps

LEMMA SetexitTyped == ASSUME TypeInv, Setexit PROVE Keeps
<1> DEFINE a == Arg(1)
           f == [Top EXCEPT !.args = <<>>]
<1>1. Ready("SETEXIT") /\ UNCHANGED <<rest, match, store, lvl, count>> BY DEF Setexit
<1>2. /\ ~Entered(Top) /\ Len(stack) > 1 /\ Good(Below) /\ Kept(Below, stack) /\ FrameOK(Top) /\ Top.o = "SETEXIT"
      /\ Top \in [k : {"op"}, o : {"ASGN"} \cup Unary, n : 1 .. 2, args : Seq(Values(P) \cup NameRef), ph : {"args", "traced"}]
      /\ a \in Values(P)
  BY <1>1, Arguments DEF Unary
<1>3. SUFFICES /\ Good(stack') /\ Kept(stack', stack) /\ r' \in Registers
               /\ e' \in Errors /\ ret' \in Returns /\ halted' \in BOOLEAN
  BY <1>1, Typed, Quiet DEF Keeps
<1>4. CASE Raise(e, 1, "test", r, With(f))
  <2>1. <<>> \in Seq(Values(P) \cup NameRef) OBVIOUS
  <2>2. /\ f \in [k : {"op"}, o : {"ASGN"} \cup Unary, n : 1 .. 2, args : Seq(Values(P) \cup NameRef), ph : {"args", "traced"}]
        /\ f.o = Top.o /\ f.n = Top.n /\ f.args = <<>> /\ f.k = "op" /\ Top.k = "op" /\ f.ph = Top.ph
    BY <1>2, <2>1
  <2>3. Top.ph = "args" BY <1>1 DEF Ready
  <2> HIDE DEF f
  <2>4. f \in Frames /\ ~Entered(f) BY <2>2 DEF Frames, Entered
  <2>5. FrameOK(f) BY <1>2, <2>2, <2>3 DEF FrameOK
  <2>6. Good(With(f)) /\ Kept(With(f), stack) BY <1>2, <2>4, <2>5, Replaces
  <2>7. /\ Good(stack') /\ Grown(stack', With(f)) /\ r' \in Registers
        /\ e' \in Errors /\ ret' = None /\ halted' \in BOOLEAN
    BY <1>4, <2>6, Typed, Raises
  <2>8. Kept(stack', With(f)) BY <2>6, <2>7, GrownKept
  <2> QED BY <2>6, <2>7, <2>8, KeptMore, Typed
<1>5. CASE Raise(e, 30, "test", r, Below) BY <1>2, <1>5, Typed, RaisesBelow
<1>6. CASE /\ a.t = "S" /\ (a.s = "" \/ a.s \in DOMAIN P.code)
           /\ e' = [e EXCEPT !.xit = a.s] /\ Return(Value([t |-> "S", s |-> e.xit])) /\ UNCHANGED <<r, halted>>
  <2>0. a.s \in Strings BY <1>2, <1>6 DEF Values, Str
  <2>1. a.s \in Labels \cap Strings BY <1>6, <2>0 DEF Labels
  <2>2. e' \in Errors BY <1>6, <2>1, Typed DEF Errors
  <2>3. e \in Errors BY Typed
  <2>4. e.xit \in Strings BY <2>3 DEF Errors
  <2>5. [t |-> "S", s |-> e.xit] \in Values(P) BY <2>4 DEF Values, Str
  <2>6. ret' \in Returns /\ stack' = Below BY <1>6, <2>5, Typed DEF Return
  <2> QED BY <1>2, <1>6, <2>2, <2>6, Typed
<1> QED BY <1>4, <1>5, <1>6 DEF Setexit

LEMMA DefineTyped == ASSUME TypeInv, Define PROVE Keeps
<1> DEFINE a == Arg(1)
           d == P.protos[a.s]
<1>1. Ready("DEFINE") /\ UNCHANGED <<rest, match, val, lvl, count>> BY DEF Define
<1>2. ~Entered(Top) /\ Len(stack) > 1 /\ Good(Below) /\ Kept(Below, stack) /\ a \in Values(P)
  BY <1>1, Arguments DEF Unary
<1>3. CASE (Raise(e, 1, "test", r, Below) \/ Raise(e, 6, "test", r, Below)) /\ UNCHANGED fun
  <2>1. /\ Good(stack') /\ Kept(stack', stack) /\ r' \in Registers
        /\ e' \in Errors /\ ret' \in Returns /\ halted' \in BOOLEAN
    BY <1>2, <1>3, Typed, RaisesBelow
  <2>2. UNCHANGED store BY <1>1, <1>3 DEF store
  <2>3. UNCHANGED <<rest, match, store, lvl>> /\ count' = count BY <1>1, <2>2
  <2>4. TypeInv' BY <2>1, <2>3, Typed, Quiet
  <2> QED BY <2>1, <2>4 DEF Keeps
<1>4. CASE /\ a.t = "S" /\ a.s \in DOMAIN P.protos
           /\ fun' = [f \in DOMAIN fun \cup {d.f} |-> IF f = d.f THEN d ELSE fun[f]]
           /\ Return(Value(Null)) /\ UNCHANGED <<r, e, halted>>
  <2>1. d \in Definition BY <1>4, Typed, TheProgram DEF IsProgram
  <2>2. d.f \in Names BY <2>1 DEF Definition
  <2>3. DOMAIN fun \subseteq Names /\ \A f \in DOMAIN fun : fun[f] \in Definition BY DEF TypeInv, TypeOK
  <2> HIDE DEF d
  <2>4. DOMAIN fun \subseteq DOMAIN fun' /\ DOMAIN fun' \subseteq Names /\ \A f \in DOMAIN fun' : fun'[f] \in Definition
    BY <1>4, <2>1, <2>2, <2>3
  <2>5. stack' = Below /\ ret' \in Returns BY <1>4, Typed, NullTyped DEF Return
  <2>6. m' = m /\ hist' = hist /\ list' = list /\ fresh' = fresh /\ struck' = struck /\ prog' = prog /\ val' = val
    BY <1>1 DEF rest, match
  <2>8. Len(hist) <= Len(hist') /\ Len(list) <= Len(list') /\ Within(m)' BY <2>6, Typed DEF Within
  <2>7. TypeInv' BY <1>1, <1>2, <1>4, <2>4, <2>5, <2>6, <2>8, Typed, TypesKeptBy
  <2> QED BY <1>2, <2>5, <2>7 DEF Keeps
<1> QED BY <1>3, <1>4 DEF Define

------------------------------------------------------------------------------
\* EXPVAL and EVAL.
LEMMA AboveTyped == ASSUME NEW q \in MatchRegs PROVE Above(q) \in MatchRegs /\ (Within(q) => Within(Above(q)))
<1>1. Above(q) \in MatchRegs BY DEF Above, MatchRegs
<1>2. Above(q).pdl = q.pdl /\ Above(q).hed = q.pdl /\ Above(q).nam = q.nam /\ Above(q).nhed = q.nam
  BY DEF Above, MatchRegs
<1> QED BY <1>1, <1>2 DEF Within, MatchRegs

LEMMA ExpvalTyped ==
  ASSUME TypeInv, NEW scl \in 0 .. 1, NEW b \in DOMAIN P.code, NEW s, Good(s), Kept(s, stack), Expval(scl, b, s)
  PROVE  Good(stack') /\ Kept(stack', stack) /\ r' \in Registers /\ m' \in MatchRegs /\ Within(m')
<1> DEFINE f == [k |-> "expv", scl |-> scl, base |-> r.base, off |-> r.off, m |-> m]
<1>1. stack' = Append(s, f) /\ r' = [r EXCEPT !.base = b, !.off = 0] /\ m' = Above(m) BY DEF Expval
<1>2. r \in Registers /\ m \in MatchRegs /\ Within(m) BY Typed
<1>3. r.base \in Labels /\ r.off \in Nat BY <1>2 DEF Registers
<1>4. f \in Frames BY <1>2, <1>3 DEF Frames
<1>5. FrameOK(f) /\ ~Entered(f) BY <1>2 DEF FrameOK, Entered
<1>6. r' \in Registers BY <1>1, <1>2 DEF Registers, Labels
<1> HIDE DEF f
<1>7. /\ Good(stack') /\ Len(stack') = Len(s) + 1
      /\ stack'[Len(s) + 1] = f /\ \A i \in 1 .. Len(s) : stack'[i] = s[i]
  BY <1>1, <1>4, <1>5, Pushed
<1>8. DOMAIN s = 1 .. Len(s) /\ DOMAIN stack' = 1 .. Len(s) + 1 /\ Len(s) \in Nat BY <1>7 DEF Good
<1>9. Kept(stack', s)
  <2>1. \A i \in DOMAIN stack' : i = Len(s) + 1 \/ i \in DOMAIN s BY <1>8
  <2>2. \A i \in DOMAIN s : i \in DOMAIN stack' /\ stack'[i] = s[i] BY <1>7, <1>8
  <2> QED BY <1>5, <1>7, <2>1, <2>2 DEF Kept, Calls
<1> QED BY <1>1, <1>2, <1>6, <1>7, <1>9, KeptMore, AboveTyped

LEMMA ExpvaledTyped ==
  ASSUME TypeInv, Top.k = "expv", NEW x \in Returns, Expvaled(x)
  PROVE  Good(stack') /\ Kept(stack', stack) /\ r' \in Registers /\ m' \in MatchRegs /\ Within(m') /\ ret' \in Returns
<1>1. r' = [r EXCEPT !.base = Top.base, !.off = Top.off] /\ m' = Top.m /\ ret' = x /\ stack' = Below BY DEF Expvaled, Return
<1>2. Top \in Frames /\ FrameOK(Top) /\ Good(Below) /\ Kept(Below, stack) BY TopIs
<1>3. Top.base \in Labels /\ Top.off \in Nat /\ Top.m \in MatchRegs /\ Within(Top.m) BY <1>2, FrameTyped DEF FrameOK
<1>4. r' \in Registers BY <1>1, <1>3, Typed DEF Registers
<1> QED BY <1>1, <1>2, <1>3, <1>4

LEMMA NameOrValueTyped == ASSUME TypeInv, NEW x \in Names PROVE NameOrValue(x) \in Returns
BY Typed DEF NameOrValue

\* A step that leaves values, functions and what is in memory of matches alone.
LEMMA OnlyRegs ==
  ASSUME TypeInv, UNCHANGED <<rest, hist, list, fresh, store, lvl, count>>, Good(stack'), Kept(stack', stack),
         r' \in Registers, m' \in MatchRegs, Within(m'), e' \in Errors, ret' \in Returns, halted' \in BOOLEAN
  PROVE  Keeps
<1>1. /\ hist' \in Seq(Nat) /\ list' \in Seq([own : Nat, x : Names, v : Str]) /\ fresh' \in Nat
      /\ val' \in [Names -> Values(P)] /\ lvl' \in Nat /\ struck' \in 0 .. P.interrupts /\ count' \in 0 .. P.limit
      /\ prog' = prog /\ fun' = fun
  BY Typed DEF rest, store
<1>2. DOMAIN fun' \subseteq Names /\ \A f \in DOMAIN fun' : fun'[f] \in Definition BY <1>1 DEF TypeInv, TypeOK
<1>3. Len(hist) <= Len(hist') /\ Len(list) <= Len(list') /\ Within(m)' BY Typed DEF Within
<1> QED BY <1>1, <1>2, <1>3, TypesKeptBy DEF Keeps

LEMMA ExpvalCodeTyped == ASSUME TypeInv, ExpvalCode PROVE Keeps
<1>1. Top.k = "expv" /\ UNCHANGED <<rest, hist, list, fresh, store, lvl, count>> BY DEF ExpvalCode, In
<1>2. CASE Here.c = "name"
  <2>1. Expvaled(NameOrValue(Here.x)) /\ UNCHANGED <<e, halted>> BY <1>2 DEF ExpvalCode
  <2>2. NameOrValue(Here.x) \in Returns BY <1>2, HereTyped, NameOrValueTyped
  <2>3. Good(stack') /\ Kept(stack', stack) /\ r' \in Registers /\ m' \in MatchRegs /\ Within(m') /\ ret' \in Returns
    BY <1>1, <2>1, <2>2, ExpvaledTyped
  <2> QED BY <1>1, <2>1, <2>3, Typed, OnlyRegs
<1>3. CASE Here.c \in {"call", "op"} /\ Invoke(Here) /\ UNCHANGED m
  <2>1. /\ Good(stack') /\ Grown(stack', stack) /\ r' \in Registers
        /\ e' \in Errors /\ ret' \in Returns /\ halted' \in BOOLEAN
    BY <1>3, Typed, Invokes
  <2>2. Kept(stack', stack) BY <2>1, Typed, Pushes
  <2> QED BY <1>1, <1>3, <2>1, <2>2, Typed, OnlyRegs
<1> QED BY <1>2, <1>3 DEF ExpvalCode

LEMMA ExpvalBackTyped == ASSUME TypeInv, ExpvalBack PROVE Keeps
<1> DEFINE x == IF ret.n = 2 THEN NameOrValue(ret.x) ELSE ret
<1>1. Top.k = "expv" /\ Expvaled(x) /\ UNCHANGED <<rest, hist, list, fresh, store, e, lvl, count, halted>>
  BY DEF ExpvalBack, Back
<1>2. x \in Returns
  <2>1. ret \in Returns /\ (ret.n = 2 => ret.x \in Names) BY Typed, BackTyped
  <2> QED BY <2>1, NameOrValueTyped
<1> HIDE DEF x
<1>3. Good(stack') /\ Kept(stack', stack) /\ r' \in Registers /\ m' \in MatchRegs /\ Within(m') /\ ret' \in Returns
  BY <1>1, <1>2, ExpvaledTyped
<1> QED BY <1>1, <1>3, Typed, OnlyRegs

LEMMA EvalTyped == ASSUME TypeInv, Eval PROVE Keeps
<1> DEFINE a == Arg(1)
<1>1. Ready("EVAL") /\ UNCHANGED <<rest, hist, list, fresh, store, lvl, count>> BY DEF Eval
<1>2. ~Entered(Top) /\ Len(stack) > 1 /\ Good(Below) /\ Kept(Below, stack) /\ a \in Values(P)
  BY <1>1, Arguments DEF Unary
<1>3. ASSUME NEW b \in DOMAIN P.code, Expval(0, b, Below), UNCHANGED <<ret, e, halted>> PROVE Keeps
  <2>1. Good(stack') /\ Kept(stack', stack) /\ r' \in Registers /\ m' \in MatchRegs /\ Within(m')
    BY <1>2, <1>3, ExpvalTyped
  <2> QED BY <1>1, <1>3, <2>1, Typed, OnlyRegs
<1>4. CASE a.t = "E" /\ Expval(0, a.b, Below) /\ UNCHANGED <<ret, e, halted>>
  <2>1. a.b \in DOMAIN P.code BY <1>2, <1>4 DEF Values, Str
  <2> QED BY <1>3, <1>4, <2>1
<1>5. CASE a.t = "S" /\ a.s \in DOMAIN P.compiled /\ Expval(0, P.compiled[a.s], Below) /\ UNCHANGED <<ret, e, halted>>
  <2>1. P.compiled[a.s] \in DOMAIN P.code BY <1>5, Typed, TheProgram DEF IsProgram
  <2> QED BY <1>3, <1>5, <2>1
<1>6. CASE Return(IF a.s = "" THEN Value(Null) ELSE Fail) /\ UNCHANGED <<r, m, e, halted>>
  <2>1. stack' = Below /\ ret' \in Returns BY <1>6, Typed, NullTyped DEF Return
  <2> QED BY <1>1, <1>2, <1>6, <2>1, Typed, OnlyRegs
<1>7. CASE Raise(e, 1, "test", r, Below) /\ UNCHANGED m
  <2>1. /\ Good(stack') /\ Kept(stack', stack) /\ r' \in Registers
        /\ e' \in Errors /\ ret' \in Returns /\ halted' \in BOOLEAN
    BY <1>2, <1>7, Typed, RaisesBelow
  <2> QED BY <1>1, <1>7, <2>1, Typed, OnlyRegs
<1> QED BY <1>4, <1>5, <1>6, <1>7 DEF Eval

------------------------------------------------------------------------------
\* Matching.
MatchFrame == [k : {"match"}, id : Nat, ps : Seq(Parts(P)), ph : {"scan", "now", "names", "named"}, i : Nat, m : MatchRegs]

LEMMA MatchFrames ==
  ASSUME NEW f \in MatchFrame, f.ph \in {"now", "named"} => Within(f.m)
  PROVE  f \in Frames /\ FrameOK(f) /\ ~Entered(f) /\ f.k = "match"
BY DEF MatchFrame, Frames, FrameOK, Entered

LEMMA MatchTop ==
  ASSUME TypeInv, Top.k = "match"
  PROVE  /\ Top \in MatchFrame /\ Len(stack) > 1 /\ ~Entered(Top) /\ Good(Below) /\ Kept(Below, stack)
         /\ Top.id \in Nat /\ Top.i \in Nat /\ Top.m \in MatchRegs
         /\ Top.ps # <<>> => Part \in Parts(P) /\ Taken \in MatchFrame /\ Taken.ph = Top.ph
         /\ Top.ph \in {"now", "named"} => Within(Top.m)
<1>1. Good(stack) /\ Len(stack) > 1 /\ Top \in Frames /\ FrameOK(Top) /\ ~Entered(Top) /\ Good(Below) /\ Kept(Below, stack) BY TopIs
<1>2. Top \in MatchFrame BY <1>1, FrameTyped DEF MatchFrame
<1>3. ASSUME Top.ps # <<>> PROVE Part \in Parts(P) /\ Taken \in MatchFrame /\ Taken.ph = Top.ph
  <2>1. Top.ps \in Seq(Parts(P)) BY <1>2 DEF MatchFrame
  <2>2. Head(Top.ps) \in Parts(P) /\ Tail(Top.ps) \in Seq(Parts(P)) BY <1>3, <2>1
  <2> DEFINE t == Tail(Top.ps)
  <2>3. Taken = [Top EXCEPT !.ps = t] BY DEF Taken
  <2> HIDE DEF t
  <2>4. [Top EXCEPT !.ps = t] \in MatchFrame /\ [Top EXCEPT !.ps = t].ph = Top.ph BY <1>2, <2>2 DEF t, MatchFrame
  <2> QED BY <2>2, <2>3, <2>4 DEF Part
<1>4. Top.ph \in {"now", "named"} => Within(Top.m) BY <1>1 DEF FrameOK
<1> QED BY <1>1, <1>2, <1>3, <1>4 DEF MatchFrame

LEMMA PartTyped ==
  ASSUME NEW q \in Parts(P), ProgOK
  PROVE  /\ q.q = "EXP" => q.b \in DOMAIN P.code
         /\ q.q \in {"NAME", "NOW"} => q.x \in Names /\ q.v \in Str /\ q.v \in Values(P)
BY DEF Parts, Values

LEMMA PutTyped ==
  ASSUME NEW S, NEW s \in Seq(S), NEW i \in Nat, NEW x \in S
  PROVE  /\ Put(s, i, x) \in Seq(S) /\ Len(s) \in Nat /\ Len(s) <= Len(Put(s, i, x))
         /\ i <= Len(s) + 1 => i <= Len(Put(s, i, x))
<1>1. CASE i = Len(s) + 1
  <2>1. Put(s, i, x) = Append(s, x) BY <1>1 DEF Put
  <2>2. Append(s, x) \in Seq(S) /\ Len(Append(s, x)) = Len(s) + 1 /\ Len(s) \in Nat OBVIOUS
  <2> QED BY <1>1, <2>1, <2>2
<1>2. CASE i # Len(s) + 1
  <2>1. Put(s, i, x) = [s EXCEPT ![i] = x] BY <1>2 DEF Put
  <2>2. [s EXCEPT ![i] = x] \in Seq(S) /\ Len([s EXCEPT ![i] = x]) = Len(s) /\ Len(s) \in Nat
    <3>1. s \in [1 .. Len(s) -> S] /\ Len(s) \in Nat OBVIOUS
    <3>2. [s EXCEPT ![i] = x] \in [1 .. Len(s) -> S] BY <3>1
    <3> QED BY <3>1, <3>2, SeqDef
  <2> HIDE DEF Put
  <2> QED BY <1>2, <2>1, <2>2
<1> QED BY <1>1, <1>2

\* A step of a match, which may put something in memory and assign a value.
LEMMA MatchSteps ==
  ASSUME TypeInv, UNCHANGED <<rest, fun, lvl, count>>, Good(stack'), Kept(stack', stack),
         r' \in Registers, m' \in MatchRegs, Within(m)', e' \in Errors, ret' \in Returns, halted' \in BOOLEAN,
         hist' \in Seq(Nat), Len(hist) <= Len(hist'), list' \in Seq([own : Nat, x : Names, v : Str]),
         Len(list) <= Len(list'), fresh' \in Nat, val' \in [Names -> Values(P)]
  PROVE  Keeps
<1>1. lvl' \in Nat /\ struck' \in 0 .. P.interrupts /\ count' \in 0 .. P.limit /\ prog' = prog /\ fun' = fun
  BY Typed DEF rest
<1>2. DOMAIN fun' \subseteq Names /\ \A f \in DOMAIN fun' : fun'[f] \in Definition BY <1>1 DEF TypeInv, TypeOK
<1> QED BY <1>1, <1>2, TypesKeptBy DEF Keeps

LEMMA RecordTyped ==
  ASSUME TypeInv, Top.k = "match", NEW q \in MatchRegs, q.hed <= q.pdl, q.pdl <= Len(hist), Record(q)
  PROVE  /\ hist' \in Seq(Nat) /\ m' \in MatchRegs /\ Len(hist) <= Len(hist')
         /\ m'.hed <= m'.pdl /\ m'.pdl <= Len(hist') /\ m'.nhed = q.nhed /\ m'.nam = q.nam
<1>1. hist' = Put(hist, q.pdl + 1, Top.id) /\ m' = [q EXCEPT !.pdl = @ + 1] BY DEF Record
<1>2. m' \in MatchRegs /\ m'.pdl = q.pdl + 1 /\ m'.hed = q.hed /\ m'.nhed = q.nhed /\ m'.nam = q.nam BY <1>1 DEF MatchRegs
<1>3. Top.id \in Nat BY MatchTop
<1>4. q.pdl \in Nat /\ q.hed \in Nat /\ q.pdl + 1 \in Nat BY DEF MatchRegs
<1>5. hist \in Seq(Nat) /\ Len(hist) \in Nat BY Typed
<1>6. /\ hist' \in Seq(Nat) /\ Len(hist) <= Len(hist')
      /\ q.pdl + 1 <= Len(hist) + 1 => q.pdl + 1 <= Len(hist')
  BY <1>1, <1>3, <1>4, <1>5, PutTyped
<1> QED BY <1>2, <1>4, <1>5, <1>6

LEMMA ScanTyped == ASSUME TypeInv, Scan PROVE Keeps
<1> DEFINE a == Arg(1)
           q == [m EXCEPT !.pdl = m.hed + 1, !.nam = m.nhed, !.text = fresh + 1]
           f == [k |-> "match", id |-> fresh + 1, ps |-> a.ps, ph |-> "scan", i |-> 0, m |-> q]
<1>1. Ready("SCAN") /\ UNCHANGED <<rest, store, lvl, count>> BY DEF Scan
<1>2. ~Entered(Top) /\ Len(stack) > 1 /\ Good(Below) /\ Kept(Below, stack) /\ a \in Values(P)
  BY <1>1, Arguments DEF Unary
<1>3. CASE a.t # "P"
  <2>1. Raise(e, 1, "test", r, Below) /\ UNCHANGED match BY <1>3 DEF Scan
  <2>2. /\ Good(stack') /\ Kept(stack', stack) /\ r' \in Registers
        /\ e' \in Errors /\ ret' \in Returns /\ halted' \in BOOLEAN
    BY <1>2, <2>1, Typed, RaisesBelow
  <2> QED BY <1>1, <2>1, <2>2, Typed, Quiet DEF Keeps
<1>4. CASE a.t = "P"
  <2>1. /\ fresh' = fresh + 1 /\ m' = q /\ hist' = Put(hist, m.hed + 1, fresh + 1)
        /\ stack' = With(f) /\ UNCHANGED <<list, r, e, ret, halted>>
    BY <1>4 DEF Scan
  <2>2. q \in MatchRegs /\ m.hed + 1 \in Nat /\ fresh + 1 \in Nat
    <3>1. m \in MatchRegs /\ fresh + 1 \in Nat BY Typed
    <3>2. m.hed \in Nat /\ m.hed + 1 \in Nat /\ m.nhed \in Nat BY <3>1 DEF MatchRegs
    <3>3. \A p, n, t \in Nat : [m EXCEPT !.pdl = p, !.nam = n, !.text = t] \in MatchRegs BY <3>1 DEF MatchRegs
    <3> QED BY <3>1, <3>2, <3>3
  <2>3. a.ps \in Seq(Parts(P)) BY <1>2, <1>4 DEF Values, Str
  <2>9. q.pdl = m.hed + 1 /\ q.hed = m.hed /\ q.nam = m.nhed /\ q.nhed = m.nhed
    <3>1. m \in MatchRegs BY Typed
    <3> QED BY <3>1 DEF MatchRegs
  <2> HIDE DEF q
  <2>4. f \in MatchFrame /\ f.ph = "scan" BY <2>2, <2>3 DEF MatchFrame
  <2> HIDE DEF f
  <2>5. Good(stack') /\ Kept(stack', stack) BY <1>2, <2>1, <2>4, MatchFrames, Replaces
  <2>6. /\ hist' \in Seq(Nat) /\ Len(hist) <= Len(hist') /\ Len(hist) \in Nat
        /\ m.hed + 1 <= Len(hist) + 1 => m.hed + 1 <= Len(hist')
    BY <2>1, <2>2, Typed, PutTyped
  <2>7. list' \in Seq([own : Nat, x : Names, v : Str]) /\ Len(list) <= Len(list') /\ Len(list) \in Nat
    BY <2>1, Typed
  <2>10. Within(m)'
    <3>1. m \in MatchRegs /\ Within(m) BY Typed
    <3> QED BY <2>1, <2>6, <2>7, <2>9, <3>1 DEF Within, MatchRegs
  <2>8. val' \in [Names -> Values(P)] /\ fun' = fun BY <1>1, Typed DEF store
  <2> QED BY <1>1, <2>1, <2>2, <2>5, <2>6, <2>7, <2>8, <2>10, Typed, MatchSteps
<1> QED BY <1>3, <1>4

LEMMA ScanFailsTyped == ASSUME TypeInv, ScanFails PROVE Keeps
<1>1. Top.k = "match" /\ ret' = Fail /\ stack' = Below /\ UNCHANGED <<rest, match, store, r, e, lvl, count, halted>>
  BY DEF ScanFails, Matching, In, Return
<1>2. Good(stack') /\ Kept(stack', stack) BY <1>1, MatchTop
<1> QED BY <1>1, <1>2, Typed, Quiet DEF Keeps

LEMMA ScanExpTyped == ASSUME TypeInv, ScanExp PROVE Keeps
<1>1. /\ Top.k = "match" /\ Top.ph = "scan" /\ Top.ps # <<>> /\ Part.q = "EXP" /\ Expval(1, Part.b, With(Taken))
      /\ UNCHANGED <<rest, hist, list, fresh, store, e, ret, lvl, count, halted>>
  BY DEF ScanExp, Matching, In
<1>2. Len(stack) > 1 /\ ~Entered(Top) /\ Part \in Parts(P) /\ Taken \in MatchFrame /\ Taken.ph = "scan"
  BY <1>1, MatchTop
<1>3. Good(With(Taken)) /\ Kept(With(Taken), stack) BY <1>2, MatchFrames, Replaces
<1>4. Part.b \in DOMAIN P.code BY <1>1, <1>2, Typed, PartTyped
<1>5. Good(stack') /\ Kept(stack', stack) /\ r' \in Registers /\ m' \in MatchRegs /\ Within(m') BY <1>1, <1>3, <1>4, ExpvalTyped
<1> QED BY <1>1, <1>5, Typed, OnlyRegs

LEMMA ScanExpBackTyped == ASSUME TypeInv, ScanExpBack PROVE Keeps
<1>1. Top.k = "match" /\ UNCHANGED <<rest, list, fresh, store, lvl, count>> BY DEF ScanExpBack, Back
<1>2. CASE (Return(Fail) \/ (ret' = None /\ UNCHANGED stack)) /\ UNCHANGED <<m, hist, r, e, halted>>
  <2>1. Good(stack') /\ Kept(stack', stack) /\ ret' \in Returns BY <1>1, <1>2, MatchTop, Typed, KeptSame DEF Return
  <2> QED BY <1>1, <1>2, <2>1, Typed, OnlyRegs
<1>3. CASE Raise(e, 1, "scan", r, stack) /\ UNCHANGED <<m, hist>>
  <2>1. /\ Good(stack') /\ Grown(stack', stack) /\ r' \in Registers
        /\ e' \in Errors /\ ret' = None /\ halted' \in BOOLEAN
    BY <1>3, Typed, Raises
  <2>2. Kept(stack', stack) BY <2>1, Typed, Pushes
  <2> QED BY <1>1, <1>3, <2>1, <2>2, Typed, OnlyRegs
<1>4. CASE Record(m) /\ ret' = None /\ UNCHANGED <<r, e, stack, halted>>
  <2>1. /\ hist' \in Seq(Nat) /\ m' \in MatchRegs /\ Len(hist) <= Len(hist')
        /\ m'.hed <= m'.pdl /\ m'.pdl <= Len(hist') /\ m'.nhed = m.nhed /\ m'.nam = m.nam
    BY <1>1, <1>4, Typed, RecordTyped DEF Within
  <2>2. Good(stack') /\ Kept(stack', stack) BY <1>4, Typed, KeptSame
  <2>3. list' \in Seq([own : Nat, x : Names, v : Str]) /\ Len(list) <= Len(list') /\ fresh' \in Nat BY <1>1, Typed
  <2>4. val' \in [Names -> Values(P)] /\ fun' = fun BY <1>1, Typed DEF store
  <2>5. Within(m)' BY <1>1, <2>1, Typed DEF Within
  <2> QED BY <1>1, <1>4, <2>1, <2>2, <2>3, <2>4, <2>5, Typed, MatchSteps
<1> QED BY <1>2, <1>3, <1>4 DEF ScanExpBack

LEMMA ScanNameTyped == ASSUME TypeInv, ScanName PROVE Keeps
<1> DEFINE q == [m EXCEPT !.nam = @ + 1]
           n == [own |-> Top.id, x |-> Part.x, v |-> Part.v]
<1>1. /\ Top.k = "match" /\ Top.ph = "scan" /\ Top.ps # <<>> /\ Part.q = "NAME" /\ list' = Put(list, m.nam + 1, n)
      /\ Record(q) /\ stack' = With(Taken) /\ UNCHANGED <<rest, fresh, store, r, e, ret, lvl, count, halted>>
  BY DEF ScanName, Matching, In
<1>2. Len(stack) > 1 /\ ~Entered(Top) /\ Part \in Parts(P) /\ Taken \in MatchFrame /\ Taken.ph = "scan" /\ Top.id \in Nat
  BY <1>1, MatchTop
<1>3. Good(stack') /\ Kept(stack', stack) BY <1>1, <1>2, MatchFrames, Replaces
<1>4. q \in MatchRegs /\ m.nam + 1 \in Nat /\ q.hed = m.hed /\ q.pdl = m.pdl /\ q.nhed = m.nhed /\ q.nam = m.nam + 1
  <2>1. m \in MatchRegs BY Typed
  <2> QED BY <2>1 DEF MatchRegs
<1>5. n \in [own : Nat, x : Names, v : Str]
  <2>1. Part.x \in Names /\ Part.v \in Str BY <1>1, <1>2, Typed, PartTyped
  <2> QED BY <1>2, <2>1
<1> HIDE DEF q, n
<1>6. /\ hist' \in Seq(Nat) /\ m' \in MatchRegs /\ Len(hist) <= Len(hist')
      /\ m'.hed <= m'.pdl /\ m'.pdl <= Len(hist') /\ m'.nhed = q.nhed /\ m'.nam = q.nam
  BY <1>1, <1>4, Typed, RecordTyped DEF Within
<1>7. /\ list' \in Seq([own : Nat, x : Names, v : Str]) /\ Len(list) <= Len(list') /\ Len(list) \in Nat
      /\ m.nam + 1 <= Len(list) + 1 => m.nam + 1 <= Len(list')
  BY <1>1, <1>4, <1>5, Typed, PutTyped
<1>8. val' \in [Names -> Values(P)] /\ fun' = fun BY <1>1, Typed DEF store
<1>9. Within(m)'
  <2>1. m \in MatchRegs /\ Within(m) BY Typed
  <2> QED BY <1>4, <1>6, <1>7, <2>1 DEF Within, MatchRegs
<1> QED BY <1>1, <1>3, <1>6, <1>7, <1>8, <1>9, Typed, MatchSteps

LEMMA ScanNowTyped == ASSUME TypeInv, ScanNow PROVE Keeps
<1> DEFINE f == [Taken EXCEPT !.ph = "now", !.m = m]
<1>1. /\ Top.k = "match" /\ Top.ps # <<>> /\ Part.q = "NOW" /\ val' = [val EXCEPT ![Part.x] = Part.v]
      /\ m' = IF Traced(r, <<"VALUE", Part.x>>) THEN Above(m) ELSE m
      /\ Trap(<<"VALUE", Part.x>>, r, With(f))
      /\ UNCHANGED <<rest, hist, list, fresh, fun, e, ret, lvl, count, halted>>
  BY DEF ScanNow, Matching, In
<1>2. Len(stack) > 1 /\ ~Entered(Top) /\ Part \in Parts(P) /\ Taken \in MatchFrame BY <1>1, MatchTop
<1>3. f \in MatchFrame /\ f.m = m BY <1>2, Typed DEF MatchFrame
<1> HIDE DEF f
<1>4. Good(With(f)) /\ Kept(With(f), stack) BY <1>2, <1>3, Typed, MatchFrames, Replaces
<1>5. Good(stack') /\ Kept(stack', stack) /\ r' \in Registers BY <1>1, <1>4, Typed, TrapsOver
<1>6. m' \in MatchRegs /\ Within(m') BY <1>1, Typed, AboveTyped
<1>9. hist' \in Seq(Nat) /\ Len(hist) <= Len(hist') /\ Len(list) <= Len(list') /\ Within(m)' BY <1>1, <1>6, Typed DEF Within
<1>7. Part.x \in Names /\ Part.v \in Values(P) BY <1>1, <1>2, Typed, PartTyped
<1>8. val' \in [Names -> Values(P)] BY <1>1, <1>7, Typed
<1> QED BY <1>1, <1>5, <1>6, <1>8, <1>9, Typed, MatchSteps

LEMMA ScanNowedTyped == ASSUME TypeInv, ScanNowed PROVE Keeps
<1> DEFINE f == [Top EXCEPT !.ph = "scan"]
<1>1. /\ Top.k = "match" /\ Top.ph = "now" /\ Record(Top.m) /\ stack' = With(f)
      /\ UNCHANGED <<rest, list, fresh, store, r, e, ret, lvl, count, halted>>
  BY DEF ScanNowed, Matching, In
<1>2. Len(stack) > 1 /\ ~Entered(Top) /\ Top \in MatchFrame /\ Top.m \in MatchRegs /\ Within(Top.m)
  BY <1>1, MatchTop
<1>3. f \in MatchFrame /\ f.ph = "scan" BY <1>2 DEF MatchFrame
<1> HIDE DEF f
<1>4. Good(stack') /\ Kept(stack', stack) BY <1>1, <1>2, <1>3, MatchFrames, Replaces
<1>5. /\ hist' \in Seq(Nat) /\ m' \in MatchRegs /\ Len(hist) <= Len(hist')
      /\ m'.hed <= m'.pdl /\ m'.pdl <= Len(hist') /\ m'.nhed = Top.m.nhed /\ m'.nam = Top.m.nam
  BY <1>1, <1>2, RecordTyped DEF Within
<1>6. list' \in Seq([own : Nat, x : Names, v : Str]) /\ Len(list) <= Len(list') /\ fresh' \in Nat BY <1>1, Typed
<1>7. val' \in [Names -> Values(P)] /\ fun' = fun BY <1>1, Typed DEF store
<1>8. Within(m)' BY <1>1, <1>2, <1>5 DEF Within
<1> QED BY <1>1, <1>4, <1>5, <1>6, <1>7, <1>8, Typed, MatchSteps

LEMMA Named1Typed == ASSUME TypeInv, Named1 PROVE Keeps
<1> DEFINE f == [Top EXCEPT !.ph = "names", !.i = m.nhed]
<1>1. Top.k = "match" /\ stack' = With(f) /\ UNCHANGED <<rest, match, store, r, e, ret, lvl, count, halted>>
  BY DEF Named1, Matching, In
<1>2. Len(stack) > 1 /\ ~Entered(Top) /\ Top \in MatchFrame BY <1>1, MatchTop
<1>3. m.nhed \in Nat BY Typed DEF MatchRegs
<1>4. f \in MatchFrame /\ f.ph = "names" BY <1>2, <1>3 DEF MatchFrame
<1> HIDE DEF f
<1>5. Good(stack') /\ Kept(stack', stack) BY <1>1, <1>2, <1>4, MatchFrames, Replaces
<1> QED BY <1>1, <1>5, Typed, Quiet DEF Keeps

LEMMA NmdTyped == ASSUME TypeInv, Nmd PROVE Keeps
<1> DEFINE f == [Top EXCEPT !.ph = "named", !.i = @ + 1, !.m = m]
           n == list[Top.i + 1]
<1>1. /\ Top.k = "match" /\ Top.i < m.nam /\ val' = [val EXCEPT ![n.x] = n.v]
      /\ m' = IF Traced(r, <<"VALUE", n.x>>) THEN [m EXCEPT !.nhed = m.nam] ELSE m
      /\ Trap(<<"VALUE", n.x>>, r, With(f))
      /\ UNCHANGED <<rest, hist, list, fresh, fun, e, ret, lvl, count, halted>>
  BY DEF Nmd, Matching, In
<1>2. Len(stack) > 1 /\ ~Entered(Top) /\ Top \in MatchFrame BY <1>1, MatchTop
<1>3. f \in MatchFrame /\ f.m = m
  <2>1. m \in MatchRegs /\ Top.i + 1 \in Nat BY <1>2, Typed DEF MatchFrame
  <2> QED BY <1>2, <2>1 DEF MatchFrame
<1>4. n \in [own : Nat, x : Names, v : Str]
  <2>1. \A S : \A s \in Seq(S) : \A j \in 1 .. Len(s) : s[j] \in S OBVIOUS
  <2>2. Top.i \in Nat /\ m.nam \in Nat /\ Len(list) \in Nat /\ m.nam <= Len(list)
    BY <1>2, Typed DEF MatchFrame, MatchRegs, Within
  <2>3. Top.i + 1 \in 1 .. Len(list) BY <1>1, <2>2
  <2> QED BY <2>1, <2>3, Typed
<1> HIDE DEF f, n
<1>5. Good(With(f)) /\ Kept(With(f), stack) BY <1>2, <1>3, Typed, MatchFrames, Replaces
<1>6. Good(stack') /\ Kept(stack', stack) /\ r' \in Registers BY <1>1, <1>5, Typed, TrapsOver
<1>7. m' \in MatchRegs /\ Within(m')
  <2> DEFINE q == [m EXCEPT !.nhed = m.nam]
  <2>1. q \in MatchRegs /\ q.nhed = m.nam /\ q.nam = m.nam /\ q.hed = m.hed /\ q.pdl = m.pdl
    <3>1. m \in MatchRegs BY Typed
    <3> QED BY <3>1 DEF MatchRegs
  <2>2. Within(q) BY <2>1, Typed DEF Within, MatchRegs
  <2> HIDE DEF q
  <2> QED BY <1>1, <2>1, <2>2, Typed DEF q
<1>10. hist' \in Seq(Nat) /\ Len(hist) <= Len(hist') /\ Len(list) <= Len(list') /\ Within(m)' BY <1>1, <1>7, Typed DEF Within
<1>8. n.x \in Names /\ n.v \in Values(P) BY <1>4 DEF Values
<1>9. val' \in [Names -> Values(P)] BY <1>1, <1>8, Typed
<1> QED BY <1>1, <1>6, <1>7, <1>9, <1>10, Typed, MatchSteps

LEMMA NmdedTyped == ASSUME TypeInv, Nmded PROVE Keeps
<1> DEFINE f == [Top EXCEPT !.ph = "names"]
<1>1. /\ Top.k = "match" /\ Top.ph = "named" /\ m' = [m EXCEPT !.nam = Top.m.nam, !.nhed = Top.m.nhed] /\ stack' = With(f)
      /\ UNCHANGED <<rest, hist, list, fresh, store, r, e, ret, lvl, count, halted>>
  BY DEF Nmded, Matching, In
<1>2. Len(stack) > 1 /\ ~Entered(Top) /\ Top \in MatchFrame /\ Top.m \in MatchRegs /\ Within(Top.m)
  BY <1>1, MatchTop
<1>3. f \in MatchFrame /\ f.ph = "names" BY <1>2 DEF MatchFrame
<1> HIDE DEF f
<1>4. Good(stack') /\ Kept(stack', stack) BY <1>1, <1>2, <1>3, MatchFrames, Replaces
<1>5. m' \in MatchRegs /\ Within(m')
  <2>1. m \in MatchRegs /\ Within(m) BY Typed
  <2>2. m' \in MatchRegs /\ m'.hed = m.hed /\ m'.pdl = m.pdl /\ m'.nam = Top.m.nam /\ m'.nhed = Top.m.nhed
    BY <1>1, <1>2, <2>1 DEF MatchRegs
  <2> QED BY <1>2, <2>1, <2>2 DEF Within
<1> QED BY <1>1, <1>4, <1>5, Typed, OnlyRegs

LEMMA ScannedTyped == ASSUME TypeInv, Scanned PROVE Keeps
<1>1. /\ Top.k = "match" /\ ret' = Value([t |-> "S", s |-> "text"]) /\ stack' = Below
      /\ UNCHANGED <<rest, match, store, r, e, lvl, count, halted>>
  BY DEF Scanned, Matching, In, Return
<1>2. Good(stack') /\ Kept(stack', stack) BY <1>1, MatchTop
<1>3. [t |-> "S", s |-> "text"] \in Values(P) BY ProgramsAssumption DEF ProgramsAssumption, Values, Str, Strings
<1>4. ret' \in Returns BY <1>1, <1>3, Typed
<1> QED BY <1>1, <1>2, <1>4, Typed, Quiet DEF Keeps

------------------------------------------------------------------------------
\* Where a name is bound first and last.
LEMMA Least == ASSUME NEW S \in SUBSET Nat, S # {} PROVE \E x \in S : \A y \in S : x <= y
<1> DEFINE U == {0 .. x : x \in S}
<1>1. U \subseteq FiniteSubsetsOf(Nat)
  <2>1. \A x \in S : 0 .. x \subseteq Nat /\ IsFiniteSet(0 .. x) BY FS_Interval
  <2> QED BY <2>1 DEF FiniteSubsetsOf
<1>2. U # {} OBVIOUS
<1>3. PICK u \in U : \A w \in U : ~(<<w, u>> \in StrictSubsetOrdering(Nat))
  <2> HIDE DEF U
  <2> QED BY <1>1, <1>2, FS_StrictSubsetOrderingWellFounded, WFMin
<1>4. PICK x \in S : u = 0 .. x OBVIOUS
<1>5. ASSUME NEW y \in S, y < x PROVE FALSE
  <2>1. 0 .. y \subseteq 0 .. x /\ x \notin 0 .. y /\ x \in 0 .. x BY <1>5
  <2>2. 0 .. y \in SUBSET Nat /\ 0 .. x \in SUBSET Nat OBVIOUS
  <2>3. <<0 .. y, 0 .. x>> \in StrictSubsetOrdering(Nat) BY <2>1, <2>2 DEF StrictSubsetOrdering
  <2> QED BY <1>3, <1>4, <2>3
<1> QED BY <1>5

LEMMA FirstFound ==
  ASSUME NEW S, NEW ns \in Seq(S), NEW x \in Range(ns)
  PROVE  /\ First(ns, x) \in DOMAIN ns /\ ns[First(ns, x)] = x
         /\ \A j \in DOMAIN ns : ns[j] = x => First(ns, x) <= j
<1> DEFINE I == {i \in DOMAIN ns : ns[i] = x}
<1>1. DOMAIN ns = 1 .. Len(ns) /\ Len(ns) \in Nat OBVIOUS
<1>2. I \in SUBSET Nat /\ I # {} BY <1>1 DEF Range
<1>3. \E i \in I : \A j \in I : i <= j
  <2> HIDE DEF I
  <2> QED BY <1>2, Least
<1>4. \E i \in DOMAIN ns : ns[i] = x /\ \A j \in DOMAIN ns : ns[j] = x => i <= j BY <1>3
<1> QED BY <1>4 DEF First

LEMMA FinalFound ==
  ASSUME NEW S, NEW ns \in Seq(S), NEW x \in Range(ns)
  PROVE  Final(ns, x) \in DOMAIN ns /\ ns[Final(ns, x)] = x
<1> DEFINE I == {Len(ns) - i : i \in {j \in DOMAIN ns : ns[j] = x}}
<1>1. DOMAIN ns = 1 .. Len(ns) /\ Len(ns) \in Nat OBVIOUS
<1>2. I \in SUBSET Nat /\ I # {} BY <1>1 DEF Range
<1>3. PICK k \in I : \A j \in I : k <= j
  <2> HIDE DEF I
  <2> QED BY <1>2, Least
<1>4. PICK i \in DOMAIN ns : ns[i] = x /\ k = Len(ns) - i OBVIOUS
<1>5. \A j \in DOMAIN ns : ns[j] = x => j <= i
  <2> SUFFICES ASSUME NEW j \in DOMAIN ns, ns[j] = x PROVE j <= i OBVIOUS
  <2>1. Len(ns) - j \in I OBVIOUS
  <2> HIDE DEF I
  <2>2. Len(ns) - i <= Len(ns) - j BY <1>3, <1>4, <2>1
  <2> QED BY <1>1, <1>4, <2>2
<1> QED BY <1>4, <1>5 DEF Final

LEMMA BoundTyped ==
  ASSUME NEW d \in Definition
  PROVE  Bound(d) \in Seq(Names) /\ Range(Bound(d)) \subseteq Names
<1>1. <<d.f>> \in Seq(Names) /\ d.args \in Seq(Names) /\ d.locals \in Seq(Names) BY DEF Definition
<1>2. Bound(d) \in Seq(Names) BY <1>1 DEF Bound
<1>3. \A s \in Seq(Names) : Range(s) \subseteq Names BY DEF Range
<1> QED BY <1>2, <1>3

\* New values, old ones put aside, and old ones put back.
LEMMA ActualTyped ==
  ASSUME ProgOK, NEW d \in Definition, NEW a \in Seq(Values(P))
  PROVE  Actual(d, a) \in [DOMAIN Bound(d) -> Values(P)]
<1>1. Bound(d) \in Seq(Names) BY BoundTyped
<1>2. DOMAIN Bound(d) = 1 .. Len(Bound(d)) /\ Len(Bound(d)) \in Nat BY <1>1
<1>3. Len(a) \in Nat /\ \A i \in 1 .. Len(a) : a[i] \in Values(P) OBVIOUS
<1>4. Null \in Values(P) BY NullTyped
<1>5. \A i \in 1 .. Len(Bound(d)) : i > 1 /\ i <= 1 + Len(a) => i - 1 \in 1 .. Len(a) BY <1>2, <1>3
<1> QED BY <1>2, <1>3, <1>4, <1>5 DEF Actual

LEMMA SwapTyped ==
  ASSUME NEW V, NEW v \in [Names -> V], NEW ns \in Seq(Names), NEW vs \in [DOMAIN ns -> V]
  PROVE  /\ SwapIn(v, ns, vs) \in [Names -> V] /\ SwapOut(v, ns, vs) \in [Names -> V]
         /\ Aside(v, ns, vs) \in [DOMAIN ns -> V]
<1>1. SwapIn(v, ns, vs) \in [Names -> V] BY FinalFound DEF SwapIn
<1>2. SwapOut(v, ns, vs) \in [Names -> V] BY FirstFound DEF SwapOut, Stays
<1>3. ASSUME NEW i \in DOMAIN ns, i # First(ns, ns[i])
      PROVE  vs[Final(SubSeq(ns, 1, i - 1), ns[i])] \in V
  <2> DEFINE k == First(ns, ns[i])
             s == SubSeq(ns, 1, i - 1)
  <2>1. k \in DOMAIN ns /\ ns[k] = ns[i] /\ k <= i BY FirstFound DEF Range
  <2>2. DOMAIN ns = 1 .. Len(ns) /\ Len(ns) \in Nat OBVIOUS
  <2>3. k \in 1 .. i - 1 /\ i - 1 \in 0 .. Len(ns) BY <1>3, <2>1, <2>2
  <2>4. s \in Seq(Names) /\ Len(s) = i - 1 /\ \A j \in 1 .. i - 1 : s[j] = ns[j] BY <2>2, <2>3, SubSeqProperties
  <2> HIDE DEF k, s
  <2>5. DOMAIN s = 1 .. i - 1 BY <2>2, <2>3, <2>4
  <2>6. ns[i] \in Range(s) BY <2>1, <2>3, <2>4, <2>5 DEF Range
  <2>7. Final(s, ns[i]) \in DOMAIN s BY <2>4, <2>6, FinalFound
  <2>8. Final(s, ns[i]) \in DOMAIN ns BY <2>2, <2>3, <2>5, <2>7
  <2> QED BY <2>8 DEF s
<1>4. Aside(v, ns, vs) \in [DOMAIN ns -> V] BY <1>3 DEF Aside
<1> QED BY <1>1, <1>2, <1>4

------------------------------------------------------------------------------
\* DEFFNC.
LEMMA CallsBelow ==
  ASSUME Good(stack), Len(stack) > 1
  PROVE  /\ Good(Below) /\ Calls(Below) = Calls(stack) \ {Len(stack)} /\ Len(stack) \in Nat
         /\ \A i \in Calls(Below) : i \in Nat /\ i < Len(stack) /\ Below[i] = stack[i]
<1>1. Good(Below) /\ Len(Below) = Len(stack) - 1 /\ \A i \in 1 .. Len(stack) - 1 : Below[i] = stack[i] BY Popped
<1>2. DOMAIN stack = 1 .. Len(stack) /\ DOMAIN Below = 1 .. Len(stack) - 1 /\ Len(stack) \in Nat BY <1>1 DEF Good
<1>0. \A n \in Nat : \A i \in 1 .. n : (i \in 1 .. n - 1) <=> i # n OBVIOUS
<1>3. \A i \in 1 .. Len(stack) : (i \in 1 .. Len(stack) - 1) <=> i # Len(stack) BY <1>0, <1>2
<1>7. \A i \in 1 .. Len(stack) - 1 : i \in 1 .. Len(stack) /\ i < Len(stack) /\ i \in Nat BY <1>2
<1> HIDE DEF Below
<1>4. Calls(Below) = {i \in 1 .. Len(stack) - 1 : Entered(stack[i])} BY <1>1, <1>2 DEF Calls
<1>5. Calls(stack) = {i \in 1 .. Len(stack) : Entered(stack[i])} BY <1>2 DEF Calls
<1>6. Calls(Below) = Calls(stack) \ {Len(stack)} BY <1>3, <1>4, <1>5, <1>7
<1> QED BY <1>1, <1>2, <1>4, <1>6, <1>7

\* The top frame becomes, or stays, a call that has begun.
LEMMA CallsWith ==
  ASSUME Good(stack), Len(stack) > 1, NEW f \in Frames, FrameOK(f), Entered(f)
  PROVE  /\ Good(With(f)) /\ Calls(With(f)) = Calls(Below) \cup {Len(stack)} /\ With(f)[Len(stack)] = f
         /\ \A i \in Calls(Below) : With(f)[i] = stack[i]
<1>1. /\ Good(With(f)) /\ Len(With(f)) = Len(stack) /\ With(f)[Len(stack)] = f
      /\ \A i \in 1 .. Len(stack) - 1 : With(f)[i] = stack[i]
  BY Replaced
<1>2. Good(Below) /\ Len(Below) = Len(stack) - 1 /\ \A i \in 1 .. Len(stack) - 1 : Below[i] = stack[i] BY Popped
<1>3. DOMAIN With(f) = 1 .. Len(stack) /\ DOMAIN Below = 1 .. Len(stack) - 1 /\ Len(stack) \in Nat BY <1>1, <1>2 DEF Good
<1>4. \A i \in 1 .. Len(stack) : i \in 1 .. Len(stack) - 1 <=> i # Len(stack) BY <1>3
<1>5. Calls(With(f)) = {i \in 1 .. Len(stack) : Entered(With(f)[i])} BY <1>3 DEF Calls
<1> HIDE DEF With, Below
<1>6. Calls(Below) = {i \in 1 .. Len(stack) - 1 : Entered(With(f)[i])} BY <1>1, <1>2, <1>3 DEF Calls
<1>7. Len(stack) \in 1 .. Len(stack) BY <1>3
<1>8. Calls(With(f)) = Calls(Below) \cup {Len(stack)} BY <1>1, <1>4, <1>5, <1>6, <1>7
<1> QED BY <1>1, <1>6, <1>8

\* A call that has begun, on top.
EnteredFrame == [k : {"deff"}, ph : {"entered", "body"}, d : Definition, old : Seq(Values(P)), r : Registers]
LeftFrame    == [k : {"deff"}, ph : {"left"}, d : Definition, old : Seq(Values(P)), r : Registers, how : Nat]

LEMMA EnteredFrames ==
  ASSUME NEW f \in EnteredFrame \cup LeftFrame, Len(f.old) = Len(Bound(f.d))
  PROVE  f \in Frames /\ FrameOK(f) /\ Entered(f)
<1>1. f \in Frames BY DEF EnteredFrame, LeftFrame, Frames
<1>2. f.k = "deff" /\ f.ph # "args" BY DEF EnteredFrame, LeftFrame
<1> QED BY <1>1, <1>2 DEF FrameOK, Entered

LEMMA CallTop ==
  ASSUME TypeInv, Top.k = "deff", Top.ph # "args"
  PROVE  /\ Good(stack) /\ Len(stack) > 1 /\ Len(stack) \in Calls(stack) /\ Top \in Frames
         /\ Top.d \in Definition /\ Top.old \in Seq(Values(P)) /\ Top.r \in Registers
         /\ Len(Top.old) = Len(Bound(Top.d))
         /\ Top.ph \in {"entered", "body"} => Top \in EnteredFrame
         /\ Top.ph = "left" => Top.how \in Nat
<1>1. Good(stack) /\ Top \in Frames /\ FrameOK(Top) /\ Len(stack) > 1 /\ DOMAIN stack = 1 .. Len(stack) BY Typed, StackTop
<1>2. Len(Top.old) = Len(Bound(Top.d)) BY <1>1 DEF FrameOK
<1>3. Len(stack) \in Calls(stack) BY <1>1 DEF Calls, Entered, Top
<1> QED BY <1>1, <1>2, <1>3, FrameTyped DEF EnteredFrame

\* What Enter does to the calls that have begun.
Callee == fun[Top.f]
News   == Actual(Callee, Top.args)
Olds   == Aside(val, Bound(Callee), News)
Begins ==
  /\ Calls(stack') = Calls(stack) \cup {Len(stack)} /\ Len(stack) \in Nat
  /\ \A i \in Calls(stack) : i \in Nat /\ i < Len(stack) /\ stack'[i] = stack[i]
  /\ stack'[Len(stack)].d = Callee /\ stack'[Len(stack)].old = Olds /\ stack'[Len(stack)].ph = "entered"

LEMMA EnterTyped ==
  ASSUME TypeInv, Enter
  PROVE  /\ TypeInv' /\ Top.f \in DOMAIN fun /\ Callee \in Definition /\ val' = SwapIn(val, Bound(Callee), News)
         /\ (Kept(stack', stack) /\ Callee.label \notin DOMAIN P.code) \/ Begins
<1> DEFINE d == Callee
           w == [k |-> "deff", ph |-> "entered", d |-> d, old |-> Olds, r |-> r]
<1>1. /\ Top.k = "deff" /\ Top.ph = "args" /\ val' = SwapIn(val, Bound(d), News) /\ UNCHANGED <<rest, match, fun, lvl, count>>
      /\ \/ d.label \notin DOMAIN P.code /\ Raise(e, 9, "test", r, Below)
         \/ /\ d.label \in DOMAIN P.code /\ Trap(<<"CALL", Top.f>>, [r EXCEPT !.base = d.label], With(w))
            /\ UNCHANGED <<e, ret, halted>>
  BY DEF Enter, In, Callee, News, Olds
<1>2. Good(stack) /\ Len(stack) > 1 /\ Top \in Frames /\ FrameOK(Top) /\ ~Entered(Top) /\ Good(Below) /\ Kept(Below, stack)
  BY <1>1, TopIs
<1>3. Top.f \in DOMAIN fun /\ d \in Definition
  <2>1. Top.f \in DOMAIN fun BY <1>1, <1>2 DEF FrameOK
  <2> QED BY <2>1 DEF TypeInv, TypeOK, Callee
<1>4. Top.args \in Seq(Values(P)) BY <1>1, <1>2, FrameTyped
<1>5. Bound(d) \in Seq(Names) /\ DOMAIN Bound(d) = 1 .. Len(Bound(d)) /\ Len(Bound(d)) \in Nat BY <1>3, BoundTyped
<1>6. News \in [DOMAIN Bound(d) -> Values(P)] BY <1>3, <1>4, Typed, ActualTyped DEF News
<1>7. val' \in [Names -> Values(P)] /\ Olds \in [DOMAIN Bound(d) -> Values(P)]
  BY <1>1, <1>5, <1>6, Typed, SwapTyped DEF Olds
<1>8. Olds \in Seq(Values(P)) /\ Len(Olds) = Len(Bound(d)) BY <1>5, <1>7, SeqDef
<1>9. SUFFICES /\ Good(stack') /\ r' \in Registers /\ e' \in Errors /\ ret' \in Returns /\ halted' \in BOOLEAN
               /\ (Kept(stack', stack) /\ d.label \notin DOMAIN P.code) \/ Begins
  <2>1. UNCHANGED <<prog, fun, m, hist, list, fresh>> /\ struck' = struck
    BY <1>1 DEF rest, match
  <2> HIDE DEF d, w
  <2>2. Good(stack') /\ r' \in Registers /\ e' \in Errors /\ ret' \in Returns /\ halted' \in BOOLEAN => TypeInv'
    BY <1>1, <1>7, <2>1, Typed, TypesKept
  <2> QED BY <1>1, <1>3, <2>2 DEF d
<1>10. CASE d.label \notin DOMAIN P.code /\ Raise(e, 9, "test", r, Below)
  BY <1>2, <1>10, Typed, RaisesBelow
<1>11. CASE /\ d.label \in DOMAIN P.code /\ Trap(<<"CALL", Top.f>>, [r EXCEPT !.base = d.label], With(w))
            /\ UNCHANGED <<e, ret, halted>>
  <2>1. [r EXCEPT !.base = d.label] \in Registers BY <1>11, Typed DEF Registers, Labels
  <2>2. w \in EnteredFrame BY <1>3, <1>8, Typed DEF EnteredFrame
  <2>3. w.d = d /\ w.old = Olds /\ w.ph = "entered" OBVIOUS
  <2> HIDE DEF d, w
  <2>4. w \in Frames /\ FrameOK(w) /\ Entered(w) BY <1>8, <2>2, <2>3, EnteredFrames
  <2>5. /\ Good(With(w)) /\ Calls(With(w)) = Calls(Below) \cup {Len(stack)} /\ With(w)[Len(stack)] = w
        /\ \A i \in Calls(Below) : With(w)[i] = stack[i]
    BY <1>2, <2>4, CallsWith
  <2>6. Good(stack') /\ Grown(stack', With(w)) /\ r' \in Registers BY <1>11, <2>1, <2>5, Typed, Traps
  <2>7. Kept(stack', With(w)) BY <2>5, <2>6, GrownKept
  <2>8. Len(stack) \in Nat /\ \A i \in Calls(Below) : i \in Nat /\ i < Len(stack) BY <1>2, CallsBelow
  <2>9. Calls(Below) = Calls(stack) BY <1>2 DEF Kept
  <2>10. Begins BY <2>3, <2>5, <2>7, <2>8, <2>9 DEF Begins, Kept, d
  <2> QED BY <1>11, <2>6, <2>10, Typed
<1> QED BY <1>1, <1>10, <1>11

\* The calls are the same, with the values they have put aside.
SameCalls == /\ Calls(stack') = Calls(stack)
             /\ \A i \in Calls(stack) : stack'[i].d = stack[i].d /\ stack'[i].old = stack[i].old

LEMMA RunningCalls == Running = {i \in Calls(stack) : stack[i].ph \in {"body", "left"}}
BY DEF Running, Calls, Entered

LEMMA KeptCalls == ASSUME Kept(stack', stack) PROVE SameCalls /\ Running' = Running
<1>1. Calls(stack') = Calls(stack) /\ \A i \in Calls(stack) : stack'[i] = stack[i] BY DEF Kept
<1>2. Running' = {i \in Calls(stack') : stack'[i].ph \in {"body", "left"}} BY DEF Running, Calls, Entered
<1> QED BY <1>1, <1>2, RunningCalls DEF SameCalls

\* The call on top goes on to another phase f; then the stack may grow.
LEMMA CallGoesOn ==
  ASSUME TypeInv, Top.k = "deff", Top.ph # "args", NEW f \in Frames, FrameOK(f), Entered(f), f.d = Top.d, f.old = Top.old,
         Good(stack'), Grown(stack', With(f))
  PROVE  /\ SameCalls
         /\ Running' = IF f.ph \in {"body", "left"} THEN Running \cup {Len(stack)} ELSE Running \ {Len(stack)}
<1>1. Good(stack) /\ Len(stack) > 1 /\ Len(stack) \in Calls(stack) BY CallTop
<1>2. /\ Good(With(f)) /\ Calls(With(f)) = Calls(Below) \cup {Len(stack)} /\ With(f)[Len(stack)] = f
      /\ \A i \in Calls(Below) : With(f)[i] = stack[i]
  BY <1>1, CallsWith
<1>3. Calls(Below) = Calls(stack) \ {Len(stack)} BY <1>1, CallsBelow
<1>4. Kept(stack', With(f)) BY <1>2, GrownKept
<1> HIDE DEF With, Below
<1>5. Calls(stack') = Calls(stack) BY <1>1, <1>2, <1>3, <1>4 DEF Kept
<1>6. stack'[Len(stack)] = f /\ \A i \in Calls(stack) \ {Len(stack)} : stack'[i] = stack[i] BY <1>2, <1>3, <1>4 DEF Kept
<1>7. stack[Len(stack)] = Top BY DEF Top
<1>8. SameCalls BY <1>5, <1>6, <1>7 DEF SameCalls
<1>9. Running' = {i \in Calls(stack') : stack'[i].ph \in {"body", "left"}} BY DEF Running, Calls, Entered
<1>10. \A i \in Calls(stack) : i \in Running' <=> IF i = Len(stack) THEN f.ph \in {"body", "left"} ELSE i \in Running
  BY <1>5, <1>6, <1>9, RunningCalls
<1>11. Running' \subseteq Calls(stack) /\ Running \subseteq Calls(stack) BY <1>5, <1>9, RunningCalls
<1> QED BY <1>1, <1>8, <1>10, <1>11

LEMMA BodyTyped ==
  ASSUME TypeInv, Body
  PROVE  /\ TypeInv' /\ SameCalls /\ val' = val /\ lvl' = lvl + 1
         /\ Len(stack) \notin Running /\ Running' = Running \cup {Len(stack)}
<1> DEFINE f == [Top EXCEPT !.ph = "body"]
           i == [k |-> "interp"]
<1>1. /\ Top.k = "deff" /\ Top.ph = "entered" /\ lvl' = lvl + 1 /\ stack' = With(f) \o <<i>>
      /\ r' = [r EXCEPT !.off = 0] /\ ret' = ret /\ UNCHANGED <<rest, match, store, e, count, halted>>
  BY DEF Body, In, Go
<1>2. /\ Good(stack) /\ Len(stack) > 1 /\ Top \in EnteredFrame /\ Len(Top.old) = Len(Bound(Top.d))
  BY <1>1, CallTop
<1>3. f \in EnteredFrame /\ f.d = Top.d /\ f.old = Top.old /\ f.ph = "body" BY <1>2 DEF EnteredFrame
<1>4. i \in Frames /\ FrameOK(i) /\ Plain(i) BY DEF Frames, FrameOK, Plain, Entered
<1> HIDE DEF f, i
<1>5. f \in Frames /\ FrameOK(f) /\ Entered(f) BY <1>2, <1>3, EnteredFrames
<1>6. Good(With(f)) BY <1>2, <1>5, CallsWith
<1>7. Good(Append(With(f), i)) /\ Grown(Append(With(f), i), With(f)) BY <1>4, <1>6, GrownBy
<1>8. stack' = Append(With(f), i)
  <2>1. \A s \in Seq(Frames) : s \o <<i>> = Append(s, i) OBVIOUS
  <2> QED BY <1>1, <1>6, <2>1 DEF Good
<1>9. Good(stack') /\ Grown(stack', With(f)) BY <1>7, <1>8
<1>10. SameCalls /\ Running' = Running \cup {Len(stack)} BY <1>1, <1>3, <1>5, <1>9, CallGoesOn
<1>11. Len(stack) \notin Running BY <1>1 DEF Running, Top
<1>12. r' \in Registers BY <1>1, Typed DEF Registers
<1>13. UNCHANGED <<prog, fun, m, hist, list, fresh>> /\ struck' = struck /\ val' = val
  BY <1>1 DEF rest, match, store
<1>14. TypeInv' BY <1>1, <1>9, <1>12, <1>13, Typed, TypesKept
<1> QED BY <1>1, <1>10, <1>11, <1>13, <1>14

LEMMA LeavingTyped ==
  ASSUME TypeInv, Leaving
  PROVE  TypeInv' /\ SameCalls /\ val' = val /\ lvl' = lvl /\ Running' = Running
<1> DEFINE f == [k |-> "deff", ph |-> "left", d |-> Top.d, old |-> Top.old, r |-> Top.r, how |-> ret.n]
<1>1. /\ Top.k = "deff" /\ Top.ph = "body" /\ ret' = None /\ Trap(<<"RETURN", Top.d.f>>, r, With(f))
      /\ UNCHANGED <<rest, match, store, e, lvl, count, halted>>
  BY DEF Leaving, Back
<1>2. /\ Good(stack) /\ Len(stack) > 1 /\ Top.d \in Definition /\ Top.old \in Seq(Values(P)) /\ Top.r \in Registers
      /\ Len(Top.old) = Len(Bound(Top.d)) /\ Len(stack) \in Calls(stack)
  BY <1>1, CallTop
<1>3. ret.n \in Nat BY BackTyped
<1>4. f \in LeftFrame /\ f.d = Top.d /\ f.old = Top.old /\ f.ph = "left" BY <1>2, <1>3 DEF LeftFrame
<1> HIDE DEF f
<1>5. f \in Frames /\ FrameOK(f) /\ Entered(f) BY <1>2, <1>4, EnteredFrames
<1>6. Good(With(f)) BY <1>2, <1>5, CallsWith
<1>7. Good(stack') /\ Grown(stack', With(f)) /\ r' \in Registers BY <1>1, <1>6, Typed, Traps
<1>8. SameCalls /\ Running' = Running \cup {Len(stack)} BY <1>1, <1>4, <1>5, <1>7, CallGoesOn
<1>9. Len(stack) \in Running BY <1>1, <1>2, RunningCalls DEF Top
<1>10. TypeInv' BY <1>1, <1>7, Typed, Quiet
<1> QED BY <1>1, <1>8, <1>9, <1>10 DEF store

\* The call on top has returned.
LEMMA LeftTyped ==
  ASSUME TypeInv, lvl > 0, Left
  PROVE  /\ TypeInv' /\ Kept(stack', Below) /\ lvl' = lvl - 1
         /\ val' = SwapOut(val, Bound(Top.d), Top.old) /\ Top.d \in Definition
         /\ Good(stack) /\ Len(stack) > 1 /\ Len(stack) \in Running /\ Running' = Running \ {Len(stack)}
<1> DEFINE v == val[Top.d.f]
           q == [r EXCEPT !.base = Top.r.base, !.off = Top.r.off, !.frtn = Top.r.frtn,
                          !.stno = Top.r.stno, !.line = Top.r.line]
<1>1. /\ Top.k = "deff" /\ Top.ph = "left" /\ lvl' = lvl - 1 /\ val' = SwapOut(val, Bound(Top.d), Top.old)
      /\ \/ Raise(e, 4, "test", q, Below)
         \/ /\ ~(Top.how = 5 /\ (v.t # "S" \/ v.s = "")) /\ r' = q /\ UNCHANGED <<e, halted>>
            /\ Return(IF Top.how = 4 THEN Fail ELSE IF Top.how = 5 THEN Named(v.s) ELSE Value(v))
      /\ UNCHANGED <<rest, match, fun, count>>
  BY DEF Left, In, LevelAfter, ExitBefore
<1>2. /\ Good(stack) /\ Len(stack) > 1 /\ Len(stack) \in Calls(stack)
      /\ Top.d \in Definition /\ Top.old \in Seq(Values(P)) /\ Top.r \in Registers /\ Len(Top.old) = Len(Bound(Top.d))
  BY <1>1, CallTop
<1>3. Good(Below) /\ Calls(Below) = Calls(stack) \ {Len(stack)} /\ \A i \in Calls(Below) : Below[i] = stack[i]
  BY <1>2, CallsBelow
<1>4. q \in Registers
  <2>1. \A a, b \in Registers : [a EXCEPT !.base = b.base, !.off = b.off, !.frtn = b.frtn, !.stno = b.stno, !.line = b.line] \in Registers
    BY DEF Registers
  <2> QED BY <1>2, <2>1, Typed
<1>5. v \in Values(P)
  <2>1. Top.d.f \in Names BY <1>2 DEF Definition
  <2> QED BY <2>1, Typed
<1>6. val' \in [Names -> Values(P)]
  <2>1. Bound(Top.d) \in Seq(Names) BY <1>2, BoundTyped
  <2>2. Top.old \in [DOMAIN Bound(Top.d) -> Values(P)] BY <1>2, <2>1
  <2> QED BY <1>1, <2>1, <2>2, Typed, SwapTyped
<1> HIDE DEF q, v
<1>7. Good(stack') /\ Kept(stack', Below) /\ r' \in Registers /\ e' \in Errors /\ ret' \in Returns /\ halted' \in BOOLEAN
  <2>1. CASE Raise(e, 4, "test", q, Below)
    <3>1. /\ Good(stack') /\ Grown(stack', Below) /\ r' \in Registers
          /\ e' \in Errors /\ ret' = None /\ halted' \in BOOLEAN
      BY <1>3, <1>4, <2>1, Typed, Raises
    <3>2. Kept(stack', Below) BY <1>3, <3>1, GrownKept
    <3> QED BY <3>1, <3>2, Typed
  <2>2. CASE /\ ~(Top.how = 5 /\ (v.t # "S" \/ v.s = "")) /\ r' = q /\ UNCHANGED <<e, halted>>
             /\ Return(IF Top.how = 4 THEN Fail ELSE IF Top.how = 5 THEN Named(v.s) ELSE Value(v))
    <3>1. stack' = Below /\ ret' = IF Top.how = 4 THEN Fail ELSE IF Top.how = 5 THEN Named(v.s) ELSE Value(v)
      BY <2>2 DEF Return
    <3>2. v.t = "S" /\ v.s # "" => v.s \in Names BY <1>5 DEF Values, Str, Strings
    <3>3. ret' \in Returns BY <1>5, <2>2, <3>1, <3>2, Typed
    <3> QED BY <1>3, <1>4, <2>2, <3>1, <3>3, Typed, KeptSame
  <2> QED BY <1>1, <2>1, <2>2
<1>8. lvl' \in Nat
  <2>1. lvl \in Nat /\ lvl' = lvl - 1 BY <1>1, Typed
  <2> QED BY <2>1
<1>9. UNCHANGED <<prog, fun, m, hist, list, fresh>> /\ struck' = struck
  BY <1>1 DEF rest, match
<1>10. TypeInv' BY <1>1, <1>6, <1>7, <1>8, <1>9, Typed, TypesKept
<1>11. Len(stack) \in Running BY <1>1, <1>2, RunningCalls DEF Top
<1>12. Running' = Running \ {Len(stack)}
  <2>1. Running' = {i \in Calls(stack') : stack'[i].ph \in {"body", "left"}} BY DEF Running, Calls, Entered
  <2>2. Calls(stack') = Calls(stack) \ {Len(stack)} /\ \A i \in Calls(stack') : stack'[i] = stack[i]
    BY <1>3, <1>7 DEF Kept
  <2> QED BY <2>1, <2>2, RunningCalls
<1> QED BY <1>1, <1>2, <1>7, <1>10, <1>11, <1>12

------------------------------------------------------------------------------
\* All steps.
Steps == \/ Trace \/ TrapReturn \/ Xithnd \/ Interrupt
         \/ Skip \/ Init1 \/ Goto \/ Base \/ End \/ Do \/ Returned \/ Gotl \/ GotoLabel
         \/ Operand \/ OperandBack \/ Bad \/ Asgn \/ Asgned \/ Setexit \/ Define
         \/ ExpvalCode \/ ExpvalBack \/ Eval
         \/ Scan \/ ScanFails \/ ScanExp \/ ScanExpBack \/ ScanName \/ ScanNow \/ ScanNowed
         \/ Named1 \/ Nmd \/ Nmded \/ Scanned

LEMMA StepsTyped == ASSUME TypeInv, Steps PROVE Keeps
<1>1. CASE Trace \/ TrapReturn \/ Xithnd \/ Interrupt
  BY <1>1, TraceTyped, TrapReturnTyped, XithndTyped, InterruptTyped
<1>2. CASE Skip \/ Init1 \/ Goto \/ Base \/ End \/ Do \/ Returned \/ Gotl \/ GotoLabel
  BY <1>2, SkipTyped, Init1Typed, GotoTyped, BaseTyped, EndTyped, DoTyped, ReturnedTyped, GotlTyped, GotoLabelTyped
<1>3. CASE Operand \/ OperandBack \/ Bad \/ Asgn \/ Asgned \/ Setexit \/ Define
  BY <1>3, OperandTyped, OperandBackTyped, BadTyped, AsgnTyped, AsgnedTyped, SetexitTyped, DefineTyped
<1>4. CASE ExpvalCode \/ ExpvalBack \/ Eval
  BY <1>4, ExpvalCodeTyped, ExpvalBackTyped, EvalTyped
<1>5. CASE Scan \/ ScanFails \/ ScanExp \/ ScanExpBack \/ ScanName \/ ScanNow \/ ScanNowed
  BY <1>5, ScanTyped, ScanFailsTyped, ScanExpTyped, ScanExpBackTyped, ScanNameTyped, ScanNowTyped, ScanNowedTyped
<1>6. CASE Named1 \/ Nmd \/ Nmded \/ Scanned
  BY <1>6, Named1Typed, NmdTyped, NmdedTyped, ScannedTyped
<1> QED BY <1>1, <1>2, <1>3, <1>4, <1>5, <1>6 DEF Steps

\* They do not count &FNCLEVEL, and give one name a value at most.
OneAtMost == \E x \in Names : \A y \in Names \ {x} : val'[y] = val[y]

LEMMA Assigns == ASSUME TypeInv, NEW x, NEW v, val' = [val EXCEPT ![x] = v] PROVE OneAtMost
<1>1. val \in [Names -> Values(P)] BY Typed
<1>2. \A y \in Names \ {x} : val'[y] = val[y] BY <1>1
<1>3. CASE x \in Names BY <1>2, <1>3 DEF OneAtMost
<1>4. CASE x \notin Names
  <2>1. "text" \in Names BY ProgramsAssumption DEF ProgramsAssumption
  <2> QED BY <1>2, <1>4, <2>1 DEF OneAtMost
<1> QED BY <1>3, <1>4

LEMMA StepsQuiet == ASSUME TypeInv, Steps PROVE lvl' = lvl /\ OneAtMost
<1>1. val' = val => OneAtMost
  <2>1. "text" \in Names BY ProgramsAssumption DEF ProgramsAssumption
  <2> QED BY <2>1 DEF OneAtMost
<1>2. CASE Trace \/ TrapReturn \/ Xithnd \/ Interrupt
  BY <1>1, <1>2 DEF Trace, TrapReturn, Xithnd, Interrupt, store
<1>3. CASE Skip \/ Init1 \/ Goto \/ Base \/ End
  BY <1>1, <1>3 DEF Skip, Init1, Goto, Base, End, store
<1>4. CASE Do \/ Returned \/ Gotl \/ GotoLabel
  BY <1>1, <1>4 DEF Do, Returned, Gotl, GotoLabel, store
<1>5. CASE Operand \/ OperandBack \/ Bad \/ Asgned \/ Setexit \/ Define
  BY <1>1, <1>5 DEF Operand, OperandBack, Bad, Asgned, Setexit, Define, store
<1>6. CASE ExpvalCode \/ ExpvalBack \/ Eval
  BY <1>1, <1>6 DEF ExpvalCode, ExpvalBack, Eval, store
<1>7. CASE Scan \/ ScanFails \/ ScanExp \/ ScanExpBack \/ ScanName \/ ScanNowed
  BY <1>1, <1>7 DEF Scan, ScanFails, ScanExp, ScanExpBack, ScanName, ScanNowed, store
<1>8. CASE Named1 \/ Nmded \/ Scanned
  BY <1>1, <1>8 DEF Named1, Nmded, Scanned, store
<1>9. CASE Asgn
  <2>1. val' = [val EXCEPT ![Arg(1).s] = Arg(2)] /\ lvl' = lvl BY <1>9 DEF Asgn
  <2> QED BY <2>1, Assigns
<1>10. CASE ScanNow
  <2>1. val' = [val EXCEPT ![Part.x] = Part.v] /\ lvl' = lvl BY <1>10 DEF ScanNow
  <2> QED BY <2>1, Assigns
<1>11. CASE Nmd
  <2>1. val' = [val EXCEPT ![list[Top.i + 1].x] = list[Top.i + 1].v] /\ lvl' = lvl BY <1>11 DEF Nmd
  <2> QED BY <2>1, Assigns
<1> QED BY <1>2, <1>3, <1>4, <1>5, <1>6, <1>7, <1>8, <1>9, <1>10, <1>11 DEF Steps

LEMMA StaysTyped == ASSUME TypeInv, UNCHANGED vars PROVE Keeps
<1>1. UNCHANGED <<rest, match, store, r, e, stack, ret, lvl, count, halted>> BY DEF vars, rest, match, store
<1>2. TypeInv' BY <1>1, Typed, Quiet
<1> QED BY <1>1, <1>2, KeptSame DEF Keeps

\* Every step is one of these.
LEMMA NextSteps == ASSUME [Next]_vars PROVE Steps \/ Enter \/ Body \/ Leaving \/ Left \/ UNCHANGED vars
BY DEF Next, Steps, Halted

------------------------------------------------------------------------------
\* The depth of calls.
LEMMA RunningFinite == ASSUME TypeInv PROVE IsFiniteSet(Running) /\ Cardinality(Running) \in Nat
<1>1. Running \subseteq 1 .. Len(stack) /\ Len(stack) \in Nat
  <2>1. DOMAIN stack = 1 .. Len(stack) /\ Len(stack) \in Nat BY Typed DEF Good
  <2> QED BY <2>1 DEF Running
<1>2. IsFiniteSet(1 .. Len(stack)) BY <1>1, FS_Interval
<1>3. IsFiniteSet(Running) BY <1>1, <1>2, FS_Subset
<1> QED BY <1>3, FS_CardinalityType

IInv == TypeInv /\ LevelIsDepth

LEMMA InitTyped == Init => IInv
<1> SUFFICES ASSUME Init PROVE IInv OBVIOUS
<1>0. /\ hist = <<>> /\ list = <<>> /\ fresh = 0 /\ count = 0 /\ struck = 0
      /\ m = [pdl |-> 0, hed |-> 0, nam |-> 0, nhed |-> 0, text |-> 0]
  BY DEF Init
<1>1. ProgOK BY DEF Init, ProgOK
<1>2. IsProgram(P) BY <1>1, TheProgram
<1>3. r \in Registers
  <2>1. P.main \in Labels /\ P.trace \in Nat BY <1>2 DEF IsProgram, Labels
  <2> QED BY <2>1 DEF Init, Registers
<1>4. m \in MatchRegs /\ Within(m)
  <2>1. Len(hist) = 0 /\ Len(list) = 0 BY <1>0
  <2> QED BY <1>0, <2>1 DEF MatchRegs, Within
<1>5. e \in Errors
  <2>1. P.errs \in Nat /\ P.fatals \in Nat /\ "" \in Labels /\ "" \in Labels \cap Strings
    BY <1>2 DEF IsProgram, Labels, Strings
  <2> DEFINE sv == [on |-> FALSE, base |-> "", off |-> 0, frtn |-> 0, stno |-> 0, line |-> 0,
                    lastline |-> 0, typ |-> 0, begun |-> 0]
  <2>2. sv \in [on : BOOLEAN, base : Labels, off : Nat, frtn : Nat, stno : Nat, line : Nat,
                lastline : Nat, typ : Nat, begun : Nat]
    BY <2>1
  <2>3. e = [errs |-> P.errs, fatals |-> P.fatals, fatal |-> FALSE, typ |-> 0, uint |-> FALSE, xit |-> "", saved |-> sv]
    BY DEF Init
  <2> HIDE DEF sv
  <2> QED BY <2>1, <2>2, <2>3 DEF Errors
<1>6. ret \in Returns BY DEF Init, None, Returns
<1>7. hist \in Seq(Nat) /\ list \in Seq([own : Nat, x : Names, v : Str]) /\ fresh \in Nat BY <1>0
<1>8. val \in [Names -> Values(P)] BY <1>1, NullTyped DEF Init
<1>9. DOMAIN fun \subseteq Names /\ \A f \in DOMAIN fun : fun[f] \in Definition BY <1>2 DEF Init, IsProgram
<1> DEFINE w == [k |-> "interp"]
<1>10. w \in Frames /\ FrameOK(w) /\ w.k = "interp" BY DEF Frames, FrameOK
<1>11. stack = <<w>> BY DEF Init
<1> HIDE DEF w
<1>12. /\ stack \in Seq(Frames) /\ stack # <<>> /\ stack[1].k = "interp"
       /\ DOMAIN stack = {1} /\ \A i \in DOMAIN stack : FrameOK(stack[i])
  BY <1>10, <1>11
<1>13. lvl \in Nat /\ halted \in BOOLEAN BY DEF Init
<1>14. P.limit \in Nat /\ P.interrupts \in Nat BY <1>2 DEF IsProgram
<1>15. count \in 0 .. P.limit /\ struck \in 0 .. P.interrupts BY <1>0, <1>14
<1>16. TypeOK BY <1>3, <1>4, <1>5, <1>6, <1>7, <1>8, <1>9, <1>12, <1>13, <1>15 DEF TypeOK
<1>17. Running = {} BY <1>10, <1>11, <1>12 DEF Running
<1>18. LevelIsDepth BY <1>17, FS_EmptySet DEF LevelIsDepth, Init
<1> QED BY <1>1, <1>16, <1>18 DEF IInv, TypeInv

LEMMA NextKeeps == IInv /\ [Next]_vars => IInv'
<1> SUFFICES ASSUME IInv, [Next]_vars PROVE IInv' OBVIOUS
<1>1. TypeInv /\ lvl = Cardinality(Running) BY DEF IInv, LevelIsDepth
<1>2. IsFiniteSet(Running) /\ lvl \in Nat BY <1>1, RunningFinite
<1>3. ASSUME Keeps, lvl' = lvl PROVE IInv'
  <2>1. Running' = Running BY <1>3, KeptCalls DEF Keeps
  <2> QED BY <1>1, <1>3, <2>1 DEF IInv, LevelIsDepth, Keeps
<1>4. CASE Steps BY <1>1, <1>3, <1>4, StepsTyped, StepsQuiet
<1>5. CASE UNCHANGED vars
  <2>1. lvl' = lvl BY <1>5 DEF vars
  <2> QED BY <1>1, <1>3, <1>5, <2>1, StaysTyped
<1>6. CASE Enter
  <2>1. TypeInv' /\ ((Kept(stack', stack) /\ Callee.label \notin DOMAIN P.code) \/ Begins) BY <1>1, <1>6, EnterTyped
  <2>2. lvl' = lvl BY <1>6 DEF Enter
  <2>3. Running' = Running
    <3>1. CASE Kept(stack', stack) BY <3>1, KeptCalls
    <3>2. CASE Begins
      <4>1. Running' = {i \in Calls(stack') : stack'[i].ph \in {"body", "left"}} BY DEF Running, Calls, Entered
      <4>2. /\ Calls(stack') = Calls(stack) \cup {Len(stack)} /\ stack'[Len(stack)].ph = "entered"
            /\ \A i \in Calls(stack) : stack'[i] = stack[i]
        BY <3>2 DEF Begins
      <4>3. Len(stack) \notin Running
        <5>1. Len(stack) \notin Calls(stack) BY <3>2 DEF Begins
        <5> QED BY <5>1, RunningCalls
      <4> QED BY <4>1, <4>2, <4>3, RunningCalls
    <3> QED BY <2>1, <3>1, <3>2
  <2> QED BY <1>1, <2>1, <2>2, <2>3 DEF IInv, LevelIsDepth
<1>7. CASE Body
  <2>1. TypeInv' /\ lvl' = lvl + 1 /\ Len(stack) \notin Running /\ Running' = Running \cup {Len(stack)}
    BY <1>1, <1>7, BodyTyped
  <2>2. Cardinality(Running') = Cardinality(Running) + 1 BY <1>2, <2>1, FS_AddElement
  <2> QED BY <1>1, <2>1, <2>2 DEF IInv, LevelIsDepth
<1>8. CASE Leaving
  <2>1. TypeInv' /\ lvl' = lvl /\ Running' = Running BY <1>1, <1>8, LeavingTyped
  <2> QED BY <1>1, <2>1 DEF IInv, LevelIsDepth
<1>9. CASE Left
  <2>1. Len(stack) \in Running
    <3>1. Top.k = "deff" /\ Top.ph = "left" BY <1>9 DEF Left, In
    <3> QED BY <1>1, <3>1, CallTop, RunningCalls DEF Top
  <2>2. Cardinality(Running \ {Len(stack)}) = Cardinality(Running) - 1 BY <1>2, <2>1, FS_RemoveElement
  <2>3. Cardinality(Running \ {Len(stack)}) \in Nat
    <3>1. IsFiniteSet(Running \ {Len(stack)}) BY <1>2, FS_Subset
    <3> QED BY <3>1, FS_CardinalityType
  <2>4. lvl > 0 BY <1>1, <1>2, <2>2, <2>3
  <2>5. TypeInv' /\ lvl' = lvl - 1 /\ Running' = Running \ {Len(stack)} BY <1>1, <1>9, <2>4, LeftTyped
  <2> QED BY <1>1, <2>2, <2>5 DEF IInv, LevelIsDepth
<1> QED BY <1>4, <1>5, <1>6, <1>7, <1>8, <1>9, NextSteps

\* Registers, frames, values and what is in memory of matches are of their types.
THEOREM WellTyped == Spec => []TypeOK
<1>1. IInv => TypeOK BY DEF IInv, TypeInv
<1> QED BY <1>1, InitTyped, NextKeeps, PTL DEF Spec

\* &FNCLEVEL is the number of calls that run, whatever was called, traced,
\* trapped or failed (DEFFNC).
THEOREM LevelsCounted == Spec => []LevelIsDepth
<1>1. IInv => LevelIsDepth BY DEF IInv
<1> QED BY <1>1, InitTyped, NextKeeps, PTL DEF Spec

------------------------------------------------------------------------------
\* Dynamic scope.
Waiting == [i \in Scoped |-> PutAside(stack[i])]

LEMMA SameAside == ASSUME SameCalls PROVE Waiting' = Waiting
<1>1. Scoped' = Scoped /\ \A i \in Scoped : stack'[i].d = stack[i].d /\ stack'[i].old = stack[i].old
  BY DEF SameCalls, Scoped, Calls
<1>2. \A i \in Scoped : PutAside(stack'[i]) = PutAside(stack[i]) BY <1>1 DEF PutAside
<1>3. Waiting' = [i \in Scoped' |-> PutAside(stack'[i])] BY DEF Waiting, PutAside
<1> QED BY <1>1, <1>2, <1>3 DEF Waiting

\* A step that keeps the calls is an assignment.
LEMMA AssignStep == ASSUME TypeInv, SameCalls, OneAtMost PROVE Binding!Assign
<1>1. Waiting' = Waiting BY SameAside
<1>2. [i \in Scoped |-> PutAside(stack[i])]' = [i \in Scoped |-> PutAside(stack[i])] BY <1>1 DEF Waiting
<1> QED BY <1>2 DEF Binding!Assign, OneAtMost

\* A function without an entry loses the values of the names it binds.
LEMMA LostStep ==
  ASSUME TypeInv, SameCalls, Top.f \in DOMAIN fun, Callee.label \notin DOMAIN P.code, val' = SwapIn(val, Bound(Callee), News)
  PROVE  Binding!Lost
<1> DEFINE ns == Range(Bound(Callee))
<1>1. [i \in Scoped |-> PutAside(stack[i])]' = [i \in Scoped |-> PutAside(stack[i])] BY SameAside DEF Waiting
<1>2. ns \in NoEntry BY DEF NoEntry, Callee
<1>3. \A x \in Names \ ns : val'[x] = val[x]
  <2>1. DOMAIN val = Names BY Typed
  <2> QED BY <2>1 DEF SwapIn
<1> QED BY <1>1, <1>2, <1>3 DEF Binding!Lost

\* A call puts the values of the names it binds aside.
LEMMA CallStep ==
  ASSUME TypeInv, Begins, Callee \in Definition, val' = SwapIn(val, Bound(Callee), News)
  PROVE  Binding!Call
<1> DEFINE k == Len(stack)
           ns == Bound(Callee)
<1>1. /\ Scoped' = Scoped \cup {k} /\ k \in Nat /\ (\A i \in Scoped : i \in Nat /\ i < k /\ stack'[i] = stack[i])
      /\ stack'[k].d = Callee /\ stack'[k].old = Olds
  BY DEF Begins, Scoped, Calls
<1>2. ns \in Seq(Names) /\ DOMAIN val = Names /\ Range(ns) \subseteq Names BY Typed, BoundTyped
<1> HIDE DEF k, ns
<1>3. Waiting' = [i \in Scoped' |-> PutAside(stack'[i])] BY DEF Waiting, PutAside
<1>4. DOMAIN Waiting' = Scoped \cup {k} /\ DOMAIN Waiting = Scoped BY <1>1, <1>3 DEF Waiting
<1>5. \A i \in Scoped : i < k /\ Waiting'[i] = Waiting[i] BY <1>1, <1>3 DEF Waiting
<1>6. Waiting'[k] = [x \in Range(ns) |-> Olds[First(ns, x)]] BY <1>1, <1>3 DEF PutAside, ns
<1>7. \A x \in Range(ns) : Waiting'[k][x] = val[x]
  <2> SUFFICES ASSUME NEW x \in Range(ns) PROVE Olds[First(ns, x)] = val[x] BY <1>6
  <2>1. First(ns, x) \in DOMAIN ns /\ ns[First(ns, x)] = x BY <1>2, FirstFound
  <2> QED BY <2>1 DEF Olds, Aside, ns
<1>8. \A x \in Names \ Range(ns) : val'[x] = val[x] BY <1>2 DEF SwapIn, ns
<1>9. k \notin Scoped BY <1>1
<1>10. Binding!Deepest(k, Waiting', Waiting) BY <1>4, <1>5, <1>9 DEF Binding!Deepest
<1>11. DOMAIN Waiting'[k] = Range(ns) /\ k \in DOMAIN Waiting' BY <1>4, <1>6
<1>12. \E d \in DOMAIN Waiting' :
         /\ Binding!Deepest(d, Waiting', Waiting)
         /\ \A x \in DOMAIN Waiting'[d] : Waiting'[d][x] = val[x]
         /\ \A x \in Names \ DOMAIN Waiting'[d] : val'[x] = val[x]
  BY <1>7, <1>8, <1>10, <1>11
<1> QED BY <1>12 DEF Binding!Call, Waiting

\* A return gives them their values back.
LEMMA ReturnStep ==
  ASSUME TypeInv, Good(stack), Len(stack) > 1, Len(stack) \in Running, Kept(stack', Below), Top.d \in Definition,
         val' = SwapOut(val, Bound(Top.d), Top.old)
  PROVE  Binding!Return
<1> DEFINE k == Len(stack)
           ns == Bound(Top.d)
<1>1. /\ k \in Scoped /\ Scoped' = Scoped \ {k} /\ k \in Nat
      /\ \A i \in Scoped' : i \in Nat /\ i < k /\ stack'[i] = stack[i]
  <2>1. /\ Calls(Below) = Calls(stack) \ {k} /\ k \in Nat
        /\ \A i \in Calls(Below) : i \in Nat /\ i < k /\ Below[i] = stack[i]
    BY CallsBelow
  <2>2. Calls(stack') = Calls(Below) /\ \A i \in Calls(Below) : stack'[i] = Below[i] BY DEF Kept
  <2>3. k \in Calls(stack) BY RunningCalls
  <2> QED BY <2>1, <2>2, <2>3 DEF Scoped, Calls
<1>2. ns \in Seq(Names) /\ DOMAIN val = Names /\ Range(ns) \subseteq Names BY Typed, BoundTyped
<1>3. Waiting' = [i \in Scoped' |-> PutAside(stack'[i])] BY DEF Waiting, PutAside
<1>4. Waiting[k] = [x \in Range(ns) |-> Top.old[First(ns, x)]] BY <1>1 DEF Waiting, PutAside, Top
<1> HIDE DEF k, ns
<1>5. DOMAIN Waiting' = Scoped \ {k} /\ DOMAIN Waiting = Scoped BY <1>1, <1>3 DEF Waiting
<1>6. \A i \in Scoped \ {k} : i < k /\ Waiting'[i] = Waiting[i] BY <1>1, <1>3 DEF Waiting
<1>7. Binding!Deepest(k, Waiting, Waiting') BY <1>5, <1>6 DEF Binding!Deepest
<1>8. \A x \in Names : val'[x] = IF x \in Range(ns) THEN Top.old[First(ns, x)] ELSE val[x] BY <1>2 DEF SwapOut, Stays, ns
<1>9. DOMAIN Waiting[k] = Range(ns) /\ k \in DOMAIN Waiting /\ \A x \in Range(ns) : Waiting[k][x] = Top.old[First(ns, x)]
  BY <1>1, <1>4, <1>5
<1>10. \E d \in DOMAIN Waiting :
         /\ Binding!Deepest(d, Waiting, Waiting')
         /\ \A x \in Names : val'[x] = IF x \in DOMAIN Waiting[d] THEN Waiting[d][x] ELSE val[x]
  BY <1>7, <1>8, <1>9
<1> QED BY <1>10 DEF Binding!Return, Waiting

\* Functions keep to dynamic scope: every step of the interpreter gives one name
\* a value, begins or ends one call, loses what a call without an entry bound, or
\* does nothing to values and calls (DEFFNC).
THEOREM ScopesKept == Spec => ScopeKept
<1>1. Init => Binding!Init
  <2> SUFFICES ASSUME Init PROVE DOMAIN [i \in Scoped |-> PutAside(stack[i])] = {} BY DEF Binding!Init
  <2> DEFINE w == [k |-> "interp"]
  <2>1. ~Entered(w) BY DEF Entered
  <2>2. stack = <<w>> BY DEF Init
  <2> HIDE DEF w
  <2>3. Scoped = {} BY <2>1, <2>2 DEF Scoped
  <2> QED BY <2>3
<1>2. IInv /\ [Next]_vars => [Binding!Next]_<<val, [i \in Scoped |-> PutAside(stack[i])]>>
  <2> SUFFICES ASSUME IInv, [Next]_vars
               PROVE  Binding!Next \/ (val' = val /\ Waiting' = Waiting)
    BY DEF Waiting
  <2>1. TypeInv BY DEF IInv
  <2>2. CASE Steps
    <3>1. SameCalls BY <2>1, <2>2, StepsTyped, KeptCalls DEF Keeps
    <3> QED BY <2>1, <2>2, <3>1, StepsQuiet, AssignStep DEF Binding!Next
  <2>3. CASE UNCHANGED vars
    <3>1. SameCalls /\ val' = val BY <2>1, <2>3, StaysTyped, KeptCalls DEF Keeps, vars
    <3> QED BY <3>1, SameAside
  <2>4. CASE Enter
    <3>1. /\ Top.f \in DOMAIN fun /\ Callee \in Definition /\ val' = SwapIn(val, Bound(Callee), News)
          /\ (Kept(stack', stack) /\ Callee.label \notin DOMAIN P.code) \/ Begins
      BY <2>1, <2>4, EnterTyped
    <3>2. CASE Kept(stack', stack) /\ Callee.label \notin DOMAIN P.code
      BY <2>1, <3>1, <3>2, KeptCalls, LostStep DEF Binding!Next
    <3>3. CASE Begins BY <2>1, <3>1, <3>3, CallStep DEF Binding!Next
    <3> QED BY <3>1, <3>2, <3>3
  <2>5. CASE Body BY <2>1, <2>5, BodyTyped, SameAside
  <2>6. CASE Leaving BY <2>1, <2>6, LeavingTyped, SameAside
  <2>7. CASE Left
    <3>1. lvl > 0
      <4>1. Top.k = "deff" /\ Top.ph = "left" BY <2>7 DEF Left, In
      <4>2. Len(stack) \in Running BY <2>1, <4>1, CallTop, RunningCalls DEF Top
      <4>3. lvl = Cardinality(Running) /\ IsFiniteSet(Running) /\ lvl \in Nat
        BY <2>1, RunningFinite DEF IInv, LevelIsDepth
      <4>4. Cardinality(Running) # 0 BY <4>2, <4>3, FS_EmptySet
      <4> QED BY <4>3, <4>4
    <3>2. /\ Kept(stack', Below) /\ val' = SwapOut(val, Bound(Top.d), Top.old) /\ Top.d \in Definition
          /\ Good(stack) /\ Len(stack) > 1 /\ Len(stack) \in Running
      BY <2>1, <2>7, <3>1, LeftTyped
    <3> QED BY <2>1, <3>2, ReturnStep DEF Binding!Next
  <2> QED BY <2>2, <2>3, <2>4, <2>5, <2>6, <2>7, NextSteps
<1> QED BY <1>1, <1>2, InitTyped, NextKeeps, PTL DEF Spec, ScopeKept, Binding!Spec

------------------------------------------------------------------------------
\* Matches within matches: the entries of each stay its own while it waits for
\* program text, which may match itself.
\* Frames that keep the registers of a match while program text runs above
\* them, and where that text may begin: above the history of the match, unless
\* it has ended (NMD), and above its names.
Saves(f)   == f.k = "expv" \/ (f.k = "match" /\ f.ph \in {"now", "named"})
Depth(f)   == IF f.k = "match" /\ f.ph = "named" THEN f.m.hed ELSE f.m.pdl
Over(f, q) == Depth(f) <= q.hed /\ f.m.nam <= q.nhed
Floors == \A j \in DOMAIN stack : Saves(stack[j]) =>
            /\ \A k \in j + 1 .. Len(stack) : Saves(stack[k]) => Over(stack[j], stack[k].m)
            /\ (j < Len(stack) \/ stack[j].k = "expv") => Over(stack[j], m)

\* What may be above a match: program text it runs, or an error of its own.
Waits(i) ==
  \/ stack[i].ph = "scan" /\ stack[i + 1].k = "expv"
  \/ stack[i].ph = "scan" /\ stack[i + 1].k = "error" /\ i + 1 = Len(stack)
  \/ stack[i].ph \in {"now", "named"} /\ stack[i + 1].k = "trap"
Shape == \A i \in 1 .. Len(stack) - 1 : stack[i].k = "match" => Waits(i)

\* A match has its entries where its registers say, which wait in its frame, in
\* the one above, or are those in use.
Regs(i) == IF Saves(stack[i]) THEN stack[i].m
           ELSE IF i < Len(stack) /\ stack[i + 1].k = "expv" THEN stack[i + 1].m ELSE m
Owns(f, q) == /\ \A n \in q.nhed + 1 .. q.nam : list[n].own = f.id
              /\ f.ph \in {"scan", "now"} => q.text = f.id /\ \A n \in q.hed + 1 .. q.pdl : hist[n] = f.id
Owned == \A i \in DOMAIN stack : stack[i].k = "match" => Owns(stack[i], Regs(i))

Apart == Floors /\ Shape /\ Owned

\* The program does not trace &ERRTYPE: FTERST runs that trace above a match in
\* error without moving up where the next match begins.
Untraced == <<"KEYWORD", "ERRTYPE">> \notin P.traced

------------------------------------------------------------------------------
\* What is a number, in this state.
LEMMA Numbers ==
  ASSUME TypeInv
  PROVE  /\ Len(stack) \in Nat \ {0} /\ DOMAIN stack = 1 .. Len(stack)
         /\ m \in MatchRegs /\ Within(m)
         /\ \A j \in 1 .. Len(stack) : Saves(stack[j]) =>
              /\ stack[j].m \in MatchRegs /\ Depth(stack[j]) \in Nat /\ stack[j].m.nam \in Nat
              /\ stack[j].m.hed \in Nat /\ stack[j].m.nhed \in Nat
              /\ stack[j].m.hed <= Depth(stack[j]) /\ stack[j].m.nhed <= stack[j].m.nam
<1>1. Len(stack) \in Nat \ {0} /\ DOMAIN stack = 1 .. Len(stack) BY Typed, StackTop
<1>2. ASSUME NEW j \in 1 .. Len(stack), Saves(stack[j])
      PROVE  stack[j].m \in MatchRegs /\ Within(stack[j].m)
  <2>0. Good(stack) BY Typed
  <2>1. stack[j] \in Frames /\ FrameOK(stack[j]) BY <1>1, <2>0 DEF Good
  <2>2. stack[j].m \in MatchRegs BY <1>2, <2>1, FrameTyped DEF Saves
  <2> QED BY <1>2, <2>1, <2>2 DEF Saves, FrameOK
<1>3. ASSUME NEW j \in 1 .. Len(stack), Saves(stack[j])
      PROVE  /\ Depth(stack[j]) \in Nat /\ stack[j].m.nam \in Nat
             /\ stack[j].m.hed \in Nat /\ stack[j].m.nhed \in Nat
             /\ stack[j].m.hed <= Depth(stack[j]) /\ stack[j].m.nhed <= stack[j].m.nam
  BY <1>2, <1>3 DEF Depth, Within, MatchRegs
<1> QED BY <1>1, <1>2, <1>3, Typed

LEMMA NextNumbers ==
  ASSUME TypeInv'
  PROVE  /\ Len(stack') \in Nat \ {0} /\ DOMAIN stack' = 1 .. Len(stack') /\ m' \in MatchRegs
         /\ m'.hed \in Nat /\ m'.pdl \in Nat /\ m'.nhed \in Nat /\ m'.nam \in Nat
         /\ m'.hed <= m'.pdl /\ m'.nhed <= m'.nam
<1>1. stack' \in Seq(Frames') /\ stack' # <<>> /\ m' \in MatchRegs /\ Within(m)' BY DEF TypeInv, TypeOK
<1> QED BY <1>1 DEF Within, MatchRegs

\* Frames that are no match, and keep no registers of one.
Ordinary(f) == f.k \notin {"match", "expv"}

\* A step that leaves the match alone, and changes ordinary frames at the top.
Calm(n) ==
  /\ 0 < n /\ n <= Len(stack) /\ n <= Len(stack') /\ UNCHANGED <<m, hist, list>>
  /\ \A i \in 1 .. n : stack'[i] = stack[i]
  /\ \A i \in n + 1 .. Len(stack) : stack[i].k # "expv"
  /\ \A i \in n + 1 .. Len(stack') : Ordinary(stack'[i])
  /\ stack[n].k = "error" /\ n = Len(stack) => Len(stack') <= n
  /\ stack[n].k = "match" /\ Len(stack') > n =>
       stack[n].ph = "scan" /\ stack'[n + 1].k = "error" /\ n + 1 = Len(stack')

LEMMA Calmly == ASSUME TypeInv, TypeInv', Apart, NEW n \in Nat, Calm(n) PROVE Apart'
<1>a. Len(stack) \in Nat /\ DOMAIN stack = 1 .. Len(stack) BY Numbers
<1>b. Len(stack') \in Nat /\ DOMAIN stack' = 1 .. Len(stack') BY NextNumbers
<1>c. 0 < n /\ n <= Len(stack) /\ n <= Len(stack') BY DEF Calm
<1>d. m' = m /\ hist' = hist /\ list' = list BY DEF Calm
<1>e. \A i \in 1 .. n : stack'[i] = stack[i] BY DEF Calm
<1>f. \A i \in n + 1 .. Len(stack) : stack[i].k # "expv" BY DEF Calm
<1>g. \A i \in n + 1 .. Len(stack') : Ordinary(stack'[i]) BY DEF Calm
<1>h. /\ stack[n].k = "error" /\ n = Len(stack) => Len(stack') <= n
      /\ stack[n].k = "match" /\ Len(stack') > n =>
           stack[n].ph = "scan" /\ stack'[n + 1].k = "error" /\ n + 1 = Len(stack')
  BY DEF Calm
<1>1. /\ Len(stack) \in Nat /\ Len(stack') \in Nat /\ DOMAIN stack = 1 .. Len(stack)
      /\ DOMAIN stack' = 1 .. Len(stack') /\ 0 < n /\ n <= Len(stack) /\ n <= Len(stack')
  BY <1>a, <1>b, <1>c
<1>2. ASSUME NEW i \in 1 .. Len(stack'), ~Ordinary(stack'[i]) PROVE i \in 1 .. n /\ i \in 1 .. Len(stack)
  BY <1>1, <1>2, <1>g
<1>3. \A i \in 1 .. n : i \in 1 .. Len(stack) /\ stack'[i] = stack[i] BY <1>1, <1>e
<1>4. Shape'
  <2> SUFFICES ASSUME NEW i \in 1 .. Len(stack') - 1, stack'[i].k = "match" PROVE Waits(i)'
    BY DEF Shape
  <2>1. i \in 1 .. n /\ i \in 1 .. Len(stack) BY <1>1, <1>2 DEF Ordinary
  <2>2. CASE i = n
    <3>0. stack[n].k = "match" /\ Len(stack') > n BY <1>1, <1>3, <2>1, <2>2
    <3>1. stack'[n].ph = "scan" /\ stack'[n + 1].k = "error" /\ n + 1 = Len(stack')
      BY <1>3, <1>h, <2>1, <2>2, <3>0
    <3> QED BY <2>2, <3>1 DEF Waits
  <2>3. CASE i < n
    <3>1. i + 1 \in 1 .. n /\ i \in 1 .. Len(stack) - 1 BY <1>1, <2>1, <2>3
    <3>2. stack'[i] = stack[i] /\ stack'[i + 1] = stack[i + 1] BY <1>3, <2>1, <3>1
    <3>3. Waits(i) BY <3>1, <3>2 DEF Apart, Shape
    <3>4. CASE stack[i + 1].k = "error"
      <4>1. i + 1 = Len(stack) BY <3>3, <3>4 DEF Waits
      <4>2. n = i + 1 BY <1>1, <3>1, <4>1
      <4>3. Len(stack') = n
        <5>1. stack[n].k = "error" /\ n = Len(stack) BY <3>4, <4>1, <4>2
        <5>2. Len(stack') <= n BY <1>h, <5>1
        <5>3. Len(stack') \in Nat BY <1>b
        <5> QED BY <1>c, <5>2, <5>3
      <4> QED BY <3>2, <3>3, <4>2, <4>3 DEF Waits
    <3>5. CASE stack[i + 1].k # "error" BY <3>2, <3>3, <3>5 DEF Waits
    <3> QED BY <3>4, <3>5
  <2> QED BY <1>1, <2>1, <2>2, <2>3
<1>5. Floors'
  <2> SUFFICES ASSUME NEW j \in 1 .. Len(stack'), Saves(stack'[j])
               PROVE  /\ \A k \in j + 1 .. Len(stack') : Saves(stack'[k]) => Over(stack'[j], stack'[k].m)
                      /\ (j < Len(stack') \/ stack'[j].k = "expv") => Over(stack'[j], m')
    BY <1>1 DEF Floors, Saves, Over, Depth
  <2>1. j \in 1 .. n /\ j \in 1 .. Len(stack) /\ stack'[j] = stack[j] BY <1>2, <1>3 DEF Saves, Ordinary
  <2>2. /\ \A k \in j + 1 .. Len(stack) : Saves(stack[k]) => Over(stack[j], stack[k].m)
        /\ (j < Len(stack) \/ stack[j].k = "expv") => Over(stack[j], m)
    BY <1>1, <2>1 DEF Apart, Floors
  <2>3. ASSUME NEW k \in j + 1 .. Len(stack'), Saves(stack'[k]) PROVE Over(stack'[j], stack'[k].m)
    <3>1. k \in 1 .. Len(stack') BY <1>1, <2>1
    <3>2. k \in 1 .. n /\ k \in 1 .. Len(stack) /\ stack'[k] = stack[k] BY <1>2, <1>3, <2>3, <3>1 DEF Saves, Ordinary
    <3>3. k \in j + 1 .. Len(stack) BY <1>1, <2>1, <3>2
    <3> QED BY <2>1, <2>2, <2>3, <3>2, <3>3
  <2>4. ASSUME j < Len(stack') \/ stack'[j].k = "expv" PROVE Over(stack'[j], m')
    <3>1. CASE stack[j].k = "expv" BY <1>d, <2>1, <2>2, <3>1
    <3>2. CASE stack[j].k # "expv"
      <4>1. stack[j].k = "match" /\ stack[j].ph # "scan" BY <2>1, <3>2 DEF Saves
      <4>2. j < Len(stack')  BY <2>1, <2>4, <3>2
      <4>3. j < n \/ j = n BY <1>1, <2>1
      <4>4. ASSUME j = n PROVE FALSE
        <5>1. stack[n].k = "match" /\ stack[n].ph # "scan" /\ Len(stack') > n BY <1>1, <4>1, <4>2, <4>4
        <5> QED BY <1>h, <5>1
      <4>5. j < Len(stack) BY <1>1, <2>1, <4>3, <4>4
      <4> QED BY <1>d, <2>1, <2>2, <4>5
    <3> QED BY <3>1, <3>2
  <2> QED BY <2>3, <2>4
<1>6. Owned'
  <2> SUFFICES ASSUME NEW i \in 1 .. Len(stack'), stack'[i].k = "match" PROVE Owns(stack[i], Regs(i))'
    BY <1>1 DEF Owned
  <2>1. i \in 1 .. n /\ i \in 1 .. Len(stack) /\ stack'[i] = stack[i] BY <1>2, <1>3 DEF Ordinary
  <2>2. Owns(stack[i], Regs(i)) BY <1>1, <2>1 DEF Apart, Owned
  <2>3. Regs(i)' = Regs(i)
    <3>1. CASE Saves(stack[i]) BY <2>1, <3>1 DEF Regs, Saves
    <3>2. CASE i < n
      <4>1. i + 1 \in 1 .. n /\ i < Len(stack) /\ i < Len(stack') BY <1>1, <2>1, <3>2
      <4> QED BY <1>d, <1>3, <2>1, <4>1 DEF Regs, Saves
    <3>3. CASE i = n /\ ~Saves(stack[i])
      <4>1. ~(i < Len(stack) /\ stack[i + 1].k = "expv") BY <1>1, <1>f, <3>3
      <4>2. ~(i < Len(stack') /\ stack'[i + 1].k = "expv") BY <1>1, <1>g, <3>3 DEF Ordinary
      <4> QED BY <1>d, <2>1, <3>3, <4>1, <4>2 DEF Regs, Saves
    <3> QED BY <1>1, <2>1, <3>1, <3>2, <3>3
  <2>4. (stack[i])' = stack[i] BY <2>1
  <2> QED BY <1>d, <2>2, <2>3, <2>4 DEF Owns
<1> QED BY <1>4, <1>5, <1>6 DEF Apart

------------------------------------------------------------------------------
\* Stacks that have grown by ordinary frames.
Rises(t, s) == /\ Len(s) <= Len(t) /\ \A i \in 1 .. Len(s) : t[i] = s[i]
               /\ \A i \in Len(s) + 1 .. Len(t) : Ordinary(t[i])

LEMMA RisesBy ==
  ASSUME NEW S, NEW s \in Seq(S), NEW w, Ordinary(w)
  PROVE  Rises(Append(s, w), s) /\ Append(s, w) \in Seq(S \cup {w}) /\ Rises(s, s)
<1> DEFINE t == Append(s, w)
<1>1. s \in Seq(S \cup {w}) /\ w \in S \cup {w} /\ Len(s) \in Nat OBVIOUS
<1>2. t \in Seq(S \cup {w}) /\ Len(t) = Len(s) + 1 /\ t[Len(s) + 1] = w /\ \A i \in 1 .. Len(s) : t[i] = s[i]
  BY <1>1, AppendProperties
<1> HIDE DEF t
<1>3. \A i \in Len(s) + 1 .. Len(t) : i = Len(s) + 1 BY <1>1, <1>2
<1>4. \A i \in Len(s) + 1 .. Len(s) : FALSE BY <1>1
<1>5. Rises(t, s) BY <1>1, <1>2, <1>3 DEF Rises
<1>6. Rises(s, s) BY <1>1, <1>4 DEF Rises
<1> QED BY <1>2, <1>5, <1>6 DEF t

LEMMA RisesMore ==
  ASSUME NEW S, NEW s \in Seq(S), NEW T, NEW t \in Seq(T), NEW U, NEW u \in Seq(U), Rises(t, s), Rises(u, t)
  PROVE  Rises(u, s)
<1>1. Len(s) \in Nat /\ Len(t) \in Nat /\ Len(u) \in Nat OBVIOUS
<1>2. \A i \in 1 .. Len(s) : i \in 1 .. Len(t) BY <1>1 DEF Rises
<1>3. ASSUME NEW i \in Len(s) + 1 .. Len(u) PROVE Ordinary(u[i])
  <2>1. (i \in Len(s) + 1 .. Len(t) /\ i \in 1 .. Len(t)) \/ i \in Len(t) + 1 .. Len(u) BY <1>1
  <2> QED BY <1>1, <2>1 DEF Rises
<1> QED BY <1>1, <1>2, <1>3 DEF Rises

LEMMA Trapping ==
  ASSUME NEW ev, NEW q, NEW S, NEW s \in Seq(S), Trap(ev, q, s)
  PROVE  /\ \E T : stack' \in Seq(T)
         /\ Rises(stack', s)
         /\ ~Traced(q, ev) => stack' = s
         /\ Traced(q, ev) => \E w : w.k = "trap" /\ stack' = Append(s, w)
<1>1. CASE ~Traced(q, ev)
  <2>1. stack' = s BY <1>1 DEF Trap
  <2>2. Ordinary([k |-> "trap"]) BY DEF Ordinary
  <2> QED BY <1>1, <2>1, <2>2, RisesBy
<1>2. CASE Traced(q, ev)
  <2> DEFINE w == [k |-> "trap", r |-> [q EXCEPT !.trap = @ - 1]]
  <2>1. stack' = Append(s, w) BY <1>2 DEF Trap
  <2>2. Ordinary(w) /\ w.k = "trap" BY DEF Ordinary
  <2> HIDE DEF w
  <2>3. Rises(stack', s) /\ stack' \in Seq(S \cup {w}) BY <2>1, <2>2, RisesBy
  <2> QED BY <1>2, <2>1, <2>2, <2>3
<1> QED BY <1>1, <1>2

LEMMA Raising ==
  ASSUME Untraced, NEW ee, NEW typ, NEW kind, NEW q, NEW S, NEW s \in Seq(S), Raise(ee, typ, kind, q, s)
  PROVE  /\ Rises(stack', s)
         /\ stack' = s \/ stack' = Append(s, [k |-> "error"])
<1> DEFINE w == [k |-> "error"]
           t == Append(s, w)
<1>1. Ordinary(w) BY DEF Ordinary
<1>2. Rises(t, s) /\ t \in Seq(S \cup {w}) /\ Rises(s, s) BY <1>1, RisesBy
<1>3. ~Traced(q, <<"KEYWORD", "ERRTYPE">>) BY DEF Untraced, Traced
<1>4. stack' = s \/ Trap(<<"KEYWORD", "ERRTYPE">>, q, t) BY DEF Raise
<1> HIDE DEF t
<1>5. stack' = s \/ stack' = t BY <1>3, <1>4 DEF Trap
<1> QED BY <1>2, <1>5 DEF t

LEMMA Invoking ==
  ASSUME Untraced, TypeInv, Invoke(Here)
  PROVE  Rises(stack', stack)
<1>1. stack \in Seq(Frames) /\ ProgOK BY DEF TypeInv, TypeOK
<1>2. CASE Here.c = "call" /\ Here.f \notin DOMAIN fun
  <2>1. Raise(e, 5, "test", Past, stack) BY <1>2 DEF Invoke
  <2> QED BY <1>1, <2>1, Raising
<1>3. CASE ~(Here.c = "call" /\ Here.f \notin DOMAIN fun)
  <2> DEFINE w == IF Here.c = "op" THEN [k |-> "op", o |-> Here.o, n |-> Here.n, args |-> <<>>, ph |-> "args"]
                  ELSE [k |-> "deff", f |-> Here.f, n |-> Here.n, args |-> <<>>, ph |-> "args"]
  <2>1. stack' = Append(stack, w) BY <1>3 DEF Invoke
  <2>2. Ordinary(w) BY DEF Ordinary
  <2> HIDE DEF w
  <2> QED BY <1>1, <2>1, <2>2, RisesBy
<1> QED BY <1>2, <1>3

------------------------------------------------------------------------------
\* Steps that leave the match alone: the stack is as it was, has grown, has
\* lost its top, or has other ordinary frames for it.
LEMMA CalmSame ==
  ASSUME TypeInv, TypeInv', Apart, UNCHANGED <<m, hist, list>>, stack' = stack
  PROVE  Apart'
<1>1. Len(stack) \in Nat /\ 0 < Len(stack) /\ Len(stack') = Len(stack) BY Numbers
<1>2. \A i \in Len(stack) + 1 .. Len(stack) : FALSE BY <1>1
<1>3. Calm(Len(stack)) BY <1>1, <1>2 DEF Calm
<1> QED BY <1>1, <1>3, Calmly

LEMMA CalmPush ==
  ASSUME TypeInv, TypeInv', Apart, UNCHANGED <<m, hist, list>>, Rises(stack', stack),
         Top.k # "match", Top.k # "error"
  PROVE  Apart'
<1>1. Len(stack) \in Nat /\ 0 < Len(stack) BY Numbers
<1>2. \A i \in Len(stack) + 1 .. Len(stack) : FALSE BY <1>1
<1>3. Calm(Len(stack)) BY <1>1, <1>2 DEF Calm, Top, Rises
<1> QED BY <1>1, <1>3, Calmly

LEMMA BelowIs ==
  ASSUME TypeInv, Len(stack) > 1
  PROVE  /\ Below \in Seq(Frames) /\ Len(Below) = Len(stack) - 1 /\ Len(stack) - 1 \in Nat /\ 0 < Len(stack) - 1
         /\ \A i \in 1 .. Len(stack) - 1 : Below[i] = stack[i]
         /\ \A i \in Len(stack) - 1 + 1 .. Len(stack) : stack[i] = Top
<1>1. Len(stack) \in Nat /\ Good(stack) BY Numbers, Typed
<1>2. Good(Below) /\ Len(Below) = Len(stack) - 1 /\ \A i \in 1 .. Len(stack) - 1 : Below[i] = stack[i] BY <1>1, Popped
<1>3. \A i \in Len(stack) - 1 + 1 .. Len(stack) : i = Len(stack) BY <1>1
<1> QED BY <1>1, <1>2, <1>3 DEF Good, Top

LEMMA CalmPop ==
  ASSUME TypeInv, TypeInv', Apart, UNCHANGED <<m, hist, list>>, Len(stack) > 1, stack' = Below, Top.k # "expv"
  PROVE  Apart'
<1> DEFINE n == Len(stack) - 1
<1>1. /\ Len(stack') = n /\ n \in Nat /\ 0 < n /\ \A i \in 1 .. n : stack'[i] = stack[i]
      /\ \A i \in n + 1 .. Len(stack) : stack[i] = Top
  BY BelowIs
<1>2. n <= Len(stack) /\ n < Len(stack) BY Numbers
<1> HIDE DEF n
<1>3. \A i \in n + 1 .. n : FALSE BY <1>1
<1>4. Calm(n) BY <1>1, <1>2, <1>3 DEF Calm
<1> QED BY <1>1, <1>4, Calmly

LEMMA CalmTurn ==
  ASSUME TypeInv, TypeInv', Apart, UNCHANGED <<m, hist, list>>, Len(stack) > 1, Rises(stack', Below),
         Top.k \notin {"expv", "trap", "error"}
  PROVE  Apart'
<1> DEFINE n == Len(stack) - 1
<1>1. /\ Len(Below) = n /\ n \in Nat /\ 0 < n /\ \A i \in 1 .. n : Below[i] = stack[i]
      /\ \A i \in n + 1 .. Len(stack) : stack[i] = Top
  BY BelowIs
<1>2. n <= Len(stack) /\ n < Len(stack) /\ n + 1 = Len(stack) BY Numbers
<1>3. stack[n].k # "match"
  <2>1. n \in 1 .. n BY <1>1
  <2>2. stack[n].k = "match" => Waits(n) BY <2>1 DEF Apart, Shape
  <2>3. stack[n + 1] = Top BY <1>2 DEF Top
  <2> QED BY <2>2, <2>3 DEF Waits
<1> HIDE DEF n
<1>4. /\ n <= Len(stack') /\ \A i \in 1 .. n : stack'[i] = stack[i]
      /\ \A i \in n + 1 .. Len(stack') : Ordinary(stack'[i])
  BY <1>1 DEF Rises
<1>5. Top.k # "expv" OBVIOUS
<1>6. Calm(n) BY <1>1, <1>2, <1>3, <1>4, <1>5 DEF Calm
<1> QED BY <1>1, <1>6, Calmly

\* With(f) for an ordinary f.
LEMMA WithRises ==
  ASSUME TypeInv, Len(stack) > 1, NEW f, Ordinary(f)
  PROVE  Rises(With(f), Below) /\ With(f) \in Seq(Frames \cup {f}) /\ Rises(Below, Below)
<1>1. Below \in Seq(Frames) BY BelowIs
<1> QED BY <1>1, RisesBy DEF With

\* How the frames are told apart at the top.
LEMMA AtTop ==
  ASSUME TypeInv, Top.k # "interp"
  PROVE  Len(stack) > 1 /\ Top \in Frames
BY Typed, StackTop

------------------------------------------------------------------------------
\* The actions that leave the match alone.
Apartly == Apart => Apart'

LEMMA InterpApart ==
  ASSUME Untraced, TypeInv, TypeInv', Skip \/ Init1 \/ Goto \/ Base \/ End \/ Do \/ Returned \/ Gotl
  PROVE  Apartly
<1> SUFFICES ASSUME Apart PROVE Apart' BY DEF Apartly
<1>1. stack \in Seq(Frames) /\ ProgOK BY DEF TypeInv, TypeOK
<1>2. CASE Skip \/ Goto \/ Base \/ End
  BY <1>2, CalmSame DEF Skip, Goto, Base, End, match
<1>3. CASE Do
  <2>1. Top.k = "interp" /\ Invoke(Here) /\ UNCHANGED <<m, hist, list>> BY <1>3 DEF Do, At, In, match
  <2> QED BY <2>1, Invoking, CalmPush
<1>4. CASE Returned
  <2>1. Top.k = "interp" /\ UNCHANGED <<m, hist, list>> /\ (stack' = stack \/ (Len(stack) > 1 /\ stack' = Below))
    BY <1>4 DEF Returned, Back, match, Return
  <2> QED BY <2>1, CalmSame, CalmPop
<1>5. CASE Gotl
  <2> DEFINE w == [k |-> "goto", l |-> Here.l]
             t == Append(stack, w)
  <2>1. Top.k = "interp" /\ Trap(<<"LABEL", Here.l>>, Past, t) /\ UNCHANGED <<m, hist, list>>
    BY <1>5 DEF Gotl, At, In, match
  <2>2. Ordinary(w) BY DEF Ordinary
  <2> HIDE DEF w
  <2>3. Rises(t, stack) /\ t \in Seq(Frames \cup {w}) BY <1>1, <2>2, RisesBy
  <2> HIDE DEF t
  <2>4. Rises(stack', t) /\ \E T : stack' \in Seq(T) BY <2>1, <2>3, Trapping
  <2>5. Rises(stack', stack) BY <1>1, <2>3, <2>4, RisesMore
  <2> QED BY <2>1, <2>5, CalmPush
<1>6. CASE Init1
  <2>1. Top.k = "interp" /\ UNCHANGED <<m, hist, list>> BY <1>6 DEF Init1, At, In, match
  <2>2. \/ \E ee, q : Raise(ee, 34, "test", q, stack)
        \/ \E q : Trap(<<"KEYWORD", "STCOUNT">>, q, stack)
        \/ stack' = stack
    BY <1>6 DEF Init1
  <2>3. Rises(stack', stack) \/ stack' = stack BY <1>1, <2>2, Raising, Trapping
  <2> QED BY <2>1, <2>3, CalmPush, CalmSame
<1> QED BY <1>2, <1>3, <1>4, <1>5, <1>6

LEMMA ErrorsApart ==
  ASSUME Untraced, TypeInv, TypeInv', Trace \/ TrapReturn \/ Xithnd \/ Interrupt \/ GotoLabel
  PROVE  Apartly
<1> SUFFICES ASSUME Apart PROVE Apart' BY DEF Apartly
<1>1. CASE Trace
  <2>1. Top.k = "trap" /\ Invoke(Here) /\ UNCHANGED <<m, hist, list>> BY <1>1 DEF Trace, In, match
  <2> QED BY <2>1, Invoking, CalmPush
<1>2. CASE TrapReturn
  <2>1. Top.k = "trap" /\ stack' = Below /\ UNCHANGED <<m, hist, list>> BY <1>2 DEF TrapReturn, Back, match
  <2> QED BY <2>1, AtTop, CalmPop
<1>3. CASE Xithnd
  <2>1. Top.k = "error" /\ stack' = Below /\ UNCHANGED <<m, hist, list>> BY <1>3 DEF Xithnd, In, match, Return
  <2> QED BY <2>1, AtTop, CalmPop
<1>4. CASE Interrupt BY <1>4, CalmSame DEF Interrupt, match
<1>5. CASE GotoLabel
  <2>1. Top.k = "goto" /\ UNCHANGED <<m, hist, list>> BY <1>5 DEF GotoLabel, In, match
  <2>2. \/ stack' = Below
        \/ stack' = stack
        \/ \E q, typ : Raise(e, typ, "fatal", q, Below)
    BY <1>5 DEF GotoLabel, Resume, Return
  <2>3. Len(stack) > 1 /\ ProgOK BY <2>1, AtTop, Typed
  <2>4. Below \in Seq(Frames) BY <2>3, BelowIs
  <2>5. stack' = Below \/ stack' = stack \/ Rises(stack', Below) BY <2>2, <2>3, <2>4, Raising
  <2> QED BY <2>1, <2>3, <2>5, CalmPop, CalmSame, CalmTurn
<1> QED BY <1>1, <1>2, <1>3, <1>4, <1>5

LEMMA Taking ==
  ASSUME TypeInv, Collects, NEW v, Take(v)
  PROVE  Rises(stack', Below)
<1> DEFINE f == [Top EXCEPT !.args = Append(@, v)]
<1>1. Top.k \in {"op", "deff"} /\ Top.ph = "args" BY DEF Collects
<1>2. Len(stack) > 1 /\ Top \in Frames BY <1>1, AtTop
<1>3. f.k = Top.k
  <2>1. CASE Top.k = "op"
    <3>1. Top \in [k : {"op"}, o : {"ASGN"} \cup Unary, n : 1 .. 2, args : Seq(Values(P) \cup NameRef), ph : {"args", "traced"}]
      BY <1>2, <2>1, FrameTyped
    <3> QED BY <3>1
  <2>2. CASE Top.k = "deff"
    <3>1. Top \in [k : {"deff"}, f : Names, n : Nat, args : Seq(Values(P)), ph : {"args"}]
      BY <1>1, <1>2, <2>2, FrameTyped
    <3> QED BY <3>1
  <2> QED BY <1>1, <2>1, <2>2
<1>4. stack' = With(f) BY DEF Take
<1> HIDE DEF f
<1>5. Ordinary(f) BY <1>1, <1>3 DEF Ordinary
<1> QED BY <1>2, <1>4, <1>5, WithRises

LEMMA OperandsApart ==
  ASSUME Untraced, TypeInv, TypeInv', Operand \/ OperandBack
  PROVE  Apartly
<1> SUFFICES ASSUME Apart PROVE Apart' BY DEF Apartly
<1>1. Collects /\ UNCHANGED <<m, hist, list>> BY DEF Operand, OperandBack, match
<1>2. Top.k \in {"op", "deff"} BY <1>1 DEF Collects
<1>3. Len(stack) > 1 /\ ProgOK BY <1>2, AtTop, Typed
<1>4. Below \in Seq(Frames) BY <1>3, BelowIs
<1>5. \/ \E v : Take(v)
      \/ \E typ, q : Raise(e, typ, "test", q, Below)
      \/ stack' = Below
      \/ Invoke(Here)
  BY DEF Operand, OperandBack, TakeName, Return
<1>6. Rises(stack', Below) \/ stack' = Below \/ Rises(stack', stack)
  BY <1>1, <1>3, <1>4, <1>5, Taking, Raising, Invoking
<1> QED BY <1>1, <1>2, <1>3, <1>6, CalmPop, CalmPush, CalmTurn

LEMMA OperationsApart ==
  ASSUME Untraced, TypeInv, TypeInv', Bad \/ Asgn \/ Asgned \/ Setexit \/ Define
  PROVE  Apartly
<1> SUFFICES ASSUME Apart PROVE Apart' BY DEF Apartly
<1>1. Top.k = "op" /\ UNCHANGED <<m, hist, list>> BY DEF Bad, Asgn, Asgned, Setexit, Define, Ready, In, match
<1>2. Len(stack) > 1 /\ ProgOK /\ Top \in Frames BY <1>1, AtTop, Typed
<1>3. Below \in Seq(Frames) BY <1>2, BelowIs
<1>4. Top \in [k : {"op"}, o : {"ASGN"} \cup Unary, n : 1 .. 2, args : Seq(Values(P) \cup NameRef), ph : {"args", "traced"}]
  BY <1>1, <1>2, FrameTyped
<1>5. Ordinary([Top EXCEPT !.ph = "traced"]) /\ Ordinary([Top EXCEPT !.args = <<>>]) BY <1>4 DEF Ordinary
<1>6. CASE Bad \/ Define \/ Asgned
  <2>1. (\E typ, q : Raise(e, typ, "test", q, Below)) \/ stack' = Below
    BY <1>6 DEF Bad, Define, Asgned, Return
  <2>2. Rises(stack', Below) \/ stack' = Below BY <1>2, <1>3, <2>1, Raising
  <2> QED BY <1>1, <1>2, <2>2, CalmPop, CalmTurn
<1>7. CASE Asgn
  <2> DEFINE f == [Top EXCEPT !.ph = "traced"]
  <2>1. \E ev : Trap(ev, r, With(f)) BY <1>7 DEF Asgn
  <2> HIDE DEF f
  <2>2. Ordinary(f) BY <1>5 DEF f
  <2>3. Rises(With(f), Below) /\ With(f) \in Seq(Frames \cup {f}) BY <1>2, <2>2, WithRises
  <2>4. Rises(stack', With(f)) /\ \E T : stack' \in Seq(T) BY <2>1, <2>3, Trapping
  <2>5. Rises(stack', Below) BY <1>3, <2>3, <2>4, RisesMore
  <2> QED BY <1>1, <1>2, <2>5, CalmTurn
<1>8. CASE Setexit
  <2> DEFINE f == [Top EXCEPT !.args = <<>>]
  <2>1. \/ Raise(e, 1, "test", r, With(f))
        \/ Raise(e, 30, "test", r, Below)
        \/ stack' = Below
    BY <1>8 DEF Setexit, Return
  <2> HIDE DEF f
  <2>2. Ordinary(f) BY <1>5 DEF f
  <2>3. Rises(With(f), Below) /\ With(f) \in Seq(Frames \cup {f}) BY <1>2, <2>2, WithRises
  <2>4. CASE Raise(e, 1, "test", r, With(f))
    <3>1. Rises(stack', With(f)) BY <1>2, <2>3, <2>4, Raising
    <3>2. stack' \in Seq(Frames') BY DEF TypeInv, TypeOK
    <3>3. Rises(stack', Below) BY <1>3, <2>3, <3>1, <3>2, RisesMore
    <3> QED BY <1>1, <1>2, <3>3, CalmTurn
  <2>5. CASE Raise(e, 30, "test", r, Below)
    <3>1. Rises(stack', Below) BY <1>2, <1>3, <2>5, Raising
    <3> QED BY <1>1, <1>2, <3>1, CalmTurn
  <2> QED BY <1>1, <1>2, <2>1, <2>4, <2>5, CalmPop
<1> QED BY <1>6, <1>7, <1>8

LEMMA CallsApart ==
  ASSUME Untraced, TypeInv, TypeInv', Enter \/ Body \/ Leaving \/ Left
  PROVE  Apartly
<1> SUFFICES ASSUME Apart PROVE Apart' BY DEF Apartly
<1>1. Top.k = "deff" /\ UNCHANGED <<m, hist, list>> BY DEF Enter, Body, Leaving, Left, In, Back, match
<1>2. Len(stack) > 1 /\ ProgOK /\ Top \in Frames BY <1>1, AtTop, Typed
<1>3. Below \in Seq(Frames) /\ stack' \in Seq(Frames') BY <1>2, BelowIs DEF TypeInv, TypeOK
<1>4. \/ \E typ, q : Raise(e, typ, "test", q, Below)
      \/ \E ev, q, f : Ordinary(f) /\ Trap(ev, q, With(f))
      \/ stack' = Below
      \/ Body
  <2>1. CASE Enter
    <3>1. \/ \E typ, q : Raise(e, typ, "test", q, Below)
          \/ \E ev, q, d, old : Trap(ev, q, With([k |-> "deff", ph |-> "entered", d |-> d, old |-> old, r |-> r]))
      BY <2>1 DEF Enter
    <3>2. \A d, old : Ordinary([k |-> "deff", ph |-> "entered", d |-> d, old |-> old, r |-> r]) BY DEF Ordinary
    <3> QED BY <3>1, <3>2
  <2>2. CASE Leaving
    <3> DEFINE f == [k |-> "deff", ph |-> "left", d |-> Top.d, old |-> Top.old, r |-> Top.r, how |-> ret.n]
    <3>1. Trap(<<"RETURN", Top.d.f>>, r, With(f)) BY <2>2 DEF Leaving
    <3>2. Ordinary(f) BY DEF Ordinary
    <3> HIDE DEF f
    <3> QED BY <3>1, <3>2
  <2>3. CASE Left BY <2>3 DEF Left, Return
  <2> QED BY <2>1, <2>2, <2>3
<1>5. ASSUME NEW f, Ordinary(f), NEW ev, NEW q, Trap(ev, q, With(f)) PROVE Rises(stack', Below)
  <2>1. Rises(With(f), Below) /\ With(f) \in Seq(Frames \cup {f}) BY <1>2, <1>5, WithRises
  <2>2. Rises(stack', With(f)) BY <1>5, <2>1, Trapping
  <2> QED BY <1>3, <2>1, <2>2, RisesMore
<1>6. ASSUME Body PROVE Rises(stack', Below)
  <2> DEFINE f == [Top EXCEPT !.ph = "body"]
             w == [k |-> "interp"]
  <2>1. Top.ph = "entered" /\ stack' = With(f) \o <<w>> BY <1>6 DEF Body
  <2>2. Top \in [k : {"deff"}, ph : {"entered", "body"}, d : Definition, old : Seq(Values(P)), r : Registers]
    BY <1>1, <1>2, <2>1, FrameTyped
  <2>3. Ordinary(f) /\ Ordinary(w) BY <2>2 DEF Ordinary
  <2> HIDE DEF f, w
  <2>4. Rises(With(f), Below) /\ With(f) \in Seq(Frames \cup {f}) BY <1>2, <2>3, WithRises
  <2>5. With(f) \o <<w>> = Append(With(f), w)
    <3>1. With(f) \in Seq(Frames \cup {f} \cup {w}) /\ w \in Frames \cup {f} \cup {w} BY <2>4
    <3> QED BY <3>1
  <2>6. Rises(stack', With(f)) BY <2>1, <2>3, <2>4, <2>5, RisesBy
  <2> QED BY <1>3, <2>4, <2>6, RisesMore
<1>7. Rises(stack', Below) \/ stack' = Below BY <1>2, <1>3, <1>4, <1>5, <1>6, Raising
<1> QED BY <1>1, <1>2, <1>7, CalmPop, CalmTurn

------------------------------------------------------------------------------
\* A frame may change in what does not matter here.
Alike(f, g) == /\ f.k = g.k
               /\ f.k \in {"match", "expv"} => f.m = g.m
               /\ f.k = "match" => f.id = g.id /\ f.ph = g.ph

LEMMA AlikeSaves ==
  ASSUME NEW f, NEW g, Alike(f, g)
  PROVE  /\ Saves(f) <=> Saves(g)
         /\ \A q : Saves(f) => (Over(f, q) <=> Over(g, q)) /\ f.m = g.m
BY DEF Alike, Saves, Over, Depth

\* What waits below the top of the stack begins below what is in use.
LEMMA Lower ==
  ASSUME TypeInv, Apart, NEW j \in 1 .. Len(stack), Saves(stack[j]), j < Len(stack) \/ stack[j].k = "expv"
  PROVE  Over(stack[j], m)
BY Numbers DEF Apart, Floors

\* EXPVAL begins: it keeps the registers, and program text begins above them.
Opening(n) ==
  /\ 0 < n /\ n <= Len(stack) /\ Len(stack) <= n + 1 /\ Len(stack') = n + 1 /\ UNCHANGED <<hist, list>>
  /\ \A i \in 1 .. n : Alike(stack'[i], stack[i])
  /\ stack'[n + 1].k = "expv" /\ stack'[n + 1].m = m /\ m' = Above(m)
  /\ n < Len(stack)  => stack[n + 1].k = "op"
  /\ n >= Len(stack) => stack[n].k = "match" /\ stack[n].ph = "scan"

LEMMA Opens == ASSUME TypeInv, TypeInv', Apart, NEW n \in Nat, Opening(n) PROVE Apart'
<1>a. Len(stack) \in Nat /\ DOMAIN stack = 1 .. Len(stack) BY Numbers
<1>b. DOMAIN stack' = 1 .. Len(stack') BY NextNumbers
<1>c. 0 < n /\ n <= Len(stack) /\ Len(stack) <= n + 1 /\ Len(stack') = n + 1 BY DEF Opening
<1>d. hist' = hist /\ list' = list BY DEF Opening
<1>e. \A i \in 1 .. n : Alike(stack'[i], stack[i]) BY DEF Opening
<1>f. stack'[n + 1].k = "expv" /\ stack'[n + 1].m = m /\ m' = Above(m) BY DEF Opening
<1>g. n < Len(stack) => stack[n + 1].k = "op" BY DEF Opening
<1>h. n >= Len(stack) => stack[n].k = "match" /\ stack[n].ph = "scan" BY DEF Opening
<1>1. /\ Len(stack) \in Nat /\ Len(stack') = n + 1 /\ DOMAIN stack = 1 .. Len(stack) /\ DOMAIN stack' = 1 .. n + 1
      /\ n <= Len(stack) /\ Len(stack) <= n + 1
  BY <1>a, <1>b, <1>c
<1>2. /\ m.pdl \in Nat /\ m.hed \in Nat /\ m.nam \in Nat /\ m.nhed \in Nat /\ m.hed <= m.pdl /\ m.nhed <= m.nam
      /\ m'.hed = m.pdl /\ m'.nhed = m.nam
  <2>1. m \in MatchRegs /\ Within(m) BY Numbers
  <2> QED BY <1>f, <2>1 DEF MatchRegs, Within, Above
<1>3. /\ n >= Len(stack) => stack[n].k = "match" /\ stack[n].ph = "scan"
      /\ n < Len(stack) => n + 1 = Len(stack) /\ stack[n + 1].k = "op"
  <2>0. \A a, b \in Nat : a < b /\ b <= a + 1 => a + 1 = b OBVIOUS
  <2>1. n < Len(stack) => n + 1 = Len(stack) BY <1>a, <1>c, <2>0
  <2> QED BY <1>g, <1>h, <2>1
<1>4. \A i \in 1 .. n : i \in 1 .. Len(stack) BY <1>1
<1>5. ASSUME NEW j \in 1 .. n, Saves(stack[j]) PROVE j < Len(stack) /\ Over(stack[j], m) /\ Over(stack[j], m')
  <2>1. j < Len(stack)
    <3>1. j = n /\ n >= Len(stack) => FALSE BY <1>3, <1>5 DEF Saves
    <3> QED BY <1>1, <3>1
  <2>2. Over(stack[j], m) BY <1>4, <1>5, <2>1, Lower
  <2>3. Depth(stack[j]) \in Nat /\ stack[j].m.nam \in Nat BY <1>4, <1>5, Numbers
  <2> QED BY <1>2, <2>1, <2>2, <2>3 DEF Over
<1>6. Saves(stack'[n + 1]) /\ Over(stack'[n + 1], m') BY <1>2, <1>f DEF Saves, Over, Depth
<1>7. Floors'
  <2> SUFFICES ASSUME NEW j \in 1 .. n + 1, Saves(stack'[j])
               PROVE  /\ \A k \in j + 1 .. n + 1 : Saves(stack'[k]) => Over(stack'[j], stack'[k].m)
                      /\ Over(stack'[j], m')
    BY <1>1 DEF Floors, Saves, Over, Depth
  <2>1. CASE j = n + 1
    <3>1. \A k \in j + 1 .. n + 1 : FALSE BY <2>1
    <3> QED BY <1>6, <2>1, <3>1
  <2>2. CASE j \in 1 .. n
    <3>1. Saves(stack[j]) /\ \A q : Over(stack'[j], q) <=> Over(stack[j], q) BY <1>e, <2>2, AlikeSaves
    <3>2. Over(stack[j], m) /\ Over(stack[j], m') BY <1>5, <2>2, <3>1
    <3>3. ASSUME NEW k \in j + 1 .. n + 1, Saves(stack'[k]) PROVE Over(stack'[j], stack'[k].m)
      <4>1. CASE k = n + 1 BY <1>f, <3>1, <3>2, <4>1
      <4>2. CASE k \in 1 .. n
        <5>1. Saves(stack[k]) /\ stack'[k].m = stack[k].m BY <1>e, <3>3, <4>2, AlikeSaves
        <5>2. k \in j + 1 .. Len(stack) /\ j \in 1 .. Len(stack) BY <1>1, <2>2, <4>2
        <5>3. Over(stack[j], stack[k].m) BY <1>1, <3>1, <5>1, <5>2 DEF Apart, Floors
        <5> QED BY <3>1, <5>1, <5>3
      <4> QED BY <2>2, <4>1, <4>2
    <3> QED BY <3>1, <3>2, <3>3
  <2> QED BY <2>1, <2>2
<1>8. Shape'
  <2> SUFFICES ASSUME NEW i \in 1 .. n, stack'[i].k = "match" PROVE Waits(i)' BY <1>1 DEF Shape
  <2>1. stack[i].k = "match" /\ stack'[i].ph = stack[i].ph BY <1>e DEF Alike
  <2>2. CASE i = n /\ n >= Len(stack) BY <1>3, <1>f, <2>1, <2>2 DEF Waits
  <2>3. CASE i = n /\ n < Len(stack)
    <3>1. Waits(n) BY <1>1, <2>1, <2>3 DEF Apart, Shape
    <3> QED BY <1>3, <2>3, <3>1 DEF Waits
  <2>4. CASE i < n
    <3>1. i + 1 \in 1 .. n /\ i \in 1 .. Len(stack) - 1 BY <1>1, <2>4
    <3>2. Waits(i) BY <2>1, <3>1 DEF Apart, Shape
    <3>3. stack'[i + 1].k = stack[i + 1].k BY <1>e, <3>1 DEF Alike
    <3>4. stack[i + 1].k # "error"
      <4>1. CASE i + 1 = Len(stack)
        <5>1. n = i + 1 /\ n >= Len(stack) BY <1>1, <2>4, <4>1
        <5>2. stack[n].k = "match" BY <1>3, <5>1
        <5> QED BY <5>1, <5>2
      <4>2. CASE i + 1 # Len(stack) BY <2>1, <3>2, <4>2 DEF Waits
      <4> QED BY <4>1, <4>2
    <3> QED BY <2>1, <3>2, <3>3, <3>4 DEF Waits
  <2> QED BY <1>1, <2>2, <2>3, <2>4
<1>9. Owned'
  <2> SUFFICES ASSUME NEW i \in 1 .. n, stack'[i].k = "match" PROVE Owns(stack[i], Regs(i))'
    BY <1>1, <1>f DEF Owned
  <2>1. /\ stack[i].k = "match" /\ stack'[i].id = stack[i].id /\ stack'[i].ph = stack[i].ph /\ stack'[i].m = stack[i].m
        /\ (Saves(stack'[i]) <=> Saves(stack[i]))
    BY <1>e, AlikeSaves DEF Alike
  <2>2. Owns(stack[i], Regs(i)) BY <1>1, <1>4, <2>1 DEF Apart, Owned
  <2>3. Regs(i)' = Regs(i)
    <3>1. CASE Saves(stack[i]) BY <2>1, <3>1 DEF Regs, Saves
    <3>2. CASE ~Saves(stack[i]) /\ i < n
      <4>1. i + 1 \in 1 .. n /\ i < Len(stack) /\ i < Len(stack') BY <1>1, <3>2
      <4>2. i \in 1 .. Len(stack) - 1 BY <1>1, <4>1
      <4>3. Waits(i) BY <2>1, <4>2 DEF Apart, Shape
      <4>4. stack[i + 1].k = "expv"
        <5>1. CASE i + 1 = Len(stack)
          <6>1. stack[i + 1].k = "match" BY <1>1, <1>3, <4>1, <5>1
          <6> QED BY <2>1, <3>2, <4>3, <6>1 DEF Waits, Saves
        <5>2. CASE i + 1 # Len(stack) BY <2>1, <3>2, <4>3, <5>2 DEF Waits, Saves
        <5> QED BY <5>1, <5>2
      <4>5. stack'[i + 1].k = "expv" /\ stack'[i + 1].m = stack[i + 1].m BY <1>e, <4>1, <4>4 DEF Alike
      <4> QED BY <2>1, <3>2, <4>1, <4>4, <4>5 DEF Regs, Saves
    <3>3. CASE ~Saves(stack[i]) /\ i = n /\ n >= Len(stack)
      <4>1. ~(i < Len(stack)) /\ i < Len(stack') BY <1>1, <3>3
      <4>2. Regs(i) = m BY <3>3, <4>1 DEF Regs
      <4>3. Regs(i)' = m BY <1>f, <2>1, <3>3, <4>1 DEF Regs
      <4> QED BY <4>2, <4>3
    <3>4. CASE i = n /\ n < Len(stack)
      <4>1. Waits(n) BY <1>1, <2>1, <3>4 DEF Apart, Shape
      <4>2. FALSE BY <1>3, <3>4, <4>1 DEF Waits
      <4> QED BY <4>2
    <3> QED BY <1>1, <3>1, <3>2, <3>3, <3>4
  <2> QED BY <1>d, <2>1, <2>2, <2>3 DEF Owns
<1> QED BY <1>7, <1>8, <1>9 DEF Apart

\* EXPVAL ends: what it kept is in use again.
LEMMA Closes ==
  ASSUME TypeInv, TypeInv', Apart, Top.k = "expv", stack' = Below, m' = Top.m, UNCHANGED <<hist, list>>
  PROVE  Apart'
<1> DEFINE n == Len(stack) - 1
<1>1. Len(stack) > 1 BY AtTop
<1>2. /\ n \in Nat /\ 0 < n /\ Len(stack') = n /\ \A i \in 1 .. n : stack'[i] = stack[i] BY <1>1, BelowIs
<1>3. n + 1 = Len(stack) /\ n < Len(stack) /\ Len(stack) \in Nat /\ DOMAIN stack = 1 .. n + 1 /\ DOMAIN stack' = 1 .. n
  BY <1>1, <1>2, Numbers, NextNumbers
<1>4. stack[n + 1].k = "expv" /\ Saves(stack[n + 1]) /\ m' = stack[n + 1].m BY <1>3 DEF Top, Saves
<1> HIDE DEF n
<1>5. \A i \in 1 .. n : i \in 1 .. Len(stack) BY <1>2, <1>3
<1>6. Floors'
  <2> SUFFICES ASSUME NEW j \in 1 .. n, Saves(stack'[j])
               PROVE  /\ \A k \in j + 1 .. n : Saves(stack'[k]) => Over(stack'[j], stack'[k].m)
                      /\ Over(stack'[j], m')
    BY <1>2, <1>3 DEF Floors, Saves, Over, Depth
  <2>1. stack'[j] = stack[j] BY <1>2
  <2>2. \A k \in j + 1 .. n + 1 : Saves(stack[k]) => Over(stack[j], stack[k].m)
    BY <1>3, <1>5, <2>1 DEF Apart, Floors
  <2>3. \A k \in j + 1 .. n : k \in 1 .. n /\ k \in j + 1 .. n + 1 BY <1>2
  <2>4. n + 1 \in j + 1 .. n + 1 BY <1>2
  <2> QED BY <1>2, <1>4, <2>1, <2>2, <2>3, <2>4
<1>7. ASSUME NEW i \in 1 .. n, stack[i].k = "match" PROVE Waits(i)
  <2>1. i \in 1 .. Len(stack) - 1 BY <1>2, <1>3
  <2> QED BY <1>7, <2>1 DEF Apart, Shape
<1>8. Shape'
  <2> SUFFICES ASSUME NEW i \in 1 .. n - 1, stack'[i].k = "match" PROVE Waits(i)' BY <1>2 DEF Shape
  <2>1. i \in 1 .. n /\ i + 1 \in 1 .. n /\ i + 1 < Len(stack) BY <1>2, <1>3
  <2>2. stack'[i] = stack[i] /\ stack'[i + 1] = stack[i + 1] BY <1>2, <2>1
  <2>3. Waits(i) BY <1>7, <2>1, <2>2
  <2>4. i + 1 # Len(stack) BY <1>3, <2>1
  <2> QED BY <2>2, <2>3, <2>4 DEF Waits
<1>9. Owned'
  <2> SUFFICES ASSUME NEW i \in 1 .. n, stack'[i].k = "match" PROVE Owns(stack[i], Regs(i))'
    BY <1>3 DEF Owned
  <2>1. stack'[i] = stack[i] /\ stack[i].k = "match" BY <1>2
  <2>2. Owns(stack[i], Regs(i)) BY <1>3, <1>5, <2>1 DEF Apart, Owned
  <2>3. Regs(i)' = Regs(i)
    <3>1. CASE Saves(stack[i]) BY <2>1, <3>1 DEF Regs, Saves
    <3>2. CASE ~Saves(stack[i]) /\ i < n
      <4>1. i + 1 \in 1 .. n /\ i < Len(stack) /\ i < Len(stack') /\ i + 1 < Len(stack) BY <1>2, <1>3, <3>2
      <4>2. Waits(i) /\ i + 1 # Len(stack) BY <1>3, <1>7, <2>1, <4>1
      <4>3. stack[i + 1].k = "expv" BY <2>1, <3>2, <4>2 DEF Waits, Saves
      <4>4. stack'[i + 1] = stack[i + 1] BY <1>2, <4>1
      <4> QED BY <2>1, <3>2, <4>1, <4>3, <4>4 DEF Regs, Saves
    <3>3. CASE ~Saves(stack[i]) /\ i = n
      <4>1. Regs(i) = m' BY <1>3, <1>4, <3>3 DEF Regs
      <4>2. Regs(i)' = m' BY <1>2, <2>1, <3>3 DEF Regs, Saves
      <4> QED BY <4>1, <4>2
    <3> QED BY <1>2, <3>1, <3>2, <3>3
  <2> QED BY <2>1, <2>2, <2>3 DEF Owns
<1> QED BY <1>6, <1>8, <1>9 DEF Apart

LEMMA OnTop ==
  ASSUME NEW S, NEW s \in Seq(S), NEW w
  PROVE  /\ Append(s, w) \in Seq(S \cup {w}) /\ Len(Append(s, w)) = Len(s) + 1
         /\ Append(s, w)[Len(s) + 1] = w /\ \A i \in 1 .. Len(s) : Append(s, w)[i] = s[i]
<1>1. s \in Seq(S \cup {w}) /\ w \in S \cup {w} OBVIOUS
<1> QED BY <1>1, AppendProperties

LEMMA ValuesApart ==
  ASSUME Untraced, TypeInv, TypeInv', ExpvalCode \/ ExpvalBack \/ Eval
  PROVE  Apartly
<1> SUFFICES ASSUME Apart PROVE Apart' BY DEF Apartly
<1>1. UNCHANGED <<hist, list>> BY DEF ExpvalCode, ExpvalBack, Eval
<1>2. CASE ExpvalCode \/ ExpvalBack
  <2>1. Top.k = "expv" BY <1>2 DEF ExpvalCode, ExpvalBack, In, Back
  <2>2. (Invoke(Here) /\ UNCHANGED m) \/ (m' = Top.m /\ stack' = Below)
    BY <1>2 DEF ExpvalCode, ExpvalBack, Expvaled, Return
  <2> QED BY <1>1, <2>1, <2>2, Invoking, CalmPush, Closes
<1>3. CASE Eval
  <2>1. Top.k = "op" BY <1>3 DEF Eval, Ready, In
  <2>2. Len(stack) > 1 /\ ProgOK BY <2>1, AtTop, Typed
  <2>3. /\ Below \in Seq(Frames) /\ Len(Below) = Len(stack) - 1 /\ Len(stack) - 1 \in Nat /\ 0 < Len(stack) - 1
        /\ \A i \in 1 .. Len(stack) - 1 : Below[i] = stack[i]
    BY <2>2, BelowIs
  <2>4. \/ \E b : Expval(0, b, Below)
        \/ stack' = Below /\ UNCHANGED m
        \/ Raise(e, 1, "test", r, Below) /\ UNCHANGED m
    BY <1>3 DEF Eval, Return
  <2>5. ASSUME NEW b, Expval(0, b, Below) PROVE Apart'
    <3> DEFINE w == [k |-> "expv", scl |-> 0, base |-> r.base, off |-> r.off, m |-> m]
               n == Len(stack) - 1
    <3>1. stack' = Append(Below, w) /\ m' = Above(m) BY <2>5 DEF Expval
    <3>2. w.k = "expv" /\ w.m = m OBVIOUS
    <3> HIDE DEF w
    <3>3. Len(stack') = n + 1 /\ stack'[n + 1] = w /\ \A i \in 1 .. n : stack'[i] = Below[i]
      BY <2>3, <3>1, OnTop
    <3>4. n + 1 = Len(stack) /\ n \in Nat /\ 0 < n /\ \A i \in 1 .. n : Alike(stack'[i], stack[i])
      BY <2>3, <3>3, Numbers DEF Alike
    <3>5. stack[n + 1].k = "op" BY <2>1, <3>4 DEF Top
    <3> HIDE DEF n
    <3>6. n <= Len(stack) /\ Len(stack) <= n + 1 /\ ~(n >= Len(stack)) BY <3>4
    <3>7. Opening(n) BY <1>1, <3>1, <3>2, <3>3, <3>4, <3>5, <3>6 DEF Opening
    <3> QED BY <3>4, <3>7, Opens
  <2>6. CASE Raise(e, 1, "test", r, Below) /\ UNCHANGED m
    <3>1. Rises(stack', Below) BY <2>2, <2>3, <2>6, Raising
    <3> QED BY <1>1, <2>1, <2>2, <2>6, <3>1, CalmTurn
  <2> QED BY <1>1, <2>1, <2>2, <2>4, <2>5, <2>6, CalmPop
<1> QED BY <1>2, <1>3

------------------------------------------------------------------------------
\* Steps of the match at the top, and SCAN: nothing below is changed, and what
\* the match puts in memory lies above what those below keep there.
Spared(f)   == /\ Over(f, m')
               /\ \A i \in 1 .. Depth(f) : hist'[i] = hist[i]
               /\ \A i \in 1 .. f.m.nam : list'[i] = list[i]
Holds(f, q) == /\ \A i \in q.nhed + 1 .. q.nam : list'[i].own = f.id
               /\ f.ph \in {"scan", "now"} => q.text = f.id /\ \A i \in q.hed + 1 .. q.pdl : hist'[i] = f.id
Turning(n) ==
  /\ 0 < n /\ n <= Len(stack) /\ Len(stack) <= n /\ n <= Len(stack') /\ Len(stack') <= n + 1
  /\ stack[n].k \in {"op", "match"} /\ stack'[n].k = "match"
  /\ \A i \in 1 .. n - 1 : stack'[i] = stack[i]
  /\ \A i \in 1 .. n - 1 : Saves(stack[i]) =>
       Spared(stack[i]) /\ (Saves(stack'[n]) => Over(stack[i], stack'[n].m))
  /\ Len(stack') > n => stack'[n + 1].k = "trap" /\ Saves(stack'[n]) /\ Over(stack'[n], m')
  /\ Saves(stack'[n]) => Holds(stack'[n], stack'[n].m)
  /\ ~Saves(stack'[n]) => Holds(stack'[n], m')

LEMMA OwnsKept ==
  ASSUME NEW f, NEW w, Owns(f, w.m), Spared(w), f.ph \in {"scan", "now"} => Depth(w) = w.m.pdl,
         w.m.hed \in Nat, w.m.nhed \in Nat, w.m.nam \in Nat, Depth(w) \in Nat
  PROVE  Holds(f, w.m)
<1>1. \A i \in w.m.nhed + 1 .. w.m.nam : i \in 1 .. w.m.nam OBVIOUS
<1>2. \A i \in w.m.nhed + 1 .. w.m.nam : list'[i].own = f.id BY <1>1 DEF Owns, Spared
<1>3. \A i \in w.m.hed + 1 .. Depth(w) : i \in 1 .. Depth(w) OBVIOUS
<1>4. f.ph \in {"scan", "now"} => w.m.text = f.id /\ \A i \in w.m.hed + 1 .. w.m.pdl : hist'[i] = f.id
  BY <1>3 DEF Owns, Spared
<1> QED BY <1>2, <1>4 DEF Holds

LEMMA Turns == ASSUME TypeInv, TypeInv', Apart, NEW n \in Nat, Turning(n) PROVE Apart'
<1>a. Len(stack) \in Nat /\ DOMAIN stack = 1 .. Len(stack) BY Numbers
<1>b. Len(stack') \in Nat /\ DOMAIN stack' = 1 .. Len(stack') BY NextNumbers
<1>c. 0 < n /\ n <= Len(stack) /\ Len(stack) <= n /\ n <= Len(stack') /\ Len(stack') <= n + 1 BY DEF Turning
<1>d. stack[n].k \in {"op", "match"} /\ stack'[n].k = "match" BY DEF Turning
<1>e. \A i \in 1 .. n - 1 : stack'[i] = stack[i] BY DEF Turning
<1>f. \A i \in 1 .. n - 1 : Saves(stack[i]) => Spared(stack[i]) /\ (Saves(stack'[n]) => Over(stack[i], stack'[n].m))
  BY DEF Turning
<1>g. Len(stack') > n => stack'[n + 1].k = "trap" /\ Saves(stack'[n]) /\ Over(stack'[n], m') BY DEF Turning
<1>h. (Saves(stack'[n]) => Holds(stack'[n], stack'[n].m)) /\ (~Saves(stack'[n]) => Holds(stack'[n], m'))
  BY DEF Turning
<1>1. \A i \in 1 .. n - 1 : i \in 1 .. Len(stack) /\ i < Len(stack) /\ i < Len(stack') /\ i \in 1 .. Len(stack) - 1
  BY <1>a, <1>b, <1>c
<1>2. \A i \in 1 .. Len(stack') : i \in 1 .. n - 1 \/ (n <= i /\ i <= n) \/ (n < Len(stack') /\ n + 1 <= i /\ i <= n + 1)
  BY <1>b, <1>c
<1>3. \A i \in 1 .. Len(stack') : i \in 1 .. n - 1 \/ i = n \/ (n < Len(stack') /\ i = n + 1)
  <2>1. \A i \in Nat : (n <= i /\ i <= n => i = n) /\ (n + 1 <= i /\ i <= n + 1 => i = n + 1) OBVIOUS
  <2>2. \A i \in 1 .. Len(stack') : i \in Nat BY <1>b
  <2> QED BY <1>2, <2>1, <2>2
<1>4. ASSUME NEW i \in 1 .. n - 1, stack[i].k = "match", ~Saves(stack[i])
      PROVE  i + 1 \in 1 .. n - 1 /\ stack[i + 1].k = "expv"
  <2>1. Waits(i) BY <1>1, <1>4 DEF Apart, Shape
  <2>2. stack[i + 1].k = "expv" \/ (stack[i + 1].k = "error" /\ i + 1 = Len(stack))
    BY <1>4, <2>1 DEF Waits, Saves
  <2>3. \A j \in Nat : j <= n /\ n <= j => j = n OBVIOUS
  <2>4. i + 1 = Len(stack) => i + 1 = n BY <1>a, <1>c, <2>3
  <2>5. i + 1 # n BY <1>d, <2>2, <2>4
  <2> QED BY <1>d, <2>2, <2>4, <2>5
<1>5. Floors'
  <2> SUFFICES ASSUME NEW j \in 1 .. Len(stack'), Saves(stack'[j])
               PROVE  /\ \A k \in j + 1 .. Len(stack') : Saves(stack'[k]) => Over(stack'[j], stack'[k].m)
                      /\ (j < Len(stack') \/ stack'[j].k = "expv") => Over(stack'[j], m')
    BY <1>b DEF Floors, Saves, Over, Depth
  <2>1. ~Saves(stack'[n + 1]) \/ ~(n < Len(stack')) BY <1>g, <1>c DEF Saves
  <2>2. CASE j \in 1 .. n - 1
    <3>1. stack'[j] = stack[j] /\ Saves(stack[j]) BY <1>e, <2>2
    <3>2. Over(stack[j], m') /\ (Saves(stack'[n]) => Over(stack[j], stack'[n].m)) BY <1>f, <2>2, <3>1 DEF Spared
    <3>3. ASSUME NEW k \in j + 1 .. Len(stack'), Saves(stack'[k]) PROVE Over(stack'[j], stack'[k].m)
      <4>1. k \in 1 .. Len(stack') BY <1>b
      <4>2. CASE k = n BY <3>1, <3>2, <3>3, <4>2
      <4>3. CASE k \in 1 .. n - 1
        <5>1. stack'[k] = stack[k] /\ k \in j + 1 .. Len(stack) BY <1>a, <1>c, <1>e, <4>3
        <5> QED BY <1>a, <1>1, <2>2, <3>1, <3>3, <5>1 DEF Apart, Floors
      <4> QED BY <1>3, <2>1, <3>3, <4>1, <4>2, <4>3
    <3> QED BY <3>1, <3>2, <3>3
  <2>3. CASE j = n
    <3>1. \A k \in n + 1 .. Len(stack') : k \in 1 .. Len(stack') /\ k \notin 1 .. n - 1 /\ k # n BY <1>b
    <3>2. \A k \in n + 1 .. Len(stack') : ~Saves(stack'[k]) BY <1>3, <2>1, <3>1
    <3>3. n < Len(stack') => Over(stack'[n], m') BY <1>g
    <3> QED BY <1>d, <2>3, <3>2, <3>3
  <2> QED BY <1>3, <2>1, <2>2, <2>3
<1>6. Shape'
  <2> SUFFICES ASSUME NEW i \in 1 .. Len(stack') - 1, stack'[i].k = "match" PROVE Waits(i)' BY DEF Shape
  <2>1. i \in 1 .. Len(stack') /\ i < Len(stack') BY <1>b
  <2>2. CASE i \in 1 .. n - 1
    <3>1. stack'[i] = stack[i] /\ i \in 1 .. Len(stack) - 1 BY <1>1, <1>e, <2>2
    <3>2. Waits(i) BY <2>1, <3>1 DEF Apart, Shape
    <3>3. i + 1 \in 1 .. n - 1
      <4>1. CASE Saves(stack[i])
        <5>1. stack[i + 1].k = "trap" BY <3>1, <3>2, <4>1 DEF Waits, Saves
        <5>2. i + 1 # n BY <1>d, <5>1
        <5> QED BY <2>2, <5>2
      <4>2. CASE ~Saves(stack[i]) BY <1>4, <2>2, <3>1, <4>2
      <4> QED BY <4>1, <4>2
    <3>4. stack'[i + 1] = stack[i + 1] /\ i + 1 < Len(stack) BY <1>1, <1>e, <3>3
    <3>5. i + 1 # Len(stack)
      <4>1. \A k, l \in Nat : k < l => k # l OBVIOUS
      <4>2. i + 1 \in Nat BY <1>c, <3>3
      <4> QED BY <1>a, <3>4, <4>1, <4>2
    <3> QED BY <3>1, <3>2, <3>4, <3>5 DEF Waits
  <2>3. CASE i = n
    <3>1. stack'[n + 1].k = "trap" /\ Saves(stack'[n]) BY <1>g, <2>1, <2>3
    <3> QED BY <1>d, <2>3, <3>1 DEF Waits, Saves
  <2> QED BY <1>3, <2>1, <2>2, <2>3
<1>7. Owned'
  <2> SUFFICES ASSUME NEW i \in 1 .. Len(stack'), stack'[i].k = "match" PROVE Owns(stack[i], Regs(i))' BY <1>b DEF Owned
  <2>1. CASE i = n
    <3>1. CASE Saves(stack'[n]) BY <1>h, <2>1, <3>1 DEF Owns, Holds, Regs, Saves
    <3>2. CASE ~Saves(stack'[n])
      <4>1. ~(n < Len(stack')) BY <1>g, <3>2
      <4> QED BY <1>h, <2>1, <3>2, <4>1 DEF Owns, Holds, Regs, Saves
    <3> QED BY <3>1, <3>2
  <2>2. CASE i \in 1 .. n - 1
    <3>1. stack'[i] = stack[i] BY <1>e, <2>2
    <3>2. Owns(stack[i], Regs(i)) BY <1>a, <1>1, <2>2, <3>1 DEF Apart, Owned
    <3>3. CASE Saves(stack[i])
      <4>1. Regs(i) = stack[i].m /\ Regs(i)' = stack[i].m BY <3>1, <3>3 DEF Regs, Saves
      <4>2. Spared(stack[i]) BY <1>f, <2>2, <3>3
      <4>3. stack[i].ph \in {"scan", "now"} => Depth(stack[i]) = stack[i].m.pdl BY DEF Depth
      <4>4. /\ stack[i].m.hed \in Nat /\ stack[i].m.nhed \in Nat /\ stack[i].m.nam \in Nat
            /\ Depth(stack[i]) \in Nat
        BY <1>1, <2>2, <3>3, Numbers
      <4>5. Holds(stack[i], stack[i].m) BY <3>2, <4>1, <4>2, <4>3, <4>4, OwnsKept
      <4> QED BY <3>1, <4>1, <4>5 DEF Owns, Holds
    <3>4. CASE ~Saves(stack[i])
      <4> DEFINE w == stack[i + 1]
      <4>1. i + 1 \in 1 .. n - 1 /\ w.k = "expv" BY <1>4, <2>2, <3>1, <3>4
      <4>2. stack'[i + 1] = w /\ i < Len(stack) /\ i < Len(stack') /\ Saves(w) BY <1>1, <1>e, <2>2, <4>1 DEF Saves
      <4>3. Regs(i) = w.m /\ Regs(i)' = w.m BY <3>1, <3>4, <4>1, <4>2 DEF Regs, Saves
      <4>4. Spared(w) /\ Depth(w) = w.m.pdl BY <1>f, <4>1, <4>2 DEF Depth
      <4>5. w.m.hed \in Nat /\ w.m.nhed \in Nat /\ w.m.nam \in Nat /\ Depth(w) \in Nat BY <1>1, <4>1, <4>2, Numbers
      <4> HIDE DEF w
      <4>6. Holds(stack[i], w.m) BY <3>2, <4>3, <4>4, <4>5, OwnsKept
      <4> QED BY <3>1, <4>3, <4>6 DEF Owns, Holds
    <3> QED BY <3>3, <3>4
  <2> QED BY <1>3, <1>g, <2>1, <2>2
<1> QED BY <1>5, <1>6, <1>7 DEF Apart

------------------------------------------------------------------------------
\* What the match at the top does to the stack and to memory.
LEMMA WithIs ==
  ASSUME TypeInv, Len(stack) > 1, NEW f
  PROVE  /\ Len(stack) - 1 \in Nat /\ Len(With(f)) = Len(stack) /\ With(f)[Len(stack)] = f
         /\ \A i \in 1 .. Len(stack) - 1 : With(f)[i] = stack[i]
         /\ With(f) \in Seq(Frames \cup {f})
<1>1. /\ Below \in Seq(Frames) /\ Len(Below) = Len(stack) - 1 /\ Len(stack) - 1 \in Nat
      /\ \A i \in 1 .. Len(stack) - 1 : Below[i] = stack[i]
  BY BelowIs
<1>2. Len(stack) - 1 + 1 = Len(stack) BY Numbers
<1> QED BY <1>1, <1>2, OnTop DEF With

\* Whoever keeps registers below the top has them below what is in use, and
\* below what the top keeps.
LEMMA Lowers ==
  ASSUME TypeInv, Apart, NEW j \in 1 .. Len(stack) - 1, Saves(stack[j])
  PROVE  /\ Over(stack[j], m) /\ (Saves(Top) => Over(stack[j], Top.m))
         /\ Depth(stack[j]) \in Nat /\ stack[j].m.nam \in Nat
<1>1. Len(stack) \in Nat /\ DOMAIN stack = 1 .. Len(stack) BY Numbers
<1>2. j \in 1 .. Len(stack) /\ j < Len(stack) /\ Len(stack) \in j + 1 .. Len(stack) BY <1>1
<1>3. Over(stack[j], m) /\ (Saves(Top) => Over(stack[j], Top.m)) BY <1>1, <1>2 DEF Apart, Floors, Top
<1> QED BY <1>2, <1>3, Numbers

LEMMA Puts ==
  ASSUME NEW S, NEW s \in Seq(S), NEW i \in Nat, 0 < i, i <= Len(s) + 1, NEW x
  PROVE  Put(s, i, x)[i] = x /\ \A j \in Nat : 0 < j /\ j < i => Put(s, i, x)[j] = s[j]
<1>0. Len(s) \in Nat /\ DOMAIN s = 1 .. Len(s) OBVIOUS
<1>1. CASE i = Len(s) + 1
  <2>1. Put(s, i, x) = Append(s, x) BY <1>1 DEF Put
  <2>2. Append(s, x)[Len(s) + 1] = x /\ \A j \in 1 .. Len(s) : Append(s, x)[j] = s[j] BY OnTop
  <2>3. \A j \in Nat : 0 < j /\ j < i => j \in 1 .. Len(s) BY <1>0, <1>1
  <2> QED BY <1>1, <2>1, <2>2, <2>3
<1>2. CASE i # Len(s) + 1
  <2>1. Put(s, i, x) = [s EXCEPT ![i] = x] BY <1>2 DEF Put
  <2>2. i \in DOMAIN s BY <1>0, <1>2
  <2>3. \A j \in Nat : 0 < j /\ j < i => j \in DOMAIN s /\ j # i BY <1>0, <2>2
  <2> QED BY <2>1, <2>2, <2>3
<1> QED BY <1>1, <1>2

LEMMA Recording ==
  ASSUME TypeInv, NEW q \in MatchRegs, q.pdl <= Len(hist), Record(q)
  PROVE  /\ m'.pdl = q.pdl + 1 /\ m'.hed = q.hed /\ m'.nam = q.nam /\ m'.nhed = q.nhed /\ m'.text = q.text
         /\ hist'[q.pdl + 1] = Top.id /\ \A i \in Nat : 0 < i /\ i <= q.pdl => hist'[i] = hist[i]
<1>1. hist' = Put(hist, q.pdl + 1, Top.id) /\ m' = [q EXCEPT !.pdl = @ + 1] BY DEF Record
<1>2. q.pdl \in Nat /\ q.pdl + 1 \in Nat /\ 0 < q.pdl + 1 /\ hist \in Seq(Nat)
  <2>1. q.pdl \in Nat BY DEF MatchRegs
  <2> QED BY <2>1, Typed
<1>3. Len(hist) \in Nat /\ q.pdl + 1 <= Len(hist) + 1 BY <1>2
<1>4. /\ Put(hist, q.pdl + 1, Top.id)[q.pdl + 1] = Top.id
      /\ \A j \in Nat : 0 < j /\ j < q.pdl + 1 => Put(hist, q.pdl + 1, Top.id)[j] = hist[j]
  BY <1>2, <1>3, Puts
<1>5. \A i \in Nat : 0 < i /\ i <= q.pdl => i < q.pdl + 1 BY <1>2
<1> QED BY <1>1, <1>4, <1>5 DEF MatchRegs

\* The match at the top has its entries above the registers in use, or above
\* those it keeps.
LEMMA TopOwns ==
  ASSUME TypeInv, Apart, Top.k = "match"
  PROVE  IF Saves(Top) THEN Owns(Top, Top.m) ELSE Owns(Top, m)
<1>1. Len(stack) \in Nat \ {0} /\ DOMAIN stack = 1 .. Len(stack) BY Numbers
<1>2. Len(stack) \in DOMAIN stack /\ ~(Len(stack) < Len(stack)) BY <1>1
<1> QED BY <1>2 DEF Apart, Owned, Regs, Top

\* One frame for another at the top, with or without a trace above it.
LEMMA TurnsTo ==
  ASSUME TypeInv, TypeInv', Apart, Len(stack) > 1, Top.k \in {"op", "match"}, NEW f, f.k = "match",
         \/ stack' = With(f)
         \/ Saves(f) /\ Over(f, m') /\ \E w : w.k = "trap" /\ stack' = Append(With(f), w),
         \A j \in 1 .. Len(stack) - 1 : Saves(stack[j]) => Spared(stack[j]) /\ (Saves(f) => Over(stack[j], f.m)),
         IF Saves(f) THEN Holds(f, f.m) ELSE Holds(f, m')
  PROVE  Apart'
<1> DEFINE n == Len(stack)
           t == With(f)
<1>1. /\ n - 1 \in Nat /\ Len(t) = n /\ t[n] = f /\ \A i \in 1 .. n - 1 : t[i] = stack[i]
      /\ t \in Seq(Frames \cup {f})
  BY WithIs
<1>2. n \in Nat /\ 0 < n /\ n <= n /\ n <= n + 1 /\ ~(n > n) /\ n + 1 > n /\ n <= n + 1 /\ n + 1 <= n + 1 BY Numbers
<1>3. stack[n].k \in {"op", "match"} BY DEF Top
<1> HIDE DEF t
<1>4. CASE stack' = t
  <2>1. Turning(n) BY <1>1, <1>2, <1>3, <1>4 DEF Turning
  <2> QED BY <1>2, <2>1, Turns
<1>5. ASSUME Saves(f), Over(f, m'), NEW w, w.k = "trap", stack' = Append(t, w) PROVE Apart'
  <2>1. Len(stack') = n + 1 /\ stack'[n + 1] = w /\ \A i \in 1 .. n : stack'[i] = t[i] BY <1>1, <1>5, OnTop
  <2>2. stack'[n] = f /\ \A i \in 1 .. n - 1 : stack'[i] = stack[i]
    <3>1. n \in 1 .. n /\ \A i \in 1 .. n - 1 : i \in 1 .. n BY <1>2
    <3> QED BY <1>1, <2>1, <3>1
  <2>3. Turning(n) BY <1>2, <1>3, <1>5, <2>1, <2>2 DEF Turning
  <2> QED BY <1>2, <2>3, Turns
<1> QED BY <1>4, <1>5 DEF t

\* Savers below begin below H and N; memory up to there is as it was, and the
\* registers in use do not go below.
LEMMA Spares ==
  ASSUME TypeInv, TypeInv', Apart, NEW H \in Nat, NEW N \in Nat, H <= m'.hed, N <= m'.nhed,
         H = m.hed \/ (Saves(Top) /\ H = Top.m.hed),
         N = m.nhed \/ (Saves(Top) /\ N = Top.m.nhed),
         \A i \in Nat : 0 < i /\ i <= H => hist'[i] = hist[i],
         \A i \in Nat : 0 < i /\ i <= N => list'[i] = list[i]
  PROVE  \A j \in 1 .. Len(stack) - 1 : Saves(stack[j]) => Spared(stack[j])
<1> SUFFICES ASSUME NEW j \in 1 .. Len(stack) - 1, Saves(stack[j]) PROVE Spared(stack[j]) OBVIOUS
<1> DEFINE D == Depth(stack[j])
           A == stack[j].m.nam
<1>1. D <= H /\ A <= N /\ D \in Nat /\ A \in Nat BY Lowers DEF Over
<1>2. m'.hed \in Nat /\ m'.nhed \in Nat BY NextNumbers
<1> HIDE DEF D, A
<1>3. D <= m'.hed /\ A <= m'.nhed BY <1>1, <1>2
<1>4. \A i \in 1 .. D : i \in Nat /\ 0 < i /\ i <= H BY <1>1
<1>5. \A i \in 1 .. A : i \in Nat /\ 0 < i /\ i <= N BY <1>1
<1> QED BY <1>3, <1>4, <1>5 DEF Spared, Over, D, A

\* What a step may make of the match at the top.
LEMMA TopFields ==
  ASSUME TypeInv, Top.k = "match"
  PROVE  /\ Len(stack) > 1
         /\ \A f \in {[Top EXCEPT !.ph = "scan"], [Top EXCEPT !.ph = "names"]} : f.k = "match" /\ f.id = Top.id
         /\ [Top EXCEPT !.ph = "scan"].ph = "scan" /\ [Top EXCEPT !.ph = "names"].ph = "names"
         /\ \A i : LET f == [Top EXCEPT !.ph = "names", !.i = i] IN f.k = "match" /\ f.id = Top.id /\ f.ph = "names"
         /\ \A i : LET f == [Top EXCEPT !.ph = "named", !.i = i, !.m = m] IN
              f.k = "match" /\ f.id = Top.id /\ f.ph = "named" /\ f.m = m
         /\ Taken.k = "match" /\ Taken.id = Top.id /\ Taken.ph = Top.ph /\ Taken.m = Top.m
         /\ LET f == [Taken EXCEPT !.ph = "now", !.m = m] IN
              f.k = "match" /\ f.id = Top.id /\ f.ph = "now" /\ f.m = m
<1>1. Top \in MatchFrame /\ Len(stack) > 1 BY MatchTop
<1> DEFINE t == Tail(Top.ps)
           g == [Top EXCEPT !.ps = t]
<1>2. Taken = g BY DEF Taken
<1> HIDE DEF t
<1>3. g.k = "match" /\ g.id = Top.id /\ g.ph = Top.ph /\ g.m = Top.m BY <1>1 DEF MatchFrame
<1>4. LET f == [g EXCEPT !.ph = "now", !.m = m] IN f.k = "match" /\ f.id = Top.id /\ f.ph = "now" /\ f.m = m
  BY <1>1 DEF MatchFrame
<1> HIDE DEF g
<1>5. /\ \A f \in {[Top EXCEPT !.ph = "scan"], [Top EXCEPT !.ph = "names"]} : f.k = "match" /\ f.id = Top.id
      /\ [Top EXCEPT !.ph = "scan"].ph = "scan" /\ [Top EXCEPT !.ph = "names"].ph = "names"
  BY <1>1 DEF MatchFrame
<1>6. \A i : LET f == [Top EXCEPT !.ph = "names", !.i = i] IN f.k = "match" /\ f.id = Top.id /\ f.ph = "names"
  BY <1>1 DEF MatchFrame
<1>7. \A i : LET f == [Top EXCEPT !.ph = "named", !.i = i, !.m = m] IN
        f.k = "match" /\ f.id = Top.id /\ f.ph = "named" /\ f.m = m
  BY <1>1 DEF MatchFrame
<1> QED BY <1>1, <1>2, <1>3, <1>4, <1>5, <1>6, <1>7

LEMMA RegsNumbers ==
  ASSUME TypeInv, NEW q \in MatchRegs, Within(q)
  PROVE  /\ q.pdl \in Nat /\ q.hed \in Nat /\ q.nam \in Nat /\ q.nhed \in Nat
         /\ q.hed <= q.pdl /\ q.nhed <= q.nam /\ q.pdl <= Len(hist) /\ q.nam <= Len(list)
BY DEF MatchRegs, Within

LEMMA RegsInUse ==
  ASSUME TypeInv
  PROVE  /\ m \in MatchRegs /\ m.pdl \in Nat /\ m.hed \in Nat /\ m.nam \in Nat /\ m.nhed \in Nat
         /\ m.hed <= m.pdl /\ m.nhed <= m.nam /\ m.pdl <= Len(hist) /\ m.nam <= Len(list)
BY Typed, RegsNumbers

LEMMA RegsKept ==
  ASSUME TypeInv, Top.k = "match", Saves(Top)
  PROVE  /\ Top.m \in MatchRegs /\ Top.m.pdl \in Nat /\ Top.m.hed \in Nat /\ Top.m.nam \in Nat /\ Top.m.nhed \in Nat
         /\ Top.m.hed <= Top.m.pdl /\ Top.m.nhed <= Top.m.nam /\ Top.m.pdl <= Len(hist) /\ Top.m.nam <= Len(list)
<1>1. Top.m \in MatchRegs /\ Within(Top.m) BY MatchTop DEF Saves
<1> QED BY <1>1, RegsNumbers

------------------------------------------------------------------------------
LEMMA ScanApart == ASSUME Untraced, TypeInv, TypeInv', Scan PROVE Apartly
<1> SUFFICES ASSUME Apart PROVE Apart' BY DEF Apartly
<1>1. Top.k = "op" BY DEF Scan, Ready, In
<1>2. Len(stack) > 1 /\ ProgOK BY <1>1, AtTop, Typed
<1>3. CASE Raise(e, 1, "test", r, Below) /\ UNCHANGED match
  <2>1. Below \in Seq(Frames) BY <1>2, BelowIs
  <2>2. Rises(stack', Below) BY <1>2, <1>3, <2>1, Raising
  <2> QED BY <1>1, <1>2, <1>3, <2>2, CalmTurn DEF match
<1>4. CASE Arg(1).t = "P"
  <2> DEFINE q == [m EXCEPT !.pdl = m.hed + 1, !.nam = m.nhed, !.text = fresh + 1]
             f == [k |-> "match", id |-> fresh + 1, ps |-> Arg(1).ps, ph |-> "scan", i |-> 0, m |-> q]
  <2>1. m' = q /\ hist' = Put(hist, m.hed + 1, fresh + 1) /\ stack' = With(f) /\ UNCHANGED list
    BY <1>4 DEF Scan
  <2>2. q.hed = m.hed /\ q.pdl = m.hed + 1 /\ q.nhed = m.nhed /\ q.nam = m.nhed /\ q.text = fresh + 1
    BY RegsInUse DEF MatchRegs
  <2>3. f.k = "match" /\ f.id = fresh + 1 /\ f.ph = "scan" OBVIOUS
  <2> HIDE DEF q, f
  <2>4. /\ hist'[m.hed + 1] = fresh + 1
        /\ \A i \in Nat : 0 < i /\ i < m.hed + 1 => hist'[i] = hist[i]
    <3>1. hist \in Seq(Nat) /\ Len(hist) \in Nat BY Typed
    <3>2. m.hed + 1 \in Nat /\ 0 < m.hed + 1 /\ m.hed + 1 <= Len(hist) + 1 BY <3>1, RegsInUse
    <3> QED BY <2>1, <3>1, <3>2, Puts
  <2>5. \A i \in Nat : 0 < i /\ i <= m.hed => i < m.hed + 1 BY RegsInUse
  <2>6. m.hed <= m'.hed /\ m.nhed <= m'.nhed BY <2>1, <2>2, RegsInUse
  <2>7. \A j \in 1 .. Len(stack) - 1 : Saves(stack[j]) => Spared(stack[j])
    BY <2>1, <2>4, <2>5, <2>6, RegsInUse, Spares
  <2>8. ~Saves(f) BY <2>3 DEF Saves
  <2>9. Holds(f, m')
    <3>1. \A i \in m'.nhed + 1 .. m'.nam : FALSE BY <2>1, <2>2, RegsInUse
    <3>2. \A i \in m'.hed + 1 .. m'.pdl : hist'[i] = fresh + 1
      <4>1. \A i \in m.hed + 1 .. m.hed + 1 : i = m.hed + 1 BY RegsInUse
      <4> QED BY <2>1, <2>2, <2>4, <4>1
    <3> QED BY <2>1, <2>2, <2>3, <3>1, <3>2 DEF Holds
  <2> QED BY <1>1, <1>2, <2>1, <2>3, <2>7, <2>8, <2>9, TurnsTo
<1> QED BY <1>3, <1>4 DEF Scan

LEMMA ScanExpApart == ASSUME TypeInv, TypeInv', ScanExp PROVE Apartly
<1> SUFFICES ASSUME Apart PROVE Apart' BY DEF Apartly
<1>1. Top.k = "match" /\ Top.ph = "scan" /\ Expval(1, Part.b, With(Taken)) /\ UNCHANGED <<hist, list>>
  BY DEF ScanExp, Matching, In
<1> DEFINE w == [k |-> "expv", scl |-> 1, base |-> r.base, off |-> r.off, m |-> m]
           n == Len(stack)
           t == With(Taken)
<1>2. stack' = Append(t, w) /\ m' = Above(m) BY <1>1 DEF Expval
<1>3. w.k = "expv" /\ w.m = m OBVIOUS
<1> HIDE DEF w
<1>4. n > 1 /\ Taken.k = "match" /\ Taken.id = Top.id /\ Taken.ph = Top.ph /\ Taken.m = Top.m BY <1>1, TopFields
<1>5. /\ n - 1 \in Nat /\ Len(t) = n /\ t[n] = Taken /\ \A i \in 1 .. n - 1 : t[i] = stack[i]
      /\ t \in Seq(Frames \cup {Taken})
  BY <1>4, WithIs
<1>6. n \in Nat /\ 0 < n /\ n <= n /\ n <= n + 1 /\ ~(n < n) BY Numbers
<1> HIDE DEF t
<1>7. Len(stack') = n + 1 /\ stack'[n + 1] = w /\ \A i \in 1 .. n : stack'[i] = t[i] BY <1>2, <1>5, OnTop
<1>8. \A i \in 1 .. n : Alike(stack'[i], stack[i])
  <2>1. Alike(Taken, Top) BY <1>1, <1>4 DEF Alike
  <2>2. \A i \in 1 .. n : i \in 1 .. n - 1 \/ i = n BY <1>6
  <2>3. \A f : Alike(f, f) BY DEF Alike
  <2> QED BY <1>5, <1>7, <2>1, <2>2, <2>3 DEF Top
<1>9. stack[n].k = "match" /\ stack[n].ph = "scan" BY <1>1 DEF Top
<1>10. Opening(n) BY <1>1, <1>2, <1>3, <1>6, <1>7, <1>8, <1>9 DEF Opening
<1> QED BY <1>6, <1>10, Opens

LEMMA ScanExpBackApart == ASSUME Untraced, TypeInv, TypeInv', ScanExpBack PROVE Apartly
<1> SUFFICES ASSUME Apart PROVE Apart' BY DEF Apartly
<1>1. Top.k = "match" /\ Top.ph = "scan" /\ UNCHANGED list BY DEF ScanExpBack, Back
<1>2. Len(stack) > 1 /\ ProgOK /\ stack \in Seq(Frames) BY <1>1, AtTop, Typed DEF Good
<1>3. \/ UNCHANGED <<m, hist>> /\ stack' \in {stack, Below}
      \/ UNCHANGED <<m, hist>> /\ Raise(e, 1, "scan", r, stack)
      \/ Record(m) /\ stack' = stack
  BY DEF ScanExpBack, Return
<1>4. CASE UNCHANGED <<m, hist>> /\ stack' \in {stack, Below} BY <1>1, <1>2, <1>4, CalmSame, CalmPop
<1>5. CASE UNCHANGED <<m, hist>> /\ Raise(e, 1, "scan", r, stack)
  <2> DEFINE w == [k |-> "error"]
             n == Len(stack)
  <2>1. stack' = stack \/ stack' = Append(stack, w) BY <1>2, <1>5, Raising
  <2>2. CASE stack' = stack BY <1>1, <1>5, <2>2, CalmSame
  <2>3. CASE stack' = Append(stack, w)
    <3>1. w.k = "error" /\ Ordinary(w) BY DEF Ordinary
    <3> HIDE DEF w
    <3>2. Len(stack') = n + 1 /\ stack'[n + 1] = w /\ \A i \in 1 .. n : stack'[i] = stack[i] BY <1>2, <2>3, OnTop
    <3>3. n \in Nat /\ 0 < n /\ n <= n /\ n <= n + 1 BY Numbers
    <3>4. stack[n].k = "match" /\ stack[n].ph = "scan" BY <1>1 DEF Top
    <3>5. (\A i \in n + 1 .. n : FALSE) /\ \A i \in n + 1 .. n + 1 : i = n + 1 BY <3>3
    <3>6. Calm(n) BY <1>1, <1>5, <3>1, <3>2, <3>3, <3>4, <3>5 DEF Calm
    <3> QED BY <3>3, <3>6, Calmly
  <2> QED BY <2>1, <2>2, <2>3
<1>6. CASE Record(m) /\ stack' = stack
  <2>1. /\ m'.pdl = m.pdl + 1 /\ m'.hed = m.hed /\ m'.nam = m.nam /\ m'.nhed = m.nhed /\ m'.text = m.text
        /\ hist'[m.pdl + 1] = Top.id /\ \A i \in Nat : 0 < i /\ i <= m.pdl => hist'[i] = hist[i]
    BY <1>6, RegsInUse, Recording
  <2>2. ~Saves(Top) BY <1>1 DEF Saves
  <2>3. Holds(Top, m')
    <3>1. Owns(Top, m) BY <1>1, <2>2, TopOwns
    <3>2. \A i \in m.hed + 1 .. m.pdl + 1 : i = m.pdl + 1 \/ (i \in m.hed + 1 .. m.pdl /\ i \in Nat /\ 0 < i /\ i <= m.pdl)
      BY RegsInUse
    <3>3. \A i \in m.hed + 1 .. m.pdl + 1 : hist'[i] = Top.id BY <1>1, <2>1, <3>1, <3>2 DEF Owns
    <3> QED BY <1>1, <2>1, <3>1, <3>3 DEF Owns, Holds
  <2>4. m.hed <= m'.hed /\ m.nhed <= m'.nhed BY <2>1, RegsInUse
  <2>5. \A i \in Nat : 0 < i /\ i <= m.hed => i <= m.pdl BY RegsInUse
  <2>6. \A j \in 1 .. Len(stack) - 1 : Saves(stack[j]) => Spared(stack[j])
    BY <1>1, <2>1, <2>4, <2>5, RegsInUse, Spares
  <2>7. stack' = With(Top)
    <3>1. /\ Len(stack) - 1 \in Nat /\ Len(With(Top)) = Len(stack) /\ With(Top)[Len(stack)] = Top
          /\ \A i \in 1 .. Len(stack) - 1 : With(Top)[i] = stack[i]
          /\ With(Top) \in Seq(Frames \cup {Top})
      BY <1>2, WithIs
    <3>2. \A i \in 1 .. Len(stack) : i \in 1 .. Len(stack) - 1 \/ i = Len(stack)
      <4>1. \A k \in Nat : \A i \in 1 .. k : i \in 1 .. k - 1 \/ i = k OBVIOUS
      <4>2. Len(stack) \in Nat BY Numbers
      <4> QED BY <4>1, <4>2
    <3>3. \A i \in 1 .. Len(stack) : With(Top)[i] = stack[i] BY <3>1, <3>2 DEF Top
    <3>4. stack \in Seq(Frames \cup {Top}) BY <1>2
    <3> QED BY <1>6, <3>1, <3>3, <3>4, SeqEqual
  <2> QED BY <1>1, <1>2, <2>2, <2>3, <2>6, <2>7, TurnsTo
<1> QED BY <1>3, <1>4, <1>5, <1>6

LEMMA ScanNameApart == ASSUME TypeInv, TypeInv', ScanName PROVE Apartly
<1> SUFFICES ASSUME Apart PROVE Apart' BY DEF Apartly
<1> DEFINE q == [m EXCEPT !.nam = @ + 1]
           x == [own |-> Top.id, x |-> Part.x, v |-> Part.v]
<1>1. Top.k = "match" /\ Top.ph = "scan" /\ list' = Put(list, m.nam + 1, x) /\ Record(q) /\ stack' = With(Taken)
  BY DEF ScanName, Matching, In
<1>2. Len(stack) > 1 /\ Taken.k = "match" /\ Taken.id = Top.id /\ Taken.ph = "scan" BY <1>1, TopFields
<1>3. /\ q \in MatchRegs /\ q.pdl = m.pdl /\ q.hed = m.hed /\ q.nhed = m.nhed /\ q.nam = m.nam + 1 /\ q.text = m.text
  BY RegsInUse DEF MatchRegs
<1>4. x.own = Top.id OBVIOUS
<1> HIDE DEF q, x
<1>5. /\ m'.pdl = m.pdl + 1 /\ m'.hed = m.hed /\ m'.nam = m.nam + 1 /\ m'.nhed = m.nhed /\ m'.text = m.text
      /\ hist'[m.pdl + 1] = Top.id /\ \A i \in Nat : 0 < i /\ i <= m.pdl => hist'[i] = hist[i]
  <2>1. q.pdl <= Len(hist) BY <1>3, RegsInUse
  <2> QED BY <1>1, <1>3, <2>1, Recording
<1>6. list'[m.nam + 1] = x /\ \A i \in Nat : 0 < i /\ i < m.nam + 1 => list'[i] = list[i]
  <2>1. list \in Seq([own : Nat, x : Names, v : Str]) BY Typed
  <2>2. Len(list) \in Nat BY <2>1
  <2>3. m.nam + 1 \in Nat /\ 0 < m.nam + 1 /\ m.nam + 1 <= Len(list) + 1 BY <2>2, RegsInUse
  <2> QED BY <1>1, <2>1, <2>3, Puts
<1>7. ~Saves(Taken) /\ ~Saves(Top) BY <1>1, <1>2 DEF Saves
<1>8. Owns(Top, m) BY <1>1, <1>7, TopOwns
<1>9. Holds(Taken, m')
  <2>1. \A i \in m.hed + 1 .. m.pdl + 1 : i = m.pdl + 1 \/ (i \in m.hed + 1 .. m.pdl /\ i \in Nat /\ 0 < i /\ i <= m.pdl)
    BY RegsInUse
  <2>2. \A i \in m.hed + 1 .. m.pdl + 1 : hist'[i] = Top.id BY <1>1, <1>5, <1>8, <2>1 DEF Owns
  <2>3. \A i \in m.nhed + 1 .. m.nam + 1 : i = m.nam + 1 \/ (i \in m.nhed + 1 .. m.nam /\ i \in Nat /\ 0 < i /\ i < m.nam + 1)
    BY RegsInUse
  <2>4. \A i \in m.nhed + 1 .. m.nam + 1 : list'[i].own = Top.id BY <1>4, <1>6, <1>8, <2>3 DEF Owns
  <2>5. m'.text = Top.id BY <1>1, <1>5, <1>8 DEF Owns
  <2> QED BY <1>2, <1>5, <2>2, <2>4, <2>5 DEF Holds
<1>10. m.hed <= m'.hed /\ m.nhed <= m'.nhed BY <1>5, RegsInUse
<1>11. \A i \in Nat : (0 < i /\ i <= m.hed => i <= m.pdl) /\ (0 < i /\ i <= m.nhed => i < m.nam + 1) BY RegsInUse
<1>12. \A j \in 1 .. Len(stack) - 1 : Saves(stack[j]) => Spared(stack[j])
  BY <1>5, <1>6, <1>10, <1>11, RegsInUse, Spares
<1> QED BY <1>1, <1>2, <1>7, <1>9, <1>12, TurnsTo

LEMMA ScanNowApart == ASSUME TypeInv, TypeInv', ScanNow PROVE Apartly
<1> SUFFICES ASSUME Apart PROVE Apart' BY DEF Apartly
<1> DEFINE ev == <<"VALUE", Part.x>>
           f  == [Taken EXCEPT !.ph = "now", !.m = m]
<1>1. /\ Top.k = "match" /\ Top.ph = "scan" /\ UNCHANGED <<hist, list>> /\ Trap(ev, r, With(f))
      /\ m' = IF Traced(r, ev) THEN Above(m) ELSE m
  BY DEF ScanNow, Matching, In
<1>2. Len(stack) > 1 /\ f.k = "match" /\ f.id = Top.id /\ f.ph = "now" /\ f.m = m BY <1>1, TopFields
<1> HIDE DEF f, ev
<1>3. /\ Above(m).hed = m.pdl /\ Above(m).nhed = m.nam BY RegsInUse DEF Above, MatchRegs
<1>4. m.hed <= m'.hed /\ m.nhed <= m'.nhed BY <1>1, <1>3, RegsInUse
<1>5. \A j \in 1 .. Len(stack) - 1 : Saves(stack[j]) => Spared(stack[j])
  BY <1>1, <1>4, RegsInUse, Spares
<1>6. Saves(f) /\ ~Saves(Top) BY <1>1, <1>2 DEF Saves
<1>7. Owns(Top, m) BY <1>1, <1>6, TopOwns
<1>8. Holds(f, f.m) BY <1>1, <1>2, <1>7 DEF Owns, Holds
<1>9. \A j \in 1 .. Len(stack) - 1 : Saves(stack[j]) => Over(stack[j], f.m) BY <1>2, Lowers
<1>10. CASE Traced(r, ev)
  <2>1. Over(f, m') BY <1>1, <1>2, <1>3, <1>10, RegsInUse DEF Over, Depth
  <2>2. \E w : w.k = "trap" /\ stack' = Append(With(f), w)
    <3>1. With(f) \in Seq(Frames \cup {f}) BY <1>2, WithIs
    <3> QED BY <1>1, <1>10, <3>1, Trapping
  <2> QED BY <1>1, <1>2, <1>5, <1>6, <1>8, <1>9, <2>1, <2>2, TurnsTo
<1>11. CASE ~Traced(r, ev)
  <2>1. stack' = With(f) BY <1>1, <1>11 DEF Trap
  <2> QED BY <1>1, <1>2, <1>5, <1>6, <1>8, <1>9, <2>1, TurnsTo
<1> QED BY <1>10, <1>11

LEMMA ScanNowedApart == ASSUME TypeInv, TypeInv', ScanNowed PROVE Apartly
<1> SUFFICES ASSUME Apart PROVE Apart' BY DEF Apartly
<1> DEFINE f == [Top EXCEPT !.ph = "scan"]
           q == Top.m
<1>1. Top.k = "match" /\ Top.ph = "now" /\ Record(q) /\ stack' = With(f) /\ UNCHANGED list
  BY DEF ScanNowed, Matching, In
<1>2. Len(stack) > 1 /\ f.k = "match" /\ f.id = Top.id /\ f.ph = "scan" BY <1>1, TopFields
<1>3. Saves(Top) /\ ~Saves(f) BY <1>1, <1>2 DEF Saves
<1>4. /\ q \in MatchRegs /\ q.pdl \in Nat /\ q.hed \in Nat /\ q.nam \in Nat /\ q.nhed \in Nat
      /\ q.hed <= q.pdl /\ q.nhed <= q.nam /\ q.pdl <= Len(hist)
  BY <1>1, <1>3, RegsKept
<1>5. Owns(Top, q) BY <1>1, <1>3, TopOwns
<1> HIDE DEF f
<1>6. /\ m'.pdl = q.pdl + 1 /\ m'.hed = q.hed /\ m'.nam = q.nam /\ m'.nhed = q.nhed /\ m'.text = q.text
      /\ hist'[q.pdl + 1] = Top.id /\ \A i \in Nat : 0 < i /\ i <= q.pdl => hist'[i] = hist[i]
  BY <1>1, <1>4, Recording
<1>7. Holds(f, m')
  <2>1. \A i \in q.hed + 1 .. q.pdl + 1 : i = q.pdl + 1 \/ (i \in q.hed + 1 .. q.pdl /\ i \in Nat /\ 0 < i /\ i <= q.pdl)
    BY <1>4
  <2>2. \A i \in q.hed + 1 .. q.pdl + 1 : hist'[i] = Top.id BY <1>1, <1>5, <1>6, <2>1 DEF Owns
  <2> QED BY <1>1, <1>2, <1>5, <1>6, <2>2 DEF Owns, Holds
<1>8. q.hed <= m'.hed /\ q.nhed <= m'.nhed BY <1>4, <1>6
<1>9. \A i \in Nat : 0 < i /\ i <= q.hed => i <= q.pdl BY <1>4
<1>10. \A j \in 1 .. Len(stack) - 1 : Saves(stack[j]) => Spared(stack[j])
  BY <1>1, <1>3, <1>4, <1>6, <1>8, <1>9, Spares
<1> QED BY <1>1, <1>2, <1>3, <1>7, <1>10, TurnsTo

LEMMA Named1Apart == ASSUME TypeInv, TypeInv', Named1 PROVE Apartly
<1> SUFFICES ASSUME Apart PROVE Apart' BY DEF Apartly
<1> DEFINE f == [Top EXCEPT !.ph = "names", !.i = m.nhed]
<1>1. Top.k = "match" /\ Top.ph = "scan" /\ stack' = With(f) /\ UNCHANGED <<m, hist, list>>
  BY DEF Named1, Matching, In, match
<1>2. Len(stack) > 1 /\ f.k = "match" /\ f.id = Top.id /\ f.ph = "names" BY <1>1, TopFields
<1> HIDE DEF f
<1>3. ~Saves(Top) /\ ~Saves(f) BY <1>1, <1>2 DEF Saves
<1>4. Owns(Top, m) BY <1>1, <1>3, TopOwns
<1>5. Holds(f, m') BY <1>1, <1>2, <1>4 DEF Owns, Holds
<1>6. m.hed <= m'.hed /\ m.nhed <= m'.nhed BY <1>1, RegsInUse
<1>7. \A j \in 1 .. Len(stack) - 1 : Saves(stack[j]) => Spared(stack[j]) BY <1>1, <1>6, RegsInUse, Spares
<1> QED BY <1>1, <1>2, <1>3, <1>5, <1>7, TurnsTo

LEMMA NmdApart == ASSUME TypeInv, TypeInv', Nmd PROVE Apartly
<1> SUFFICES ASSUME Apart PROVE Apart' BY DEF Apartly
<1> DEFINE ev == <<"VALUE", list[Top.i + 1].x>>
           f  == [Top EXCEPT !.ph = "named", !.i = @ + 1, !.m = m]
           q  == [m EXCEPT !.nhed = m.nam]
<1>1. /\ Top.k = "match" /\ Top.ph = "names" /\ UNCHANGED <<hist, list>> /\ Trap(ev, r, With(f))
      /\ m' = IF Traced(r, ev) THEN q ELSE m
  BY DEF Nmd, Matching, In
<1>2. Len(stack) > 1 /\ f.k = "match" /\ f.id = Top.id /\ f.ph = "named" /\ f.m = m BY <1>1, TopFields
<1>3. q.hed = m.hed /\ q.nhed = m.nam BY RegsInUse DEF MatchRegs
<1> HIDE DEF f, ev, q
<1>4. m.hed <= m'.hed /\ m.nhed <= m'.nhed BY <1>1, <1>3, RegsInUse
<1>5. \A j \in 1 .. Len(stack) - 1 : Saves(stack[j]) => Spared(stack[j]) BY <1>1, <1>4, RegsInUse, Spares
<1>6. Saves(f) /\ ~Saves(Top) BY <1>1, <1>2 DEF Saves
<1>7. Owns(Top, m) BY <1>1, <1>6, TopOwns
<1>8. Holds(f, f.m) BY <1>1, <1>2, <1>7 DEF Owns, Holds
<1>9. \A j \in 1 .. Len(stack) - 1 : Saves(stack[j]) => Over(stack[j], f.m) BY <1>2, Lowers
<1>10. CASE Traced(r, ev)
  <2>1. Over(f, m') BY <1>1, <1>2, <1>3, <1>10, RegsInUse DEF Over, Depth
  <2>2. \E w : w.k = "trap" /\ stack' = Append(With(f), w)
    <3>1. With(f) \in Seq(Frames \cup {f}) BY <1>2, WithIs
    <3> QED BY <1>1, <1>10, <3>1, Trapping
  <2> QED BY <1>1, <1>2, <1>5, <1>6, <1>8, <1>9, <2>1, <2>2, TurnsTo
<1>11. CASE ~Traced(r, ev)
  <2>1. stack' = With(f) BY <1>1, <1>11 DEF Trap
  <2> QED BY <1>1, <1>2, <1>5, <1>6, <1>8, <1>9, <2>1, TurnsTo
<1> QED BY <1>10, <1>11

LEMMA NmdedApart == ASSUME TypeInv, TypeInv', Nmded PROVE Apartly
<1> SUFFICES ASSUME Apart PROVE Apart' BY DEF Apartly
<1> DEFINE f == [Top EXCEPT !.ph = "names"]
           q == Top.m
<1>1. /\ Top.k = "match" /\ Top.ph = "named" /\ stack' = With(f) /\ UNCHANGED <<hist, list>>
      /\ m' = [m EXCEPT !.nam = q.nam, !.nhed = q.nhed]
  BY DEF Nmded, Matching, In
<1>2. Len(stack) > 1 /\ f.k = "match" /\ f.id = Top.id /\ f.ph = "names" BY <1>1, TopFields
<1> HIDE DEF f
<1>3. Saves(Top) /\ ~Saves(f) BY <1>1, <1>2 DEF Saves
<1>4. q.nhed \in Nat BY <1>1, <1>3, RegsKept
<1>5. m'.hed = m.hed /\ m'.nam = q.nam /\ m'.nhed = q.nhed BY <1>1, RegsInUse DEF MatchRegs
<1>6. Owns(Top, q) BY <1>1, <1>3, TopOwns
<1>7. Holds(f, m') BY <1>1, <1>2, <1>5, <1>6 DEF Owns, Holds
<1>8. m.hed <= m'.hed /\ q.nhed <= m'.nhed BY <1>4, <1>5, RegsInUse
<1>9. \A j \in 1 .. Len(stack) - 1 : Saves(stack[j]) => Spared(stack[j])
  BY <1>1, <1>3, <1>4, <1>8, RegsInUse, Spares
<1> QED BY <1>1, <1>2, <1>3, <1>7, <1>9, TurnsTo

LEMMA LeavesApart == ASSUME TypeInv, TypeInv', ScanFails \/ Scanned PROVE Apartly
<1> SUFFICES ASSUME Apart PROVE Apart' BY DEF Apartly
<1>1. Top.k = "match" /\ stack' = Below /\ UNCHANGED <<m, hist, list>>
  BY DEF ScanFails, Scanned, Matching, In, Return, match
<1> QED BY <1>1, AtTop, CalmPop

------------------------------------------------------------------------------
\* The theorem.
EntriesInv == IInv /\ (Untraced => Apart)

LEMMA InitApart == Init => EntriesInv
<1> SUFFICES ASSUME Init PROVE Apart BY InitTyped DEF EntriesInv
<1> DEFINE w == [k |-> "interp"]
<1>0. stack = <<w>> /\ w.k = "interp" BY DEF Init
<1> HIDE DEF w
<1>1. DOMAIN stack = {1} /\ Len(stack) = 1 /\ stack[1].k = "interp" BY <1>0
<1>2. Floors /\ Owned BY <1>1 DEF Floors, Owned, Saves
<1>3. Shape
  <2>1. \A i \in 1 .. Len(stack) - 1 : FALSE BY <1>1
  <2> QED BY <2>1 DEF Shape
<1> QED BY <1>2, <1>3 DEF Apart

LEMMA SameProgram == ASSUME [Next]_vars PROVE prog' = prog
<1>1. CASE Trace \/ TrapReturn \/ Xithnd \/ Interrupt
  BY <1>1 DEF Trace, TrapReturn, Xithnd, Interrupt, rest
<1>2. CASE Skip \/ Init1 \/ Goto \/ Base \/ End \/ Do \/ Returned \/ Gotl \/ GotoLabel
  BY <1>2 DEF Skip, Init1, Goto, Base, End, Do, Returned, Gotl, GotoLabel, rest
<1>3. CASE Operand \/ OperandBack \/ Bad \/ Asgn \/ Asgned \/ Setexit \/ Define
  BY <1>3 DEF Operand, OperandBack, Bad, Asgn, Asgned, Setexit, Define, rest
<1>4. CASE Enter \/ Body \/ Leaving \/ Left \/ ExpvalCode \/ ExpvalBack \/ Eval
  BY <1>4 DEF Enter, Body, Leaving, Left, ExpvalCode, ExpvalBack, Eval, rest
<1>5. CASE Scan \/ ScanFails \/ ScanExp \/ ScanExpBack \/ ScanName \/ ScanNow \/ ScanNowed
  BY <1>5 DEF Scan, ScanFails, ScanExp, ScanExpBack, ScanName, ScanNow, ScanNowed, rest
<1>6. CASE Named1 \/ Nmd \/ Nmded \/ Scanned
  BY <1>6 DEF Named1, Nmd, Nmded, Scanned, rest
<1>7. CASE UNCHANGED vars BY <1>7 DEF vars
<1> QED BY <1>1, <1>2, <1>3, <1>4, <1>5, <1>6, <1>7 DEF Next, Halted

LEMMA NextApart == EntriesInv /\ [Next]_vars => EntriesInv'
<1> SUFFICES ASSUME EntriesInv, [Next]_vars, Untraced' PROVE Apart'
  BY NextKeeps DEF EntriesInv
<1>1. prog' = prog BY SameProgram
<1>2. Untraced BY <1>1 DEF Untraced, P
<1>3. TypeInv /\ Apart BY <1>2 DEF EntriesInv, IInv
<1>4. TypeInv' BY NextKeeps DEF EntriesInv, IInv
<1>5. Apartly => Apart' BY <1>3 DEF Apartly
<1>6. CASE Trace \/ TrapReturn \/ Xithnd \/ Interrupt \/ GotoLabel
  BY <1>2, <1>3, <1>4, <1>5, <1>6, ErrorsApart
<1>7. CASE Skip \/ Init1 \/ Goto \/ Base \/ End \/ Do \/ Returned \/ Gotl
  BY <1>2, <1>3, <1>4, <1>5, <1>7, InterpApart
<1>8. CASE Operand \/ OperandBack BY <1>2, <1>3, <1>4, <1>5, <1>8, OperandsApart
<1>9. CASE Bad \/ Asgn \/ Asgned \/ Setexit \/ Define
  BY <1>2, <1>3, <1>4, <1>5, <1>9, OperationsApart
<1>10. CASE Enter \/ Body \/ Leaving \/ Left BY <1>2, <1>3, <1>4, <1>5, <1>10, CallsApart
<1>11. CASE ExpvalCode \/ ExpvalBack \/ Eval BY <1>2, <1>3, <1>4, <1>5, <1>11, ValuesApart
<1>12. CASE Scan \/ ScanFails \/ Scanned \/ ScanExp \/ ScanExpBack
  BY <1>2, <1>3, <1>4, <1>5, <1>12, ScanApart, LeavesApart, ScanExpApart, ScanExpBackApart
<1>13. CASE ScanName \/ ScanNow \/ ScanNowed
  BY <1>3, <1>4, <1>5, <1>13, ScanNameApart, ScanNowApart, ScanNowedApart
<1>14. CASE Named1 \/ Nmd \/ Nmded BY <1>3, <1>4, <1>5, <1>14, Named1Apart, NmdApart, NmdedApart
<1>15. CASE UNCHANGED vars
  <2>1. stack' = stack /\ UNCHANGED <<m, hist, list>> BY <1>15 DEF vars
  <2> QED BY <1>3, <1>4, <2>1, CalmSame
<1> QED BY <1>6, <1>7, <1>8, <1>9, <1>10, <1>11, <1>12, <1>13, <1>14, <1>15 DEF Next, Halted

LEMMA ApartOwns == EntriesInv => (Untraced => OwnEntries)
<1> SUFFICES ASSUME EntriesInv, Untraced, In("match"), Top.ph \in {"scan", "names"}
             PROVE  /\ \A i \in m.nhed + 1 .. m.nam : list[i].own = Top.id
                    /\ Top.ph = "scan" => m.text = Top.id /\ \A i \in m.hed + 1 .. m.pdl : hist[i] = Top.id
  BY DEF OwnEntries
<1>1. TypeInv /\ Apart /\ Top.k = "match" /\ ~Saves(Top) BY DEF EntriesInv, IInv, In, Saves
<1>2. Owns(Top, m) BY <1>1, TopOwns
<1> QED BY <1>2 DEF Owns

\* When a match goes on after program text it ran, its entries and its subject
\* are its own, however deep matches are nested in it (EXPVAL, ENMI, NMD), in
\* every program that does not trace &ERRTYPE.
THEOREM EntriesOwned == Spec => [](Untraced => OwnEntries)
BY InitApart, NextApart, ApartOwns, PTL DEF Spec
=============================================================================
