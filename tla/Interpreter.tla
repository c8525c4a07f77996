----------------------------- MODULE Interpreter -----------------------------
(***************************************************************************)
(* The interpreter of isnobol4.c: INTERP and the procedures it invokes     *)
(* where they call each other or run program text: DEFINE and DEFFNC, the  *)
(* go-tos, EVAL and EXPVAL, assignment, a match and the assignments it     *)
(* makes, traces (TRPHND), errors (FTLTST, FTLERR, SCERST), SETEXIT and    *)
(* the interrupt key.                                                      *)
(*                                                                         *)
(* Object code is a sequence of cells for each label, in prefix order.     *)
(* "stack" holds one frame for each C function that waits for another one; *)
(* "ret" is what the function that returned last returned.  One step is    *)
(* one cell, or what one function does between two calls.  "" is a null     *)
(* address of code.                                                        *)
(***************************************************************************)
EXTENDS Integers, Sequences, FiniteSets, Functions

CONSTANTS
  Programs, \* each object code by label, functions, what DEFINE and EVAL read in a
            \* string, traces, &STLIMIT, ..., how often the interrupt key is struck
  Names     \* the strings but the null one: each names a variable, and may name
            \* a function or a label

\* What the compiler and the functions before BEGIN make: values (a string, an
\* unevaluated expression, a pattern, an array), parts of a pattern, cells.
Strings   == Names \cup {""}
Str       == [t : {"S"}, s : Strings]
Parts(p)  == [q : {"EXP"}, b : DOMAIN p.code] \cup [q : {"NAME", "NOW"}, x : Names, v : Str]
Values(p) == Str \cup [t : {"E"}, b : DOMAIN p.code] \cup [t : {"P"}, ps : Seq(Parts(p))]
                 \cup [t : {"A"}]
Unary     == {"BAD", "SETEXIT", "DEFINE", "EVAL", "SCAN"}
Cells(p)  == [c : {"name"}, x : Names] \cup [c : {"lit"}, v : Values(p)]
        \cup [c : {"stmt"}, no : Nat, line : Nat, f : Nat] \cup [c : {"goto"}, o : Nat]
        \cup [c : {"base"}, b : DOMAIN p.code] \cup [c : {"gotl"}, l : Strings] \cup [c : {"end"}]
        \cup [c : {"call"}, f : Names, n : Nat]
        \cup [c : {"op"}, o : {"ASGN"}, n : {2}] \cup [c : {"op"}, o : Unary, n : {1}]
\* A definition block: the function, its entry label, arguments and locals.
Definition == [f : Names, label : Strings, args : Seq(Names), locals : Seq(Names)]

IsProgram(p) ==
  /\ \A b \in DOMAIN p.code : p.code[b] \in Seq(Cells(p))
  /\ "" \notin DOMAIN p.code /\ {p.main, "TRACE"} \subseteq DOMAIN p.code
  /\ DOMAIN p.fun \subseteq Names /\ \A f \in DOMAIN p.fun : p.fun[f] \in Definition
  /\ \A s \in DOMAIN p.protos : p.protos[s] \in Definition
  /\ \A s \in DOMAIN p.compiled : p.compiled[s] \in DOMAIN p.code
  /\ {p.trace, p.errs, p.fatals, p.limit, p.interrupts} \subseteq Nat

\* The strings of a program and "text", which stands for what a match takes.
ProgramsAssumption ==
  "" \notin Names /\ "text" \in Names /\ \A i \in DOMAIN Programs : IsProgram(Programs[i])
ASSUME ProgramsAssumption

VARIABLES
  prog,       \* the program
  r,          \* OCBSCL, OCICL, FRTNCL, &STNO, &LINE, &LASTNO, &LASTLINE, &TRACE
  m,          \* PDLPTR, PDLHED, NAMICL, NHEDCL; the match TXSP, HEADSP, ... are of
  hist, list, \* the history list and the list of names (NBSPTR) in memory
  e,          \* &ERRLIMIT, &FATALLIMIT, FATLCL, ERRTYP, UINTCL, XITPTR, and
              \* what XITHND saved: XOCBSC, XOCICL, XFRTNC, ... ("begun" is EXNOCL
              \* then, and is only read by a property)
  val, fun,   \* values of variables; what DEFINE stored for functions
  stack, ret, \* C functions that wait; what the last one returned
  lvl,        \* LVLCL, &FNCLEVEL
  count,      \* EXNOCL: statements begun
  fresh,      \* matches begun: tells their entries in hist and list apart
  struck,     \* interrupts so far
  halted

vars == <<prog, r, m, hist, list, e, val, fun, stack, ret, lvl, count, fresh, struck, halted>>

P == Programs[prog]

\* Variables a group of actions leaves alone.
store == <<val, fun>>
match == <<m, hist, list, fresh>>
rest  == <<prog, struck>>

Null     == [t |-> "S", s |-> ""]
None     == [n |-> 0]
Fail     == [n |-> 1]
Resumed  == [n |-> 1, by |-> "CONTINUE"]  \* the failure CONTINUE ends with
Named(x) == [n |-> 2, x |-> x]
Value(v) == [n |-> 3, v |-> v]

Top      == stack[Len(stack)]
Below    == SubSeq(stack, 1, Len(stack) - 1)
With(f)  == Append(Below, f)
Cell(b, o) == IF b \in DOMAIN P.code /\ o \in DOMAIN P.code[b]
              THEN P.code[b][o] ELSE [c |-> "wild"]
Here     == Cell(r.base, r.off + 1)
Past     == [r EXCEPT !.off = @ + 1]
Put(s, i, x) == IF i = Len(s) + 1 THEN Append(s, x) ELSE [s EXCEPT ![i] = x]

In(k)     == ~halted /\ ret = None /\ Top.k = k
Back(k)   == ~halted /\ ret # None /\ Top.k = k
Return(x) == ret' = x /\ stack' = Below
Go(q)     == r' = q /\ UNCHANGED ret

------------------------------------------------------------------------------
\* TRPHND saves where the program is, counts &TRACE down and turns it off, and
\* invokes the trace function from the trace block.  Registers q and frames f
\* wait for that if the event is traced.
Traced(q, ev) == q.trap > 0 /\ ev \in P.traced
Trap(ev, q, f) ==
  IF Traced(q, ev)
  THEN /\ stack' = Append(f, [k |-> "trap", r |-> [q EXCEPT !.trap = @ - 1]])
       /\ r' = [q EXCEPT !.base = "TRACE", !.off = 0, !.trap = 0]
  ELSE stack' = f /\ r' = q

TrapReturn ==
  /\ Back("trap") /\ r' = Top.r /\ stack' = Below /\ ret' = None
  /\ UNCHANGED <<rest, match, store, e, lvl, count, halted>>

------------------------------------------------------------------------------
\* A bug: &ERRLIMIT is counted down and not looked at.
EndsFatal(s) == s = "fatal" /\ e.fatals <= 0
\* Whether an error ends the program: &FATALLIMIT or &ERRLIMIT is used up.
Ending(s)    == (s = "fatal" /\ e.fatals <= 0) \/ e.errs <= 0

\* Errors.  FTLTST ("test"), FTLERR ("fatal") and SCERST ("scan") end the
\* program (FTLEND), or trace &ERRTYPE and call XITHND.
Raise(ee, typ, s, q, f) ==
  LET ends == Ending(s) IN
  /\ e' = [ee EXCEPT !.typ    = typ,
                    !.errs   = IF ends THEN @ ELSE @ - 1,
                    !.fatals = IF s = "fatal" /\ @ > 0 THEN @ - 1 ELSE @,
                    !.fatal  = IF s = "scan" THEN @ ELSE s = "fatal"]
  /\ halted' = ends /\ ret' = None
  /\ IF ends THEN r' = q /\ stack' = f
             ELSE Trap(<<"KEYWORD", "ERRTYPE">>, q, Append(f, [k |-> "error"]))

\* A bug: FRTNCL keeps the failure exit of the statement left.
ExitKept(q)    == q.frtn
\* FRTNCL when the handler begins.
HandlerExit(q) == 0
\* A bug: FRTNCL is saved after it was cleared.
ExitCleared(q) == 0
\* XFRTNC.
SavedExit(q)   == q.frtn

\* XITHND: save the state and leave for the handler.  XLNNOC is set twice and
\* the place for &LASTNO not at all.
Leave(ee, q) ==
  IF ee.xit = "" THEN e' = ee /\ r' = q
  ELSE /\ e' = [ee EXCEPT !.xit = "",
          !.saved = [on |-> q.base # "", base |-> q.base, off |-> q.off, frtn |-> SavedExit(q),
                     stno |-> q.stno, line |-> q.line, lastline |-> q.lastline, typ |-> ee.typ,
                     begun |-> count]]
       /\ r' = [q EXCEPT !.base = ee.xit, !.frtn = HandlerExit(q), !.lastno = q.stno, !.lastline = q.line]

Xithnd ==
  /\ In("error") /\ Leave(e, r) /\ Return(Fail)
  /\ UNCHANGED <<rest, match, store, lvl, count, halted>>

\* sig_catch: the key is noted, and the next INIT finds it.
Interrupt ==
  /\ ~halted /\ struck < P.interrupts /\ e.errs > 0
  /\ struck' = struck + 1 /\ e' = [e EXCEPT !.uint = TRUE]
  /\ UNCHANGED <<prog, r, match, store, stack, ret, lvl, count, halted>>

------------------------------------------------------------------------------
\* INTERP.
At(c) == In("interp") /\ Here.c = c

Skip ==
  /\ (At("name") \/ At("lit")) /\ Go(Past)
  /\ UNCHANGED <<rest, match, store, e, stack, lvl, count, halted>>

\* A bug: EXNOCL is not counted up.
NotCounted == count
\* EXNOCL.
Counted    == count + 1

\* INIT: one statement begins, or the interrupt is an error here.
Init1 ==
  /\ At("stmt")
  /\ LET q == [Past EXCEPT !.lastno = r.stno, !.lastline = r.line]
         b == [q EXCEPT !.stno = Here.no, !.line = Here.line, !.frtn = Here.f]
     IN IF e.uint
        THEN Raise([e EXCEPT !.uint = FALSE], 34, "test", q, stack) /\ UNCHANGED count
        ELSE IF count >= P.limit
        THEN halted' = TRUE /\ r' = b /\ UNCHANGED <<e, stack, ret, count>>
        ELSE /\ Trap(<<"KEYWORD", "STCOUNT">>, b, stack) /\ count' = Counted
             /\ UNCHANGED <<e, ret, halted>>
  /\ UNCHANGED <<rest, match, store, lvl>>

Goto ==
  /\ At("goto") /\ Go([r EXCEPT !.off = Here.o])
  /\ UNCHANGED <<rest, match, store, e, stack, lvl, count, halted>>

Base ==
  /\ At("base") /\ Go([r EXCEPT !.base = Here.b, !.off = 0])
  /\ UNCHANGED <<rest, match, store, e, stack, lvl, count, halted>>

\* END calls the handler too, and goes on behind END in the handler's code.
End ==
  /\ At("end") /\ halted' = (e.errs <= 0 \/ e.xit = "")
  /\ IF e.errs <= 0 THEN UNCHANGED <<e, r>>
     ELSE Leave([e EXCEPT !.errs = @ - 1, !.typ = 0],
                [Past EXCEPT !.frtn = r.off, !.lastno = r.stno, !.lastline = r.line])
  /\ UNCHANGED <<rest, match, store, stack, ret, lvl, count>>

\* INVOKE: a function that takes arguments waits for them.
Invoke(c) ==
  IF c.c = "call" /\ c.f \notin DOMAIN fun
  THEN Raise(e, 5, "test", Past, stack)
  ELSE /\ stack' = Append(stack, IF c.c = "op"
             THEN [k |-> "op", o |-> c.o, n |-> c.n, args |-> <<>>, ph |-> "args"]
             ELSE [k |-> "deff", f |-> c.f, n |-> c.n, args |-> <<>>, ph |-> "args"])
       /\ Go(Past) /\ UNCHANGED <<e, halted>>
Trace ==
  /\ In("trap") /\ r.off = 0 /\ Here.c = "call" /\ Invoke(Here)
  /\ UNCHANGED <<rest, match, store, lvl, count>>

Do ==
  /\ (At("op") \/ At("call")) /\ Invoke(Here)
  /\ UNCHANGED <<rest, match, store, lvl, count>>

\* INTERP after INVOKE: go on, take the failure exit, or return for RETURN,
\* FRETURN and NRETURN; from level zero that is an error.
Returned ==
  /\ Back("interp")
  /\ \/ ret.n \in 2 .. 3 /\ ret' = None /\ UNCHANGED <<r, stack, halted>>
     \/ ret.n = 1 /\ r' = [r EXCEPT !.off = r.frtn] /\ ret' = None /\ UNCHANGED <<stack, halted>>
     \/ ret.n > 3 /\ Len(stack) = 1 /\ halted' = TRUE /\ UNCHANGED <<r, stack, ret>>
     \/ ret.n > 3 /\ Len(stack) > 1 /\ Return(ret) /\ UNCHANGED <<r, halted>>
  /\ UNCHANGED <<rest, match, store, e, lvl, count>>

------------------------------------------------------------------------------
\* The go-tos of GOTL; the frame "goto" is there while a trace of the label runs.
Gotl ==
  /\ At("gotl") /\ Trap(<<"LABEL", Here.l>>, Past, Append(stack, [k |-> "goto", l |-> Here.l]))
  /\ UNCHANGED <<rest, match, store, e, ret, lvl, count, halted>>

Leaves == [RETURN |-> 6, FRETURN |-> 4, NRETURN |-> 5]

\* SCONTINUE and CONTINUE set FRTNCL before they see that there is no state
\* to go back to; &LASTNO becomes the saved line.
Resume(off) ==
  IF e.fatal THEN halted' = TRUE /\ UNCHANGED <<r, e, stack, ret>>       \* CFTERR
  ELSE IF ~e.saved.on THEN Raise(e, 35, "fatal", [r EXCEPT !.frtn = off], Below)
  ELSE /\ r' = [r EXCEPT !.base = e.saved.base, !.frtn = off, !.stno = e.saved.stno,
                         !.line = e.saved.line, !.lastno = e.saved.line,
                         !.lastline = e.saved.lastline]
       /\ e' = [e EXCEPT !.saved.on = FALSE, !.typ = IF @ = 0 THEN 0 ELSE e.saved.typ]
       /\ halted' = (e.typ = 0)                                           \* END0
       /\ Return(Resumed)

GotoLabel ==
  /\ In("goto")
  /\ LET l == Top.l IN
     IF l \in DOMAIN Leaves
     THEN Return([n |-> Leaves[l]]) /\ UNCHANGED <<r, e, halted>>
     ELSE IF l = "ABORT"
     THEN IF e.saved.on THEN halted' = TRUE /\ UNCHANGED <<r, e, stack, ret>>
                        ELSE Raise(e, 35, "fatal", r, Below)
     ELSE IF l = "SCONTINUE" THEN Resume(e.saved.off)
     ELSE IF l = "CONTINUE"  THEN Resume(e.saved.frtn)
     ELSE IF l \in DOMAIN P.code
     THEN r' = [r EXCEPT !.base = l, !.off = 0] /\ Return(Value(Null)) /\ UNCHANGED <<e, halted>>
     ELSE Raise(e, 24, "fatal", [r EXCEPT !.base = ""], Below)            \* INTR4
  /\ UNCHANGED <<rest, match, store, lvl, count>>

------------------------------------------------------------------------------
\* Operands: ARGVAL and its like.  A function in an operand is invoked; what
\* comes back is a value or, from NRETURN, a name.
Collects == Top.k \in {"op", "deff"} /\ Top.ph = "args" /\ Len(Top.args) < Top.n
Doing(o) == Top.k = "op" /\ Top.o = o
ForName  == Doing("ASGN") /\ Top.args = <<>>
Take(v)  == stack' = With([Top EXCEPT !.args = Append(@, v)])
TakeName(x) == Take(IF ForName THEN [t |-> "N", s |-> x] ELSE val[x])

\* A literal is a function that returns its value, which is not a name (NEMO).
Operand ==
  /\ ~halted /\ ret = None /\ Collects
  /\ \/ Here.c = "name" /\ TakeName(Here.x) /\ Go(Past) /\ UNCHANGED <<e, halted>>
     \/ Here.c = "lit" /\ ~ForName /\ Take(Here.v) /\ Go(Past) /\ UNCHANGED <<e, halted>>
     \/ Here.c = "lit" /\ ForName /\ Raise(e, 8, "test", Past, Below)
     \/ Here.c \in {"call", "op"} /\ Invoke(Here)
  /\ UNCHANGED <<rest, match, store, lvl, count>>

\* SETXIT makes an error of its argument's failure.
OperandBack ==
  /\ ~halted /\ ret # None /\ Collects
  /\ \/ ret.n = 1 /\ ~Doing("SETEXIT") /\ Return(Fail) /\ UNCHANGED <<r, e, halted>>
     \/ ret.n = 1 /\ Doing("SETEXIT") /\ Raise(e, 30, "test", r, Below)
     \/ ret.n = 2 /\ TakeName(ret.x) /\ ret' = None /\ UNCHANGED <<r, e, halted>>
     \/ ret.n = 3 /\ ~ForName /\ Take(ret.v) /\ ret' = None /\ UNCHANGED <<r, e, halted>>
     \/ ret.n = 3 /\ ForName /\ Raise(e, 8, "test", r, Below)
  /\ UNCHANGED <<rest, match, store, lvl, count>>

Ready(o) == In("op") /\ Top.o = o /\ Top.ph = "args" /\ Len(Top.args) = Top.n
Arg(i)   == Top.args[i]

\* An operation that finds its argument to be wrong, as 1 / 0.
Bad == Ready("BAD") /\ Raise(e, 2, "test", r, Below)
       /\ UNCHANGED <<rest, match, store, lvl, count>>

\* ASGN.
Asgn ==
  /\ Ready("ASGN") /\ val' = [val EXCEPT ![Arg(1).s] = Arg(2)]
  /\ Trap(<<"VALUE", Arg(1).s>>, r, With([Top EXCEPT !.ph = "traced"]))
  /\ UNCHANGED <<rest, match, fun, e, ret, lvl, count, halted>>
Asgned ==
  /\ In("op") /\ Top.ph = "traced" /\ Return(Value(Arg(2)))
  /\ UNCHANGED <<rest, match, store, r, e, lvl, count, halted>>

\* SETXIT: the argument is a label with code, or null.  What is not a string is
\* an error for VARVUP, and its failure one more for SETXIT (OperandBack).
Setexit ==
  /\ Ready("SETEXIT")
  /\ LET a == Arg(1) IN
     \/ a.t # "S" /\ Raise(e, 1, "test", r, With([Top EXCEPT !.args = <<>>]))
     \/ a.t = "S" /\ a.s # "" /\ a.s \notin DOMAIN P.code /\ Raise(e, 30, "test", r, Below)
     \/ /\ a.t = "S" /\ (a.s = "" \/ a.s \in DOMAIN P.code)
        /\ e' = [e EXCEPT !.xit = a.s] /\ Return(Value([t |-> "S", s |-> e.xit]))
        /\ UNCHANGED <<r, halted>>
  /\ UNCHANGED <<rest, match, store, lvl, count>>

\* DEFINE: a function gets a new definition block, from its prototype.
Define ==
  /\ Ready("DEFINE")
  /\ LET a == Arg(1) IN
     \/ a.t # "S" /\ Raise(e, 1, "test", r, Below) /\ UNCHANGED fun
     \/ a.t = "S" /\ a.s \notin DOMAIN P.protos /\ Raise(e, 6, "test", r, Below) /\ UNCHANGED fun  \* PROTER
     \/ /\ a.t = "S" /\ a.s \in DOMAIN P.protos
        /\ LET d == P.protos[a.s] IN
           fun' = [f \in DOMAIN fun \cup {d.f} |-> IF f = d.f THEN d ELSE fun[f]]
        /\ Return(Value(Null)) /\ UNCHANGED <<r, e, halted>>
  /\ UNCHANGED <<rest, match, val, lvl, count>>

------------------------------------------------------------------------------
\* DEFFNC.  The function's name, its arguments and its locals get new values,
\* in that order; the old ones go to the stack and come back last to first.
Bound(d)     == <<d.f>> \o d.args \o d.locals
Actual(d, a) == [i \in 1 .. Len(Bound(d)) |->
                   IF i > 1 /\ i <= 1 + Len(d.args) /\ i <= 1 + Len(a) THEN a[i - 1] ELSE Null]
First(ns, x) == CHOOSE i \in DOMAIN ns : ns[i] = x /\ \A j \in DOMAIN ns : ns[j] = x => i <= j
Final(ns, x) == CHOOSE i \in DOMAIN ns : ns[i] = x /\ \A j \in DOMAIN ns : ns[j] = x => j <= i
\* A name bound twice has its first new value when it gets the second.
SwapIn(v, ns, vs) == [x \in DOMAIN v |-> IF x \in Range(ns) THEN vs[Final(ns, x)] ELSE v[x]]
Aside(v, ns, vs)  == [i \in DOMAIN ns |->
                        IF i = First(ns, ns[i]) THEN v[ns[i]] ELSE vs[Final(SubSeq(ns, 1, i - 1), ns[i])]]
\* A bug: the old values come back first to last.
StaysFirst(ns, x) == Final(ns, x)
\* Which of a name's old values comes back last and stays.
Stays(ns, x) == First(ns, x)
SwapOut(v, ns, old) == [x \in DOMAIN v |-> IF x \in Range(ns) THEN old[Stays(ns, x)] ELSE v[x]]

Enter ==
  /\ In("deff") /\ Top.ph = "args" /\ Len(Top.args) = Top.n
  /\ LET d   == fun[Top.f]
         new == Actual(d, Top.args)
         old == Aside(val, Bound(d), new)
     IN /\ val' = SwapIn(val, Bound(d), new)
        /\ \/ d.label \notin DOMAIN P.code /\ Raise(e, 9, "test", r, Below)      \* UNDFFE
           \/ /\ d.label \in DOMAIN P.code
              /\ Trap(<<"CALL", Top.f>>, [r EXCEPT !.base = d.label],
                      With([k |-> "deff", ph |-> "entered", d |-> d, old |-> old, r |-> r]))
              /\ UNCHANGED <<e, ret, halted>>
  /\ UNCHANGED <<rest, match, fun, lvl, count>>

Body ==
  /\ In("deff") /\ Top.ph = "entered" /\ lvl' = lvl + 1
  /\ stack' = With([Top EXCEPT !.ph = "body"]) \o <<[k |-> "interp"]>>
  /\ Go([r EXCEPT !.off = 0])
  /\ UNCHANGED <<rest, match, store, e, count, halted>>

Leaving ==
  /\ Back("deff") /\ Top.ph = "body" /\ ret' = None
  /\ Trap(<<"RETURN", Top.d.f>>, r,
          With([k |-> "deff", ph |-> "left", d |-> Top.d, old |-> Top.old, r |-> Top.r, how |-> ret.n]))
  /\ UNCHANGED <<rest, match, store, e, lvl, count, halted>>

\* A bug: FRTNCL is not popped.
ExitLeft(f)   == r.frtn
ExitBefore(f) == f.r.frtn
\* A bug: FRETURN does not count the level down.
LevelKept(how)  == IF how = 4 THEN lvl ELSE lvl - 1
LevelAfter(how) == lvl - 1

Left ==
  /\ In("deff") /\ Top.ph = "left" /\ lvl' = LevelAfter(Top.how)
  /\ LET v == val[Top.d.f]
         q == [r EXCEPT !.base = Top.r.base, !.off = Top.r.off, !.frtn = ExitBefore(Top),
                        !.stno = Top.r.stno, !.line = Top.r.line]
     IN /\ val' = SwapOut(val, Bound(Top.d), Top.old)
        /\ IF Top.how = 5 /\ (v.t # "S" \/ v.s = "") THEN Raise(e, 4, "test", q, Below)
           ELSE /\ r' = q /\ UNCHANGED <<e, halted>>
                /\ Return(IF Top.how = 4 THEN Fail ELSE IF Top.how = 5 THEN Named(v.s) ELSE Value(v))
  /\ UNCHANGED <<rest, match, fun, count>>

------------------------------------------------------------------------------
\* A bug: a match in program text that a match runs begins where that one did.
NotAbove(q) == q
\* PDLHED and NHEDCL are moved up.
Above(q)    == [q EXCEPT !.hed = q.pdl, !.nhed = q.nam]

\* EXPVAL (scl 1: a value is wanted) and EXPEVL (scl 0): program text from
\* inside an operation; the match and the code are put back afterwards.
Expval(scl, b, f) ==
  /\ stack' = Append(f, [k |-> "expv", scl |-> scl, base |-> r.base, off |-> r.off, m |-> m])
  /\ r' = [r EXCEPT !.base = b, !.off = 0] /\ m' = Above(m)
Expvaled(x) ==
  /\ r' = [r EXCEPT !.base = Top.base, !.off = Top.off] /\ m' = Top.m /\ Return(x)
NameOrValue(x) == IF Top.scl = 0 THEN Named(x) ELSE Value(val[x])

ExpvalCode ==
  /\ In("expv")
  /\ \/ Here.c = "name" /\ Expvaled(NameOrValue(Here.x)) /\ UNCHANGED <<e, halted>>
     \/ Here.c \in {"call", "op"} /\ Invoke(Here) /\ UNCHANGED m
  /\ UNCHANGED <<rest, hist, list, fresh, store, lvl, count>>
ExpvalBack ==
  /\ Back("expv") /\ Expvaled(IF ret.n = 2 THEN NameOrValue(ret.x) ELSE ret)
  /\ UNCHANGED <<rest, hist, list, fresh, store, e, lvl, count, halted>>

\* A string is compiled first, and fails when it is no expression; only a
\* string and an expression are evaluated.
Eval ==
  /\ Ready("EVAL")
  /\ LET a == Arg(1) IN
     \/ a.t = "E" /\ Expval(0, a.b, Below) /\ UNCHANGED <<ret, e, halted>>
     \/ a.t = "S" /\ a.s \in DOMAIN P.compiled /\ Expval(0, P.compiled[a.s], Below) /\ UNCHANGED <<ret, e, halted>>
     \/ a.t = "S" /\ a.s \notin DOMAIN P.compiled
        /\ Return(IF a.s = "" THEN Value(Null) ELSE Fail) /\ UNCHANGED <<r, m, e, halted>>
     \/ a.t \notin {"S", "E"} /\ Raise(e, 1, "test", r, Below) /\ UNCHANGED m
  /\ UNCHANGED <<rest, hist, list, fresh, store, lvl, count>>

------------------------------------------------------------------------------
\* SCAN and what a match does to the rest: the history list and the list of
\* names begin at PDLHED and NHEDCL; the parts of a pattern are *F() ("EXP"),
\* P . V ("NAME") and P $ V ("NOW"), and whether the rest matches is open.
Record(q) == hist' = Put(hist, q.pdl + 1, Top.id) /\ m' = [q EXCEPT !.pdl = @ + 1]
Matching(ph) == In("match") /\ Top.ph = ph
Part  == Head(Top.ps)
Taken == [Top EXCEPT !.ps = Tail(@)]

Scan ==
  /\ Ready("SCAN")
  /\ IF Arg(1).t # "P" THEN Raise(e, 1, "test", r, Below) /\ UNCHANGED match
     ELSE LET q == [m EXCEPT !.pdl = m.hed + 1, !.nam = m.nhed, !.text = fresh + 1] IN
          /\ fresh' = fresh + 1 /\ m' = q /\ hist' = Put(hist, m.hed + 1, fresh + 1)
          /\ stack' = With([k |-> "match", id |-> fresh + 1, ps |-> Arg(1).ps, ph |-> "scan", i |-> 0, m |-> q])
          /\ UNCHANGED <<list, r, e, ret, halted>>
  /\ UNCHANGED <<rest, store, lvl, count>>

ScanFails ==
  /\ Matching("scan") /\ Top.ps # <<>> /\ Return(Fail)
  /\ UNCHANGED <<rest, match, store, r, e, lvl, count, halted>>

ScanExp ==
  /\ Matching("scan") /\ Top.ps # <<>> /\ Part.q = "EXP" /\ Expval(1, Part.b, With(Taken))
  /\ UNCHANGED <<rest, hist, list, fresh, store, e, ret, lvl, count, halted>>
\* The value, or a failure; SCDTER goes on as a failure, for which there may
\* be an alternative.
ScanExpBack ==
  /\ Back("match") /\ Top.ph = "scan"
  /\ \/ ret.n = 1 /\ (Return(Fail) \/ (ret' = None /\ UNCHANGED stack)) /\ UNCHANGED <<m, hist, r, e, halted>>
     \/ ret.n = 3 /\ ret.v.t = "A" /\ Raise(e, 1, "scan", r, stack) /\ UNCHANGED <<m, hist>>
     \/ ret.n = 3 /\ ret.v.t # "A" /\ Record(m) /\ ret' = None /\ UNCHANGED <<r, e, stack, halted>>
  /\ UNCHANGED <<rest, list, fresh, store, lvl, count>>

ScanName ==
  /\ Matching("scan") /\ Top.ps # <<>> /\ Part.q = "NAME"
  /\ list' = Put(list, m.nam + 1, [own |-> Top.id, x |-> Part.x, v |-> Part.v])
  /\ Record([m EXCEPT !.nam = @ + 1]) /\ stack' = With(Taken)
  /\ UNCHANGED <<rest, fresh, store, r, e, ret, lvl, count, halted>>

\* ENMI: while a trace of V runs, a match starts above this one's entries.
ScanNow ==
  /\ Matching("scan") /\ Top.ps # <<>> /\ Part.q = "NOW"
  /\ val' = [val EXCEPT ![Part.x] = Part.v]
  /\ m' = IF Traced(r, <<"VALUE", Part.x>>) THEN Above(m) ELSE m
  /\ Trap(<<"VALUE", Part.x>>, r, With([Taken EXCEPT !.ph = "now", !.m = m]))
  /\ UNCHANGED <<rest, hist, list, fresh, fun, e, ret, lvl, count, halted>>
ScanNowed ==
  /\ Matching("now") /\ Record(Top.m) /\ stack' = With([Top EXCEPT !.ph = "scan"])
  /\ UNCHANGED <<rest, list, fresh, store, r, e, ret, lvl, count, halted>>

\* NMD: assign what the list of names holds, one name at a time; SCAN then
\* takes the text matched from TXSP and HEADSP.
Named1 ==
  /\ Matching("scan") /\ Top.ps = <<>> /\ stack' = With([Top EXCEPT !.ph = "names", !.i = m.nhed])
  /\ UNCHANGED <<rest, match, store, r, e, ret, lvl, count, halted>>
Nmd ==
  /\ Matching("names") /\ Top.i < m.nam
  /\ LET n == list[Top.i + 1] IN
     /\ val' = [val EXCEPT ![n.x] = n.v]
     /\ m' = IF Traced(r, <<"VALUE", n.x>>) THEN [m EXCEPT !.nhed = m.nam] ELSE m
     /\ Trap(<<"VALUE", n.x>>, r, With([Top EXCEPT !.ph = "named", !.i = @ + 1, !.m = m]))
  /\ UNCHANGED <<rest, hist, list, fresh, fun, e, ret, lvl, count, halted>>
Nmded ==
  /\ Matching("named") /\ m' = [m EXCEPT !.nam = Top.m.nam, !.nhed = Top.m.nhed]
  /\ stack' = With([Top EXCEPT !.ph = "names"])
  /\ UNCHANGED <<rest, hist, list, fresh, store, r, e, ret, lvl, count, halted>>
Scanned ==
  /\ Matching("names") /\ Top.i = m.nam /\ Return(Value([t |-> "S", s |-> "text"]))
  /\ UNCHANGED <<rest, match, store, r, e, lvl, count, halted>>

------------------------------------------------------------------------------
Init ==
  /\ prog \in DOMAIN Programs
  /\ r = [base |-> P.main, off |-> 0, frtn |-> 0, stno |-> 0, line |-> 0, lastno |-> 0,
          lastline |-> 0, trap |-> P.trace]
  /\ m = [pdl |-> 0, hed |-> 0, nam |-> 0, nhed |-> 0, text |-> 0]
  /\ e = [errs |-> P.errs, fatals |-> P.fatals, fatal |-> FALSE, typ |-> 0, uint |-> FALSE,
          xit |-> "", saved |-> [on |-> FALSE, base |-> "", off |-> 0, frtn |-> 0, stno |-> 0,
                                 line |-> 0, lastline |-> 0, typ |-> 0, begun |-> 0]]
  /\ hist = <<>> /\ list = <<>> /\ fresh = 0 /\ lvl = 0 /\ count = 0 /\ struck = 0
  /\ val = [x \in Names |-> Null] /\ fun = P.fun
  /\ stack = <<[k |-> "interp"]>> /\ ret = None /\ halted = FALSE

Halted == halted /\ UNCHANGED vars

Next == \/ Trace \/ TrapReturn \/ Xithnd \/ Interrupt
        \/ Skip \/ Init1 \/ Goto \/ Base \/ End \/ Do \/ Returned \/ Gotl \/ GotoLabel
        \/ Operand \/ OperandBack \/ Bad \/ Asgn \/ Asgned \/ Setexit \/ Define
        \/ Enter \/ Body \/ Leaving \/ Left \/ ExpvalCode \/ ExpvalBack \/ Eval
        \/ Scan \/ ScanFails \/ ScanExp \/ ScanExpBack \/ ScanName \/ ScanNow \/ ScanNowed
        \/ Named1 \/ Nmd \/ Nmded \/ Scanned \/ Halted

Spec == Init /\ [][Next]_vars /\ WF_vars(Next)

------------------------------------------------------------------------------
\* What registers and frames hold.
Labels    == DOMAIN P.code \cup {""}
Registers == [base : Labels, off : Nat, frtn : Nat, stno : Nat, line : Nat, lastno : Nat,
              lastline : Nat, trap : Nat]
MatchRegs == [pdl : Nat, hed : Nat, nam : Nat, nhed : Nat, text : Nat]
Errors    == [errs : Nat, fatals : Nat, fatal : BOOLEAN, typ : Nat, uint : BOOLEAN, xit : Labels \cap Strings,
              saved : [on : BOOLEAN, base : Labels, off : Nat, frtn : Nat, stno : Nat, line : Nat,
                       lastline : Nat, typ : Nat, begun : Nat]]
Returns   == [n : {0, 1, 4, 5, 6}] \cup [n : {1}, by : {"CONTINUE"}] \cup [n : {2}, x : Names]
        \cup [n : {3}, v : Values(P)]
NameRef   == [t : {"N"}, s : Names]
Frames    == [k : {"interp", "error"}] \cup [k : {"trap"}, r : Registers] \cup [k : {"goto"}, l : Strings]
  \cup [k : {"op"}, o : {"ASGN"} \cup Unary, n : 1 .. 2, args : Seq(Values(P) \cup NameRef), ph : {"args", "traced"}]
  \cup [k : {"deff"}, f : Names, n : Nat, args : Seq(Values(P)), ph : {"args"}]
  \cup [k : {"deff"}, ph : {"entered", "body"}, d : Definition, old : Seq(Values(P)), r : Registers]
  \cup [k : {"deff"}, ph : {"left"}, d : Definition, old : Seq(Values(P)), r : Registers, how : Nat]
  \cup [k : {"expv"}, scl : 0 .. 1, base : Labels, off : Nat, m : MatchRegs]
  \cup [k : {"match"}, id : Nat, ps : Seq(Parts(P)), ph : {"scan", "now", "names", "named"}, i : Nat, m : MatchRegs]

\* The entries of a match lie in the history list and the list of names.
Within(q) == q.hed <= q.pdl /\ q.pdl <= Len(hist) /\ q.nhed <= q.nam /\ q.nam <= Len(list)

\* Only ASGN has a name among its arguments, the first of two; a call waits
\* for its arguments only if DEFINE knows the function; and DEFFNC has as many
\* values put aside as names bound.
FrameOK(f) ==
  /\ f.k = "op" => /\ \A i \in DOMAIN f.args : f.args[i].t = "N" <=> f.o = "ASGN" /\ i = 1
                   /\ f.n = (IF f.o = "ASGN" THEN 2 ELSE 1)
                   /\ f.ph = "traced" => f.o = "ASGN" /\ Len(f.args) = 2
  /\ f.k = "deff" /\ f.ph = "args" => f.f \in DOMAIN fun
  /\ f.k = "deff" /\ f.ph # "args" => Len(f.old) = Len(Bound(f.d))
  /\ f.k = "expv" \/ (f.k = "match" /\ f.ph \in {"now", "named"}) => Within(f.m)

TypeOK ==
  /\ r \in Registers /\ m \in MatchRegs /\ Within(m) /\ e \in Errors /\ ret \in Returns
  /\ hist \in Seq(Nat) /\ list \in Seq([own : Nat, x : Names, v : Str]) /\ fresh \in Nat
  /\ val \in [Names -> Values(P)] /\ DOMAIN fun \subseteq Names /\ \A f \in DOMAIN fun : fun[f] \in Definition
  /\ stack \in Seq(Frames) /\ stack # <<>> /\ stack[1].k = "interp" /\ \A i \in DOMAIN stack : FrameOK(stack[i])
  /\ lvl \in Nat /\ count \in 0 .. P.limit /\ struck \in 0 .. P.interrupts /\ halted \in BOOLEAN

\* &FNCLEVEL counts the calls that have begun and not returned, also after
\* errors, traces of calls, and handlers that leave a function (DEFFNC).
Running      == {i \in DOMAIN stack : stack[i].k = "deff" /\ stack[i].ph \in {"body", "left"}}
LevelIsDepth == lvl = Cardinality(Running)

\* When an error is trapped by SETEXIT the next thing INTERP does is to begin
\* the handler (XITHND leaves FRTNCL 0 for that): whatever was under way
\* between the error and INTERP did not go on in the handler's name.  (END has
\* error type 0 and begins a handler behind its first cell.)
HandlerNext ==
  /\ ~halted /\ Top.k = "interp"
  /\ e.saved.on /\ e.saved.typ # 0 /\ e.saved.begun = count
  => r.base \in P.handlers /\ r.frtn = 0

\* A statement that fails takes its own failure exit, not that of a statement
\* run by a function, a trace or a handler meanwhile (FRTNCL).
Statement == CHOOSE i \in 1 .. r.off : /\ P.code[r.base][i].c = "stmt"
                                       /\ \A j \in i + 1 .. r.off : P.code[r.base][j].c # "stmt"
FailureIsOwn ==
  Top.k = "interp" /\ ret = Fail /\ r.frtn # 0 => r.frtn = P.code[r.base][Statement].f

\* CONTINUE and SCONTINUE go on inside the statement that had the error, with
\* that statement as the current one (XFRTNC, XOCICL, XSTNOC).
GoesOn ==
  Top.k = "interp" /\ ret = Resumed /\ ~halted =>
    \E i \in 1 .. r.frtn : LET c == P.code[r.base][i] IN
       c.c = "stmt" /\ c.no = r.stno /\ r.frtn <= c.f

\* When a match goes on after program text it ran, what lies above PDLHED and
\* NHEDCL is its own and its subject is in TXSP (EXPVJ2, ENMI); when NMD
\* assigns, the names it takes are those of its own match.
OwnEntries ==
  In("match") /\ Top.ph \in {"scan", "names"} =>
    /\ \A i \in m.nhed + 1 .. m.nam : list[i].own = Top.id
    /\ Top.ph = "scan" => /\ m.text = Top.id
                          /\ \A i \in m.hed + 1 .. m.pdl : hist[i] = Top.id

\* Every program ends that has an &STLIMIT: no trap, handler or failure exit
\* goes around without beginning statements (INIT, EXNOCL).
Ends == <>halted

\* The values that wait in frames of DEFFNC are those DynamicScope puts aside.
Entered(f) == f.k = "deff" /\ f.ph # "args"
Scoped     == {i \in DOMAIN stack : Entered(stack[i])}
PutAside(f) == [x \in Range(Bound(f.d)) |-> f.old[First(Bound(f.d), x)]]
NoEntry    == {Range(Bound(fun[f])) : f \in {g \in DOMAIN fun : fun[g].label \notin DOMAIN P.code}}
Binding == INSTANCE DynamicScope
             WITH cur <- val, aside <- [i \in Scoped |-> PutAside(stack[i])], noentry <- NoEntry
\* Functions keep to dynamic scope, whatever is called, traced, trapped or
\* failed in between, and when a name is bound twice (DEFFNC).
ScopeKept == Binding!Spec
=============================================================================
