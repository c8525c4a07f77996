---------------------------- MODULE PatternBlocks ----------------------------
(***************************************************************************)
(* Pattern values as the pattern functions of isnobol4.c lay them out.     *)
(*                                                                         *)
(* A pattern block is the sequence of its nodes; a link is a position in   *)
(* it, 0 when there is none (the code counts descriptors from the start of *)
(* the block instead).  The descriptors of a node are flattened: fn is the *)
(* match function, alt and then the two halves of the then-or descriptor,  *)
(* min and res the two halves of the value-residual descriptor (characters *)
(* this node and what follows it need, characters what follows it needs)   *)
(* and arg the argument of a node that has one.                            *)
(***************************************************************************)
EXTENDS Naturals, Sequences

NoArg == <<>>

\* Match functions of primitive nodes, and of nodes with an argument.
Bare    == {"SCOK", "FARB", "ARBN", "ARBF", "EARB", "ONAR", "ONRF", "BALX",
            "BALF", "NME", "FNCE", "SALF", "SUCF", "ABORT"}
OfChars == {"ANY", "NOTANY", "SPAN", "BREAK", "BREAKX"}
OfPlace == {"LEN", "POS", "RPOS", "TAB", "RTAB"}
OfName  == {"ATP", "ENME", "ENMI", "STAR"}
Fns     == Bare \cup OfChars \cup OfPlace \cup OfName
             \cup {"CHR", "DSAR", "FNCA"}

\* maknod: one node, no links, nothing after it.
Maknod(fn, min, arg) ==
  [fn |-> fn, alt |-> 0, then |-> 0, min |-> min, res |-> 0, arg |-> arg]

\* A node of the primitive patterns, laid out in the data section.
Prim(fn, alt, then) ==
  [fn |-> fn, alt |-> alt, then |-> then, min |-> 0, res |-> 0, arg |-> NoArg]

(***************************************************************************)
(* lib/pat.c                                                               *)
(***************************************************************************)
\* The nodes tried in turn when the first node fails: lvalue and linkor
\* follow the alt links from the first node until a link is 0 (here: round
\* once more from the first).
OrChain(b) ==
  LET nth[k \in 0..Len(b)] ==
        IF k = 0 THEN 1
        ELSE LET o == b[nth[k-1]].alt IN IF o = 0 THEN 1 ELSE o
  IN  {nth[k] : k \in 0..Len(b)}

\* A slip: only the first alternative counts.
LvalueFirst(b) == b[1].min

\* lvalue: characters the pattern needs, the least over its alternatives.
Lvalue(b) == CHOOSE m \in {b[o].min : o \in OrChain(b)} :
               \A o \in OrChain(b) : m <= b[o].min

\* linkor: hang node d on the end of the chain.
Linkor(b, d) == LET end == CHOOSE o \in OrChain(b) : b[o].alt = 0
                IN  [b EXCEPT ![end].alt = d]

\* cpypat: a copy of b that comes after at nodes of the new block.  Links
\* move with it, a missing successor becomes next, and need more characters
\* are required after every node.
Cpypat(b, need, at, next) ==
  [o \in DOMAIN b |->
     [fn   |-> b[o].fn,
      alt  |-> IF b[o].alt = 0 THEN 0 ELSE b[o].alt + at,
      then |-> IF b[o].then = 0 THEN next ELSE b[o].then + at,
      min  |-> b[o].min + need,
      res  |-> b[o].res + need,
      arg  |-> b[o].arg]]

(***************************************************************************)
(* The pattern functions                                                   *)
(***************************************************************************)
\* PATNOD under LPRTND: only LEN promises characters (DCMP with LNTHCL).
LenPattern(n)     == <<Maknod("LEN", n, n)>>
PosPattern(fn, n) == <<Maknod(fn, 0, n)>>      \* POS, RPOS, TAB, RTAB

\* PATNOD under ABNSND: BREAK and BREAKX may match nothing (ZEROCL).
CharsPattern(fn, cs) ==
  <<Maknod(fn, IF fn \in {"BREAK", "BREAKX"} THEN 0 ELSE 1, cs)>>

StringPattern(s)   == <<Maknod("CHR", Len(s), s)>>
CursorPattern(v)   == <<Maknod("ATP", 0, v)>>
FencePattern(p)    == <<Maknod("FNCA", 0, p)>>   \* FNCP: P stays in slot 4
PrimPattern(fn)    == <<Prim(fn, 0, 0)>>       \* FAIL, FENCE, ABORT, SUCCEED
RemPattern         == <<Maknod("RTAB", 0, 0)>>
ArbPattern  == <<Prim("SCOK", 0, 2), Prim("SCOK", 3, 0), Prim("FARB", 3, 0)>>
BalPattern  == <<Prim("SCOK", 0, 2), Prim("BALX", 3, 0), Prim("BALF", 3, 0)>>
\* STRPAT with its expression filled in (PATVAL, CONCAT, SJSR).
StarPattern(v) == <<[Maknod("STAR", 1, v) EXCEPT !.then = 2],
                    Prim("SCOK", 3, 0), Prim("DSAR", 0, 2)>>

\* L_CONPP of CONCAT
Concat(x, y) == Cpypat(x, Lvalue(y), 0, Len(x) + 1) \o Cpypat(y, 0, Len(x), 0)

\* L_ORPP of OR
Or(x, y) == Linkor(Cpypat(x, 0, 0, 0) \o Cpypat(y, 0, Len(x), 0), Len(x) + 1)

\* L_ARBP of ARBNO: ARHEAD, the argument, ARTAIL, ARBACK
ArHead == <<Prim("SCOK", 0, 2), Prim("SCOK", 3, 0),
            Prim("ARBN", 4, 5), Prim("ARBF", 0, 0)>>
ArTail == <<Prim("EARB", 0, 2), Prim("SCOK", 3, 0)>>
ArBack == <<Prim("ONAR", 2, 0), Prim("ONRF", 0, 0)>>
Arbno(x) == LET tail == 4 + Len(x) IN
            Cpypat(ArHead, 0, 0, 0)    \o Cpypat(x, 0, 4, tail + 1)
         \o Cpypat(ArTail, 0, tail, 0) \o Cpypat(ArBack, 0, tail + 2, 3)

\* L_NAMP of NAM5: NME, the argument, ENME or ENMI
Named(fn, x, v) == LET end == 2 + Len(x) IN
                   Cpypat(PrimPattern("NME"), Lvalue(x), 0, 2)
                \o Cpypat(x, 0, 1, end)
                \o Cpypat(<<Maknod(fn, 0, v)>>, 0, end - 1, 0)
==============================================================================
