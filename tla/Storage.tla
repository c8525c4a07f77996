------------------------------ MODULE Storage -------------------------------
(***************************************************************************)
(* Storage of isnobol4.c: allocation (BLOCK, CONVAR), the table of strings *)
(* (GENVAR, GNVARS, LOCA1), pair lists (AUGATL), SPLIT and the             *)
(* regeneration (GC, GCM), with what the program does to registers, stack  *)
(* and blocks in between, the table BREAK keeps for its last argument and  *)
(* the code base an error handler saves.                                    *)
(*                                                                         *)
(* Addresses count descriptors.  "heap" holds the blocks from HDSGPT to     *)
(* FRSGPT in the order of their addresses; each has a title, which holds   *)
(* its address a, and cells behind it.  A string block has two cells,    *)
(* value and attribute, then its link and its characters.  Bin b of OBLIST *)
(* is at -b; what is below HDSGPT is resident, marked and never moved.      *)
(***************************************************************************)
EXTENDS Integers, SequencesExt, FiniteSetsExt

CONSTANTS
  Strings,  \* texts, which name string blocks
  Ids,      \* names for the other blocks, that no program sees
  Hash,     \* HASH: for each text its bin and its ascension number
  Words,    \* descriptors its characters take
  HDSGPT, TLSGP1,
  MaxStack, \* cells the program pushes
  MaxSteps, \* steps of the program
  Numbers,  \* integers the program has
  Stale     \* whether a handler CONTINUEs a program that has been moved

\* Storage is above the resident blocks, every text has a bin, an ascension number
\* and a length, and there is always a name for one block more.
StorageAssumption ==
  /\ HDSGPT \in Nat \ {0} /\ TLSGP1 \in Nat /\ HDSGPT <= TLSGP1
  /\ MaxStack \in Nat /\ Numbers \subseteq Int
  /\ Hash \in [Strings -> [bin : Nat \ {0}, asc : Nat]] /\ Words \in [Strings -> Nat]
  /\ Strings \cap Ids = {} /\ (IsFiniteSet(Ids) => Cardinality(Ids) > TLSGP1 - HDSGPT)

VARIABLES
  heap, bins, reg, stack,
  xocbsc, \* XOCBSC, which no resident block holds
  full,   \* the error 20 that ended the program, with what it asked for
  brktb,  \* the text BRKTB was made for
  steps

vars == <<heap, bins, reg, stack, xocbsc, full, brktb, steps>>

\* What regeneration works on.
m == [heap |-> heap, bins |-> bins, reg |-> reg, stack |-> stack]

Zero   == [p |-> FALSE, a |-> 0]
Num(n) == [p |-> FALSE, a |-> n]
Ptr(a) == [p |-> TRUE, a |-> a]
Bins   == {Hash[s].bin : s \in Strings}
Regs   == {"XPTR", "YPTR", "OCBSCL", "TBLBCS", "LSTPTR", "BUKPTR"}  \* of ICLBLK

\* X_BKSIZE; X_GETLTH is one less.
Size(b)   == IF b.id \in Strings THEN 4 + Words[b.id] ELSE Len(b.cells) + 1
FRSGPT(h) == IF h = <<>> THEN HDSGPT ELSE Last(h).a + Size(Last(h))
\* TOP: the block a place is in; 0 stands for a resident block.
Top(h, a) == Cardinality({k \in DOMAIN h : h[k].a <= a})

\* The strings of a bin, by LNKFLD.
Link(s, a) == IF a < 0 THEN s.bins[-a] ELSE s.heap[Top(s.heap, a)].link
Chain(s, b) ==
  LET walk[n \in 0..Len(s.heap)] ==
        IF n = 0 THEN <<-b>>
        ELSE LET w == walk[n - 1]
                 a == Link(s, Last(w))
             IN IF a = 0 THEN w ELSE Append(w, a)
  IN walk[Len(s.heap)]
InBins(s) == UNION {Range(Tail(Chain(s, b))) : b \in Bins}

------------------------------------------------------------------------------
\* GCM: what can be reached from some blocks.  A string block is scanned for
\* its value and its attribute only.
ScannedValue(b) == IF b.id \in Strings THEN SubSeq(b.cells, 1, 1) ELSE b.cells
Scanned(b) == b.cells
Targets(s, cells) == {Top(s.heap, c.a) : c \in {c \in cells : c.p}} \ {0}
Mark(s, some) ==
  LET reach[n \in 0..Len(s.heap)] ==
        some \cup IF n = 0 THEN {} ELSE Targets(s, UNION {Range(Scanned(s.heap[k])) : k \in reach[n - 1]})
  IN reach[Len(s.heap)]

\* Roots are the registers of the resident blocks and the stack up to its
\* depth; then strings of the bins that have a value or an attribute.
RootsResident == Regs \ {"TBLBCS"}
RootRegs  == Regs
Roots(s)  == Targets(s, {s.reg[x] : x \in RootRegs} \cup Range(s.stack))
ValuedAll(s) == Targets(s, {Ptr(a) : a \in InBins(s)})
Valued(s) == {k \in Targets(s, {Ptr(a) : a \in InBins(s)}) : Range(s.heap[k].cells) # {Zero}}
Marked(s) == Mark(s, Roots(s) \cup Valued(s))

\* GCLAD: where each marked block goes, from the first block that is not
\* marked on.  (Without one MVSGPT is out of date, and every title names itself.)
MVSGPT(s, K) == Min({s.heap[k].a : k \in DOMAIN s.heap \ K} \cup {FRSGPT(s.heap)})
Forward(s, K, k) ==
  LET cpycl[j \in 0..Len(s.heap)] ==  \* CPYCL behind the first j blocks
        IF j = 0 THEN HDSGPT ELSE cpycl[j - 1] + (IF j \in K THEN Size(s.heap[j]) ELSE 0)
  IN IF k \in K THEN cpycl[k - 1] ELSE s.heap[k].a

\* GCLAP, GCLAT: a pointer that is not below MVSGPT follows its block.
Relocated(s, K, c) ==
  IF c.p /\ c.a >= MVSGPT(s, K)
  THEN LET k == Top(s.heap, c.a) IN [c EXCEPT !.a = Forward(s, K, k) + c.a - s.heap[k].a]
  ELSE c

\* GCBB: the bins keep the marked strings, by the addresses they will have.
Relinked(s, K, b, a) ==
  LET c == Chain(s, b)
      i == CHOOSE i \in DOMAIN c : c[i] = a
      marked == {j \in DOMAIN c : j > i /\ Top(s.heap, c[j]) \in K}
  IN IF marked = {} THEN 0 ELSE Forward(s, K, Top(s.heap, c[Min(marked)]))

\* GCLAM: the marked blocks move together; FRSGPT is behind the last one.
Kept(s, K, k) ==
  LET b == s.heap[k]
  IN [b EXCEPT !.a = Forward(s, K, k), !.cells = [i \in DOMAIN @ |-> Relocated(s, K, @[i])],
               !.link = IF b.id \in Strings THEN Relinked(s, K, Hash[b.id].bin, b.a) ELSE 0]
Nth(K, i) == CHOOSE k \in K : Cardinality({j \in K : j < k}) = i - 1
GC(s) ==
  LET K == Marked(s)
  IN [heap  |-> [i \in 1..Cardinality(K) |-> Kept(s, K, Nth(K, i))],
      bins  |-> [b \in Bins |-> Relinked(s, K, b, -b)],
      reg   |-> [x \in Regs |-> IF x \in RootRegs THEN Relocated(s, K, s.reg[x]) ELSE s.reg[x]],
      stack |-> [i \in DOMAIN s.stack |-> Relocated(s, K, s.stack[i])]]

------------------------------------------------------------------------------
\* Allocation: regenerate when what is asked for does not fit (GCGOT).
RoomUntitled(s) == TLSGP1 - FRSGPT(s.heap)
Room(s)        == TLSGP1 - FRSGPT(s.heap) - 1
Provided(s, n) == IF n <= Room(s) THEN s ELSE GC(s)

Become(s) == heap' = s.heap /\ bins' = s.bins /\ reg' = s.reg /\ stack' = s.stack
Step == full = 0 /\ steps < MaxSteps /\ steps' = steps + 1
\* n descriptors and a title in s, which make it new; without room error 20.
\* With Stale = FALSE nothing is regenerated while XOCBSC is in use.
Allocate(s, n, new) ==
  /\ Step /\ UNCHANGED <<xocbsc, brktb>>
  /\ n <= Room(s) \/ Stale \/ ~xocbsc.c.p
  /\ LET t == Provided(s, n)
     IN IF n <= Room(t) THEN Become(new) /\ full' = full ELSE Become(t) /\ full' = n

Fresh(s) == CHOOSE id \in Ids : \A k \in DOMAIN s.heap : s.heap[k].id # id
Block(s, cells) == Append(s.heap, [a |-> FRSGPT(s.heap), id |-> Fresh(s), cells |-> cells, link |-> 0])
Free(s) == Ptr(FRSGPT(s.heap))

Blocked(s, n) == [s EXCEPT !.heap = Block(s, [i \in 1..n |-> Zero]), !.reg["XPTR"] = Free(s)]
BLOCK == \E n \in 1..2 : Allocate(m, n, Blocked(Provided(m, n), n))

\* LOCA1 looks along the bin, whose strings are in the order of their
\* ascension numbers; LSTPTR and BUKPTR stay around the place it stopped at.
BeforeStrict(s, t, a) == a < 0 \/ Hash[s.heap[Top(s.heap, a)].id].asc < Hash[t].asc
Before(s, t, a) == a < 0 \/ LET u == s.heap[Top(s.heap, a)].id
                            IN Hash[u].asc < Hash[t].asc \/ (Hash[u].asc = Hash[t].asc /\ u # t)
Located(s, t) ==
  LET c == Chain(s, Hash[t].bin)
      i == Max({i \in DOMAIN c : \A j \in 1..i : Before(s, t, c[j])})
  IN [s EXCEPT !.reg["LSTPTR"] = Ptr(c[i]), !.reg["BUKPTR"] = Ptr(IF i = Len(c) THEN 0 ELSE c[i + 1])]
IsThere(s, t) == s.reg["BUKPTR"].a # 0 /\ s.heap[Top(s.heap, s.reg["BUKPTR"].a)].id = t

\* L_LOCA6: the new string is linked in between them.
Entered(s, t) ==
  LET l == s.reg["LSTPTR"].a
      h == Append(s.heap, [a |-> Free(s).a, id |-> t, cells |-> <<Zero, Zero>>, link |-> s.reg["BUKPTR"].a])
  IN [s EXCEPT !.heap = IF l < 0 THEN h ELSE [h EXCEPT ![Top(s.heap, l)].link = Free(s).a],
               !.bins = IF l < 0 THEN [@ EXCEPT ![-l] = Free(s).a] ELSE @,
               !.reg["XPTR"] = Free(s)]
Found(s, t) == [s EXCEPT !.reg["XPTR"] = s.reg["BUKPTR"]]
Loca1(s, t) == LET l == Located(s, t) IN IF IsThere(l, t) THEN Found(l, t) ELSE Entered(l, t)

Still == UNCHANGED <<xocbsc, full, brktb>>
GENVAR == \E t \in Strings :
  LET l == Located(m, t)
      n == 3 + Words[t]
  IN IF IsThere(l, t) THEN Step /\ Become(Found(l, t)) /\ Still ELSE Allocate(l, n, Entered(Provided(l, n), t))
\* CONVAR provides for n words, a string is built at FRSGPT, and GNVARS
\* enters it, when it is no longer than that, without asking again.
CONVAR == \E t \in Strings : \E n \in Words[t]..Words[t] + 1 :
  Allocate(m, 3 + n, Loca1(Provided(m, 3 + n), t))

\* A name and value (XPTR twice) for the pair list in YPTR: in its first free
\* pair, or else behind its pairs in a longer copy.
AUGATL ==
  LET l == Top(heap, reg["YPTR"].a)
      pairs == heap[l].cells
      free == {i \in DOMAIN pairs : i % 2 = 1 /\ pairs[i] = Zero}
      s == Provided(m, Len(pairs) + 2)
      long == [s EXCEPT !.heap = Block(s, s.heap[Top(s.heap, s.reg["YPTR"].a)].cells \o <<s.reg["XPTR"], s.reg["XPTR"]>>),
                        !.reg["YPTR"] = Free(s)]
  IN /\ reg["YPTR"].p /\ l # 0 /\ heap[l].id \in Ids
     /\ reg["YPTR"].a = heap[l].a /\ Len(pairs) % 2 = 0
     /\ IF free = {} THEN Allocate(m, Len(pairs) + 2, long)
        ELSE /\ Step /\ Still
             /\ Become([m EXCEPT !.heap[l].cells[Min(free)] = reg["XPTR"], !.heap[l].cells[Min(free) + 1] = reg["XPTR"]])

\* COLLECT().
COLECT == Step /\ (Stale \/ ~xocbsc.c.p) /\ Become(GC(m)) /\ Still

------------------------------------------------------------------------------
\* The program, by the places its registers name.
In(c) == c.p /\ c.a >= HDSGPT
Obj(c) == Top(heap, c.a)
Off(c) == c.a - heap[Obj(c)].a
Do(s)  == Step /\ Become(s) /\ Still

\* SPLIT at XPTR, when nothing names what is behind it: a block of its own.
Cells == Range(reg) \cup Range(stack) \cup UNION {Range(heap[k].cells) : k \in DOMAIN heap}
SPLIT ==
  LET k    == Obj(reg["XPTR"])
      i    == Off(reg["XPTR"])
      b    == heap[k]
      rest == [b EXCEPT !.a = reg["XPTR"].a + 1, !.id = Fresh(m), !.cells = SubSeq(@, i + 2, Len(@))]
  IN /\ In(reg["XPTR"]) /\ b.id \in Ids
     /\ \A c \in Cells : In(c) /\ Obj(c) = k => Off(c) <= i
     /\ IF i = 0 \/ i + 1 >= Len(b.cells) THEN Do(m)
        ELSE Do([m EXCEPT !.heap = SubSeq(@, 1, k - 1) \o <<[b EXCEPT !.cells = SubSeq(@, 1, i)], rest>>
                                   \o SubSeq(@, k + 1, Len(@))])

PutD == \E i \in 1..2 :
  LET k == Obj(reg["YPTR"])
      j == Off(reg["YPTR"]) + i
  IN In(reg["YPTR"]) /\ j \in DOMAIN heap[k].cells /\ Do([m EXCEPT !.heap[k].cells[j] = reg["XPTR"]])
GetD == \E i \in 1..2 :
  LET k == Obj(reg["XPTR"])
      j == Off(reg["XPTR"]) + i
  IN In(reg["XPTR"]) /\ j \in DOMAIN heap[k].cells /\ Do([m EXCEPT !.reg["XPTR"] = heap[k].cells[j]])
\* The next cell of a block, as the name of an element of an array.
Sum == /\ In(reg["XPTR"]) /\ Off(reg["XPTR"]) + 1 < Len(heap[Obj(reg["XPTR"])].cells)
       /\ Do([m EXCEPT !.reg["XPTR"].a = @ + 1])
Exchange == Do([m EXCEPT !.reg["XPTR"] = reg["YPTR"], !.reg["YPTR"] = reg["XPTR"]])
Number   == \E n \in Numbers : Do([m EXCEPT !.reg["XPTR"] = Num(n)])
Push     == Len(stack) < MaxStack /\ Do([m EXCEPT !.stack = Append(@, reg["XPTR"])])
Pop      == stack # <<>> /\ Do([m EXCEPT !.stack = Front(@), !.reg["XPTR"] = Last(stack)])

\* GOTO to a block of code; XITHND; a branch to CONTINUE.
Goto == /\ In(reg["XPTR"]) /\ Off(reg["XPTR"]) = 0 /\ heap[Obj(reg["XPTR"])].id \in Ids
        /\ Do([m EXCEPT !.reg["OCBSCL"] = reg["XPTR"]])
Xithnd == /\ In(reg["OCBSCL"]) /\ In(reg["YPTR"]) /\ Off(reg["YPTR"]) = 0 /\ heap[Obj(reg["YPTR"])].id \in Ids
          /\ xocbsc' = [c |-> reg["OCBSCL"], of |-> heap[Obj(reg["OCBSCL"])].id]
          /\ Step /\ Become([m EXCEPT !.reg["OCBSCL"] = reg["YPTR"]]) /\ UNCHANGED <<full, brktb>>
Continue == /\ xocbsc.c.p /\ xocbsc' = [xocbsc EXCEPT !.c = Zero]
            /\ Step /\ Become([m EXCEPT !.reg["OCBSCL"] = xocbsc.c]) /\ UNCHANGED <<full, brktb>>

\* BREAK(XPTR) in a match: BRKTB is made again when the string is another one.
Break ==
  /\ In(reg["XPTR"]) /\ heap[Obj(reg["XPTR"])].id \in Strings
  /\ brktb' = IF reg["XPTR"] = reg["TBLBCS"] THEN brktb ELSE heap[Obj(reg["XPTR"])].id
  /\ Step /\ Become([m EXCEPT !.reg["TBLBCS"] = reg["XPTR"]]) /\ UNCHANGED <<xocbsc, full>>

Empty ==
  [heap |-> <<>>, bins |-> [b \in Bins |-> 0], stack |-> <<>>,
   reg |-> [x \in Regs |-> IF x \in {"LSTPTR", "BUKPTR"} THEN Ptr(0) ELSE Zero]]
Begin(s) ==
  /\ heap = s.heap /\ bins = s.bins /\ reg = s.reg /\ stack = s.stack
  /\ xocbsc = [c |-> Zero, of |-> ""] /\ full = 0 /\ brktb = "" /\ steps = 0
Init == Begin(Empty)

Next ==
  \/ BLOCK \/ GENVAR \/ CONVAR \/ AUGATL \/ COLECT \/ SPLIT
  \/ PutD \/ GetD \/ Sum \/ Exchange \/ Number \/ Push \/ Pop
  \/ Goto \/ Xithnd \/ Continue \/ Break
Spec == Init /\ [][Next]_vars

------------------------------------------------------------------------------
\* Every pointer of a register, of the stack and of a block that is not dead
\* names a block (what is stored in a dead block may not).
TypeOK ==
  /\ DOMAIN reg = Regs /\ Len(stack) <= MaxStack
  /\ FRSGPT(heap) <= TLSGP1
  /\ \A c \in Range(reg) \cup Range(stack) : In(c) => Obj(c) \in DOMAIN heap

\* GENVAR finds every string there is: each is linked in its bin, once, and
\* no two have the same text; a regeneration drops the others from the bins.
OneForEachText ==
  /\ \A j, k \in DOMAIN heap : heap[j].id = heap[k].id => j = k
  /\ \A b \in Bins :
       LET c == Tail(Chain(m, b))
       IN /\ IsInjective(c) /\ \A i \in DOMAIN c : Obj(Ptr(c[i])) \in DOMAIN heap /\ Off(Ptr(c[i])) = 0
          /\ {heap[Obj(Ptr(a))].id : a \in Range(c)} = {heap[k].id : k \in DOMAIN heap} \cap {t \in Strings : Hash[t].bin = b}

\* BRKTB is the table of the string whose address is kept with it, wherever
\* that string has been moved, and whatever may be at its old address.
TableOfItsString == In(reg["TBLBCS"]) => Obj(reg["TBLBCS"]) \in DOMAIN heap /\ heap[Obj(reg["TBLBCS"])].id = brktb

\* What the program sees is Objects, by the names of the blocks: moving them
\* is not seen, and what can be reached is never lost.
Ref(c) == IF ~In(c) THEN [n |-> c.a]
          ELSE IF Obj(c) \notin DOMAIN heap THEN [n |-> -1]
          ELSE [o |-> heap[Obj(c)].id, i |-> Off(c)]
AllObjs == [o \in {heap[k].id : k \in DOMAIN heap} |->
              LET k == CHOOSE k \in DOMAIN heap : heap[k].id = o
              IN [i \in DOMAIN heap[k].cells |-> Ref(heap[k].cells[i])]]
SeenRegs  == [x \in (Regs \ {"LSTPTR", "BUKPTR"}) \cup {"XOCBSC"} |-> Ref(IF x = "XOCBSC" THEN xocbsc.c ELSE reg[x])]
SeenStack == [i \in DOMAIN stack |-> Ref(stack[i])]
Work      == {"XPTR", "YPTR"}
All       == INSTANCE Objects WITH objs <- AllObjs, reg <- SeenRegs, stack <- SeenStack
SeenObjs  == All!Live(AllObjs, Range(SeenRegs) \cup Range(SeenStack))
Program   == INSTANCE Objects WITH objs <- SeenObjs, reg <- SeenRegs, stack <- SeenStack
Unmoved   == Program!Spec

\* Error 20 means that what the program can still reach, with the two strings
\* GENVAR was between, leaves no room for what was asked for.
OnlyWhenFull == full # 0 =>
  LET held == All!Reached(AllObjs, Range(SeenRegs) \cup Range(SeenStack) \cup {Ref(reg["LSTPTR"]), Ref(reg["BUKPTR"])})
      size == MapThenSumSet(LAMBDA k : Size(heap[k]), {k \in DOMAIN heap : heap[k].id \in held})
  IN HDSGPT + size + full + 1 > TLSGP1

\* CONTINUE goes on in the code the error was in.
CodeKept == xocbsc.c.p => Obj(xocbsc.c) \in DOMAIN heap /\ heap[Obj(xocbsc.c)].id = xocbsc.of
=============================================================================
