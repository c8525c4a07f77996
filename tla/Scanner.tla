------------------------------- MODULE Scanner -------------------------------
(***************************************************************************)
(* The pattern matcher: SCAN, SCNR, SCIN, SCIN1 and the handlers SCIN1     *)
(* dispatches to, and NMD.                                                 *)
(*                                                                         *)
(* The program exists twice, generated from one SIL source and then edited *)
(* by hand: isnobol4.c, which Makefile2 builds, and snobol4.c.  They agree *)
(* on everything here but five places, where Build tells them apart.       *)
(*                                                                         *)
(* One step is one dispatch: fetch a node and run its handler, or pop a    *)
(* history entry and run what it says.  A step that leaves a C function    *)
(* sets pc to "exit"; the caller's code after the call is the next step.   *)
(***************************************************************************)
EXTENDS PatternBlocks, Integers, FiniteSets, TLC, SequencesExt

CONSTANTS
  Build,      \* "isnobol4" or "snobol4"
  Char, Vars, \* characters; variables that patterns name
  Addresses,  \* where pattern blocks are
  Block(_),   \* the pattern block at an address
  Requests,   \* the match statements to run
  PdlMax      \* entries the history list has room for (PDLEND)

\* Values of variables: a string (at first the null string), an integer or a
\* pattern.
IsValue(x) == /\ x.t \in {"S", "I", "P"}
              /\ x.t = "S" => x.s \in Seq(Char)
              /\ x.t = "I" => x.i \in Nat
              /\ x.t = "P" => x.p \in Addresses
AreValues(e) == DOMAIN e = Vars /\ \A v \in Vars : IsValue(e[v])

\* A node as the pattern functions build it: the argument is what the match
\* function takes it for, and a block needs no negative number of characters.
IsNode(n) ==
  /\ n.fn \in Fns /\ n.alt \in Nat /\ n.then \in Nat
  /\ n.min \in Nat /\ n.res \in Nat
  /\ n.fn = "CHR"      => n.arg \in Seq(Char)
  /\ n.fn \in OfChars  => n.arg \subseteq Char
  /\ n.fn \in OfPlace  => n.arg \in Nat
  /\ n.fn \in OfName   => n.arg \in Vars
  /\ n.fn = "FNCA"     => n.arg \in Addresses
IsRequest(r) ==
  /\ r.subj \in Seq(Char) /\ r.pat \in Addresses
  /\ AreValues(r.env)
  /\ r.anchor \in BOOLEAN /\ r.full \in BOOLEAN

ASSUME BuildAssumption   == Build \in {"isnobol4", "snobol4"}
ASSUME PdlMaxAssumption  == PdlMax \in Nat \ {0}
ASSUME BlockAssumption   ==
  \A p \in Addresses :
    (\A i \in DOMAIN Block(p) : IsNode(Block(p)[i])) /\ Lvalue(Block(p)) \in Nat
ASSUME RequestAssumption == \A r \in Requests : IsRequest(r)

VARIABLES
  req,     \* the statement: subject, pattern, keywords
  env,     \* values of the variables patterns name
  saved,   \* the value STAR put into its DSAR node, by address and offset
  pc, ret, \* next dispatch; what the C function being left returns
  patb,    \* PATBCL: address of the pattern being matched
  pati,    \* PATICL: offset of the node to fetch
  cursor,  \* length of TXSP
  maxlen,  \* MAXLEN
  lenf,    \* LENFCL: 1 while every failure was for want of characters
  head,    \* length of HEADSP: where the match begins
  pdl,     \* the history list up to PDLPTR
  pdlhed,  \* PDLHED, as a length of pdl
  stk,     \* what this C function pushed on cstack
  nam,     \* the list of names (NBSPTR) up to NAMICL
  nhed,    \* NHEDCL, as a length of nam
  calls,   \* the C frames of STAR, DSAR and FNCA waiting for SCIN
  tmval    \* the value field of the scratch descriptor TMVAL

mach == <<patb, maxlen, head, pdlhed, nhed, calls, saved, env, req>>
vars == <<req, env, saved, pc, ret, patb, pati, cursor, maxlen, lenf, head,
          pdl, pdlhed, stk, nam, nhed, calls, tmval>>

Subject == req.subj
L       == Len(Subject)
Quick   == ~req.full                      \* FULLCL = 0
Ch(k)   == Subject[k + 1]                 \* the character after cursor k
\* The characters between cursors i and j; what follows the subject in
\* memory, which isnobol4.c may reach, is left out.
Text(i, j) == SubSeq(Subject, i + 1, IF j <= L THEN j ELSE L)
IsLeast(p, S) == p \in S /\ \A q \in S : p <= q

(***************************************************************************)
(* History entries.  A node entry resumes at offset alt (0: nowhere) with  *)
(* the cursor cur; from is a cursor an entry keeps for itself.  Any other  *)
(* fn is a function descriptor, a zero or what EARB writes.  pat is the    *)
(* block the entry belongs to; only STREXC entries store it in the code.   *)
(***************************************************************************)
Entry(fn, alt, then, cur, res, from, len, pat) ==
  [fn |-> fn, alt |-> alt, then |-> then, cur |-> cur, res |-> res,
   from |-> from, lenf |-> len, pat |-> pat]
Trap(fn, cur, len) == Entry(fn, 0, 0, cur, 0, 0, len, patb)

Node == Block(patb)[pati]
\* The list after SCIN3 has pushed the entry of the node it fetched; the
\* retrying handlers move its cursor to where their match ends.
OwnAt(c) == Append(pdl, Entry("node", Node.alt, Node.then, c, Node.res, 0,
                              lenf, patb))
Own      == OwnAt(cursor)

(***************************************************************************)
(* How a handler ends.  h is the history list it leaves.                   *)
(***************************************************************************)
\* L_SALF: a mismatch.
Salf(h) == pc' = "fail" /\ lenf' = 0 /\ pdl' = h

\* L_SALT: the entry about to be popped says whether it was all for length.
Salt(h) == /\ pc' = "fail"
           /\ lenf' = IF h = <<>> THEN 0 ELSE Last(h).lenf
           /\ pdl' = h

\* SALT3, ONAR2, STARP3, FNME1: pass on whichever kind of failure it was.
SaltOrSalf(h) == IF lenf # 0 THEN Salt(h) ELSE Salf(h)

\* Leave SCIN: BRANCH(FAIL), RTN2, RTNUL3.
Exit(r, h) == pc' = "exit" /\ ret' = r /\ pdl' = h /\ UNCHANGED <<pati, lenf>>

\* L_SCOK to L_SCIN2: on to the successor; without one the pattern matched.
\* A push the list had no room for has gone to INTR31 before that.
ScokWith(then, h, len) ==
  /\ pdl' = h
  /\ \/ /\ Len(h) > PdlMax
        /\ pc' = "overflow" /\ UNCHANGED <<pati, lenf, ret>>
     \/ /\ Len(h) <= PdlMax
        /\ IF then = 0
           THEN pc' = "exit" /\ ret' = 2 /\ lenf' = len /\ UNCHANGED pati
           ELSE pc' = "next" /\ pati' = then /\ lenf' = 1 /\ UNCHANGED ret
Scok(then, h) == ScokWith(then, h, lenf)

Failed == UNCHANGED <<pati, ret, cursor>>
\* What a step that only moves the cursor leaves alone.
Plain  == UNCHANGED <<stk, nam>> /\ UNCHANGED mach

(***************************************************************************)
(* L_SCIN3: fetch, push the entry, check the length under QUICKSCAN.       *)
(***************************************************************************)
At(p)  == pc = p
Fetched == /\ At("next") /\ Len(pdl) < PdlMax
           /\ pati \in DOMAIN Block(patb)
NoRoom == Quick /\ cursor + Node.min > maxlen
IsAt(fn) == Fetched /\ Node.fn = fn /\ ~NoRoom

TooShort == Fetched /\ NoRoom /\ Salt(Own) /\ Failed /\ Plain

\* INTR31: the statement ends with error 16.
Overflow == /\ pc' = "overflow"
            /\ UNCHANGED <<ret, pati, cursor, lenf, pdl>> /\ Plain
PdlFull == At("next") /\ Len(pdl) >= PdlMax /\ Overflow

(***************************************************************************)
(* The ways a node's handler ends that most of them share.                 *)
(***************************************************************************)
Mismatch   == Salf(Own) /\ Failed
Short      == Salt(Own) /\ Failed
Matched(c) == cursor' = c /\ Scok(Node.then, Own)
\* The code goes on with a word that is not what it takes it for.
Wild       == pc' = "wild" /\ UNCHANGED <<ret, pati, cursor, lenf, pdl>>

(***************************************************************************)
(* Strings and character classes (L_CHR, L_ABNS to L_SPNC5)                *)
(***************************************************************************)
\* L_CHR2 compares the whole rest of the subject, whatever MAXLEN is.
Compare(t) ==
  \/ cursor + Len(t) > L /\ Short
  \/ /\ cursor + Len(t) <= L
     /\ IF Text(cursor, cursor + Len(t)) = t
        THEN Matched(cursor + Len(t)) ELSE Mismatch

Chr == IsAt("CHR") /\ Compare(Node.arg) /\ Plain

\* L_ANYC3: QUICKSCAN looks no further than one character after MAXLEN.
Visible == IF Quick /\ maxlen < L THEN maxlen + 1 ELSE L

AnyOf == \E fn \in {"ANY", "NOTANY"} :
  /\ IsAt(fn)
  /\ \/ cursor = Visible /\ Short
     \/ cursor > Visible /\ IF Quick THEN Short ELSE Wild
     \/ /\ cursor < Visible
        /\ IF (Ch(cursor) \in Node.arg) = (fn = "ANY")
           THEN Matched(cursor + 1) ELSE Mismatch
  /\ Plain

\* Where STREAM with BRKTB can stop when it starts at c.
Stops(c, cs) == {p \in c..L : p < Visible /\ Ch(p) \in cs}

Break ==
  /\ IsAt("BREAK")
  /\ LET stops == Stops(cursor, Node.arg) IN
     \/ stops = {} /\ Short
     \/ \E p \in stops : IsLeast(p, stops) /\ Matched(p)
  /\ Plain

\* BREAKX leaves its offset and a BRXF entry on top of its own.  The BRXF
\* entry is TMVAL with a new cursor: its residual is what TMVAL had.
Retry(h, p, off, res) ==
  h \o << Entry("zero", 0, off, 0, 0, 0, lenf, patb),
          Entry("BRXF", 0, 0, p, res, 0, lenf, patb) >>

BreakX ==
  /\ IsAt("BREAKX")
  /\ LET stops == Stops(cursor, Node.arg) IN
     \/ stops = {} /\ Short
     \/ \E p \in stops :
          /\ IsLeast(p, stops) /\ cursor' = p
          /\ Scok(Node.then, Retry(Own, p, pati, Node.res))
  /\ Plain

Span ==
  /\ IsAt("SPAN")
  /\ LET out == {p \in cursor..L : p < L /\ Ch(p) \notin Node.arg} \cup {L}
     IN
     \/ L <= cursor /\ Short
     \/ \E stop \in out :
          /\ L > cursor /\ IsLeast(stop, out)
          /\ IF stop = cursor THEN Mismatch
             ELSE IF Quick /\ stop > maxlen THEN Short ELSE Matched(stop)
  /\ Plain

(***************************************************************************)
(* Positions (L_LNTH, L_POSII, L_RPSII, L_RTBI, L_TBI); L_ATP              *)
(***************************************************************************)
LenNode ==
  /\ IsAt("LEN")
  /\ IF cursor + Node.arg > maxlen THEN Short ELSE Matched(cursor + Node.arg)
  /\ Plain

Pos ==
  /\ IsAt("POS")
  /\ \/ (Node.arg > maxlen \/ Node.arg < cursor) /\ Short
     \/ Node.arg <= maxlen /\ Node.arg = cursor /\ Matched(cursor)
     \/ Node.arg <= maxlen /\ Node.arg > cursor /\ Mismatch
  /\ Plain

Rpos ==
  /\ IsAt("RPOS")
  /\ \/ cursor + Node.arg < L /\ Mismatch
     \/ cursor + Node.arg = L /\ Matched(cursor)
     \/ cursor + Node.arg > L /\ Short
  /\ Plain

Tab ==
  /\ IsAt("TAB")
  /\ IF cursor > Node.arg \/ Node.arg > maxlen
     THEN Short ELSE Matched(Node.arg)
  /\ Plain

Rtab ==
  /\ IsAt("RTAB")
  /\ IF \/ cursor + Node.arg > L
        \/ Quick /\ maxlen + Node.arg < L + Node.res
     THEN Short ELSE Matched(L - Node.arg)
  /\ Plain

\* @V assigns the cursor at once; backtracking does not undo it.
Atp ==
  /\ IsAt("ATP")
  /\ Matched(cursor)
  /\ env' = [env EXCEPT ![Node.arg] = [t |-> "I", i |-> cursor]]
  /\ UNCHANGED <<stk, nam, req, saved, patb, maxlen, head, pdlhed, nhed, calls>>

(***************************************************************************)
(* ARB and BAL                                                             *)
(***************************************************************************)
Pass == IsAt("SCOK") /\ Matched(cursor) /\ Plain

\* What must stay free for the rest of the pattern: YCL's residual.
Residual(r) == IF Quick THEN r ELSE 0

\* Slips in L_FARB the properties must notice: the cursor is not advanced; it
\* is advanced once too often.
FarbStuck ==
  /\ IsAt("FARB")
  /\ IF \/ Quick /\ lenf # 0
        \/ cursor + Residual(Node.res) >= maxlen
     THEN Salt(pdl) /\ Failed
     ELSE cursor' = cursor /\ Scok(Node.then, OwnAt(cursor))
  /\ Plain
FarbPast ==
  /\ IsAt("FARB")
  /\ IF \/ Quick /\ lenf # 0
        \/ cursor + Residual(Node.res) > maxlen
     THEN Salt(pdl) /\ Failed
     ELSE cursor' = cursor + 1 /\ Scok(Node.then, OwnAt(cursor + 1))
  /\ Plain

Farb ==
  /\ IsAt("FARB")
  /\ IF \/ Quick /\ lenf # 0
        \/ cursor + Residual(Node.res) >= maxlen
     THEN Salt(pdl) /\ Failed                             \* L_FARB1
     ELSE cursor' = cursor + 1 /\ Scok(Node.then, OwnAt(cursor + 1))
  /\ Plain

\* getbal: the shortest balanced string after c of at most len characters.
Count(ch, i, j) == Cardinality({k \in i..j : k < j /\ Ch(k) = ch})

BalEnds(c, len) == {j \in (c + 1)..(c + len) :
                      /\ Ch(c) # ")"
                      /\ Count("(", c, j) = Count(")", c, j)}

Bal == \E fn \in {"BALX", "BALF"} :
  /\ IsAt(fn)
  /\ LET taken == cursor + Residual(Node.res)
         ends  == BalEnds(cursor, maxlen - taken)
         stuck == \/ fn = "BALF" /\ Quick /\ lenf # 0
                  \/ taken >= maxlen
                  \/ ends = {}
     IN
     \/ /\ stuck                                             \* L_BAL1
        /\ IF Len(pdl) < pdlhed THEN Wild ELSE Salf(pdl) /\ Failed
     \/ \E end \in ends :
          /\ ~stuck /\ IsLeast(end, ends)
          /\ cursor' = end /\ Scok(Node.then, OwnAt(end))
  /\ Plain

(***************************************************************************)
(* ARBNO.  What the handlers PUSH and POP: cursors, and SCNR's own pair.   *)
(***************************************************************************)
Saved(c)  == [k |-> "cursor", v |-> c]
Pushed(c) == stk' = Append(stk, Saved(c))
HasCursor == stk # <<>> /\ Last(stk).k = "cursor"

Arbn == /\ IsAt("ARBN")
        /\ Matched(cursor) /\ Pushed(cursor)
        /\ UNCHANGED nam /\ UNCHANGED mach

Arbf == /\ IsAt("ARBF")
        /\ IF HasCursor THEN SaltOrSalf(Own) /\ stk' = Front(stk)
                        ELSE Wild /\ UNCHANGED stk
        /\ Failed /\ UNCHANGED nam /\ UNCHANGED mach

\* The own entry keeps the cursor the iteration began at in slot 1.
Earb == /\ IsAt("EARB")
        /\ IF HasCursor
           THEN /\ cursor' = cursor /\ stk' = Front(stk)
                /\ Scok(Node.then,
                        Append(pdl, Entry("earb", 0, 0, cursor, 0,
                                          Last(stk).v, 0, patb)))
           ELSE Wild /\ UNCHANGED <<stk, cursor>>
        /\ UNCHANGED nam /\ UNCHANGED mach

\* The entry under the own one is the one EARB rewrote.
Began   == Last(pdl).from
AtEarb  == pdl # <<>> /\ Last(pdl).fn = "earb"
Onar1   == SaltOrSalf(Front(pdl)) /\ Pushed(Began) /\ Failed

Onar == /\ IsAt("ONAR")
        /\ IF Quick /\ ~AtEarb THEN Wild /\ UNCHANGED stk
           ELSE IF Quick /\ Began = cursor THEN Onar1
           ELSE Matched(cursor) /\ UNCHANGED stk
        /\ UNCHANGED nam /\ UNCHANGED mach

Onrf == /\ IsAt("ONRF")
        /\ IF AtEarb THEN Onar1 ELSE Wild /\ UNCHANGED <<stk, cursor>>
        /\ UNCHANGED nam /\ UNCHANGED mach

(***************************************************************************)
(* Naming: P . V and P $ V                                                 *)
(***************************************************************************)
Nme == /\ IsAt("NME")
       /\ cursor' = cursor /\ Pushed(cursor)
       /\ ScokWith(Node.then, Append(Own, Trap("FNME", cursor, lenf)), 1)
       /\ UNCHANGED nam /\ UNCHANGED mach

\* A slip: the entry remembers where the match ends.
UndoAtEnd(fn, from) == Append(Own, Entry(fn, 0, 0, cursor, 0, cursor, lenf, patb))

\* L_ENME3: the entry that undoes a naming remembers where it began.
Undo(fn, from) == Append(Own, Entry(fn, 0, 0, cursor, 0, from, lenf, patb))

Enme ==
  /\ IsAt("ENME")
  /\ cursor' = cursor
  /\ IF HasCursor
     THEN /\ nam' = Append(nam, [var |-> Node.arg, from |-> Last(stk).v,
                                 to |-> cursor])
          /\ ScokWith(Node.then, Undo("DNME", Last(stk).v), 1)
          /\ stk' = Front(stk)
     ELSE Wild /\ UNCHANGED <<stk, nam>>
  /\ UNCHANGED mach

String(i, j) == [t |-> "S", s |-> Text(i, j)]

Enmi ==
  /\ IsAt("ENMI")
  /\ cursor' = cursor
  /\ IF HasCursor
     THEN /\ env' = [env EXCEPT ![Node.arg] = String(Last(stk).v, cursor)]
          /\ ScokWith(Node.then, Undo("DNMI", Last(stk).v), 1)
          /\ stk' = Front(stk)
     ELSE Wild /\ UNCHANGED <<stk, env>>
  /\ UNCHANGED <<nam, req, saved, patb, maxlen, head, pdlhed, nhed, calls>>

(***************************************************************************)
(* Recursive scans: *V (L_STAR, L_DSAR) and FENCE(P) (L_FNCA).  The C      *)
(* frame keeps the caller's registers and where its SCFL entry is.         *)
(***************************************************************************)
\* A slip: what the caller pushed is not kept.
FrameBare(kind, inner, base) ==
  [kind |-> kind, then |-> Node.then, inner |-> inner, base |-> base,
   maxlen |-> maxlen, patb |-> patb, pdlhed |-> pdlhed, nam |-> Len(nam),
   nhed |-> nhed, stk |-> <<>>]

Frame(kind, inner, base) ==
  [kind |-> kind, then |-> Node.then, inner |-> inner, base |-> base,
   maxlen |-> maxlen, patb |-> patb, pdlhed |-> pdlhed, nam |-> Len(nam),
   nhed |-> nhed, stk |-> stk]

\* PUSH the registers, then SCIN(inner): SCIN1 starts at its first node.
Call(kind, inner, room, h) ==
  /\ pdl' = h
  /\ pc' = IF Len(h) > PdlMax THEN "overflow" ELSE "next"
  /\ calls' = Append(calls, Frame(kind, inner, Len(h)))
  /\ maxlen' = room /\ patb' = inner /\ pati' = 1 /\ lenf' = 1 /\ stk' = <<>>
  /\ UNCHANGED <<ret, cursor, nam, head, env, req>>

\* INTSPC; cursors have at most three digits here.
Digit(d)  == <<"0", "1", "2", "3", "4", "5", "6", "7", "8", "9">>[(d % 10) + 1]
IntSpc(n) == CASE n < 10 -> <<Digit(n)>>
               [] n >= 10 /\ n < 100 -> <<Digit(n \div 10), Digit(n)>>
               [] OTHER -> <<Digit(n \div 100), Digit(n \div 10), Digit(n)>>

\* The value goes to the DSAR node too, the next but one.
Keep(v) == LET dsar == <<patb, pati + 2>> IN
  saved' = [n \in DOMAIN saved \cup {dsar} |-> IF n = dsar THEN v ELSE saved[n]]

Star ==
  /\ IsAt("STAR")
  /\ LET v    == env[Node.arg]
         room == maxlen - Residual(Node.res)
     IN
     /\ Keep(v)
     /\ \/ v.t = "S" /\ Compare(v.s)
        \/ v.t = "I" /\ Compare(IntSpc(v.i))
        \/ /\ v.t = "P"
           /\ \/ room < 0
              \/ Quick /\ Lvalue(Block(v.p)) > room
           /\ Short
     /\ UNCHANGED <<stk, nam, patb, maxlen, head, pdlhed, nhed, calls, env,
                    req>>

StarCall ==
  /\ IsAt("STAR")
  /\ LET v    == env[Node.arg]
         room == maxlen - Residual(Node.res)
     IN
     /\ v.t = "P" /\ room >= 0
     /\ Quick => Lvalue(Block(v.p)) <= room
     /\ Keep(v)
     /\ Call("STAR", v.p, room, Append(Own, Trap("SCFL", cursor, lenf)))
     /\ UNCHANGED <<pdlhed, nhed>>

\* L_DSAR: back into the pattern STAR matched last.  isnobol4.c pushes an
\* SCFL entry of its own first; SCIN1 then starts by failing (L_UNSC).
Dsar ==
  /\ IsAt("DSAR")
  /\ LET h == IF Build = "isnobol4"
              THEN Append(Own, Trap("SCFL", cursor, lenf)) ELSE Own
         v == saved[<<patb, pati>>]
     IN
     IF <<patb, pati>> \notin DOMAIN saved
     THEN Wild /\ Plain                                      \* SCDTER
     ELSE IF v.t # "P"
     THEN SaltOrSalf(Own) /\ Failed /\ Plain
     ELSE IF Len(h) > PdlMax
     THEN Overflow
     ELSE /\ SaltOrSalf(h)
          /\ calls' = Append(calls, Frame("DSAR", v.p, Len(h)))
          /\ maxlen' = maxlen - Residual(Node.res)
          /\ patb' = v.p /\ stk' = <<>>
          /\ Failed
          /\ UNCHANGED <<nam, saved, head, pdlhed, nhed, env, req>>

Fnca ==
  /\ IsAt("FNCA")
  /\ Call("FNCA", Node.arg, maxlen, Append(Own, Trap("SCFL", cursor, lenf)))
  /\ pdlhed' = Len(pdl) + 2 /\ nhed' = Len(nam)
  /\ UNCHANGED saved

(***************************************************************************)
(* FAIL, ABORT, SUCCEED and FENCE                                          *)
(***************************************************************************)
FailNode == IsAt("SALF") /\ Mismatch /\ Plain
Abort    == IsAt("ABORT") /\ Exit(3, Own) /\ UNCHANGED cursor /\ Plain

Succeed == /\ IsAt("SUCF")
           /\ cursor' = cursor
           /\ ScokWith(Node.then, Append(Own, Trap("SUCF", cursor, lenf)), 1)
           /\ Plain

Fnce == /\ IsAt("FNCE")
        /\ cursor' = cursor
        /\ ScokWith(Node.then, Append(Own, Trap("FNCF", cursor, lenf)), 1)
        /\ Plain

(***************************************************************************)
(* L_SALT2: pop an entry.  Where a function descriptor is popped, only     *)
(* snobol4.c also takes the cursor from the entry.                         *)
(***************************************************************************)
Top       == Last(pdl)
Rest      == Front(pdl)
Popping   == At("fail") /\ pdl # <<>>
PopsTo(fn) == Popping /\ Top.fn = fn
Back      == IF Build = "snobol4" THEN Top.cur ELSE cursor

\* A slip: the entry stays on the list.
DeadKept == /\ Popping /\ Top.fn \in {"node", "zero", "earb"}
            /\ Top.alt = 0 /\ (Top.fn = "earb" => Top.from = 0)
            /\ SaltOrSalf(pdl) /\ Failed /\ Plain

\* L_SALT3: no alternative; a length failure stays one only if all were.
Dead == /\ Popping /\ Top.fn \in {"node", "zero", "earb"}
        /\ Top.alt = 0 /\ (Top.fn = "earb" => Top.from = 0)
        /\ SaltOrSalf(Rest) /\ Failed /\ Plain

Alternative == /\ PopsTo("node") /\ Top.alt # 0
               /\ cursor' = Top.cur /\ pati' = Top.alt /\ pc' = "next"
               /\ pdl' = Rest /\ UNCHANGED <<ret, lenf>> /\ Plain

(***************************************************************************)
(* The function descriptors of the history list                            *)
(***************************************************************************)
\* L_SCON: the next place to start, while SCNR's count lasts.
Counting == /\ Len(stk) >= 2
            /\ Last(stk).k = "count" /\ stk[Len(stk) - 1].k = "pattern"
Scon ==
  /\ PopsTo("SCON")
  /\ \/ /\ Quick /\ lenf # 0
        /\ Exit(1, Rest) /\ UNCHANGED <<cursor, head, patb, stk>>
     \/ /\ ~(Quick /\ lenf # 0) /\ ~Counting
        /\ Wild /\ UNCHANGED <<head, patb, stk>>
     \/ /\ ~(Quick /\ lenf # 0) /\ Counting /\ Last(stk).v = 1
        /\ Exit(1, Rest) /\ stk' = SubSeq(stk, 1, Len(stk) - 2)
        /\ UNCHANGED <<cursor, head, patb>>
     \/ /\ ~(Quick /\ lenf # 0) /\ Counting /\ Last(stk).v # 1
        /\ cursor' = Back + 1 /\ head' = Back + 1
        /\ stk' = Append(Front(stk), [Last(stk) EXCEPT !.v = @ - 1])
        /\ pdl' = Append(Rest, [Trap("SCON", Back + 1, 1)
                                  EXCEPT !.pat = req.pat])
        /\ patb' = req.pat /\ pati' = 1 /\ lenf' = 1 /\ pc' = "next"
        /\ UNCHANGED ret
  /\ UNCHANGED <<nam, maxlen, pdlhed, nhed, calls, saved, env, req>>

\* A slip: one entry too many is popped.
ScflTwo == PopsTo("SCFL") /\ Exit(1, Front(Rest)) /\ cursor' = Back /\ Plain

Scfl == PopsTo("SCFL") /\ Exit(1, Rest) /\ cursor' = Back /\ Plain
Fncf == PopsTo("FNCF") /\ Exit(3, Rest) /\ cursor' = Back /\ Plain

\* L_SUCF: match again; XCL is read from the entry under the popped one.
Sucf == /\ PopsTo("SUCF")
        /\ cursor' = Back
        /\ IF Rest = <<>> THEN Wild
           ELSE ScokWith(Last(Rest).then,
                         Append(Rest, Trap("SUCF", Back, lenf)), 1)
        /\ Plain

\* L_BRKXF: one character on, scan for the next break character.
Brxf ==
  /\ PopsTo("BRXF") /\ Len(pdl) > 2
  /\ LET h   == SubSeq(pdl, 1, Len(pdl) - 2)
         off == pdl[Len(pdl) - 1].then
         gone == (Quick /\ lenf # 0) \/ Back + Residual(Top.res) >= maxlen
         stops == Stops(Back + 1, Block(patb)[off].arg)
     IN
     \/ gone /\ Salt(h) /\ cursor' = Back /\ UNCHANGED <<pati, ret>>
     \/ /\ ~gone /\ stops = {}
        /\ Salt(h) /\ cursor' = Back + 1 /\ UNCHANGED <<pati, ret>>
     \/ \E p \in stops :
          /\ ~gone /\ IsLeast(p, stops)
          /\ cursor' = p /\ Scok(Last(h).then, Retry(h, p, off, tmval))
  /\ Plain

\* A slip: what NME pushed stays on the C stack.
FnmeLeft == /\ PopsTo("FNME")
            /\ SaltOrSalf(Rest) /\ cursor' = Back
            /\ UNCHANGED <<pati, ret>> /\ Plain

Fnme == /\ PopsTo("FNME")
        /\ cursor' = Back
        /\ IF HasCursor
           THEN SaltOrSalf(Rest) /\ stk' = Front(stk) /\ UNCHANGED <<pati, ret>>
           ELSE /\ pc' = "wild" /\ UNCHANGED <<ret, pati, lenf, pdl, stk>>
        /\ UNCHANGED nam /\ UNCHANGED mach

\* A slip: the name stays on the list.
UndoneNot == \E fn \in {"DNME", "DNMI"} :
  /\ PopsTo(fn)
  /\ fn = "DNME" => nam # <<>>
  /\ SaltOrSalf(Rest) /\ Pushed(Top.from) /\ UNCHANGED nam
  /\ cursor' = Back /\ UNCHANGED <<pati, ret>> /\ UNCHANGED mach

\* L_DNME takes the name off the list; both put the start cursor back.
Undone == \E fn \in {"DNME", "DNMI"} :
  /\ PopsTo(fn)
  /\ fn = "DNME" => nam # <<>>
  /\ SaltOrSalf(Rest) /\ Pushed(Top.from)
  /\ nam' = IF fn = "DNME" THEN Front(nam) ELSE nam
  /\ cursor' = Back /\ UNCHANGED <<pati, ret>> /\ UNCHANGED mach

\* L_FNCD: drop everything down to the seal's base and leave SCIN.
SealBase == IF Build = "isnobol4" THEN Top.alt - 1 ELSE Top.alt
Fncd == /\ PopsTo("FNCD") /\ SealBase <= Len(pdl) /\ nhed <= Len(nam)
        /\ Exit(1, SubSeq(pdl, 1, SealBase))
        /\ nam' = SubSeq(nam, 1, nhed)
        /\ cursor' = cursor /\ UNCHANGED stk /\ UNCHANGED mach

\* L_STREXC (isnobol4.c only): what lies below belongs to another block.
Strexc == /\ PopsTo("STREXC")
          /\ patb' = Top.pat /\ SaltOrSalf(Rest) /\ Failed
          /\ UNCHANGED <<stk, nam, maxlen, head, pdlhed, nhed, calls, saved,
                         env, req>>

(***************************************************************************)
(* The code after the SCIN call of STAR, DSAR and FNCA.  ret is 1 for      *)
(* failure, 2 for success, 3 for an abort, which leaves this SCIN too.     *)
(***************************************************************************)
Caller == Last(calls)
Returning(kinds, r) ==
  /\ At("exit") /\ calls # <<>> /\ Caller.kind \in kinds /\ ret = r

\* A slip: PATBCL is not popped.
RestoredPart == /\ maxlen' = Caller.maxlen /\ patb' = patb
                /\ stk' = Caller.stk /\ calls' = Front(calls)

Restored == /\ maxlen' = Caller.maxlen /\ patb' = Caller.patb
            /\ stk' = Caller.stk /\ calls' = Front(calls)

Aborted ==
  /\ Returning({"STAR", "DSAR", "FNCA"}, 3)
  /\ stk' = Caller.stk /\ calls' = Front(calls)
  /\ UNCHANGED <<pc, ret, pati, cursor, lenf, pdl, nam, patb, maxlen, head,
                 pdlhed, nhed, saved, env, req>>

\* L_STARP5
StarFailed ==
  /\ Returning({"STAR", "DSAR"}, 1)
  /\ Restored /\ SaltOrSalf(pdl)
  /\ UNCHANGED <<ret, pati, cursor, nam, head, pdlhed, nhed, saved, env, req>>

\* L_STARP2 of isnobol4.c: the entries the callee left are put between two
\* STREXC entries, so that whoever pops them has the right block in PATBCL.
Sentinel(pat) == Entry("STREXC", 0, 0, 0, 0, 0, lenf, pat)

\* A slip: the lower entry holds the callee's block.
FencedInside(h, base, inner, outer) ==
  LET bottom == [i \in 1..Len(h) |->
                   IF i = base THEN [Sentinel(inner) EXCEPT !.lenf = h[i].lenf]
                               ELSE h[i]]
  IN  IF Len(h) > base THEN Append(bottom, Sentinel(inner)) ELSE bottom

Fenced(h, base, inner, outer) ==
  LET bottom == [i \in 1..Len(h) |->
                   IF i = base THEN [Sentinel(outer) EXCEPT !.lenf = h[i].lenf]
                               ELSE h[i]]
  IN  IF Len(h) > base THEN Append(bottom, Sentinel(inner)) ELSE bottom

StarMatched ==
  /\ Returning({"STAR", "DSAR"}, 2)
  /\ Restored
  /\ Scok(Caller.then,
          IF Build = "isnobol4"
          THEN Fenced(pdl, Caller.base, Caller.inner, Caller.patb) ELSE pdl)
  /\ UNCHANGED <<cursor, nam, head, pdlhed, nhed, saved, env, req>>

\* What FNCA puts back on either way out; names the argument added are lost.
Intact   == Caller.base <= Len(pdl) + 1 /\ Caller.nam <= Len(nam)
Unfenced == /\ Intact /\ Restored
            /\ pdlhed' = Caller.pdlhed /\ nhed' = Caller.nhed
            /\ nam' = SubSeq(nam, 1, Caller.nam)
            /\ UNCHANGED <<cursor, head, saved, env, req>>
Below == SubSeq(pdl, 1, Caller.base - 1)

\* L_FNCBX
FenceFailed ==
  /\ Returning({"FNCA"}, 1) /\ Unfenced
  /\ Salt(Below) /\ UNCHANGED <<ret, pati>>

\* A slip: one entry further down.
SealBelow == Entry("FNCD", (IF Build = "isnobol4" THEN Caller.base
                                                  ELSE Caller.pdlhed) - 1,
                   0, 0, 0, 0, lenf, Caller.patb)

\* The seal says how far FNCD rewinds the list: isnobol4.c stores the
\* seal's own place, snobol4.c the caller's PDLHED.
Seal == Entry("FNCD", IF Build = "isnobol4" THEN Caller.base ELSE Caller.pdlhed,
              0, 0, 0, 0, lenf, Caller.patb)

\* A slip: what P left on the list stays, and nothing seals it.
FenceUnsealed ==
  /\ Returning({"FNCA"}, 2) /\ Unfenced
  /\ Scok(Caller.then, pdl)

FenceMatched ==
  /\ Returning({"FNCA"}, 2) /\ Unfenced
  /\ Scok(Caller.then, Append(Below, Seal))

\* The program leaves the data it was meant to read: an offset that is no
\* node of the block in PATBCL, a list popped bare, a cursor or a freed
\* entry read as an offset, a list put back longer than it is.
Astray ==
  /\ \/ At("next") /\ Len(pdl) < PdlMax /\ pati \notin DOMAIN Block(patb)
     \/ At("fail") /\ pdl = <<>>
     \/ PopsTo("earb") /\ Top.from # 0
     \/ PopsTo("BRXF") /\ Len(pdl) <= 2
     \/ PopsTo("DNME") /\ nam = <<>>
     \/ PopsTo("FNCD") /\ ~(SealBase <= Len(pdl) /\ nhed <= Len(nam))
     \/ Returning({"FNCA"}, 1) /\ ~Intact
     \/ Returning({"FNCA"}, 2) /\ ~Intact
  /\ Wild /\ Plain

(***************************************************************************)
(* SCNR starts the match; SCAN ends it, with NMD when it succeeded.        *)
(***************************************************************************)
Begin(fn, pushed) ==
  /\ pdl' = << [Trap(fn, 0, IF fn = "SCON" THEN 1 ELSE lenf)
                  EXCEPT !.pat = req.pat] >>
  /\ stk' = pushed
  /\ pc' = "next" /\ pati' = 1 /\ lenf' = 1
  /\ cursor' = 0 /\ head' = 0 /\ maxlen' = L /\ patb' = req.pat
  /\ UNCHANGED <<ret, nam, pdlhed, nhed, calls, saved, env, req>>

Need      == Lvalue(Block(req.pat))
Hopeless  == Quick /\ Need > L

\* A slip: one start too many.
StartsMore == (IF Quick THEN L - Need ELSE L) + 2

Starts    == (IF Quick THEN L - Need ELSE L) + 1

Scnr ==
  /\ At("start")
  /\ \/ /\ Hopeless
        /\ pc' = "failed"
        /\ UNCHANGED <<ret, pati, cursor, lenf, pdl>> /\ Plain
     \/ ~Hopeless /\ req.anchor /\ Begin("SCFL", <<>>)
     \/ /\ ~Hopeless /\ ~req.anchor
        /\ Begin("SCON", << [k |-> "pattern", v |-> 0],
                            [k |-> "count", v |-> Starts] >>)

\* NMD assigns the names in the order of the list.
Assigned(v) == {i \in 1..Len(nam) : nam[i].var = v}
Final(v) == LET i == CHOOSE x \in Assigned(v) : \A y \in Assigned(v) : y <= x
            IN  String(nam[i].from, nam[i].to)
Nmd == [v \in DOMAIN env |-> IF Assigned(v) = {} THEN env[v] ELSE Final(v)]

Scan ==
  /\ At("exit") /\ calls = <<>>
  /\ \/ ret = 2 /\ pc' = "matched" /\ env' = Nmd
     \/ ret # 2 /\ pc' = "failed"  /\ env' = env
  /\ UNCHANGED <<ret, pati, cursor, lenf, pdl, stk, nam, patb, maxlen, head,
                 pdlhed, nhed, calls, saved, req>>

(***************************************************************************)
(* The value field of TMVAL.  SCIN3 puts the node's residual there, and    *)
(* most other uses of TMVAL clear it; BREAKX's retry relies on what it     *)
(* finds (L_ANYC4 stores only the address field).                          *)
(***************************************************************************)
Clearing == {"ARBN", "ARBF", "EARB", "NME", "FNCE", "FNCA", "SUCF"}
TmvalAfter ==
  IF Fetched
  THEN CASE ~NoRoom /\ (\/ Node.fn \in Clearing
                        \/ Node.fn = "ONAR" /\ Quick
                        \/ Node.fn = "STAR" /\ calls' # calls
                        \/ /\ Node.fn = "DSAR" /\ calls' # calls
                           /\ Build = "isnobol4") -> 0
         [] ~NoRoom /\ Node.fn \in {"ENME", "ENMI"} /\ HasCursor ->
              Last(stk).v
         [] OTHER -> Node.res
  ELSE IF \/ At("start")
          \/ Popping /\ Top.fn \in {"SCON", "SUCF"}
          \/ Build = "isnobol4" /\ Returning({"FNCA"}, 2)
  THEN 0 ELSE tmval

(***************************************************************************)
(* The specification                                                       *)
(***************************************************************************)
Init ==
  /\ req \in Requests
  /\ env = req.env
  /\ saved = <<>>
  /\ pc = "start" /\ ret = 1
  /\ patb = req.pat /\ pati = 1
  /\ cursor = 0 /\ maxlen = 0 /\ lenf = 0 /\ head = 0
  /\ pdl = <<>> /\ pdlhed = 0 /\ stk = <<>> /\ nam = <<>> /\ nhed = 0
  /\ calls = <<>> /\ tmval = 0

Fetch == \/ TooShort \/ PdlFull
         \/ Chr \/ AnyOf \/ Break \/ BreakX \/ Span
         \/ LenNode \/ Pos \/ Rpos \/ Tab \/ Rtab \/ Atp
         \/ Pass \/ Farb \/ Bal \/ Arbn \/ Arbf \/ Earb \/ Onar \/ Onrf
         \/ Nme \/ Enme \/ Enmi \/ Star \/ StarCall \/ Dsar \/ Fnca
         \/ FailNode \/ Abort \/ Succeed \/ Fnce
Pop == \/ Dead \/ Alternative \/ Scon \/ Scfl \/ Fncf \/ Sucf \/ Brxf
       \/ Fnme \/ Undone \/ Fncd \/ Strexc
Return == \/ Aborted \/ StarFailed \/ StarMatched \/ FenceFailed
          \/ FenceMatched \/ Scan

Stopped == pc \in {"matched", "failed", "overflow", "wild"}
Done   == Stopped /\ UNCHANGED vars

Step == Scnr \/ Fetch \/ Pop \/ Return \/ Astray
Next == (Step /\ tmval' = TmvalAfter) \/ Done
Spec == Init /\ [][Next]_vars /\ WF_vars(Next)

(***************************************************************************)
(* Types                                                                   *)
(***************************************************************************)
EntryFns == {"node", "zero", "earb", "SCON", "SCFL", "BRXF", "FNME", "DNME",
             "DNMI", "FNCF", "SUCF", "FNCD", "STREXC"}
Entries == [fn : EntryFns, alt : Nat, then : Nat, cur : Nat, res : Nat,
            from : Nat, lenf : {0, 1}, pat : Addresses]
StackItems == [k : {"cursor", "pattern"}, v : Nat]
                \cup [k : {"count"}, v : Nat \ {0}]
Names  == [var : Vars, from : Nat, to : Nat]
Frames == [kind : {"STAR", "DSAR", "FNCA"}, then : Nat, inner : Addresses,
           base : Nat, maxlen : Int, patb : Addresses, pdlhed : Nat,
           nam : Nat, nhed : Nat, stk : Seq(StackItems)]

\* Every variable has its type, in either build and whatever the pattern.
TypeOK ==
  /\ req \in Requests /\ AreValues(env)
  /\ \A n \in DOMAIN saved : IsValue(saved[n])
  /\ pc \in {"start", "next", "fail", "exit",
             "matched", "failed", "overflow", "wild"}
  /\ ret \in 1..3 /\ lenf \in {0, 1}
  /\ patb \in Addresses /\ pati \in Nat
  /\ cursor \in Nat /\ head \in Nat /\ maxlen \in Int
  /\ pdl \in Seq(Entries) /\ stk \in Seq(StackItems) /\ nam \in Seq(Names)
  /\ calls \in Seq(Frames)
  /\ pdlhed \in Nat /\ nhed \in Nat /\ tmval \in Nat

(***************************************************************************)
(* Properties                                                              *)
(***************************************************************************)
\* The entries that give the cursor back when they are popped.
Resuming == EntryFns \ {"zero", "earb", "FNCD", "STREXC"}

\* Whatever the handlers, the backtracking and the restarts do, the cursor
\* lies between where this attempt began and the end of the subject, and so
\* does every cursor the history list will bring back: no handler reads the
\* subject outside, and no attempt looks left of its start.
InSubject ==
  /\ head <= cursor /\ cursor <= L
  /\ \A i \in DOMAIN pdl : pdl[i].fn \in Resuming => pdl[i].cur \in head..L

\* What makes InSubject inductive: the other places a cursor waits in, on the
\* history list and on the C stacks of all frames, and the restart count.
\* SCON's entry and SCNR's pair are at the bottom, so nothing outlives a
\* restart, and the count left never takes the start past the subject.
Waiting(s, outermost) == \A i \in DOMAIN s :
  /\ s[i].k = "cursor"  => s[i].v \in head..L
  /\ s[i].k = "pattern" => outermost /\ i = 1
  /\ s[i].k = "count"   => outermost /\ i = 2 /\ head + s[i].v <= L + 1
Placed ==
  /\ maxlen <= L
  /\ At("start") => calls = <<>>
  /\ \A i \in DOMAIN pdl :
       /\ pdl[i].fn \in {"earb", "DNME", "DNMI"} => pdl[i].from \in head..L
       /\ pdl[i].fn = "SCON" => i = 1 /\ pdl[i].cur = head
  /\ Waiting(stk, calls = <<>>)
  /\ \A i \in DOMAIN calls : calls[i].maxlen <= L /\ Waiting(calls[i].stk, i = 1)
Inv == TypeOK /\ InSubject /\ Placed

\* An alternative is resumed under the block that pushed it.  PATBCL is not
\* part of an entry; what keeps it right, across the returns of STAR, DSAR
\* and FNCA, is the order in which entries and frames come and go.
OwnBlock == PopsTo("node") /\ Top.alt # 0 => Top.pat = patb

\* When a scan succeeds, every cursor ARBN, NME and the undo entries pushed
\* on the C stack has been popped by its EARB, ENME or ENMI: STAR, DSAR and
\* FNCA pop what they saved, not a stray cursor.
NoStrayCursor == At("exit") /\ ret = 2 =>
                   \A i \in DOMAIN stk : stk[i].k # "cursor"

\* Names that NMD assigns lie within the text matched.
NamesWithin == pc = "matched" =>
  \A i \in DOMAIN nam : /\ head <= nam[i].from
                        /\ nam[i].from <= nam[i].to /\ nam[i].to <= cursor

\* A name is on the list as long as the entry that takes it off is on the
\* history list: what backtracking gives up is never assigned.
NamesUndone == At("fail") =>
  Len(nam) = Cardinality({i \in DOMAIN pdl : pdl[i].fn = "DNME"})

\* A scan that STAR or FNCA called never touches its caller's history: the
\* entries under the frame's own stay as they are until the frame returns.
CallerHistoryKept ==
  [][calls # <<>> /\ calls' = calls /\ Caller.kind \in {"STAR", "FNCA"} =>
       /\ Len(pdl') >= Caller.base - 1
       /\ \A i \in 1..(Caller.base - 1) : pdl'[i] = pdl[i]]_vars

\* The program never reads data for what it is not.
NeverWild == pc # "wild"

\* Every match statement ends, and not for want of room.
Terminates == <>(pc \in {"matched", "failed"})
==============================================================================
