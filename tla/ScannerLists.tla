----------------------------- MODULE ScannerLists -----------------------------
(***************************************************************************)
(* What the history list and the frames of Scanner look like together, and *)
(* what follows: a scan that was called leaves its caller's history alone; *)
(* a name stays on the list of names exactly as long as the entry that     *)
(* takes it off; and an alternative is resumed under its own block.        *)
(***************************************************************************)
EXTENDS ScannerProofs, FiniteSetTheorems

(***************************************************************************)
(* What the history list looks like in any pattern.  BREAKX's retry is on  *)
(* top of the offset it reads and SCON's entry is the first; in isnobol4.c *)
(* a seal says where it is, and each frame has its SCFL entry where its    *)
(* base says, the one called last unless its scan ended by popping it.     *)
(***************************************************************************)
Shaped(e, i) == /\ e.fn = "FNCD" => Build = "snobol4" \/ e.alt = i
                /\ e.fn = "SCON" => i = 1
Formed(h) == \A i \in DOMAIN h :
               Shaped(h[i], i) /\ (h[i].fn = "BRXF" => i > 1 /\ h[i - 1].fn = "zero")

Based(h, b) == b \in DOMAIN h /\ h[b].fn = "SCFL"
Framed(c, h, open) ==
  /\ \A k \in DOMAIN c : \/ Based(h, c[k].base)
                         \/ open /\ k = Len(c) /\ c[k].base = Len(h) + 1
  /\ \A j, k \in DOMAIN c : j < k => c[j].base < c[k].base

Failing == At("exit") /\ ret = 1
Lists == /\ At("start") => pdl = <<>> /\ calls = <<>>
         /\ Formed(pdl)
         /\ Build = "isnobol4" /\ pc # "wild" => Framed(calls, pdl, Failing)

\* No pattern has FENCE(P).
NoFences == \A p \in Addresses : \A i \in DOMAIN Block(p) : Block(p)[i].fn # "FNCA"

\* Without one, a name is on the list for each entry that takes one off.
Undos(h, n) == {i \in 1 .. n : h[i].fn = "DNME"}
NamesMatch == /\ Len(nam) = Cardinality(Undos(pdl, Len(pdl)))
              /\ \A i \in DOMAIN pdl : pdl[i].fn # "FNCD"
              /\ \A k \in DOMAIN calls : calls[k].kind # "FNCA"

(***************************************************************************)
(* Most steps change the list at its top only: h is the list pdl with at   *)
(* most two entries over the first n taken off and others pushed, none of  *)
(* which bounds what a frame, a fence or a fenced-in scan owns.            *)
(***************************************************************************)
Bounds == {"SCFL", "FNCD", "STREXC"}
Above(h, n, fns) == \A i \in DOMAIN h : i > n => h[i].fn \notin fns
Turned(h, n) ==
  /\ h \in Seq(Entries) /\ n \in Nat /\ n <= Len(pdl) /\ n <= Len(h)
  /\ Len(pdl) <= n + 2
  /\ \A i \in DOMAIN h : i <= n => h[i] = pdl[i]
  /\ Above(pdl, n, Bounds) /\ Above(h, n, Bounds \cup {"SCON"})
  /\ \A i \in DOMAIN h : i > n =>
       /\ h[i].pat = patb
       /\ h[i].fn = "BRXF" => i > n + 1 /\ h[i - 1].fn = "zero"
\* No name goes or comes.
Silent(h, n) == Above(pdl, n, {"DNME"}) /\ Above(h, n, {"DNME"})

Running == pc \in {"next", "fail"}
Moved(n) == /\ Running /\ pc' # "start" /\ (pc' = "exit" => ret' \in {2, 3})
            /\ UNCHANGED <<calls, patb>> /\ Turned(pdl', n)
Moves    == \E n \in Nat : Moved(n)
Quietly  == \E n \in Nat : Moved(n) /\ Silent(pdl', n) /\ nam' = nam

LEMMA TurnedSame ==
  ASSUME TypeOK PROVE Turned(pdl, Len(pdl)) /\ Silent(pdl, Len(pdl))
  BY DEF TypeOK, Turned, Silent, Above

LEMMA TurnedPush ==
  ASSUME NEW h, NEW n, Turned(h, n), NEW e \in Entries, e.pat = patb,
         e.fn \notin Bounds \cup {"SCON"},
         e.fn = "BRXF" => n < Len(h) /\ Last(h).fn = "zero"
  PROVE  /\ Turned(Append(h, e), n)
         /\ Silent(h, n) /\ e.fn # "DNME" => Silent(Append(h, e), n)
<1>0. h \in Seq(Entries) /\ n \in Nat /\ n <= Len(h) /\ Len(h) \in Nat
  BY DEF Turned
<1>1. /\ Append(h, e) \in Seq(Entries) /\ Len(Append(h, e)) = Len(h) + 1
      /\ DOMAIN Append(h, e) = 1 .. Len(h) + 1
      /\ \A i \in DOMAIN Append(h, e) :
           /\ Append(h, e)[i] = IF i = Len(h) + 1 THEN e ELSE h[i]
           /\ i # Len(h) + 1 => i \in DOMAIN h
  BY <1>0, OnTop
<1>2. \A i \in DOMAIN Append(h, e) : i <= n => Append(h, e)[i] = pdl[i]
  BY <1>0, <1>1 DEF Turned
<1>3. Above(Append(h, e), n, Bounds \cup {"SCON"})
  BY <1>1 DEF Turned, Above
<1>4. ASSUME NEW i \in DOMAIN Append(h, e), i > n
      PROVE  /\ Append(h, e)[i].pat = patb
             /\ Append(h, e)[i].fn = "BRXF" =>
                  i > n + 1 /\ Append(h, e)[i - 1].fn = "zero"
  <2>1. CASE i = Len(h) + 1
    <3>1. Len(h) # 0 => Append(h, e)[i - 1] = h[Len(h)]
      BY <1>0, <1>1, <2>1
    <3> QED
      BY <1>0, <1>1, <2>1, <3>1 DEF Last
  <2>2. CASE i # Len(h) + 1
    <3>1. i \in DOMAIN h /\ Append(h, e)[i] = h[i]
      BY <1>1, <2>2
    <3>2. i > 1 => Append(h, e)[i - 1] = h[i - 1]
      BY <1>0, <1>1, <3>1
    <3> QED
      BY <1>0, <1>4, <3>1, <3>2 DEF Turned
  <2> QED
    BY <2>1, <2>2
<1>5. Turned(Append(h, e), n)
  BY <1>0, <1>1, <1>2, <1>3, <1>4 DEF Turned
<1>6. Silent(h, n) /\ e.fn # "DNME" => Silent(Append(h, e), n)
  BY <1>1 DEF Silent, Above
<1> QED
  BY <1>5, <1>6

LEMMA TurnedRest ==
  ASSUME TypeOK, pdl # <<>>, Top.fn \notin Bounds
  PROVE  /\ Turned(Rest, Len(pdl) - 1)
         /\ Top.fn # "DNME" => Silent(Rest, Len(pdl) - 1)
<1>1. /\ Rest \in Seq(Entries) /\ Len(Rest) = Len(pdl) - 1
      /\ Len(pdl) \in Nat \ {0} /\ Top = pdl[Len(pdl)]
      /\ \A i \in DOMAIN Rest : i \in DOMAIN pdl /\ Rest[i] = pdl[i]
  BY Popped DEF TypeOK, Top, Rest
<1>2. DOMAIN pdl = 1 .. Len(pdl) /\ DOMAIN Rest = 1 .. Len(pdl) - 1
  BY <1>1 DEF TypeOK
<1>3. \A i \in DOMAIN pdl : i > Len(pdl) - 1 => i = Len(pdl)
  BY <1>1, <1>2
<1>4. \A i \in DOMAIN Rest : ~ (i > Len(pdl) - 1)
  BY <1>1, <1>2
<1> QED
  BY <1>1, <1>3, <1>4 DEF Turned, Silent, Above

\* The entry SCIN3 pushes, and a trap.
LEMMA TurnedOwn ==
  ASSUME TypeOK, Fetched, NEW c \in Nat
  PROVE  Turned(OwnAt(c), Len(pdl)) /\ Silent(OwnAt(c), Len(pdl))
<1> DEFINE e == Entry("node", Node.alt, Node.then, c, Node.res, 0, lenf, patb)
<1>1. e \in Entries
  BY NodeType DEF TypeOK, Entry, Entries, EntryFns, IsNode
<1>2. e.fn = "node" /\ e.pat = patb
  BY DEF Entry
<1> HIDE DEF e
<1>3. "node" \notin Bounds \cup {"SCON", "BRXF", "DNME"}
  BY DEF Bounds
<1> QED
  BY <1>1, <1>2, <1>3, TurnedSame, TurnedPush DEF OwnAt, e

Trapping == {"FNME", "SUCF", "FNCF"}
LEMMA TurnedTrap ==
  ASSUME TypeOK, NEW h, NEW n, Turned(h, n), Silent(h, n),
         NEW fn \in Trapping, NEW c \in Nat, NEW len \in {0, 1}
  PROVE  Turned(Append(h, Trap(fn, c, len)), n)
         /\ Silent(Append(h, Trap(fn, c, len)), n)
<1>1. fn \in EntryFns /\ fn \notin Bounds \cup {"SCON", "BRXF", "DNME"}
  BY DEF Trapping, EntryFns, Bounds
<1>2. /\ Trap(fn, c, len) \in Entries
      /\ Trap(fn, c, len).fn = fn /\ Trap(fn, c, len).pat = patb
  BY <1>1, TrapType DEF Trap, Entry
<1> QED
  BY <1>1, <1>2, TurnedPush

\* What BREAKX leaves for its retry.
LEMMA TurnedRetry ==
  ASSUME TypeOK, NEW h, NEW n, Turned(h, n), Silent(h, n), NEW p \in Nat,
         NEW off \in Nat, NEW res \in Nat
  PROVE  Turned(Retry(h, p, off, res), n) /\ Silent(Retry(h, p, off, res), n)
<1> DEFINE e1 == Entry("zero", 0, off, 0, 0, 0, lenf, patb)
           e2 == Entry("BRXF", 0, 0, p, res, 0, lenf, patb)
<1>0. h \in Seq(Entries) /\ n <= Len(h) /\ n \in Nat
  BY DEF Turned
<1>1. e1 \in Entries /\ e2 \in Entries
  BY DEF TypeOK, Entry, Entries, EntryFns
<1>2. /\ e1.fn = "zero" /\ e2.fn = "BRXF" /\ e1.pat = patb /\ e2.pat = patb
      /\ {"zero", "BRXF"} \cap (Bounds \cup {"SCON", "DNME"}) = {}
  BY DEF Entry, Bounds
<1>5. Retry(h, p, off, res) = Append(Append(h, e1), e2)
  BY <1>0, <1>1 DEF Retry, e1, e2
<1> HIDE DEF e1, e2
<1>3. Turned(Append(h, e1), n) /\ Silent(Append(h, e1), n)
  BY <1>1, <1>2, TurnedPush
<1>4. n < Len(Append(h, e1)) /\ Last(Append(h, e1)) = e1
  BY <1>0, <1>1, OnTop
<1> QED
  BY <1>1, <1>2, <1>3, <1>4, <1>5, TurnedPush

(***************************************************************************)
(* How a handler ends                                                      *)
(***************************************************************************)
Ending(h) == \/ Salf(h) \/ Salt(h) \/ SaltOrSalf(h)
             \/ Exit(2, h) \/ Exit(3, h)
             \/ \E then, len : ScokWith(then, h, len)

LEMMA Ends ==
  ASSUME Running, NEW h, NEW n, Turned(h, n), UNCHANGED mach, Ending(h)
  PROVE  Moved(n) /\ pdl' = h
<1>1. pdl' = h /\ pc' # "start" /\ (pc' = "exit" => ret' \in {2, 3})
  BY DEF Ending, Salf, Salt, SaltOrSalf, Exit, ScokWith
<1> QED
  BY <1>1 DEF Moved, mach, Turned

LEMMA QuietEnds ==
  ASSUME Running, NEW h, NEW n, Turned(h, n), Silent(h, n), UNCHANGED mach,
         nam' = nam, Ending(h)
  PROVE  Quietly
<1>1. Moved(n) /\ pdl' = h /\ n \in Nat
  BY Ends DEF Turned
<1> QED
  BY <1>1 DEF Quietly

LEMMA Standstill ==
  ASSUME TypeOK, Running, pdl' = pdl, UNCHANGED <<nam, calls, patb>>,
         pc' \notin {"start", "exit"}
  PROVE  Quietly
<1>1. Moved(Len(pdl)) /\ Silent(pdl', Len(pdl)) /\ Len(pdl) \in Nat
  BY TurnedSame DEF Moved, TypeOK
<1> QED
  BY <1>1 DEF Quietly

LEMMA Endings ==
  ASSUME TypeOK, Fetched, UNCHANGED mach, nam' = nam
  PROVE  /\ Mismatch => Quietly
         /\ Short => Quietly
         /\ Wild => Quietly
         /\ SaltOrSalf(Own) => Quietly
         /\ \A c : Matched(c) => Quietly
<1>1. /\ Running /\ cursor \in Nat
      /\ Turned(Own, Len(pdl)) /\ Silent(Own, Len(pdl))
  BY TurnedOwn DEF Own, TypeOK, Fetched, Running, At
<1>2. Wild => Quietly
  BY <1>1, Standstill DEF Wild, mach
<1>3. Mismatch \/ Short \/ SaltOrSalf(Own) \/ (\E c : Matched(c)) => Ending(Own)
  BY DEF Mismatch, Short, Matched, Scok, Ending
<1> QED
  BY <1>1, <1>2, <1>3, QuietEnds

(***************************************************************************)
(* Nodes                                                                   *)
(***************************************************************************)
LEMMA CompareQuiet ==
  ASSUME TypeOK, Fetched, UNCHANGED mach, nam' = nam, NEW t, Compare(t)
  PROVE  Quietly
  BY Endings DEF Compare

LEMMA ClassQuiet ==
  ASSUME TypeOK, Chr \/ AnyOf \/ Break \/ BreakX \/ Span PROVE Quietly
<1>0. Fetched /\ UNCHANGED mach /\ nam' = nam
  BY DEF Chr, AnyOf, Break, BreakX, Span, IsAt, Plain
<1>1. CASE Chr
  BY <1>0, <1>1, CompareQuiet DEF Chr
<1>2. CASE AnyOf
  BY <1>0, <1>2, Endings DEF AnyOf
<1>3. CASE Break
  BY <1>0, <1>3, Endings DEF Break
<1>4. CASE BreakX
  <2>1. CASE Short
    BY <1>0, <2>1, Endings
  <2>2. ASSUME NEW p \in Stops(cursor, Node.arg),
               Scok(Node.then, Retry(Own, p, pati, Node.res))
        PROVE  Quietly
    <3>1. p \in Nat /\ pati \in Nat /\ Node.res \in Nat /\ cursor \in Nat
      BY <1>0, SubjectType, NodeType DEF Stops, TypeOK, IsNode
    <3>2. Turned(Own, Len(pdl)) /\ Silent(Own, Len(pdl))
      BY <1>0, <3>1, TurnedOwn DEF Own
    <3>3. /\ Turned(Retry(Own, p, pati, Node.res), Len(pdl))
          /\ Silent(Retry(Own, p, pati, Node.res), Len(pdl))
      BY <3>1, <3>2, TurnedRetry
    <3> QED
      BY <1>0, <2>2, <3>3, QuietEnds DEF Ending, Scok, Running, Fetched, At
  <2> QED
    BY <1>4, <2>1, <2>2 DEF BreakX, IsLeast
<1>5. CASE Span
  BY <1>0, <1>5, Endings DEF Span
<1> QED
  BY <1>1, <1>2, <1>3, <1>4, <1>5

LEMMA PlaceQuiet ==
  ASSUME TypeOK, LenNode \/ Pos \/ Rpos \/ Tab \/ Rtab \/ Pass \/ FailNode
  PROVE  Quietly
<1>0. Fetched /\ UNCHANGED mach /\ nam' = nam
  BY DEF LenNode, Pos, Rpos, Tab, Rtab, Pass, FailNode, IsAt, Plain
<1>1. Short \/ Mismatch \/ \E c : Matched(c)
  BY DEF LenNode, Pos, Rpos, Tab, Rtab, Pass, FailNode
<1> QED
  BY <1>0, <1>1, Endings

LEMMA ScanQuiet ==
  ASSUME TypeOK, \/ Farb \/ Bal \/ Abort \/ Succeed \/ Fnce
                 \/ TooShort \/ PdlFull
  PROVE  Quietly
<1>0. /\ UNCHANGED mach /\ nam' = nam /\ cursor \in Nat /\ lenf \in {0, 1}
      /\ Running
  BY DEF Farb, Bal, Abort, Succeed, Fnce, TooShort, PdlFull, Overflow, Plain,
     TypeOK, IsAt, Fetched, Running, At
<1>1. Salt(pdl) \/ Salf(pdl) => Quietly
  BY <1>0, TurnedSame, QuietEnds DEF Ending
<1>2. ASSUME Fetched, NEW c \in Nat, Scok(Node.then, OwnAt(c)) PROVE Quietly
  <2>1. Turned(OwnAt(c), Len(pdl)) /\ Silent(OwnAt(c), Len(pdl))
    BY <1>2, TurnedOwn
  <2> QED
    BY <1>0, <1>2, <2>1, QuietEnds DEF Ending, Scok
<1>3. ASSUME Fetched, NEW fn \in Trapping,
             ScokWith(Node.then, Append(Own, Trap(fn, cursor, lenf)), 1)
      PROVE  Quietly
  <2>1. Turned(Own, Len(pdl)) /\ Silent(Own, Len(pdl))
    BY <1>0, <1>3, TurnedOwn DEF Own
  <2>2. /\ Turned(Append(Own, Trap(fn, cursor, lenf)), Len(pdl))
        /\ Silent(Append(Own, Trap(fn, cursor, lenf)), Len(pdl))
    BY <1>0, <2>1, TurnedTrap
  <2> QED
    BY <1>0, <1>3, <2>2, QuietEnds DEF Ending
<1>4. CASE Farb
  <2>1. Fetched /\ cursor + 1 \in Nat
    BY <1>0, <1>4 DEF Farb, IsAt
  <2> QED
    BY <1>1, <1>2, <1>4, <2>1 DEF Farb
<1>5. CASE Bal
  <2>1. Fetched
    BY <1>5 DEF Bal, IsAt
  <2>2. \A len \in Int : \A e \in BalEnds(cursor, len) : e \in Nat
    BY <1>0 DEF BalEnds
  <2>3. maxlen - (cursor + Residual(Node.res)) \in Int
    BY <2>1, NodeType DEF Residual, IsNode, TypeOK
  <2>4. CASE Wild
    BY <1>0, <2>1, <2>4, Endings
  <2> QED
    BY <1>1, <1>2, <1>5, <2>1, <2>2, <2>3, <2>4 DEF Bal
<1>6. CASE Abort
  <2>1. Fetched /\ Exit(3, Own)
    BY <1>6 DEF Abort, IsAt
  <2>2. Turned(Own, Len(pdl)) /\ Silent(Own, Len(pdl))
    BY <1>0, <2>1, TurnedOwn DEF Own
  <2> QED
    BY <1>0, <2>1, <2>2, QuietEnds DEF Ending
<1>7. CASE Succeed
  BY <1>3, <1>7 DEF Succeed, IsAt, Trapping
<1>8. CASE Fnce
  BY <1>3, <1>8 DEF Fnce, IsAt, Trapping
<1>9. CASE TooShort
  <2>1. Fetched /\ Short
    BY <1>9 DEF TooShort, Short
  <2> QED
    BY <1>0, <2>1, Endings
<1>10. CASE PdlFull
  BY <1>0, <1>10, Standstill DEF PdlFull, Overflow, mach
<1> QED
  BY <1>4, <1>5, <1>6, <1>7, <1>8, <1>9, <1>10

LEMMA ArbnoQuiet ==
  ASSUME TypeOK, Arbn \/ Arbf \/ Earb \/ Onar \/ Onrf PROVE Quietly
<1>0. Fetched /\ UNCHANGED mach /\ nam' = nam /\ Running
  BY DEF Arbn, Arbf, Earb, Onar, Onrf, IsAt, Fetched, Running, At
<1>1. CASE Arbn \/ Arbf
  BY <1>0, <1>1, Endings DEF Arbn, Arbf
<1>2. CASE Earb
  <2>1. CASE HasCursor
    <3> DEFINE e == Entry("earb", 0, 0, cursor, 0, Last(stk).v, 0, patb)
    <3>1. e \in Entries
      BY <2>1, CursorOnTop, Parts
         DEF Entry, Entries, EntryFns, Control, Stores
    <3>2. /\ e.fn = "earb" /\ e.pat = patb
          /\ "earb" \notin Bounds \cup {"SCON", "BRXF", "DNME"}
      BY DEF Entry, Bounds
    <3>3. ScokWith(Node.then, Append(pdl, e), lenf)
      BY <1>2, <2>1 DEF Earb, Scok
    <3> HIDE DEF e
    <3>4. Turned(Append(pdl, e), Len(pdl)) /\ Silent(Append(pdl, e), Len(pdl))
      BY <3>1, <3>2, TurnedSame, TurnedPush
    <3> QED
      BY <1>0, <3>3, <3>4, QuietEnds DEF Ending
  <2>2. CASE Wild
    BY <1>0, <2>2, Endings
  <2> QED
    BY <1>2, <2>1, <2>2 DEF Earb
<1>3. ASSUME AtEarb, Onar1 PROVE Quietly
  <2>1. pdl # <<>> /\ Top.fn = "earb" /\ SaltOrSalf(Rest)
    BY <1>3 DEF AtEarb, Onar1, Top, Rest
  <2>2. Turned(Rest, Len(pdl) - 1) /\ Silent(Rest, Len(pdl) - 1)
    BY <2>1, TurnedRest DEF Bounds
  <2> QED
    BY <1>0, <2>1, <2>2, QuietEnds DEF Ending
<1>4. CASE Onar
  BY <1>0, <1>3, <1>4, Endings DEF Onar
<1>5. CASE Onrf
  BY <1>0, <1>3, <1>5, Endings DEF Onrf
<1> QED
  BY <1>1, <1>2, <1>4, <1>5

\* What a step that stores a value in a variable too does to the list.
LEMMA QuietStores ==
  ASSUME Running, NEW h, NEW n, Turned(h, n), Silent(h, n),
         UNCHANGED <<nam, calls, patb>>, Ending(h)
  PROVE  Quietly
<1>1. pdl' = h /\ pc' # "start" /\ (pc' = "exit" => ret' \in {2, 3})
  BY DEF Ending, Salf, Salt, SaltOrSalf, Exit, ScokWith
<1> QED
  BY <1>1 DEF Quietly, Moved, Turned

LEMMA TurnedUndo ==
  ASSUME TypeOK, Fetched, NEW fn \in {"DNME", "DNMI"}, NEW from \in Nat
  PROVE  /\ Turned(Undo(fn, from), Len(pdl))
         /\ fn # "DNME" => Silent(Undo(fn, from), Len(pdl))
         /\ Undo(fn, from)[Len(Undo(fn, from))].fn = fn
         /\ Len(Undo(fn, from)) = Len(pdl) + 2
         /\ Undo(fn, from)[Len(pdl) + 1].fn = "node"
<1> DEFINE e == Entry(fn, 0, 0, cursor, 0, from, lenf, patb)
           o == Entry("node", Node.alt, Node.then, cursor, Node.res, 0, lenf, patb)
<1>0. pdl \in Seq(Entries) /\ Len(pdl) \in Nat /\ cursor \in Nat
  BY DEF TypeOK
<1>1. e \in Entries
  BY DEF TypeOK, Entry, Entries, EntryFns
<1>2. /\ e.fn = fn /\ e.pat = patb
      /\ {"DNME", "DNMI"} \cap (Bounds \cup {"SCON", "BRXF"}) = {}
  BY DEF Entry, Bounds
<1>3. o \in Entries /\ o.fn = "node"
  BY NodeType DEF TypeOK, Entry, Entries, EntryFns, IsNode
<1>4. Undo(fn, from) = Append(Own, e) /\ Own = Append(pdl, o)
  BY DEF Undo, Own, OwnAt
<1> HIDE DEF e, o
<1>5. Turned(Own, Len(pdl)) /\ Silent(Own, Len(pdl))
  BY <1>0, TurnedOwn DEF Own
<1>6. /\ Turned(Undo(fn, from), Len(pdl))
      /\ fn # "DNME" => Silent(Undo(fn, from), Len(pdl))
  BY <1>1, <1>2, <1>4, <1>5, TurnedPush
<1>7. /\ Own \in Seq(Entries) /\ Len(Own) = Len(pdl) + 1 /\ Own[Len(pdl) + 1] = o
  BY <1>0, <1>3, <1>4, OnTop
<1>8. /\ Len(Append(Own, e)) = Len(pdl) + 2
      /\ Append(Own, e)[Len(pdl) + 2] = e
      /\ Append(Own, e)[Len(pdl) + 1] = o
  BY <1>0, <1>1, <1>7, OnTop
<1> QED
  BY <1>2, <1>3, <1>4, <1>6, <1>8

LEMMA NamingQuiet ==
  ASSUME TypeOK, Atp \/ Nme \/ Enmi \/ Star PROVE Quietly
<1>0. Fetched /\ UNCHANGED <<nam, calls, patb>> /\ Running /\ cursor \in Nat
      /\ lenf \in {0, 1}
  BY DEF Atp, Nme, Enmi, Star, IsAt, Fetched, mach, Running, At, TypeOK
<1>1. Turned(Own, Len(pdl)) /\ Silent(Own, Len(pdl))
  BY <1>0, TurnedOwn DEF Own
<1>2. \/ Matched(cursor) \/ Short \/ Mismatch \/ \E c : Matched(c)
      => Quietly
  BY <1>0, <1>1, QuietStores
     DEF Matched, Scok, Short, Mismatch, Ending
<1>3. CASE Atp
  BY <1>2, <1>3 DEF Atp
<1>4. CASE Nme
  <2>1. "FNME" \in Trapping
    BY DEF Trapping
  <2>2. /\ Turned(Append(Own, Trap("FNME", cursor, lenf)), Len(pdl))
        /\ Silent(Append(Own, Trap("FNME", cursor, lenf)), Len(pdl))
    BY <1>0, <1>1, <2>1, TurnedTrap
  <2> QED
    BY <1>0, <1>4, <2>2, QuietStores DEF Nme, Ending
<1>5. CASE Enmi
  <2>1. CASE HasCursor
    <3>1. Last(stk).v \in Nat
      BY <2>1, CursorOnTop, Parts
    <3>2. /\ Turned(Undo("DNMI", Last(stk).v), Len(pdl))
          /\ Silent(Undo("DNMI", Last(stk).v), Len(pdl))
      BY <1>0, <3>1, TurnedUndo
    <3>3. ScokWith(Node.then, Undo("DNMI", Last(stk).v), 1)
      BY <1>5, <2>1 DEF Enmi
    <3> QED
      BY <1>0, <3>2, <3>3, QuietStores DEF Ending
  <2>2. CASE Wild
    BY <1>0, <2>2, Standstill DEF Wild
  <2> QED
    BY <1>5, <2>1, <2>2 DEF Enmi
<1>6. CASE Star
  BY <1>2, <1>6 DEF Star, Compare
<1> QED
  BY <1>3, <1>4, <1>5, <1>6

(***************************************************************************)
(* Entries popped                                                          *)
(***************************************************************************)
\* BREAKX's retry takes two entries off: its own and the offset under it.
LEMMA TurnedTwo ==
  ASSUME TypeOK, Formed(pdl), PopsTo("BRXF"), Len(pdl) > 2
  PROVE  /\ Turned(SubSeq(pdl, 1, Len(pdl) - 2), Len(pdl) - 2)
         /\ Silent(SubSeq(pdl, 1, Len(pdl) - 2), Len(pdl) - 2)
         /\ pdl[Len(pdl) - 1] \in Entries /\ Top \in Entries
<1>1. /\ pdl \in Seq(Entries) /\ Len(pdl) \in Nat /\ DOMAIN pdl = 1 .. Len(pdl)
      /\ Len(pdl) \in DOMAIN pdl /\ Len(pdl) - 1 \in DOMAIN pdl
  BY DEF TypeOK
<1>2. Top = pdl[Len(pdl)]
  BY DEF Top, Last
<1>3. pdl[Len(pdl)].fn = "BRXF" /\ pdl[Len(pdl) - 1].fn = "zero"
  BY <1>1, <1>2 DEF Formed, PopsTo
<1>4. \A i \in DOMAIN pdl : i > Len(pdl) - 2 => i = Len(pdl) \/ i = Len(pdl) - 1
  BY <1>1
<1>5. {"zero", "BRXF"} \cap (Bounds \cup {"SCON", "DNME"}) = {}
  BY DEF Bounds
<1> DEFINE h == SubSeq(pdl, 1, Len(pdl) - 2)
<1>6. /\ h \in Seq(Entries) /\ Len(h) = Len(pdl) - 2
      /\ \A i \in DOMAIN h : i \in DOMAIN pdl /\ h[i] = pdl[i]
  BY <1>1, CutBack
<1> HIDE DEF h
<1>7. \A i \in DOMAIN h : ~ (i > Len(pdl) - 2)
  BY <1>1, <1>6
<1>8. Turned(h, Len(pdl) - 2) /\ Silent(h, Len(pdl) - 2)
  BY <1>1, <1>3, <1>4, <1>5, <1>6, <1>7 DEF Turned, Silent, Above
<1> QED
  BY <1>1, <1>2, <1>8 DEF h

LEMMA PopQuiet ==
  ASSUME TypeOK, Formed(pdl), Dead \/ Alternative \/ Fncf \/ Sucf \/ Fnme
  PROVE  Quietly
<1>0. /\ pdl # <<>> /\ Running /\ UNCHANGED <<nam, calls, patb>> /\ Back \in Nat
      /\ lenf \in {0, 1}
  <2>1. pdl # <<>> /\ Running /\ UNCHANGED <<nam, calls, patb>>
    BY DEF Dead, Alternative, Fncf, Sucf, Fnme, PopsTo, Popping, Running, At,
       Plain, mach
  <2> QED
    BY <2>1, BackType DEF TypeOK
<1>1. /\ Top.fn \notin Bounds \cup {"DNME"}
      /\ Turned(Rest, Len(pdl) - 1) /\ Silent(Rest, Len(pdl) - 1)
  <2>1. Top.fn \in {"node", "zero", "earb", "FNCF", "SUCF", "FNME"}
    BY DEF Dead, Alternative, Fncf, Sucf, Fnme, PopsTo
  <2>2. Top.fn \notin Bounds \cup {"DNME"}
    BY <2>1 DEF Bounds
  <2> QED
    BY <1>0, <2>2, TurnedRest
<1>2. Ending(Rest) => Quietly
  BY <1>0, <1>1, QuietStores
<1>3. CASE Dead \/ Fncf
  BY <1>2, <1>3 DEF Dead, Fncf, Ending
<1>4. CASE Alternative
  <2>1. Moved(Len(pdl) - 1) /\ pdl' = Rest /\ Len(pdl) - 1 \in Nat
    BY <1>0, <1>1, <1>4 DEF Alternative, Moved, Turned
  <2> QED
    BY <1>0, <1>1, <2>1 DEF Quietly
<1>5. CASE Sucf
  <2>1. CASE Wild
    BY <1>0, <2>1, Standstill DEF Wild
  <2>2. CASE ScokWith(Last(Rest).then, Append(Rest, Trap("SUCF", Back, lenf)), 1)
    <3>1. "SUCF" \in Trapping
      BY DEF Trapping
    <3>2. /\ Turned(Append(Rest, Trap("SUCF", Back, lenf)), Len(pdl) - 1)
          /\ Silent(Append(Rest, Trap("SUCF", Back, lenf)), Len(pdl) - 1)
      BY <1>0, <1>1, <3>1, TurnedTrap
    <3> QED
      BY <1>0, <2>2, <3>2, QuietStores DEF Ending
  <2> QED
    BY <1>5, <2>1, <2>2 DEF Sucf
<1>6. CASE Fnme
  <2>1. CASE HasCursor
    BY <1>2, <1>6, <2>1 DEF Fnme, Ending
  <2>2. CASE ~HasCursor
    BY <1>0, <1>6, <2>2, Standstill DEF Fnme
  <2> QED
    BY <2>1, <2>2
<1> QED
  BY <1>3, <1>4, <1>5, <1>6

LEMMA BrxfQuiet == ASSUME TypeOK, Formed(pdl), Brxf PROVE Quietly
<1> DEFINE h   == SubSeq(pdl, 1, Len(pdl) - 2)
           off == pdl[Len(pdl) - 1].then
<1>1. /\ Running /\ UNCHANGED <<nam, calls, patb>> /\ pdl # <<>>
      /\ PopsTo("BRXF") /\ Len(pdl) > 2
  BY DEF Brxf, PopsTo, Popping, Running, At, Plain, mach
<1>2. Back \in Nat /\ lenf \in {0, 1} /\ L \in Nat /\ tmval \in Nat
  BY <1>1, BackType, SubjectType DEF TypeOK
<1>3. /\ Turned(h, Len(pdl) - 2) /\ Silent(h, Len(pdl) - 2) /\ off \in Nat
  BY <1>1, TurnedTwo DEF Entries
<1>4. \/ Salt(h)
      \/ \E p \in Stops(Back + 1, Block(patb)[off].arg) :
           Scok(Last(h).then, Retry(h, p, off, tmval))
  BY DEF Brxf
<1> HIDE DEF h, off
<1>5. CASE Salt(h)
  BY <1>1, <1>3, <1>5, QuietStores DEF Ending
<1>6. ASSUME NEW p \in Stops(Back + 1, Block(patb)[off].arg),
             Scok(Last(h).then, Retry(h, p, off, tmval))
      PROVE  Quietly
  <2>1. p \in Nat
    BY <1>2 DEF Stops
  <2>2. /\ Turned(Retry(h, p, off, tmval), Len(pdl) - 2)
        /\ Silent(Retry(h, p, off, tmval), Len(pdl) - 2)
    BY <1>2, <1>3, <2>1, TurnedRetry
  <2> QED
    BY <1>1, <1>6, <2>2, QuietStores DEF Ending, Scok
<1> QED
  BY <1>4, <1>5, <1>6

\* DSAR that calls no scan, and the program going astray on the way.
LEMMA DsarQuiet ==
  ASSUME TypeOK, Dsar, calls' = calls PROVE Quietly
<1>0. Fetched /\ Running /\ calls \in Seq(Frames)
  BY DEF Dsar, IsAt, Fetched, Running, At, TypeOK
<1>1. \A f : Append(calls, f) # calls
  <2>1. \A f : Len(Append(calls, f)) = Len(calls) + 1 /\ Len(calls) \in Nat
    BY <1>0
  <2> QED
    BY <2>1
<1>2. \/ Wild /\ Plain
      \/ SaltOrSalf(Own) /\ Plain
      \/ Overflow
  BY <1>1 DEF Dsar
<1>3. CASE (Wild /\ Plain) \/ Overflow
  BY <1>0, <1>3, Standstill DEF Wild, Overflow, Plain, mach
<1>4. CASE SaltOrSalf(Own) /\ Plain
  BY <1>0, <1>4, Endings DEF Plain
<1> QED
  BY <1>2, <1>3, <1>4

(***************************************************************************)
(* The two entries that put a name on the list and take it off             *)
(***************************************************************************)
LEMMA EnmeMoves == ASSUME TypeOK, Enme PROVE Moves
<1>0. Fetched /\ UNCHANGED mach /\ Running /\ Len(pdl) \in Nat
  BY DEF Enme, IsAt, Fetched, Running, At, TypeOK
<1>1. CASE HasCursor
  <2>1. Last(stk).v \in Nat
    BY <1>1, CursorOnTop, Parts
  <2>2. Turned(Undo("DNME", Last(stk).v), Len(pdl))
    BY <1>0, <2>1, TurnedUndo
  <2>3. Ending(Undo("DNME", Last(stk).v))
    BY <1>1 DEF Enme, Ending
  <2> QED
    BY <1>0, <2>2, <2>3, Ends DEF Moves
<1>2. CASE Wild /\ UNCHANGED nam
  BY <1>0, <1>2, Standstill DEF Wild, mach, Quietly, Moves
<1> QED
  BY <1>1, <1>2 DEF Enme

LEMMA UndoneMoves == ASSUME TypeOK, Undone PROVE Moves
<1>0. /\ pdl # <<>> /\ Top.fn \in {"DNME", "DNMI"} /\ Running
      /\ UNCHANGED mach /\ SaltOrSalf(Rest)
  BY DEF Undone, PopsTo, Popping, Running, At
<1>1. Turned(Rest, Len(pdl) - 1) /\ Len(pdl) - 1 \in Nat
  BY <1>0, TurnedRest DEF Bounds, Turned
<1> QED
  BY <1>0, <1>1, Ends DEF Moves, Ending

\* Every step but those of calls, returns, bounds and the statement itself.
Ordinary ==
  \/ Fetch /\ ~StarCall /\ ~Fnca /\ (Dsar => calls' = calls)
  \/ Dead \/ Alternative \/ Fncf \/ Sucf \/ Brxf \/ Fnme \/ Undone

LEMMA OrdinarySteps ==
  ASSUME TypeOK, Formed(pdl), Ordinary
  PROVE  Quietly \/ (Moves /\ (Enme \/ Undone))
<1>1. CASE Chr \/ AnyOf \/ Break \/ BreakX \/ Span
  BY <1>1, ClassQuiet
<1>2. CASE LenNode \/ Pos \/ Rpos \/ Tab \/ Rtab \/ Pass \/ FailNode
  BY <1>2, PlaceQuiet
<1>3. CASE \/ Farb \/ Bal \/ Abort \/ Succeed \/ Fnce \/ TooShort \/ PdlFull
  BY <1>3, ScanQuiet
<1>4. CASE Arbn \/ Arbf \/ Earb \/ Onar \/ Onrf
  BY <1>4, ArbnoQuiet
<1>5. CASE Atp \/ Nme \/ Enmi \/ Star
  BY <1>5, NamingQuiet
<1>6. CASE Dsar /\ calls' = calls
  BY <1>6, DsarQuiet
<1>7. CASE Dead \/ Alternative \/ Fncf \/ Sucf \/ Fnme
  BY <1>7, PopQuiet
<1>8. CASE Brxf
  BY <1>8, BrxfQuiet
<1>9. CASE Enme
  BY <1>9, EnmeMoves
<1>10. CASE Undone
  BY <1>10, UndoneMoves
<1> QED
  BY <1>1, <1>2, <1>3, <1>4, <1>5, <1>6, <1>7, <1>8, <1>9, <1>10
     DEF Ordinary, Fetch

LEMMA QuietMoves == ASSUME Quietly PROVE Moves
  BY DEF Quietly, Moves

(***************************************************************************)
(* Lists is kept                                                           *)
(***************************************************************************)
\* A list that agrees with pdl on its first n entries, all that frames own
\* among them.
LEMMA FramedCut ==
  ASSUME NEW c \in Seq(Frames), NEW h \in Seq(Entries), NEW n \in Nat,
         n <= Len(pdl), n <= Len(h), pdl \in Seq(Entries),
         \A i \in DOMAIN h : i <= n => h[i] = pdl[i],
         \A k \in DOMAIN c : Based(pdl, c[k].base) /\ c[k].base <= n,
         \A j, k \in DOMAIN c : j < k => c[j].base < c[k].base,
         NEW open \in BOOLEAN
  PROVE  Framed(c, h, open)
<1>1. ASSUME NEW k \in DOMAIN c PROVE Based(h, c[k].base)
  <2>1. c[k].base \in DOMAIN pdl /\ c[k].base <= n /\ pdl[c[k].base].fn = "SCFL"
    BY DEF Based
  <2>2. c[k].base \in DOMAIN h
    BY <2>1
  <2> QED
    BY <2>1, <2>2 DEF Based
<1> QED
  BY <1>1 DEF Framed

\* Below the SCFL entry of the frame called last.
LEMMA FramedBelow ==
  ASSUME TypeOK, calls # <<>>, Framed(calls, pdl, TRUE)
  PROVE  /\ Caller.base \in Nat /\ Caller.base <= Len(pdl) + 1 /\ Caller.base >= 1
         /\ Front(calls) \in Seq(Frames)
         /\ \A k \in DOMAIN Front(calls) :
              /\ k \in DOMAIN calls /\ Front(calls)[k] = calls[k]
              /\ Based(pdl, calls[k].base) /\ calls[k].base < Caller.base
         /\ \A j, k \in DOMAIN Front(calls) : j < k =>
              Front(calls)[j].base < Front(calls)[k].base
<1>1. /\ calls \in Seq(Frames) /\ Len(calls) \in Nat \ {0}
      /\ Caller = calls[Len(calls)] /\ Caller \in Frames
      /\ Front(calls) \in Seq(Frames) /\ Len(Front(calls)) = Len(calls) - 1
      /\ \A k \in DOMAIN Front(calls) : k \in DOMAIN calls /\ Front(calls)[k] = calls[k]
  BY Popped DEF TypeOK, Caller
<1>2. Len(calls) \in DOMAIN calls /\ DOMAIN Front(calls) = 1 .. Len(calls) - 1
  BY <1>1
<1>3. Len(pdl) \in Nat /\ DOMAIN pdl = 1 .. Len(pdl)
  BY DEF TypeOK
<1>4. Caller.base \in Nat /\ Caller.base <= Len(pdl) + 1 /\ Caller.base >= 1
  <2>1. Caller.base \in DOMAIN pdl \/ Caller.base = Len(pdl) + 1
    BY <1>1, <1>2 DEF Framed, Based
  <2> QED
    BY <1>3, <2>1
<1>5. ASSUME NEW k \in DOMAIN Front(calls)
      PROVE  Based(pdl, calls[k].base) /\ calls[k].base < Caller.base
  BY <1>1, <1>2 DEF Framed
<1> QED
  BY <1>1, <1>4, <1>5 DEF Framed

LEMMA FormedMoved ==
  ASSUME TypeOK, Formed(pdl), NEW n, Moved(n) PROVE Formed(pdl')
<1>1. Turned(pdl', n)
  BY DEF Moved
<1>2. ASSUME NEW i \in DOMAIN pdl'
      PROVE  /\ Shaped(pdl'[i], i)
             /\ pdl'[i].fn = "BRXF" => i > 1 /\ pdl'[i - 1].fn = "zero"
  <2>1. CASE i <= n
    <3>1. i \in DOMAIN pdl /\ pdl'[i] = pdl[i] /\ i \in Nat /\ i >= 1
      BY <1>1, <2>1 DEF Turned, TypeOK
    <3>2. i > 1 => i - 1 \in DOMAIN pdl' /\ pdl'[i - 1] = pdl[i - 1]
      BY <1>1, <2>1, <3>1 DEF Turned
    <3> QED
      BY <3>1, <3>2 DEF Formed, Shaped
  <2>2. CASE i > n
    <3>1. pdl'[i].fn \notin Bounds \cup {"SCON"}
      BY <1>1, <2>2 DEF Turned, Above
    <3>2. pdl'[i].fn = "BRXF" => i > n + 1 /\ pdl'[i - 1].fn = "zero"
      BY <1>1, <2>2 DEF Turned
    <3>3. n \in Nat /\ i \in Nat
      BY <1>1 DEF Turned
    <3>4. pdl'[i].fn # "FNCD" /\ pdl'[i].fn # "SCON"
      BY <3>1 DEF Bounds
    <3> QED
      BY <3>2, <3>3, <3>4 DEF Shaped
  <2>3. i \in Nat /\ n \in Nat
    BY <1>1 DEF Turned
  <2> QED
    BY <2>1, <2>2, <2>3
<1> QED
  BY <1>2 DEF Formed

\* What every step but the first does to the other parts of Lists.
LEMMA ListsStep ==
  ASSUME TypeOK, pc' # "start", Formed(pdl'),
         Build = "isnobol4" /\ pc' # "wild" => Framed(calls', pdl', Failing')
  PROVE  Lists'
  BY DEF Lists, At

\* Frames own entries among the first n.
LEMMA FramesStay ==
  ASSUME TypeOK, Framed(calls, pdl, FALSE), NEW h, NEW n, Turned(h, n)
  PROVE  \A k \in DOMAIN calls : Based(pdl, calls[k].base) /\ calls[k].base <= n
<1>1. ASSUME NEW k \in DOMAIN calls
      PROVE  Based(pdl, calls[k].base) /\ calls[k].base <= n
  <2>1. Based(pdl, calls[k].base)
    BY DEF Framed
  <2>2. ~ (calls[k].base > n)
    BY <2>1 DEF Based, Turned, Above, Bounds
  <2>3. calls[k] \in Frames
    BY DEF TypeOK
  <2>4. calls[k].base \in Nat /\ n \in Nat
    BY <2>3 DEF Frames, Turned
  <2> QED
    BY <2>1, <2>2, <2>4
<1> QED
  BY <1>1

LEMMA ListsMoved ==
  ASSUME TypeOK, Lists, Moves PROVE Lists'
<1>1. PICK n \in Nat : Moved(n)
  BY DEF Moves
<1>2. Formed(pdl')
  BY <1>1, FormedMoved DEF Lists
<1>3. ASSUME Build = "isnobol4" PROVE Framed(calls', pdl', Failing')
  <2>1. Framed(calls, pdl, FALSE)
    BY <1>1, <1>3 DEF Lists, Moved, Running, Failing, At
  <2>2. Turned(pdl', n) /\ calls' = calls
    BY <1>1 DEF Moved
  <2>3. \A k \in DOMAIN calls : Based(pdl, calls[k].base) /\ calls[k].base <= n
    BY <2>1, <2>2, FramesStay
  <2>4. \A j, k \in DOMAIN calls : j < k => calls[j].base < calls[k].base
    BY <2>1 DEF Framed
  <2>5. /\ pdl' \in Seq(Entries) /\ n <= Len(pdl) /\ n <= Len(pdl')
        /\ \A i \in DOMAIN pdl' : i <= n => pdl'[i] = pdl[i]
    BY <2>2 DEF Turned
  <2>6. Failing' \in BOOLEAN /\ calls \in Seq(Frames) /\ pdl \in Seq(Entries)
    BY DEF Failing, At, TypeOK
  <2>7. Framed(calls, pdl', Failing')
    BY <2>3, <2>4, <2>5, <2>6, FramedCut
  <2> QED
    BY <2>2, <2>7
<1> QED
  BY <1>1, <1>2, <1>3, ListsStep DEF Moved

\* A prefix of the list is formed too, and so is the list with one more
\* entry that is in its place.
LEMMA FormedPrefix ==
  ASSUME Formed(pdl), pdl \in Seq(Entries), NEW h \in Seq(Entries),
         Len(h) <= Len(pdl), \A i \in DOMAIN h : h[i] = pdl[i]
  PROVE  Formed(h)
<1>1. ASSUME NEW i \in DOMAIN h
      PROVE  /\ Shaped(h[i], i)
             /\ h[i].fn = "BRXF" => i > 1 /\ h[i - 1].fn = "zero"
  <2>1. i \in DOMAIN pdl /\ h[i] = pdl[i] /\ i \in Nat
    OBVIOUS
  <2>2. i > 1 => i - 1 \in DOMAIN h /\ h[i - 1] = pdl[i - 1]
    BY <2>1
  <2> QED
    BY <2>1, <2>2 DEF Formed
<1> QED
  BY <1>1 DEF Formed

LEMMA FormedPush ==
  ASSUME NEW h \in Seq(Entries), Formed(h), NEW e \in Entries,
         e.fn # "BRXF", Shaped(e, Len(h) + 1)
  PROVE  Formed(Append(h, e))
<1>1. /\ Append(h, e) \in Seq(Entries) /\ Len(Append(h, e)) = Len(h) + 1
      /\ \A i \in DOMAIN Append(h, e) :
           /\ Append(h, e)[i] = IF i = Len(h) + 1 THEN e ELSE h[i]
           /\ i # Len(h) + 1 => i \in DOMAIN h
  BY OnTop
<1>2. ASSUME NEW i \in DOMAIN h
      PROVE  /\ Append(h, e)[i] = h[i]
             /\ i > 1 => Append(h, e)[i - 1] = h[i - 1]
  BY <1>1
<1> QED
  BY <1>1, <1>2 DEF Formed

LEMMA FramedNone == ASSUME NEW h, NEW open PROVE Framed(<<>>, h, open)
  BY DEF Framed

LEMMA FormedOne ==
  ASSUME NEW e \in Entries, e.fn \in {"SCON", "SCFL"} PROVE Formed(<<e>>)
<1>1. \A i \in DOMAIN <<e>> : i = 1 /\ <<e>>[i] = e
  OBVIOUS
<1> QED
  BY <1>1 DEF Formed, Shaped

LEMMA ListsScnr == ASSUME TypeOK, TypeOK', Lists, Scnr PROVE Lists'
<1>1. calls' = calls /\ calls = <<>> /\ pdl = <<>> /\ pc' # "start"
  BY DEF Scnr, Begin, Lists, Plain, mach
<1>2. CASE pdl' = pdl
  BY <1>1, <1>2, FramedNone, ListsStep DEF Lists
<1>3. ASSUME NEW fn \in {"SCON", "SCFL"}, NEW s, Begin(fn, s) PROVE Formed(pdl')
  <2>1. PICK e : pdl' = <<e>> /\ e.fn = fn
    BY <1>3 DEF Begin, Trap, Entry
  <2>2. e \in Entries
    <3>1. pdl' \in Seq(Entries)
      BY DEF TypeOK
    <3> QED
      BY <2>1, <3>1
  <2> QED
    BY <1>3, <2>1, <2>2, FormedOne
<1>4. pdl' = pdl \/ Formed(pdl')
  BY <1>3 DEF Scnr
<1> QED
  BY <1>1, <1>2, <1>4, FramedNone, ListsStep

\* STAR, FNCA and the DSAR of isnobol4.c push a frame and the SCFL entry
\* that its base names; the DSAR of snobol4.c the frame alone.
Called == \E kind, inner :
  /\ pdl' = Append(Own, Trap("SCFL", cursor, lenf))
  /\ calls' = Append(calls, Frame(kind, inner, Len(pdl')))

LEMMA FormedOwn ==
  ASSUME TypeOK, Formed(pdl), Fetched
  PROVE  Formed(Own) /\ Own \in Seq(Entries) /\ Len(Own) = Len(pdl) + 1
         /\ \A i \in DOMAIN pdl : i \in DOMAIN Own /\ Own[i] = pdl[i]
<1> DEFINE e == Entry("node", Node.alt, Node.then, cursor, Node.res, 0, lenf, patb)
<1>1. e \in Entries /\ pdl \in Seq(Entries)
  BY NodeType DEF TypeOK, Entry, Entries, EntryFns, IsNode
<1>2. e.fn = "node"
  BY DEF Entry
<1>3. Own = Append(pdl, e)
  BY DEF Own, OwnAt
<1> HIDE DEF e
<1>4. Formed(Append(pdl, e))
  BY <1>1, <1>2, FormedPush DEF Shaped
<1> QED
  BY <1>1, <1>3, <1>4, OnTop

LEMMA ListsCalled ==
  ASSUME TypeOK, TypeOK', Lists, Fetched, Called, pc' # "start" PROVE Lists'
<1> DEFINE e == Trap("SCFL", cursor, lenf)
<1>1. PICK kind, inner :
         /\ pdl' = Append(Own, e)
         /\ calls' = Append(calls, Frame(kind, inner, Len(pdl')))
  BY DEF Called
<1> DEFINE f == Frame(kind, inner, Len(pdl'))
<1>2. /\ Own \in Seq(Entries) /\ Len(Own) = Len(pdl) + 1 /\ Formed(Own)
      /\ \A i \in DOMAIN pdl : i \in DOMAIN Own /\ Own[i] = pdl[i]
  BY FormedOwn DEF Lists
<1>3. e \in Entries /\ e.fn = "SCFL"
  BY TrapType DEF TypeOK, EntryFns, Trap, Entry
<1>4. f.base = Len(pdl')
  BY DEF Frame
<1> HIDE DEF e, f
<1>5. Formed(pdl')
  BY <1>1, <1>2, <1>3, FormedPush DEF Shaped
<1>6. /\ Len(pdl') = Len(pdl) + 2 /\ pdl'[Len(pdl')] = e /\ pdl' \in Seq(Entries)
      /\ \A i \in DOMAIN pdl : pdl'[i] = pdl[i]
  BY <1>1, <1>2, <1>3, OnTop
<1>7. calls \in Seq(Frames) /\ f \in Frames
  <2>1. calls' \in Seq(Frames) /\ calls \in Seq(Frames)
    BY DEF TypeOK
  <2>2. calls' = Append(calls, f) /\ Len(calls') = Len(calls) + 1
    BY <1>1, <2>1 DEF f
  <2>3. calls'[Len(calls) + 1] = f
    BY <2>1, <2>2
  <2> QED
    BY <2>1, <2>2, <2>3
<1>8. /\ Len(calls') = Len(calls) + 1
      /\ \A k \in DOMAIN calls' :
           /\ calls'[k] = IF k = Len(calls) + 1 THEN f ELSE calls[k]
           /\ k # Len(calls) + 1 => k \in DOMAIN calls
  BY <1>1, <1>7, OnTop DEF f
<1>9. ASSUME Build = "isnobol4" PROVE Framed(calls', pdl', Failing')
  <2>1. Framed(calls, pdl, FALSE)
    BY <1>9 DEF Lists, Failing, Fetched, At
  <2>2. Len(pdl) \in Nat /\ Len(calls) \in Nat
    BY DEF TypeOK
  <2>3. ASSUME NEW k \in DOMAIN calls
        PROVE  /\ Based(pdl', calls[k].base) /\ calls[k].base < f.base
    <3>1. Based(pdl, calls[k].base)
      BY <2>1 DEF Framed
    <3> QED
      BY <1>4, <1>6, <2>2, <3>1 DEF Based
  <2>4. Based(pdl', f.base)
    BY <1>3, <1>4, <1>6, <2>2 DEF Based
  <2>5. \A k \in DOMAIN calls' : Based(pdl', calls'[k].base)
    BY <1>8, <2>3, <2>4
  <2>6. ASSUME NEW j \in DOMAIN calls', NEW k \in DOMAIN calls', j < k
        PROVE  calls'[j].base < calls'[k].base
    <3>1. j # Len(calls) + 1
      BY <1>8, <2>2, <2>6
    <3>2. CASE k = Len(calls) + 1
      BY <1>8, <2>3, <3>1, <3>2
    <3>3. CASE k # Len(calls) + 1
      BY <1>8, <2>1, <2>6, <3>1, <3>3 DEF Framed
    <3> QED
      BY <3>2, <3>3
  <2> QED
    BY <2>5, <2>6 DEF Framed
<1> QED
  BY <1>5, <1>9, ListsStep

LEMMA ListsCalls ==
  ASSUME TypeOK, TypeOK', Lists, StarCall \/ Fnca \/ (Dsar /\ calls' # calls)
  PROVE  Lists'
<1>0. Fetched /\ pc' # "start" /\ (SaltOrSalf(Own) => pdl' = Own)
  BY DEF StarCall, Fnca, Dsar, IsAt, Call, Wild, Overflow, SaltOrSalf, Salt,
     Salf
<1>1. CASE StarCall
  <2>1. Called
    BY <1>1 DEF StarCall, Call, Called
  <2> QED
    BY <1>0, <2>1, ListsCalled
<1>2. CASE Fnca
  <2>1. Called
    BY <1>2 DEF Fnca, Call, Called
  <2> QED
    BY <1>0, <2>1, ListsCalled
<1>3. CASE Dsar /\ calls' # calls
  <2> DEFINE h == IF Build = "isnobol4"
                  THEN Append(Own, Trap("SCFL", cursor, lenf)) ELSE Own
  <2>1. \E v : SaltOrSalf(h) /\ calls' = Append(calls, Frame("DSAR", v.p, Len(h)))
    BY <1>3 DEF Dsar, Plain, mach, Overflow
  <2>2. pdl' = h
    BY <2>1 DEF SaltOrSalf, Salt, Salf
  <2>3. CASE Build = "isnobol4"
    <3>1. Called
      BY <2>1, <2>2, <2>3 DEF Called
    <3> QED
      BY <1>0, <3>1, ListsCalled
  <2>4. CASE Build # "isnobol4"
    <3>1. pdl' = Own
      BY <2>2, <2>4
    <3> QED
      BY <1>0, <2>4, <3>1, FormedOwn, ListsStep DEF Lists
  <2> QED
    BY <2>3, <2>4
<1> QED
  BY <1>1, <1>2, <1>3

(***************************************************************************)
(* The entries that bound what a frame, a fence or a fenced-in scan owns   *)
(***************************************************************************)
LEMMA TopEntry ==
  ASSUME TypeOK, pdl # <<>>
  PROVE  /\ Len(pdl) \in Nat \ {0} /\ Len(pdl) \in DOMAIN pdl /\ Top = pdl[Len(pdl)]
         /\ Rest \in Seq(Entries) /\ Len(Rest) = Len(pdl) - 1 /\ Top \in Entries
         /\ \A i \in DOMAIN Rest : i \in DOMAIN pdl /\ Rest[i] = pdl[i]
<1>1. pdl \in Seq(Entries)
  BY DEF TypeOK
<1> QED
  BY <1>1, Popped DEF Top, Rest

\* Where the SCFL entries are that frames own, when the one on top is none.
LEMMA FramedUnder ==
  ASSUME TypeOK, pdl # <<>>, Framed(calls, pdl, FALSE), Top.fn # "SCFL"
  PROVE  \A k \in DOMAIN calls : /\ Based(pdl, calls[k].base)
                                 /\ calls[k].base <= Len(pdl) - 1
<1>1. ASSUME NEW k \in DOMAIN calls
      PROVE  Based(pdl, calls[k].base) /\ calls[k].base <= Len(pdl) - 1
  <2>1. Based(pdl, calls[k].base) /\ DOMAIN pdl = 1 .. Len(pdl)
    BY DEF Framed, TypeOK
  <2>2. calls[k].base # Len(pdl)
    BY <2>1, TopEntry DEF Based
  <2> QED
    BY <2>1, <2>2, TopEntry DEF Based
<1> QED
  BY <1>1

LEMMA ListsUnder ==
  ASSUME TypeOK, TypeOK', Lists, Running, pdl # <<>>, Top.fn # "SCFL",
         pc' # "start", calls' = calls, Formed(pdl'),
         Build = "isnobol4" => pdl' = Rest
  PROVE  Lists'
<1>1. ASSUME Build = "isnobol4" PROVE Framed(calls', pdl', Failing')
  <2>1. Framed(calls, pdl, FALSE)
    BY <1>1 DEF Lists, Failing, Running, At
  <2>2. \A k \in DOMAIN calls : /\ Based(pdl, calls[k].base)
                                /\ calls[k].base <= Len(pdl) - 1
    BY <2>1, FramedUnder
  <2>3. \A j, k \in DOMAIN calls : j < k => calls[j].base < calls[k].base
    BY <2>1 DEF Framed
  <2>4. /\ Rest \in Seq(Entries) /\ Len(pdl) - 1 \in Nat
        /\ Len(pdl) - 1 <= Len(pdl) /\ Len(pdl) - 1 <= Len(Rest)
        /\ \A i \in DOMAIN Rest : i <= Len(pdl) - 1 => Rest[i] = pdl[i]
    BY TopEntry
  <2>5. Failing' \in BOOLEAN /\ calls \in Seq(Frames) /\ pdl \in Seq(Entries)
    BY DEF Failing, At, TypeOK
  <2>6. Framed(calls, Rest, Failing')
    BY <2>2, <2>3, <2>4, <2>5, FramedCut
  <2> QED
    BY <1>1, <2>6
<1> QED
  BY <1>1, ListsStep

LEMMA FormedRest == ASSUME TypeOK, Formed(pdl), pdl # <<>> PROVE Formed(Rest)
<1>1. Len(Rest) <= Len(pdl) /\ pdl \in Seq(Entries)
  BY TopEntry DEF TypeOK
<1> QED
  BY <1>1, TopEntry, FormedPrefix

LEMMA ListsStrexc == ASSUME TypeOK, TypeOK', Lists, Strexc PROVE Lists'
<1>1. /\ pdl # <<>> /\ Top.fn = "STREXC" /\ Running /\ calls' = calls
      /\ pdl' = Rest /\ pc' # "start"
  BY DEF Strexc, PopsTo, Popping, Running, At, SaltOrSalf, Salt, Salf
<1> QED
  BY <1>1, FormedRest, ListsUnder DEF Lists

LEMMA ListsFncd == ASSUME TypeOK, TypeOK', Lists, Fncd PROVE Lists'
<1>1. /\ pdl # <<>> /\ Top.fn = "FNCD" /\ Running /\ calls' = calls
      /\ pdl' = SubSeq(pdl, 1, SealBase) /\ pc' # "start" /\ SealBase <= Len(pdl)
  BY DEF Fncd, PopsTo, Popping, Running, At, Exit, mach
<1>2. Top.alt \in Nat /\ SealBase \in Int
  BY <1>1, TopEntry DEF SealBase, Entries
<1>3. /\ pdl' \in Seq(Entries) /\ Len(pdl') <= Len(pdl)
      /\ \A i \in DOMAIN pdl' : pdl'[i] = pdl[i]
  <2>1. pdl \in Seq(Entries) /\ Len(pdl) \in Nat
    BY DEF TypeOK
  <2> QED
    BY <1>1, <1>2, <2>1, CutBack
<1>4. Formed(pdl')
  BY <1>3, FormedPrefix DEF Lists, TypeOK
<1>5. ASSUME Build = "isnobol4" PROVE pdl' = Rest
  <2>1. Top.alt = Len(pdl)
    BY <1>1, <1>5, TopEntry DEF Lists, Formed, Shaped
  <2> QED
    BY <1>1, <1>5, <2>1 DEF SealBase, Rest, Front
<1> QED
  BY <1>1, <1>4, <1>5, ListsUnder

LEMMA ListsScfl == ASSUME TypeOK, TypeOK', Lists, Scfl PROVE Lists'
<1>1. /\ pdl # <<>> /\ Running /\ calls' = calls /\ pdl' = Rest
      /\ pc' = "exit" /\ ret' = 1
  BY DEF Scfl, PopsTo, Popping, Running, At, Exit, Plain, mach
<1>2. ASSUME Build = "isnobol4" PROVE Framed(calls, Rest, TRUE)
  <2>1. Framed(calls, pdl, FALSE)
    BY <1>1, <1>2 DEF Lists, Failing, Running, At
  <2>2. ASSUME NEW k \in DOMAIN calls
        PROVE  \/ Based(Rest, calls[k].base)
               \/ k = Len(calls) /\ calls[k].base = Len(Rest) + 1
    <3>1. Based(pdl, calls[k].base) /\ DOMAIN pdl = 1 .. Len(pdl)
      BY <2>1 DEF Framed, TypeOK
    <3>2. CASE calls[k].base = Len(pdl)
      <4>1. ASSUME k # Len(calls) PROVE FALSE
        <5>1. Len(calls) \in DOMAIN calls /\ k < Len(calls)
          BY <4>1 DEF TypeOK
        <5>2. calls[k].base < calls[Len(calls)].base
          BY <2>1, <5>1 DEF Framed
        <5>3. calls[Len(calls)].base \in 1 .. Len(pdl)
          BY <2>1, <3>1, <5>1 DEF Framed, Based
        <5> QED
          BY <1>1, <3>2, <5>2, <5>3, TopEntry
      <4> QED
        BY <1>1, <3>2, <4>1, TopEntry
    <3>3. CASE calls[k].base # Len(pdl)
      <4>1. calls[k].base \in DOMAIN Rest
        BY <1>1, <3>1, <3>3, TopEntry DEF Based
      <4> QED
        BY <1>1, <3>1, <4>1, TopEntry DEF Based
    <3> QED
      BY <3>2, <3>3
  <2> QED
    BY <2>1, <2>2 DEF Framed
<1> QED
  BY <1>1, <1>2, FormedRest, ListsStep DEF Lists, Failing, At

\* SCON's entry is alone, and no scan was called.
LEMMA ListsScon == ASSUME TypeOK, TypeOK', Lists, Scon PROVE Lists'
<1>1. /\ pdl # <<>> /\ Top.fn = "SCON" /\ Running /\ calls' = calls
      /\ pc' # "start"
  BY DEF Scon, PopsTo, Popping, Running, At, Exit, Wild
<1>2. Len(pdl) = 1 /\ DOMAIN pdl = {1} /\ pdl[1].fn = "SCON"
  <2>1. Len(pdl) \in DOMAIN pdl /\ pdl[Len(pdl)].fn = "SCON"
    BY <1>1, TopEntry
  <2>2. Len(pdl) = 1
    BY <2>1 DEF Lists, Formed, Shaped
  <2>3. DOMAIN pdl = 1 .. Len(pdl)
    BY DEF TypeOK
  <2> QED
    BY <2>1, <2>2, <2>3
<1>3. Formed(pdl')
  <2>1. CASE pdl' = Rest \/ pdl' = pdl
    BY <1>1, <2>1, FormedRest DEF Lists
  <2>2. ASSUME NEW e, pdl' = Append(Rest, e), e.fn = "SCON" PROVE Formed(pdl')
    <3>1. Rest \in Seq(Entries) /\ Len(Rest) = 0
      BY <1>1, <1>2, TopEntry
    <3>2. e \in Entries
      <4>1. pdl' \in Seq(Entries)
        BY DEF TypeOK
      <4>2. Len(pdl') = Len(Rest) + 1 /\ pdl'[Len(Rest) + 1] = e
        BY <2>2, <3>1
      <4> QED
        BY <3>1, <4>1, <4>2
    <3>3. Formed(Rest) /\ e.fn # "BRXF" /\ Shaped(e, Len(Rest) + 1)
      BY <1>1, <2>2, <3>1, FormedRest DEF Lists, Shaped
    <3> QED
      BY <2>2, <3>1, <3>2, <3>3, FormedPush
  <2>3. pdl' = Rest \/ pdl' = pdl \/ \E e : pdl' = Append(Rest, e) /\ e.fn = "SCON"
    BY DEF Scon, Exit, Wild, Trap, Entry
  <2> QED
    BY <2>1, <2>2, <2>3
<1>4. ASSUME Build = "isnobol4" PROVE calls = <<>>
  <2>1. Framed(calls, pdl, FALSE)
    BY <1>1, <1>4 DEF Lists, Failing, Running, At
  <2>2. DOMAIN calls = {}
    BY <1>2, <2>1 DEF Framed, Based
  <2> QED
    BY <2>2 DEF TypeOK
<1> QED
  BY <1>1, <1>3, <1>4, FramedNone, ListsStep

(***************************************************************************)
(* Returns                                                                 *)
(***************************************************************************)
\* The frames left when the one called last goes, over any list that agrees
\* with this one below the entry of that frame.
LEMMA FramedReturn ==
  ASSUME TypeOK, Lists, Build = "isnobol4", At("exit"), calls # <<>>,
         NEW h \in Seq(Entries), Caller.base - 1 <= Len(h),
         \A i \in DOMAIN h : i <= Caller.base - 1 => h[i] = pdl[i],
         NEW open \in BOOLEAN
  PROVE  Framed(Front(calls), h, open)
<1>1. Framed(calls, pdl, TRUE)
  BY DEF Lists, Framed, At
<1>2. /\ Caller.base \in Nat /\ Caller.base <= Len(pdl) + 1 /\ Caller.base >= 1
      /\ Front(calls) \in Seq(Frames)
      /\ \A k \in DOMAIN Front(calls) :
           /\ k \in DOMAIN calls /\ Front(calls)[k] = calls[k]
           /\ Based(pdl, calls[k].base) /\ calls[k].base < Caller.base
      /\ \A j, k \in DOMAIN Front(calls) : j < k =>
           Front(calls)[j].base < Front(calls)[k].base
  BY <1>1, FramedBelow
<1>3. pdl \in Seq(Entries) /\ Len(pdl) \in Nat
  BY DEF TypeOK
<1>4. \A k \in DOMAIN Front(calls) :
        /\ Based(pdl, Front(calls)[k].base)
        /\ Front(calls)[k].base <= Caller.base - 1
  BY <1>2, <1>3 DEF Based
<1>5. Caller.base - 1 \in Nat /\ Caller.base - 1 <= Len(pdl)
  BY <1>2, <1>3
<1> QED
  BY <1>2, <1>3, <1>4, <1>5, FramedCut

LEMMA ListsLeft ==
  ASSUME TypeOK, TypeOK', Lists, At("exit"), calls # <<>>,
         calls' = Front(calls), pdl' = pdl, pc' # "start"
  PROVE  Lists'
<1>1. pdl \in Seq(Entries) /\ Failing' \in BOOLEAN
  BY DEF TypeOK, Failing, At
<1>2. ASSUME Build = "isnobol4" PROVE Framed(calls', pdl', Failing')
  <2>1. Framed(calls, pdl, TRUE)
    BY <1>2 DEF Lists, Framed, At
  <2>2. Caller.base \in Nat /\ Caller.base <= Len(pdl) + 1 /\ Len(pdl) \in Nat
    BY <2>1, FramedBelow DEF TypeOK
  <2>3. Caller.base - 1 <= Len(pdl)
    BY <2>2
  <2> QED
    BY <1>1, <1>2, <2>3, FramedReturn
<1> QED
  BY <1>2, ListsStep DEF Lists

\* What becomes of the list when STAR's pattern has matched.
LEMMA FencedList ==
  ASSUME NEW h \in Seq(Entries), NEW base \in DOMAIN h, NEW inner, NEW outer
  PROVE  /\ Len(Fenced(h, base, inner, outer)) = IF Len(h) > base THEN Len(h) + 1 ELSE Len(h)
         /\ \A i \in 1 .. Len(h) :
              /\ Fenced(h, base, inner, outer)[i].fn =
                   IF i = base THEN "STREXC" ELSE h[i].fn
              /\ i # base => Fenced(h, base, inner, outer)[i] = h[i]
         /\ Fenced(h, base, inner, outer)[base].pat = outer
         /\ Len(h) > base =>
              Fenced(h, base, inner, outer)[Len(h) + 1] = Sentinel(inner)
<1> DEFINE bottom == [i \in 1..Len(h) |->
                        IF i = base THEN [Sentinel(outer) EXCEPT !.lenf = h[i].lenf]
                                    ELSE h[i]]
<1>1. Len(h) \in Nat /\ base \in Nat /\ DOMAIN h = 1 .. Len(h)
  OBVIOUS
<1>2. /\ [Sentinel(outer) EXCEPT !.lenf = h[base].lenf].fn = "STREXC"
      /\ [Sentinel(outer) EXCEPT !.lenf = h[base].lenf].pat = outer
  BY DEF Sentinel, Entry
<1>3. /\ \A i \in 1 .. Len(h) : bottom[i].fn = IF i = base THEN "STREXC" ELSE h[i].fn
      /\ \A i \in 1 .. Len(h) : i # base => bottom[i] = h[i]
      /\ bottom[base].pat = outer
  BY <1>1, <1>2
<1>4. bottom \in Seq({bottom[i] : i \in 1 .. Len(h)} \cup {Sentinel(inner)})
      /\ Len(bottom) = Len(h)
  BY <1>1
<1>5. Fenced(h, base, inner, outer) =
        IF Len(h) > base THEN Append(bottom, Sentinel(inner)) ELSE bottom
  BY DEF Fenced
<1> HIDE DEF bottom
<1>6. /\ Len(Append(bottom, Sentinel(inner))) = Len(h) + 1
      /\ \A i \in 1 .. Len(h) : Append(bottom, Sentinel(inner))[i] = bottom[i]
      /\ Append(bottom, Sentinel(inner))[Len(h) + 1] = Sentinel(inner)
  BY <1>1, <1>4
<1> QED
  BY <1>3, <1>4, <1>5, <1>6

LEMMA FormedFenced ==
  ASSUME Formed(pdl), pdl \in Seq(Entries), NEW base \in DOMAIN pdl,
         pdl[base].fn = "SCFL", NEW inner, NEW outer,
         Fenced(pdl, base, inner, outer) \in Seq(Entries)
  PROVE  Formed(Fenced(pdl, base, inner, outer))
<1> DEFINE h == Fenced(pdl, base, inner, outer)
<1>1. /\ Len(h) = IF Len(pdl) > base THEN Len(pdl) + 1 ELSE Len(pdl)
      /\ \A i \in 1 .. Len(pdl) : /\ h[i].fn = IF i = base THEN "STREXC" ELSE pdl[i].fn
                                  /\ i # base => h[i] = pdl[i]
      /\ Len(pdl) > base => h[Len(pdl) + 1].fn = "STREXC"
  <2>1. Sentinel(inner).fn = "STREXC"
    BY DEF Sentinel, Entry
  <2> QED
    BY <2>1, FencedList
<1>2. DOMAIN h = 1 .. Len(h)
  OBVIOUS
<1>3. Len(pdl) \in Nat /\ DOMAIN pdl = 1 .. Len(pdl)
  OBVIOUS
<1> HIDE DEF h
<1>4. ASSUME NEW i \in DOMAIN h
      PROVE  /\ Shaped(h[i], i)
             /\ h[i].fn = "BRXF" => i > 1 /\ h[i - 1].fn = "zero"
  <2>1. CASE i = Len(pdl) + 1
    BY <1>1, <1>2, <1>3, <2>1 DEF Shaped
  <2>2. CASE i = base
    BY <1>1, <1>3, <2>2 DEF Shaped
  <2>3. CASE i # base /\ i \in DOMAIN pdl
    <3>1. h[i] = pdl[i] /\ i \in Nat
      BY <1>1, <1>3, <2>3
    <3>2. ASSUME h[i].fn = "BRXF" PROVE i > 1 /\ h[i - 1].fn = "zero"
      <4>1. i > 1 /\ pdl[i - 1].fn = "zero"
        BY <2>3, <3>1, <3>2 DEF Formed
      <4>2. i - 1 \in 1 .. Len(pdl) /\ i - 1 # base
        BY <1>3, <2>3, <4>1
      <4> QED
        BY <1>1, <4>1, <4>2
    <3> QED
      BY <2>3, <3>1, <3>2 DEF Formed, Shaped
  <2> QED
    BY <1>1, <1>2, <1>3, <2>1, <2>2, <2>3
<1>5. Formed(h)
  BY <1>4 DEF Formed
<1> QED
  BY <1>5 DEF h

LEMMA CallerBased ==
  ASSUME TypeOK, Lists, Build = "isnobol4", At("exit"), ret = 2, calls # <<>>
  PROVE  Based(pdl, Caller.base)
<1>1. Len(calls) \in DOMAIN calls /\ Caller = calls[Len(calls)]
  BY Popped DEF TypeOK, Caller, Last
<1>2. Failing = FALSE /\ pc # "wild"
  BY DEF Failing, At
<1>3. Framed(calls, pdl, FALSE)
  BY <1>2 DEF Lists
<1> QED
  BY <1>1, <1>3 DEF Framed

LEMMA ListsStarMatched ==
  ASSUME TypeOK, TypeOK', Lists, StarMatched PROVE Lists'
<1>1. /\ At("exit") /\ ret = 2 /\ calls # <<>> /\ calls' = Front(calls)
      /\ pc' # "start" /\ pdl \in Seq(Entries) /\ pdl' \in Seq(Entries)
      /\ pdl' = IF Build = "isnobol4"
                THEN Fenced(pdl, Caller.base, Caller.inner, Caller.patb) ELSE pdl
      /\ Failing' \in BOOLEAN
  BY DEF StarMatched, Returning, Restored, Scok, ScokWith, TypeOK, Failing, At
<1>2. CASE Build # "isnobol4"
  BY <1>1, <1>2, ListsLeft
<1>3. CASE Build = "isnobol4"
  <2>1. Caller.base \in DOMAIN pdl /\ pdl[Caller.base].fn = "SCFL"
    BY <1>1, <1>3, CallerBased DEF Based
  <2>2. Formed(pdl')
    BY <1>1, <1>3, <2>1, FormedFenced DEF Lists
  <2>3. Caller.base \in Nat /\ Caller.base <= Len(pdl) /\ Len(pdl) \in Nat
    BY <1>1, <2>1
  <2>4. /\ Len(pdl') >= Len(pdl)
        /\ \A i \in 1 .. Len(pdl) : i # Caller.base => pdl'[i] = pdl[i]
    BY <1>1, <1>3, <2>1, <2>3, FencedList
  <2>5. \A i \in DOMAIN pdl' : i <= Caller.base - 1 => pdl'[i] = pdl[i]
    BY <1>1, <2>3, <2>4
  <2>6. Caller.base - 1 <= Len(pdl')
    BY <1>1, <2>3, <2>4
  <2>7. Framed(calls', pdl', Failing')
    BY <1>1, <1>3, <2>5, <2>6, FramedReturn
  <2> QED
    BY <1>1, <2>2, <2>7, ListsStep
<1> QED
  BY <1>2, <1>3

\* The list below the SCFL entry of FNCA.
LEMMA BelowList ==
  ASSUME TypeOK, calls # <<>>, Intact
  PROVE  /\ Below \in Seq(Entries) /\ Len(Below) <= Len(pdl)
         /\ Caller.base - 1 <= Len(Below)
         /\ Caller.base >= 1 => Len(Below) = Caller.base - 1
         /\ \A i \in DOMAIN Below : Below[i] = pdl[i]
<1>0. Caller \in Frames
  BY CallerType
<1>1. Caller.base \in Nat /\ pdl \in Seq(Entries) /\ Len(pdl) \in Nat
  BY <1>0 DEF Frames, TypeOK
<1> QED
  BY <1>1, CutBack DEF Below, Intact

LEMMA ListsFence ==
  ASSUME TypeOK, TypeOK', Lists, FenceFailed \/ FenceMatched PROVE Lists'
<1>1. /\ At("exit") /\ calls # <<>> /\ calls' = Front(calls) /\ Intact
      /\ pc' # "start" /\ pdl \in Seq(Entries) /\ pdl' \in Seq(Entries)
      /\ pdl' = Below \/ pdl' = Append(Below, Seal)
      /\ Failing' \in BOOLEAN
  BY DEF FenceFailed, FenceMatched, Returning, Unfenced, Restored, Salt, Scok,
     ScokWith, TypeOK, Failing, At
<1>2. /\ Below \in Seq(Entries) /\ Len(Below) <= Len(pdl)
      /\ Caller.base - 1 <= Len(Below) /\ Formed(Below)
      /\ Caller.base >= 1 => Len(Below) = Caller.base - 1
      /\ \A i \in DOMAIN Below : Below[i] = pdl[i]
      /\ Caller.base \in Nat /\ Len(Below) \in Nat
  <2>1. Caller.base \in Nat
    BY <1>1, CallerType DEF Frames
  <2> QED
    BY <1>1, <2>1, BelowList, FormedPrefix DEF Lists
<1>3. Build = "isnobol4" => Caller.base >= 1
  <2>1. ASSUME Build = "isnobol4" PROVE Framed(calls, pdl, TRUE)
    BY <1>1, <2>1 DEF Lists, Framed, At
  <2> QED
    BY <1>1, <2>1, FramedBelow
<1>4. CASE pdl' = Below
  <2>1. ASSUME Build = "isnobol4" PROVE Framed(calls', pdl', Failing')
    BY <1>1, <1>2, <1>4, <2>1, FramedReturn
  <2> QED
    BY <1>1, <1>2, <1>4, <2>1, ListsStep
<1>5. CASE pdl' = Append(Below, Seal)
  <2>1. Seal \in Entries
    <3>1. Len(pdl') = Len(Below) + 1 /\ pdl'[Len(Below) + 1] = Seal
      BY <1>2, <1>5
    <3> QED
      BY <1>1, <1>2, <3>1
  <2>2. Seal.fn = "FNCD" /\ (Build = "isnobol4" => Seal.alt = Caller.base)
    BY DEF Seal, Entry
  <2>3. Shaped(Seal, Len(Below) + 1)
    BY <1>2, <1>3, <2>2, BuildAssumption DEF Shaped
  <2>4. Formed(pdl')
    BY <1>2, <1>5, <2>1, <2>2, <2>3, FormedPush
  <2>5. /\ Caller.base - 1 <= Len(pdl')
        /\ \A i \in DOMAIN pdl' : i <= Len(Below) => pdl'[i] = pdl[i]
    BY <1>2, <1>5, <2>1, OnTop
  <2>6. ASSUME Build = "isnobol4" PROVE Framed(calls', pdl', Failing')
    BY <1>1, <1>2, <1>3, <2>5, <2>6, FramedReturn
  <2> QED
    BY <1>1, <2>4, <2>6, ListsStep
<1> QED
  BY <1>1, <1>4, <1>5

LEMMA ListsReturn ==
  ASSUME TypeOK, TypeOK', Lists, Aborted \/ StarFailed \/ Scan PROVE Lists'
<1>1. CASE Aborted \/ StarFailed
  <2>1. /\ At("exit") /\ calls # <<>> /\ calls' = Front(calls) /\ pdl' = pdl
        /\ pc' # "start"
    BY <1>1 DEF Aborted, StarFailed, Returning, Restored, SaltOrSalf, Salt, Salf, At
  <2> QED
    BY <2>1, ListsLeft
<1>2. CASE Scan
  <2>1. calls = <<>> /\ calls' = calls /\ pdl' = pdl /\ pc' # "start"
    BY <1>2 DEF Scan
  <2> QED
    BY <2>1, FramedNone, ListsStep DEF Lists
<1> QED
  BY <1>1, <1>2

LEMMA ListsAstray == ASSUME TypeOK, TypeOK', Lists, Astray PROVE Lists'
<1>1. pc' = "wild" /\ pdl' = pdl
  BY DEF Astray, Wild
<1> QED
  BY <1>1, ListsStep DEF Lists

(***************************************************************************)
(* Every step                                                              *)
(***************************************************************************)
\* What a step is, by what it does to the list.
LEMMA Kinds ==
  ASSUME Step
  PROVE  \/ Ordinary
         \/ StarCall \/ Fnca \/ (Dsar /\ calls' # calls)
         \/ Scon \/ Scfl \/ Fncd \/ Strexc
         \/ Aborted \/ StarFailed \/ StarMatched \/ FenceFailed \/ FenceMatched
         \/ Scan \/ Scnr \/ Astray
  BY DEF Step, Fetch, Pop, Return, Ordinary

LEMMA InitLists == Init => Lists
  BY FramedNone DEF Init, Lists, Formed, At

LEMMA NextLists == ASSUME TypeOK, TypeOK', Lists, [Next]_vars PROVE Lists'
<1>1. CASE Ordinary
  <2>1. Moves
    BY <1>1, OrdinarySteps, QuietMoves DEF Lists
  <2> QED
    BY <2>1, ListsMoved
<1>2. CASE StarCall \/ Fnca \/ (Dsar /\ calls' # calls)
  BY <1>2, ListsCalls
<1>3. CASE Scon \/ Scfl \/ Fncd \/ Strexc
  BY <1>3, ListsScon, ListsScfl, ListsFncd, ListsStrexc
<1>4. CASE \/ Aborted \/ StarFailed \/ StarMatched \/ FenceFailed
           \/ FenceMatched \/ Scan
  BY <1>4, ListsReturn, ListsStarMatched, ListsFence
<1>5. CASE Scnr \/ Astray
  BY <1>5, ListsScnr, ListsAstray
<1>6. CASE UNCHANGED vars
  BY <1>6 DEF vars, Lists, Formed, Shaped, Framed, Based, Failing, At
<1> QED
  BY <1>1, <1>2, <1>3, <1>4, <1>5, <1>6, Kinds DEF Next, Done

LEMMA ListsKept == Spec => [](TypeOK /\ Lists)
<1>1. Init => TypeOK /\ Lists
  BY InitTypeOK, InitLists
<1>2. TypeOK /\ Lists /\ [Next]_vars => (TypeOK /\ Lists)'
  BY NextTypeOK, NextLists
<1> QED
  BY <1>1, <1>2, PTL DEF Spec

(***************************************************************************)
(* A scan that was called leaves its caller's history alone                *)
(***************************************************************************)
LEMMA FncdRest ==
  ASSUME TypeOK, Lists, Fncd, Build = "isnobol4" PROVE pdl' = Rest
<1>1. pdl # <<>> /\ Top.fn = "FNCD" /\ pdl' = SubSeq(pdl, 1, SealBase)
  BY DEF Fncd, PopsTo, Popping, Exit
<1>2. Top.alt = Len(pdl)
  BY <1>1, TopEntry DEF Lists, Formed, Shaped
<1> QED
  BY <1>1, <1>2 DEF SealBase, Rest, Front

LEMMA NewFrames ==
  ASSUME TypeOK
  PROVE  /\ \A f : Append(calls, f) # calls
         /\ calls # <<>> => Front(calls) # calls
<1>1. \A f : Len(Append(calls, f)) = Len(calls) + 1 /\ Len(calls) \in Nat
  BY DEF TypeOK
<1>2. calls # <<>> => Len(Front(calls)) = Len(calls) - 1
  BY Popped DEF TypeOK
<1> QED
  BY <1>1, <1>2

LEMMA HistoryStep ==
  ASSUME TypeOK, TypeOK', Lists, Build = "isnobol4", Step,
         calls # <<>>, calls' = calls
  PROVE  /\ Len(pdl') >= Caller.base - 1
         /\ \A i \in 1 .. (Caller.base - 1) : pdl'[i] = pdl[i]
<1>0. /\ Len(pdl) \in Nat /\ DOMAIN pdl = 1 .. Len(pdl) /\ Len(pdl') \in Nat
      /\ DOMAIN pdl' = 1 .. Len(pdl')
  BY DEF TypeOK
<1>1. Caller \in Frames /\ Caller = calls[Len(calls)] /\ Len(calls) \in DOMAIN calls
  BY Popped DEF TypeOK, Caller
<1>2. Caller.base \in Nat
  BY <1>1 DEF Frames
<1>3. Running => Based(pdl, Caller.base)
  <2>1. Running => ~Failing /\ pc # "wild"
    BY DEF Running, Failing, At
  <2> QED
    BY <1>1, <2>1 DEF Lists, Framed
<1>4. CASE Ordinary
  <2>1. PICK n \in Nat : Moved(n)
    BY <1>4, OrdinarySteps, QuietMoves DEF Lists, Moves
  <2>2. Turned(pdl', n) /\ Based(pdl, Caller.base)
    BY <1>3, <2>1 DEF Moved
  <2>3. ~ (Caller.base > n)
    BY <2>2 DEF Turned, Above, Bounds, Based
  <2>4. n <= Len(pdl') /\ \A i \in DOMAIN pdl' : i <= n => pdl'[i] = pdl[i]
    BY <2>2 DEF Turned
  <2> QED
    BY <1>0, <1>2, <2>3, <2>4
<1>5. CASE Running /\ pdl' = Rest /\ pdl # <<>>
  <2>1. Caller.base \in 1 .. Len(pdl)
    BY <1>0, <1>3, <1>5 DEF Based
  <2>2. /\ Len(pdl') = Len(pdl) - 1
        /\ \A i \in DOMAIN pdl' : pdl'[i] = pdl[i]
    BY <1>5, TopEntry
  <2> QED
    BY <1>0, <1>2, <2>1, <2>2
<1>6. CASE pdl' = pdl /\ pc # "wild"
  <2>1. Caller.base <= Len(pdl) + 1
    BY <1>0, <1>1, <1>6 DEF Lists, Framed, Based
  <2> QED
    BY <1>0, <1>2, <1>6, <2>1
<1>7. ~ (StarCall \/ Fnca)
  BY NewFrames DEF StarCall, Fnca, Call
<1>8. ~ (Aborted \/ StarFailed \/ StarMatched \/ FenceFailed \/ FenceMatched)
  BY NewFrames DEF Aborted, StarFailed, StarMatched, FenceFailed, FenceMatched,
     Unfenced, Restored
<1>9. ~ (Scan \/ Scnr)
  BY DEF Scan, Scnr, Lists
<1>10. CASE Scfl \/ Fncd \/ Strexc
  <2>1. Running /\ pdl # <<>>
    BY <1>10 DEF Scfl, Fncd, Strexc, PopsTo, Popping, Running, At
  <2>2. pdl' = Rest
    BY <1>10, FncdRest DEF Scfl, Strexc, Exit, SaltOrSalf, Salt, Salf
  <2> QED
    BY <1>5, <2>1, <2>2
<1>11. ~Scon
  <2>1. ASSUME Scon PROVE FALSE
    <3>1. pdl # <<>> /\ Top.fn = "SCON" /\ Running
      BY <2>1 DEF Scon, PopsTo, Popping, Running, At
    <3>2. Len(pdl) = 1 /\ pdl[1].fn = "SCON"
      BY <3>1, TopEntry DEF Lists, Formed, Shaped
    <3> QED
      BY <1>0, <1>3, <3>1, <3>2 DEF Based
  <2> QED
    BY <2>1
<1>12. CASE Astray
  <2>1. pdl' = pdl /\ pc # "wild"
    BY <1>12 DEF Astray, Wild, At, PopsTo, Popping, Returning
  <2> QED
    BY <1>6, <2>1
<1> QED
  BY <1>4, <1>7, <1>8, <1>9, <1>10, <1>11, <1>12, Kinds

\* The production build keeps the promise whatever the patterns: a scan that
\* STAR or FNCA called never pops, cuts or rewrites what its caller had on
\* the history list, and fails no deeper than the SCFL entry pushed for it.
THEOREM CallersKept ==
  ASSUME Build = "isnobol4" PROVE Spec => CallerHistoryKept
<1> DEFINE A == calls # <<>> /\ calls' = calls /\ Caller.kind \in {"STAR", "FNCA"} =>
                  /\ Len(pdl') >= Caller.base - 1
                  /\ \A i \in 1..(Caller.base - 1) : pdl'[i] = pdl[i]
<1>1. TypeOK /\ Lists /\ (TypeOK /\ Lists)' /\ [Next]_vars => [A]_vars
  <2> SUFFICES ASSUME TypeOK, TypeOK', Lists, Step, calls # <<>>, calls' = calls
               PROVE  /\ Len(pdl') >= Caller.base - 1
                      /\ \A i \in 1..(Caller.base - 1) : pdl'[i] = pdl[i]
    BY DEF Next, Done
  <2> QED
    BY HistoryStep
<1>2. CallerHistoryKept <=> [][A]_vars
  BY DEF CallerHistoryKept
<1> HIDE DEF A
<1> QED
  BY <1>1, <1>2, ListsKept, PTL DEF Spec

(***************************************************************************)
(* Names come and go with the entries that take them off                   *)
(***************************************************************************)
\* A list with the entries DNME that pdl has, and no seal.
Alike(h) == /\ Undos(h, Len(h)) = Undos(pdl, Len(pdl))
            /\ \A i \in DOMAIN h : h[i].fn # "FNCD"

LEMMA AlikeRest ==
  ASSUME TypeOK, NamesMatch, pdl # <<>>, Top.fn # "DNME" PROVE Alike(Rest)
<1>1. DOMAIN pdl = 1 .. Len(pdl) /\ DOMAIN Rest = 1 .. Len(pdl) - 1
  <2>1. Rest \in Seq(Entries) /\ Len(Rest) = Len(pdl) - 1 /\ pdl \in Seq(Entries)
    BY TopEntry DEF TypeOK
  <2> QED
    BY <2>1
<1>2. \A i \in 1 .. Len(pdl) : pdl[i].fn = "DNME" => i # Len(pdl)
  BY TopEntry
<1>3. Len(pdl) \in Nat \ {0} /\ Len(Rest) = Len(pdl) - 1
      /\ \A i \in DOMAIN Rest : i \in DOMAIN pdl /\ Rest[i] = pdl[i]
  BY TopEntry
<1>4. Undos(Rest, Len(Rest)) = Undos(pdl, Len(pdl))
  <2>1. ASSUME NEW i \in 1 .. Len(pdl), pdl[i].fn = "DNME" PROVE i \in DOMAIN Rest
    <3>1. i # Len(pdl)
      BY <1>2, <2>1
    <3>2. Len(pdl) \in Nat
      BY <1>3
    <3>3. i \in 1 .. Len(pdl) - 1
      BY <3>1, <3>2
    <3> QED
      BY <1>1, <3>3
  <2>2. DOMAIN Rest \subseteq 1 .. Len(pdl) /\ DOMAIN Rest = 1 .. Len(Rest)
    BY <1>1, <1>3
  <2> QED
    BY <1>3, <2>1, <2>2 DEF Undos
<1> QED
  BY <1>3, <1>4 DEF Alike, NamesMatch

LEMMA AlikePush ==
  ASSUME TypeOK, NEW h \in Seq(Entries), Alike(h), NEW e \in Entries,
         e.fn \notin {"DNME", "FNCD"}
  PROVE  Alike(Append(h, e))
<1>1. /\ Append(h, e) \in Seq(Entries) /\ Len(Append(h, e)) = Len(h) + 1
      /\ \A i \in DOMAIN Append(h, e) :
           /\ Append(h, e)[i] = IF i = Len(h) + 1 THEN e ELSE h[i]
           /\ i # Len(h) + 1 => i \in DOMAIN h
  BY OnTop
<1>2. Len(h) \in Nat /\ DOMAIN h = 1 .. Len(h)
      /\ DOMAIN Append(h, e) = 1 .. Len(h) + 1
  BY <1>1
<1>3. Undos(Append(h, e), Len(h) + 1) = Undos(h, Len(h))
  BY <1>1, <1>2 DEF Undos
<1> QED
  BY <1>1, <1>3 DEF Alike

LEMMA AlikeSame == ASSUME TypeOK, NamesMatch PROVE Alike(pdl)
  BY DEF Alike, NamesMatch

LEMMA AlikeTurned ==
  ASSUME TypeOK, NamesMatch, NEW h, NEW n, Turned(h, n), Silent(h, n)
  PROVE  Alike(h)
<1>1. /\ h \in Seq(Entries) /\ pdl \in Seq(Entries) /\ n \in Nat
      /\ DOMAIN h = 1 .. Len(h) /\ DOMAIN pdl = 1 .. Len(pdl)
      /\ Len(h) \in Nat /\ Len(pdl) \in Nat /\ n <= Len(h) /\ n <= Len(pdl)
  BY DEF Turned, TypeOK
<1>2. \A i \in DOMAIN h : i <= n => i \in DOMAIN pdl /\ h[i] = pdl[i]
  BY <1>1 DEF Turned
<1>3. \A i \in DOMAIN h : h[i].fn = "DNME" => i <= n
  BY <1>1 DEF Silent, Above
<1>4. \A i \in DOMAIN pdl : pdl[i].fn = "DNME" => i <= n
  BY <1>1 DEF Silent, Above
<1>5. Undos(h, Len(h)) = Undos(pdl, Len(pdl))
  BY <1>1, <1>2, <1>3, <1>4 DEF Undos
<1>6. ASSUME NEW i \in DOMAIN h PROVE h[i].fn # "FNCD"
  <2>1. CASE i <= n
    BY <1>2, <2>1 DEF NamesMatch
  <2>2. CASE i > n
    BY <2>2 DEF Turned, Above, Bounds
  <2> QED
    BY <1>1, <2>1, <2>2
<1> QED
  BY <1>5, <1>6 DEF Alike

\* A step that leaves the names alone, to such a list.
LEMMA SameNames ==
  ASSUME NamesMatch, nam' = nam, Alike(pdl'),
         \A k \in DOMAIN calls' : calls'[k].kind # "FNCA"
  PROVE  NamesMatch'
  BY DEF NamesMatch, Alike, Undos

LEMMA UndosFinite ==
  ASSUME NEW h, NEW n \in Nat PROVE IsFiniteSet(Undos(h, n))
<1>1. IsFiniteSet(1 .. n)
  BY FS_Interval
<1> QED
  BY <1>1, FS_Subset DEF Undos

LEMMA NamesEnme == ASSUME TypeOK, TypeOK', NamesMatch, Enme PROVE NamesMatch'
<1>0. Fetched /\ calls' = calls /\ pdl \in Seq(Entries) /\ Len(pdl) \in Nat
      /\ nam \in Seq(Names) /\ pdl' \in Seq(Entries) /\ DOMAIN pdl = 1 .. Len(pdl)
  BY DEF Enme, IsAt, mach, TypeOK
<1>1. CASE HasCursor
  <2>1. Last(stk).v \in Nat
    BY <1>1, CursorOnTop, Parts
  <2>2. pdl' = Undo("DNME", Last(stk).v) /\ \E x : nam' = Append(nam, x)
    BY <1>1 DEF Enme, ScokWith
  <2>3. /\ Len(pdl') = Len(pdl) + 2 /\ pdl'[Len(pdl) + 2].fn = "DNME"
        /\ pdl'[Len(pdl) + 1].fn = "node" /\ Turned(pdl', Len(pdl))
    <3>1. pdl'[Len(pdl')].fn = "DNME" /\ Len(pdl') = Len(pdl) + 2
      BY <1>0, <2>1, <2>2, TurnedUndo
    <3> QED
      BY <1>0, <2>1, <2>2, <3>1, TurnedUndo
  <2>4. Len(nam') = Len(nam) + 1
    BY <1>0, <2>2
  <2>5. DOMAIN pdl' = 1 .. Len(pdl) + 2
    BY <1>0, <2>3
  <2>6. \A i \in 1 .. Len(pdl) : pdl'[i] = pdl[i]
    BY <1>0, <2>3, <2>5 DEF Turned
  <2>7. Undos(pdl', Len(pdl')) = Undos(pdl, Len(pdl)) \cup {Len(pdl) + 2}
    BY <1>0, <2>3, <2>6 DEF Undos
  <2>8. Len(pdl) + 2 \notin Undos(pdl, Len(pdl))
    BY <1>0 DEF Undos
  <2>9. Cardinality(Undos(pdl', Len(pdl'))) = Cardinality(Undos(pdl, Len(pdl))) + 1
    BY <1>0, <2>7, <2>8, UndosFinite, FS_AddElement
  <2>10. Len(nam') = Cardinality(Undos(pdl', Len(pdl')))
    BY <2>4, <2>9 DEF NamesMatch
  <2>11. \A i \in DOMAIN pdl' : pdl'[i].fn # "FNCD"
    <3>1. \A i \in DOMAIN pdl' : i \in 1 .. Len(pdl) \/ i = Len(pdl) + 1 \/ i = Len(pdl) + 2
      BY <1>0, <2>5
    <3> QED
      BY <1>0, <2>3, <2>6, <3>1 DEF NamesMatch
  <2> QED
    BY <1>0, <2>10, <2>11 DEF NamesMatch
<1>2. CASE Wild /\ UNCHANGED nam
  BY <1>0, <1>2 DEF Wild, NamesMatch
<1> QED
  BY <1>1, <1>2 DEF Enme

LEMMA NamesUndoneStep == ASSUME TypeOK, TypeOK', NamesMatch, Undone PROVE NamesMatch'
<1>0. /\ pdl # <<>> /\ Top.fn \in {"DNME", "DNMI"} /\ calls' = calls
      /\ pdl' = Rest /\ pdl \in Seq(Entries) /\ DOMAIN pdl = 1 .. Len(pdl)
      /\ nam \in Seq(Names)
  BY DEF Undone, PopsTo, Popping, mach, SaltOrSalf, Salt, Salf, TypeOK
<1>1. CASE Top.fn = "DNMI"
  <2>1. nam' = nam
    BY <1>1 DEF Undone, PopsTo
  <2> QED
    BY <1>0, <1>1, <2>1, AlikeRest, SameNames DEF NamesMatch
<1>2. CASE Top.fn = "DNME"
  <2>1. nam # <<>> /\ nam' = Front(nam)
    BY <1>2 DEF Undone, PopsTo
  <2>2. Len(nam') = Len(nam) - 1
    BY <1>0, <2>1, Popped
  <2>3. /\ Len(Rest) = Len(pdl) - 1 /\ Len(pdl) \in Nat \ {0}
        /\ pdl[Len(pdl)].fn = "DNME" /\ DOMAIN Rest = 1 .. Len(pdl) - 1
        /\ \A i \in DOMAIN Rest : i \in DOMAIN pdl /\ Rest[i] = pdl[i]
    <3>1. /\ Len(Rest) = Len(pdl) - 1 /\ Len(pdl) \in Nat \ {0}
          /\ pdl[Len(pdl)] = Top /\ Rest \in Seq(Entries)
          /\ \A i \in DOMAIN Rest : i \in DOMAIN pdl /\ Rest[i] = pdl[i]
      BY <1>0, TopEntry
    <3> QED
      BY <1>2, <3>1
  <2>4. Undos(Rest, Len(Rest)) = Undos(pdl, Len(pdl)) \ {Len(pdl)}
    BY <1>0, <2>3 DEF Undos
  <2>5. Len(pdl) \in Undos(pdl, Len(pdl))
    BY <1>0, <2>3 DEF Undos
  <2>6. Cardinality(Undos(Rest, Len(Rest))) = Cardinality(Undos(pdl, Len(pdl))) - 1
    BY <2>3, <2>4, <2>5, UndosFinite, FS_RemoveElement
  <2>7. Len(nam') = Cardinality(Undos(pdl', Len(pdl')))
    BY <1>0, <2>2, <2>6 DEF NamesMatch
  <2>8. \A i \in DOMAIN pdl' : pdl'[i].fn # "FNCD"
    BY <1>0, <2>3 DEF NamesMatch
  <2> QED
    BY <1>0, <2>7, <2>8 DEF NamesMatch
<1> QED
  BY <1>0, <1>1, <1>2

LEMMA NamesOrdinary ==
  ASSUME TypeOK, TypeOK', Lists, NamesMatch, Ordinary PROVE NamesMatch'
<1>1. CASE Quietly
  <2>1. PICK n \in Nat : Moved(n) /\ Silent(pdl', n) /\ nam' = nam
    BY <1>1 DEF Quietly
  <2>2. Alike(pdl') /\ calls' = calls
    BY <2>1, AlikeTurned DEF Moved
  <2> QED
    BY <2>1, <2>2, SameNames DEF NamesMatch
<1>2. CASE Enme \/ Undone
  BY <1>2, NamesEnme, NamesUndoneStep
<1> QED
  BY <1>1, <1>2, OrdinarySteps DEF Lists

LEMMA AlikeFenced ==
  ASSUME TypeOK, NamesMatch, NEW base \in DOMAIN pdl, pdl[base].fn = "SCFL",
         NEW inner, NEW outer, Fenced(pdl, base, inner, outer) \in Seq(Entries)
  PROVE  Alike(Fenced(pdl, base, inner, outer))
<1> DEFINE h == Fenced(pdl, base, inner, outer)
<1>0. pdl \in Seq(Entries)
  BY DEF TypeOK
<1>1. /\ Len(h) = IF Len(pdl) > base THEN Len(pdl) + 1 ELSE Len(pdl)
      /\ \A i \in 1 .. Len(pdl) : h[i].fn = IF i = base THEN "STREXC" ELSE pdl[i].fn
      /\ Len(pdl) > base => h[Len(pdl) + 1].fn = "STREXC"
  <2>1. Sentinel(inner).fn = "STREXC"
    BY DEF Sentinel, Entry
  <2> QED
    BY <1>0, <2>1, FencedList
<1>2. DOMAIN h = 1 .. Len(h)
  OBVIOUS
<1> HIDE DEF h
<1>3. Len(pdl) \in Nat /\ DOMAIN pdl = 1 .. Len(pdl)
  BY <1>0
<1>4. \A i \in 1 .. Len(h) : i \in 1 .. Len(pdl) \/ h[i].fn = "STREXC"
  BY <1>1, <1>3
<1>5. 1 .. Len(pdl) \subseteq 1 .. Len(h)
  BY <1>1, <1>3
<1>6. Undos(h, Len(h)) = Undos(pdl, Len(pdl))
  BY <1>1, <1>4, <1>5 DEF Undos
<1>7. \A i \in DOMAIN h : h[i].fn # "FNCD"
  BY <1>1, <1>2, <1>3, <1>4 DEF NamesMatch
<1> QED
  BY <1>6, <1>7 DEF Alike, h

LEMMA NamesCalled ==
  ASSUME TypeOK, TypeOK', Lists, NamesMatch, NoFences,
         StarCall \/ Fnca \/ (Dsar /\ calls' # calls)
  PROVE  NamesMatch'
<1>0. Fetched /\ calls \in Seq(Frames) /\ pati \in DOMAIN Block(patb)
      /\ patb \in Addresses
  BY DEF StarCall, Fnca, Dsar, IsAt, Fetched, TypeOK
<1>1. ~Fnca
  BY <1>0 DEF Fnca, IsAt, Node, NoFences
<1>2. Alike(Own) /\ Own \in Seq(Entries)
  <2>1. Turned(Own, Len(pdl)) /\ Silent(Own, Len(pdl))
    BY <1>0, TurnedOwn DEF Own, TypeOK
  <2> QED
    BY <2>1, AlikeTurned DEF Turned
<1>3. Alike(Append(Own, Trap("SCFL", cursor, lenf)))
  <2>1. /\ Trap("SCFL", cursor, lenf) \in Entries
        /\ Trap("SCFL", cursor, lenf).fn = "SCFL"
    BY TrapType DEF TypeOK, EntryFns, Trap, Entry
  <2> QED
    BY <1>2, <2>1, AlikePush
<1>4. /\ nam' = nam
      /\ pdl' = Own \/ pdl' = Append(Own, Trap("SCFL", cursor, lenf))
      /\ \E kind \in {"STAR", "DSAR"} : \E inner, base :
           calls' = Append(calls, Frame(kind, inner, base))
  <2>1. CASE StarCall
    BY <2>1 DEF StarCall, Call
  <2>2. CASE Dsar /\ calls' # calls
    <3> DEFINE h == IF Build = "isnobol4"
                    THEN Append(Own, Trap("SCFL", cursor, lenf)) ELSE Own
    <3>1. \E v : /\ SaltOrSalf(h) /\ nam' = nam
                 /\ calls' = Append(calls, Frame("DSAR", v.p, Len(h)))
      BY <2>2 DEF Dsar, Plain, mach, Overflow
    <3>2. pdl' = h
      BY <3>1 DEF SaltOrSalf, Salt, Salf
    <3> QED
      BY <3>1, <3>2
  <2> QED
    BY <1>1, <2>1, <2>2
<1>5. PICK f : calls' = Append(calls, f) /\ f.kind # "FNCA"
  BY <1>4 DEF Frame
<1>6. \A k \in DOMAIN calls' : calls'[k].kind # "FNCA"
  <2>1. f \in Frames
    <3>1. calls' \in Seq(Frames) /\ Len(calls') = Len(calls) + 1
          /\ calls'[Len(calls) + 1] = f
      BY <1>0, <1>5 DEF TypeOK
    <3> QED
      BY <1>0, <3>1
  <2>2. \A k \in DOMAIN calls' :
          /\ calls'[k] = IF k = Len(calls) + 1 THEN f ELSE calls[k]
          /\ k # Len(calls) + 1 => k \in DOMAIN calls
    BY <1>0, <1>5, <2>1, OnTop
  <2> QED
    BY <1>5, <2>2 DEF NamesMatch
<1> QED
  BY <1>2, <1>3, <1>4, <1>6, SameNames

LEMMA NamesBounds ==
  ASSUME TypeOK, TypeOK', NamesMatch, Scon \/ Scfl \/ Fncd \/ Strexc
  PROVE  NamesMatch'
<1>0. /\ pdl # <<>> /\ Top.fn \in {"SCON", "SCFL", "FNCD", "STREXC"}
      /\ Fncd => Top.fn = "FNCD"
      /\ calls' = calls
  BY DEF Scon, Scfl, Fncd, Strexc, PopsTo, Popping, Plain, mach
<1>1. ~Fncd
  BY <1>0, TopEntry DEF NamesMatch
<1>2. Alike(Rest) /\ Alike(pdl) /\ Rest \in Seq(Entries)
  BY <1>0, AlikeRest, AlikeSame, TopEntry
<1>3. /\ nam' = nam
      /\ \/ pdl' = Rest \/ pdl' = pdl
         \/ \E e : pdl' = Append(Rest, e) /\ e.fn = "SCON"
  BY <1>1 DEF Scon, Scfl, Strexc, Exit, Wild, Trap, Entry, Plain, SaltOrSalf,
     Salt, Salf
<1>4. ASSUME NEW e, pdl' = Append(Rest, e), e.fn = "SCON" PROVE Alike(pdl')
  <2>1. e \in Entries
    <3>1. pdl' \in Seq(Entries) /\ Len(pdl') = Len(Rest) + 1
          /\ pdl'[Len(Rest) + 1] = e /\ Len(Rest) \in Nat
      BY <1>2, <1>4 DEF TypeOK
    <3> QED
      BY <3>1
  <2> QED
    BY <1>2, <1>4, <2>1, AlikePush
<1> QED
  BY <1>0, <1>2, <1>3, <1>4, SameNames DEF NamesMatch

LEMMA NamesReturn ==
  ASSUME TypeOK, TypeOK', Lists, NamesMatch,
         \/ Aborted \/ StarFailed \/ StarMatched \/ FenceFailed \/ FenceMatched
  PROVE  NamesMatch'
<1>0. /\ calls # <<>> /\ At("exit") /\ calls' = Front(calls)
      /\ pdl' \in Seq(Entries)
  BY DEF Aborted, StarFailed, StarMatched, FenceFailed, FenceMatched, Returning,
     Unfenced, Restored, TypeOK
<1>1. /\ \A k \in DOMAIN Front(calls) :
           k \in DOMAIN calls /\ Front(calls)[k] = calls[k]
      /\ Caller = calls[Len(calls)] /\ Len(calls) \in DOMAIN calls
  <2>1. calls \in Seq(Frames)
    BY DEF TypeOK
  <2> QED
    BY <1>0, <2>1, Popped DEF Caller
<1>2. Caller.kind # "FNCA"
  BY <1>1 DEF NamesMatch
<1>3. ~FenceFailed /\ ~FenceMatched
  BY <1>2 DEF FenceFailed, FenceMatched, Returning
<1>4. CASE Aborted \/ StarFailed
  <2>1. pdl' = pdl /\ nam' = nam
    BY <1>4 DEF Aborted, StarFailed, SaltOrSalf, Salt, Salf
  <2> QED
    BY <1>0, <1>1, <2>1, AlikeSame, SameNames DEF NamesMatch
<1>5. CASE StarMatched
  <2>1. /\ nam' = nam /\ ret = 2
        /\ pdl' = IF Build = "isnobol4"
                  THEN Fenced(pdl, Caller.base, Caller.inner, Caller.patb) ELSE pdl
    BY <1>5 DEF StarMatched, Returning, Scok, ScokWith
  <2>2. CASE Build = "isnobol4"
    <3>1. Caller.base \in DOMAIN pdl /\ pdl[Caller.base].fn = "SCFL"
      BY <1>0, <2>1, <2>2, CallerBased DEF Based
    <3>2. Alike(pdl')
      BY <1>0, <2>1, <2>2, <3>1, AlikeFenced
    <3> QED
      BY <1>0, <1>1, <2>1, <3>2, SameNames DEF NamesMatch
  <2>3. CASE Build # "isnobol4"
    BY <1>0, <1>1, <2>1, <2>3, AlikeSame, SameNames DEF NamesMatch
  <2> QED
    BY <2>2, <2>3
<1> QED
  BY <1>3, <1>4, <1>5

LEMMA NamesStatement ==
  ASSUME TypeOK, TypeOK', Lists, NamesMatch, Scan \/ Scnr \/ Astray
  PROVE  NamesMatch'
<1>1. CASE pdl' = pdl
  <2>1. nam' = nam /\ calls' = calls
    BY DEF Scan, Scnr, Begin, Astray, Plain, mach
  <2> QED
    BY <1>1, <2>1, AlikeSame, SameNames DEF NamesMatch
<1>2. CASE pdl' # pdl
  <2>1. /\ pdl = <<>> /\ nam' = nam /\ calls' = calls
        /\ \E e : pdl' = <<e>> /\ e.fn \in {"SCON", "SCFL"}
    BY <1>2 DEF Scan, Scnr, Begin, Astray, Wild, Plain, mach, Lists, Trap, Entry
  <2>2. PICK e : pdl' = <<e>> /\ e.fn \in {"SCON", "SCFL"}
    BY <2>1
  <2>3. Alike(<<e>>)
    <3>1. Len(<<e>>) = 1 /\ <<e>>[1] = e /\ DOMAIN <<e>> = {1} /\ 1 .. 1 = {1}
      OBVIOUS
    <3>2. Len(pdl) = 0 /\ 1 .. 0 = {}
      BY <2>1
    <3> QED
      BY <2>2, <3>1, <3>2 DEF Alike, Undos
  <2> QED
    BY <2>1, <2>2, <2>3, SameNames DEF NamesMatch
<1> QED
  BY <1>1, <1>2

LEMMA InitNames == Init => NamesMatch
<1>1. Undos(<<>>, Len(<<>>)) = {} /\ Len(<<>>) = 0
  <2>1. Len(<<>>) = 0 /\ 1 .. 0 = {}
    OBVIOUS
  <2> QED
    BY <2>1 DEF Undos
<1>2. Cardinality({}) = 0
  BY FS_EmptySet
<1>3. ASSUME Init PROVE Len(nam) = Cardinality(Undos(pdl, Len(pdl)))
  <2>1. nam = <<>> /\ pdl = <<>>
    BY <1>3 DEF Init
  <2> QED
    BY <1>1, <1>2, <2>1
<1> QED
  BY <1>3 DEF Init, NamesMatch

LEMMA NextNames ==
  ASSUME TypeOK, TypeOK', Lists, NamesMatch, NoFences, [Next]_vars
  PROVE  NamesMatch'
<1>1. CASE Ordinary
  BY <1>1, NamesOrdinary
<1>2. CASE StarCall \/ Fnca \/ (Dsar /\ calls' # calls)
  BY <1>2, NamesCalled
<1>3. CASE Scon \/ Scfl \/ Fncd \/ Strexc
  BY <1>3, NamesBounds
<1>4. CASE \/ Aborted \/ StarFailed \/ StarMatched \/ FenceFailed
           \/ FenceMatched
  BY <1>4, NamesReturn
<1>5. CASE Scan \/ Scnr \/ Astray
  BY <1>5, NamesStatement
<1>6. CASE UNCHANGED vars
  BY <1>6 DEF vars, NamesMatch, Undos
<1> QED
  BY <1>1, <1>2, <1>3, <1>4, <1>5, <1>6, Kinds DEF Next, Done

\* In both programs, as long as no pattern has FENCE(P): whenever the scan
\* backtracks, the names on the list are as many as the entries that take one
\* off, however scans were called, restarted and left, so that what
\* backtracking gives up is never assigned.
THEOREM NamesGivenUp == ASSUME NoFences PROVE Spec => []NamesUndone
<1>1. Init => NamesMatch
  BY InitNames
<1>2. TypeOK /\ Lists /\ (TypeOK /\ Lists)' /\ NamesMatch /\ [Next]_vars
        => NamesMatch'
  BY NextNames
<1>3. TypeOK /\ NamesMatch => NamesUndone
  <2> SUFFICES ASSUME TypeOK, NamesMatch PROVE NamesUndone
    OBVIOUS
  <2>1. DOMAIN pdl = 1 .. Len(pdl)
    BY DEF TypeOK
  <2> QED
    BY <2>1 DEF NamesMatch, NamesUndone, Undos
<1> QED
  BY <1>1, <1>2, <1>3, ListsKept, PTL DEF Spec

(***************************************************************************)
(* Which block an entry belongs to                                         *)
(***************************************************************************)
\* A block that calls no scan, and the variables' values all like that.
Flat(p)    == \A i \in DOMAIN Block(p) : Block(p)[i].fn \notin {"STAR", "DSAR", "FNCA"}
IsFlat(v)  == v.t = "P" => Flat(v.p)
FlatValues == \A r \in Requests : \A v \in Vars : IsFlat(r.env[v])
FlatNow    == (\A v \in Vars : IsFlat(env[v])) /\ \A n \in DOMAIN saved : IsFlat(saved[n])

\* Popping down from block p, the entry at m is of that block or says where
\* another begins.
Ready(h, m, p) == m = 0 \/ h[m].fn \in {"SCFL", "STREXC"} \/ h[m].pat = p
Linked(h)      == \A i \in DOMAIN h : i > 1 => Ready(h, i - 1, h[i].pat)

\* A seal is of a block with FENCE(P); an SCFL entry is the statement's or a
\* frame's; a frame's SCFL entry is of the caller's block.  The value of a
\* variable calls nothing, so a frame for it is the last.
Seals(h)    == \A i \in DOMAIN h : h[i].fn = "FNCD" => ~Flat(h[i].pat)
Scans(c, h) == \A i \in DOMAIN h :
                 h[i].fn = "SCFL" => i = 1 \/ \E k \in DOMAIN c : c[k].base = i
Callers(c, h) == \A k \in DOMAIN c :
  /\ c[k].base \in DOMAIN h => h[c[k].base].pat = c[k].patb
  /\ IF c[k].kind = "FNCA" THEN ~Flat(c[k].patb)
                           ELSE Flat(c[k].inner) /\ k = Len(c)

\* In a scan of a variable's value everything above the frame's entry is of
\* that value's block.
InValue == calls # <<>> /\ Caller.kind # "FNCA"
Inside  == InValue => /\ patb = Caller.inner
                      /\ \A i \in DOMAIN pdl : i > Caller.base =>
                           pdl[i].fn # "STREXC" /\ pdl[i].pat = Caller.inner
Resumes ==
  /\ Running \/ (At("exit") /\ ret = 2) => Ready(pdl, Len(pdl), patb)
  /\ Failing /\ calls # <<>> => /\ Ready(pdl, Caller.base - 1, Caller.patb)
                                /\ InValue => Len(pdl) = Caller.base - 1

\* All of it, until the statement ends or aborts.
Live   == Running \/ At("start") \/ (At("exit") /\ ret # 3)
Owned  == /\ FlatNow /\ Linked(pdl) /\ Seals(pdl) /\ Scans(calls, pdl)
          /\ Callers(calls, pdl) /\ Inside /\ Resumes
OwnedLive == Live => Owned

\* Nothing but these parts matters, and only while the scan goes on.
LEMMA OwnedStep ==
  ASSUME FlatNow', Linked(pdl'), Seals(pdl'), Scans(calls', pdl'),
         Callers(calls', pdl'), Inside', Resumes'
  PROVE  OwnedLive'
  BY DEF OwnedLive, Owned

LEMMA FramedNow ==
  ASSUME Lists, Build = "isnobol4", ~Failing, pc # "wild"
  PROVE  Framed(calls, pdl, FALSE)
<1>1. Failing = FALSE
  BY DEF Failing
<1> QED
  BY <1>1 DEF Lists

LEMMA CallerLast ==
  ASSUME TypeOK, calls # <<>>
  PROVE  /\ Caller = calls[Len(calls)] /\ Len(calls) \in DOMAIN calls
         /\ Caller \in Frames /\ Caller.base \in Nat /\ Caller.patb \in Addresses
         /\ Len(calls) \in Nat \ {0} /\ DOMAIN calls = 1 .. Len(calls)
<1>1. calls \in Seq(Frames)
  BY DEF TypeOK
<1>2. /\ Caller = calls[Len(calls)] /\ Caller \in Frames /\ Len(calls) \in Nat \ {0}
      /\ DOMAIN calls = 1 .. Len(calls)
  BY <1>1, Popped DEF Caller
<1> QED
  BY <1>2 DEF Frames

(***************************************************************************)
(* Steps at the top of the list                                            *)
(***************************************************************************)
LEMMA ReadyUnder ==
  ASSUME TypeOK, Linked(pdl), Ready(pdl, Len(pdl), patb),
         NEW h, NEW n, Turned(h, n)
  PROVE  Ready(pdl, n, patb)
<1>1. /\ n \in Nat /\ Len(pdl) \in Nat /\ n <= Len(pdl) /\ Len(pdl) <= n + 2
      /\ DOMAIN pdl = 1 .. Len(pdl)
  BY DEF Turned, TypeOK
<1>2. ASSUME NEW m \in Nat, n < m, m <= Len(pdl), Ready(pdl, m, patb)
      PROVE  Ready(pdl, m - 1, patb)
  <2>1. m \in DOMAIN pdl /\ m # 0
    BY <1>1, <1>2
  <2>2. pdl[m].fn \notin {"SCFL", "STREXC"}
    BY <1>2, <2>1 DEF Turned, Above, Bounds
  <2>3. pdl[m].pat = patb
    BY <1>2, <2>1, <2>2 DEF Ready
  <2>4. CASE m > 1
    BY <2>1, <2>3, <2>4 DEF Linked
  <2>5. CASE m = 1
    BY <2>5 DEF Ready
  <2> QED
    BY <1>2, <2>1, <2>4, <2>5
<1>3. n = Len(pdl) \/ n = Len(pdl) - 1 \/ n = Len(pdl) - 2
  <2>1. \A a, b \in Nat : a <= b /\ b <= a + 2 => a = b \/ a = b - 1 \/ a = b - 2
    OBVIOUS
  <2> QED
    BY <1>1, <2>1
<1>4. CASE n = Len(pdl)
  BY <1>4
<1>5. CASE n = Len(pdl) - 1
  BY <1>1, <1>2, <1>5
<1>6. CASE n = Len(pdl) - 2
  <2>1. Ready(pdl, Len(pdl) - 1, patb) /\ Len(pdl) - 1 \in Nat
    BY <1>1, <1>2, <1>6
  <2>2. Ready(pdl, Len(pdl) - 1 - 1, patb)
    BY <1>1, <1>2, <1>6, <2>1
  <2> QED
    BY <1>1, <1>6, <2>2
<1> QED
  BY <1>3, <1>4, <1>5, <1>6

LEMMA LinkedMoved ==
  ASSUME TypeOK, Linked(pdl), Ready(pdl, Len(pdl), patb),
         NEW h, NEW n, Turned(h, n)
  PROVE  Linked(h) /\ Ready(h, Len(h), patb)
<1>1. Ready(pdl, n, patb)
  BY ReadyUnder
<1>2. /\ n \in Nat /\ Len(h) \in Nat /\ DOMAIN h = 1 .. Len(h) /\ n <= Len(h)
      /\ n <= Len(pdl) /\ DOMAIN pdl = 1 .. Len(pdl) /\ Len(pdl) \in Nat
      /\ \A i \in DOMAIN h : i <= n => h[i] = pdl[i]
      /\ \A i \in DOMAIN h : i > n => h[i].pat = patb
  BY DEF Turned, TypeOK
<1>3. \A m \in Nat : m <= Len(h) => (m >= n => Ready(h, m, patb))
  <2>1. ASSUME NEW m \in Nat, m <= Len(h), m >= n, m # 0 PROVE Ready(h, m, patb)
    <3>1. m \in DOMAIN h
      BY <1>2, <2>1
    <3>2. CASE m = n
      BY <1>1, <1>2, <3>1, <3>2, <2>1 DEF Ready
    <3>3. CASE m > n
      BY <1>2, <3>1, <3>3 DEF Ready
    <3> QED
      BY <1>2, <2>1, <3>2, <3>3
  <2> QED
    BY <2>1 DEF Ready
<1>4. ASSUME NEW i \in DOMAIN h, i > 1 PROVE Ready(h, i - 1, h[i].pat)
  <2>1. i \in Nat /\ i - 1 \in Nat /\ i - 1 <= Len(h) /\ i - 1 # 0
    BY <1>2, <1>4
  <2>2. CASE i <= n
    <3>1. i \in DOMAIN pdl /\ h[i] = pdl[i] /\ i - 1 \in DOMAIN h /\ h[i - 1] = pdl[i - 1]
      BY <1>2, <1>4, <2>1, <2>2
    <3> QED
      BY <1>4, <3>1 DEF Linked, Ready
  <2>3. CASE i > n
    BY <1>2, <1>3, <2>1, <2>3
  <2> QED
    BY <1>2, <2>1, <2>2, <2>3
<1>5. Ready(h, Len(h), patb)
  BY <1>2, <1>3
<1> QED
  BY <1>4, <1>5 DEF Linked

LEMMA OwnedMoved ==
  ASSUME TypeOK, TypeOK', Lists, Owned, Build = "isnobol4", Moves, FlatNow'
  PROVE  OwnedLive'
<1>1. PICK n \in Nat : Moved(n)
  BY DEF Moves
<1>2. /\ Turned(pdl', n) /\ calls' = calls /\ patb' = patb /\ Running
      /\ ~ (At("exit") /\ ret = 1)'
  BY <1>1 DEF Moved, At
<1>3. Framed(calls, pdl, FALSE)
  BY <1>2, FramedNow DEF Running, Failing, At
<1>4. \A k \in DOMAIN calls : Based(pdl, calls[k].base) /\ calls[k].base <= n
  BY <1>2, <1>3, FramesStay
<1>5. /\ Len(pdl) \in Nat /\ DOMAIN pdl = 1 .. Len(pdl) /\ n <= Len(pdl)
      /\ Len(pdl') \in Nat /\ DOMAIN pdl' = 1 .. Len(pdl') /\ n <= Len(pdl')
      /\ \A i \in DOMAIN pdl' : i <= n => i \in DOMAIN pdl /\ pdl'[i] = pdl[i]
      /\ \A i \in DOMAIN pdl' : i > n =>
           pdl'[i].pat = patb /\ pdl'[i].fn \notin {"SCFL", "FNCD", "STREXC"}
  <2>1. pdl \in Seq(Entries) /\ pdl' \in Seq(Entries)
    BY DEF TypeOK
  <2>2. n <= Len(pdl) /\ n <= Len(pdl') /\ Len(pdl) \in Nat /\ Len(pdl') \in Nat
        /\ DOMAIN pdl = 1 .. Len(pdl) /\ DOMAIN pdl' = 1 .. Len(pdl')
    BY <1>2, <2>1 DEF Turned
  <2>3. \A i \in DOMAIN pdl' : i <= n => i \in DOMAIN pdl
    BY <2>2
  <2> QED
    BY <1>2, <2>2, <2>3 DEF Turned, Above, Bounds
<1>6. Linked(pdl') /\ Ready(pdl', Len(pdl'), patb)
  BY <1>2, LinkedMoved DEF Owned, Resumes
<1>7. Seals(pdl')
  BY <1>5 DEF Owned, Seals
<1>8. Scans(calls', pdl')
  BY <1>2, <1>5 DEF Owned, Scans
<1>9. Callers(calls', pdl')
  <2>1. \A k \in DOMAIN calls : calls[k].base \in DOMAIN pdl' => pdl'[calls[k].base] = pdl[calls[k].base]
    BY <1>4, <1>5
  <2> QED
    BY <1>2, <1>4, <2>1 DEF Owned, Callers, Based
<1>10. Inside'
  <2> SUFFICES ASSUME InValue
               PROVE  /\ patb = Caller.inner
                      /\ \A i \in DOMAIN pdl' : i > Caller.base =>
                           pdl'[i].fn # "STREXC" /\ pdl'[i].pat = Caller.inner
    BY <1>2 DEF Inside, InValue, Caller
  <2>1. patb = Caller.inner
    BY DEF Owned, Inside
  <2> QED
    BY <1>5, <2>1 DEF Owned, Inside
<1>11. Resumes'
  BY <1>2, <1>6 DEF Resumes, Failing
<1> QED
  BY <1>6, <1>7, <1>8, <1>9, <1>10, <1>11, OwnedStep

(***************************************************************************)
(* What values the variables and the DSAR nodes hold                       *)
(***************************************************************************)
LEMMA FlatSame == ASSUME FlatNow, UNCHANGED <<env, saved>> PROVE FlatNow'
  BY DEF FlatNow

LEMMA FlatStore ==
  ASSUME FlatNow, saved' = saved, NEW v, NEW x, x.t # "P",
         env' = [env EXCEPT ![v] = x], AreValues(env)
  PROVE  FlatNow'
  BY DEF FlatNow, IsFlat, AreValues

LEMMA FlatKeep ==
  ASSUME FlatNow, env' = env, NEW v, IsFlat(v), Keep(v) PROVE FlatNow'
  BY DEF FlatNow, Keep

LEMMA FlatOrdinary ==
  ASSUME TypeOK, FlatNow, Ordinary PROVE FlatNow'
<1>1. CASE \/ TooShort \/ PdlFull \/ Chr \/ AnyOf \/ Break \/ BreakX \/ Span
           \/ LenNode \/ Pos \/ Rpos \/ Tab \/ Rtab \/ Pass \/ Farb \/ Bal
           \/ FailNode \/ Abort \/ Succeed \/ Fnce
  <2>1. Plain
    BY <1>1 DEF TooShort, PdlFull, Overflow, Chr, AnyOf, Break, BreakX, Span,
       LenNode, Pos, Rpos, Tab, Rtab, Pass, Farb, Bal, FailNode, Abort, Succeed,
       Fnce
  <2> QED
    BY <2>1, FlatSame DEF Plain, mach
<1>2. CASE Arbn \/ Arbf \/ Earb \/ Onar \/ Onrf \/ Nme \/ Enme
  BY <1>2, FlatSame DEF Arbn, Arbf, Earb, Onar, Onrf, Nme, Enme, mach
<1>3. CASE Atp
  <2>1. [t |-> "I", i |-> cursor].t # "P"
    OBVIOUS
  <2> QED
    BY <1>3, <2>1, FlatStore DEF Atp, TypeOK
<1>4. CASE Enmi
  <2>1. \A i, j : String(i, j).t # "P"
    BY DEF String
  <2>2. CASE HasCursor
    <3>1. /\ env' = [env EXCEPT ![Node.arg] = String(Last(stk).v, cursor)]
          /\ saved' = saved /\ AreValues(env)
      BY <1>4, <2>2 DEF Enmi, TypeOK
    <3> QED
      BY <2>1, <3>1, FlatStore
  <2>3. CASE UNCHANGED env
    BY <1>4, <2>3, FlatSame DEF Enmi
  <2> QED
    BY <1>4, <2>2, <2>3 DEF Enmi
<1>5. CASE Star
  <2>1. Node.arg \in Vars
    BY <1>5, NodeType DEF Star, IsAt, IsNode, OfName
  <2>2. IsFlat(env[Node.arg]) /\ Keep(env[Node.arg]) /\ env' = env
    BY <1>5, <2>1 DEF Star, FlatNow
  <2> QED
    BY <2>2, FlatKeep
<1>6. CASE Dsar /\ calls' = calls
  <2>1. \A f : Append(calls, f) # calls
    BY NewFrames
  <2> QED
    BY <1>6, <2>1, FlatSame DEF Dsar, Plain, mach, Overflow
<1>7. CASE Dead \/ Alternative \/ Fncf \/ Sucf \/ Brxf
  <2>1. Plain
    BY <1>7 DEF Dead, Alternative, Fncf, Sucf, Brxf
  <2> QED
    BY <2>1, FlatSame DEF Plain, mach
<1>8. CASE Fnme \/ Undone
  BY <1>8, FlatSame DEF Fnme, Undone, mach
<1> QED
  BY <1>1, <1>2, <1>3, <1>4, <1>5, <1>6, <1>7, <1>8 DEF Ordinary, Fetch

(***************************************************************************)
(* Calls and returns                                                       *)
(***************************************************************************)
\* A scan of a value meets no node that calls one, so that every frame is
\* FENCE(P)'s when one is called.
LEMMA CallersFence ==
  ASSUME TypeOK, Owned, Fetched, Node.fn \in {"STAR", "DSAR", "FNCA"}
  PROVE  /\ \A k \in DOMAIN calls : calls[k].kind = "FNCA"
         /\ ~Flat(patb)
<1>1. ~Flat(patb)
  BY DEF Fetched, Node, Flat
<1>2. ASSUME NEW k \in DOMAIN calls, calls[k].kind # "FNCA" PROVE FALSE
  <2>1. k = Len(calls) /\ Flat(calls[k].inner)
    BY <1>2 DEF Owned, Callers
  <2>2. calls # <<>> /\ Caller = calls[k]
    BY <1>2, <2>1 DEF Caller, Last, TypeOK
  <2>3. InValue
    BY <1>2, <2>2 DEF InValue
  <2>4. patb = Caller.inner
    BY <2>3 DEF Owned, Inside
  <2> QED
    BY <1>1, <2>1, <2>2, <2>4
<1> QED
  BY <1>1, <1>2

\* The own entry and the SCFL entry of the call, on top.
LEMMA CalledList ==
  ASSUME TypeOK, Fetched, NEW h, h = Append(Own, Trap("SCFL", cursor, lenf))
  PROVE  /\ h \in Seq(Entries) /\ Len(h) = Len(pdl) + 2 /\ Len(pdl) \in Nat
         /\ DOMAIN h = 1 .. Len(pdl) + 2 /\ DOMAIN pdl = 1 .. Len(pdl)
         /\ \A i \in DOMAIN pdl : i \in DOMAIN h /\ h[i] = pdl[i]
         /\ h[Len(pdl) + 1].fn = "node" /\ h[Len(pdl) + 1].pat = patb
         /\ h[Len(pdl) + 2].fn = "SCFL" /\ h[Len(pdl) + 2].pat = patb
<1> DEFINE e == Trap("SCFL", cursor, lenf)
           o == Entry("node", Node.alt, Node.then, cursor, Node.res, 0, lenf, patb)
<1>1. e \in Entries /\ e.fn = "SCFL" /\ e.pat = patb
  BY TrapType DEF TypeOK, EntryFns, Trap, Entry
<1>2. o \in Entries /\ o.fn = "node" /\ o.pat = patb
  BY NodeType DEF TypeOK, Entry, Entries, EntryFns, IsNode
<1>3. Own = Append(pdl, o) /\ pdl \in Seq(Entries) /\ Len(pdl) \in Nat
      /\ DOMAIN pdl = 1 .. Len(pdl)
  BY DEF Own, OwnAt, TypeOK
<1> HIDE DEF e, o
<1>4. /\ Own \in Seq(Entries) /\ Len(Own) = Len(pdl) + 1 /\ Own[Len(pdl) + 1] = o
      /\ \A i \in DOMAIN pdl : Own[i] = pdl[i]
  BY <1>2, <1>3, OnTop
<1>5. /\ Append(Own, e) \in Seq(Entries) /\ Len(Append(Own, e)) = Len(pdl) + 2
      /\ Append(Own, e)[Len(pdl) + 2] = e
      /\ Append(Own, e)[Len(pdl) + 1] = o
      /\ \A i \in DOMAIN pdl : Append(Own, e)[i] = pdl[i]
  BY <1>1, <1>3, <1>4, OnTop
<1>6. h = Append(Own, e)
  BY DEF e
<1>7. DOMAIN h = 1 .. Len(pdl) + 2
  BY <1>5, <1>6
<1> QED
  BY <1>1, <1>2, <1>3, <1>5, <1>6, <1>7

\* What a call does to the list and the frames.
Calling == \E kind, inner :
  /\ pdl' = Append(Own, Trap("SCFL", cursor, lenf))
  /\ calls' = Append(calls, Frame(kind, inner, Len(pdl')))
  /\ patb' = inner /\ pc' \in {"next", "fail", "overflow"}
  /\ kind # "FNCA" => Flat(inner)

LEMMA OwnedCalling ==
  ASSUME TypeOK, TypeOK', Lists, Owned, Build = "isnobol4", FlatNow', Fetched,
         Node.fn \in {"STAR", "DSAR", "FNCA"}, Calling
  PROVE  OwnedLive'
<1>1. PICK kind, inner :
        /\ pdl' = Append(Own, Trap("SCFL", cursor, lenf))
        /\ calls' = Append(calls, Frame(kind, inner, Len(pdl')))
        /\ patb' = inner /\ pc' \in {"next", "fail", "overflow"}
        /\ kind # "FNCA" => Flat(inner)
  BY DEF Calling
<1> DEFINE f == Frame(kind, inner, Len(pdl'))
<1>2. /\ Len(pdl') = Len(pdl) + 2 /\ Len(pdl) \in Nat
      /\ DOMAIN pdl' = 1 .. Len(pdl) + 2 /\ DOMAIN pdl = 1 .. Len(pdl)
      /\ \A i \in DOMAIN pdl : i \in DOMAIN pdl' /\ pdl'[i] = pdl[i]
      /\ pdl'[Len(pdl) + 1].fn = "node" /\ pdl'[Len(pdl) + 1].pat = patb
      /\ pdl'[Len(pdl) + 2].fn = "SCFL" /\ pdl'[Len(pdl) + 2].pat = patb
  BY <1>1, CalledList
<1>3. /\ f.base = Len(pdl) + 2 /\ f.kind = kind /\ f.inner = inner /\ f.patb = patb
  BY <1>2 DEF Frame
<1>4. /\ Len(calls) \in Nat /\ DOMAIN calls = 1 .. Len(calls)
      /\ Len(calls') = Len(calls) + 1 /\ DOMAIN calls' = 1 .. Len(calls) + 1
      /\ calls'[Len(calls) + 1] = f /\ Caller' = f /\ calls' # <<>>
      /\ \A k \in DOMAIN calls : calls'[k] = calls[k]
  <2>1. calls \in Seq(Frames) /\ calls' \in Seq(Frames) /\ calls' = Append(calls, f)
    BY <1>1 DEF TypeOK, f
  <2> HIDE DEF f
  <2>2. /\ Len(calls) \in Nat /\ DOMAIN calls = 1 .. Len(calls)
        /\ Len(calls') = Len(calls) + 1 /\ DOMAIN calls' = 1 .. Len(calls) + 1
        /\ calls'[Len(calls) + 1] = f
        /\ \A k \in DOMAIN calls : calls'[k] = calls[k]
    BY <2>1
  <2>3. calls' # <<>> /\ Caller' = calls'[Len(calls')]
    BY <2>2 DEF Caller, Last
  <2> QED
    BY <2>2, <2>3
<1> HIDE DEF f
<1>5. /\ \A k \in DOMAIN calls : calls[k].kind = "FNCA"
      /\ ~Flat(patb)
  BY CallersFence
<1>6. \A i \in DOMAIN pdl' : i \in DOMAIN pdl \/ i = Len(pdl) + 1 \/ i = Len(pdl) + 2
  BY <1>2
<1>7. Linked(pdl')
  <2>1. Ready(pdl', Len(pdl), patb)
    <3>1. Ready(pdl, Len(pdl), patb)
      BY DEF Owned, Resumes, Running, Fetched, At
    <3>2. Len(pdl) = 0 \/ pdl'[Len(pdl)] = pdl[Len(pdl)]
      BY <1>2
    <3> QED
      BY <3>1, <3>2 DEF Ready
  <2>2. Ready(pdl', Len(pdl) + 1, patb)
    BY <1>2 DEF Ready
  <2>3. ASSUME NEW i \in DOMAIN pdl, i > 1 PROVE Ready(pdl', i - 1, pdl'[i].pat)
    <3>1. i - 1 \in DOMAIN pdl /\ i - 1 # 0
      BY <1>2, <2>3
    <3>2. Ready(pdl, i - 1, pdl[i].pat)
      BY <2>3 DEF Owned, Linked
    <3> QED
      BY <1>2, <2>3, <3>1, <3>2 DEF Ready
  <2>4. Len(pdl) + 1 - 1 = Len(pdl) /\ Len(pdl) + 2 - 1 = Len(pdl) + 1
    BY <1>2
  <2> QED
    BY <1>2, <1>6, <2>1, <2>2, <2>3, <2>4 DEF Linked
<1>8. Seals(pdl')
  BY <1>2, <1>6 DEF Owned, Seals
<1>9. Scans(calls', pdl')
  <2>1. ASSUME NEW i \in DOMAIN pdl, pdl[i].fn = "SCFL", i # 1
        PROVE  \E k \in DOMAIN calls' : calls'[k].base = i
    <3>1. PICK k \in DOMAIN calls : calls[k].base = i
      BY <2>1 DEF Owned, Scans
    <3> QED
      BY <1>4, <3>1
  <2>2. \E k \in DOMAIN calls' : calls'[k].base = Len(pdl) + 2
    BY <1>3, <1>4
  <2> QED
    BY <1>2, <1>6, <2>1, <2>2 DEF Scans
<1>10. Callers(calls', pdl')
  <2>1. Framed(calls, pdl, FALSE)
    BY FramedNow DEF Failing, Fetched, At
  <2>2. ASSUME NEW k \in DOMAIN calls
        PROVE  /\ pdl'[calls[k].base].pat = calls[k].patb
               /\ ~Flat(calls[k].patb)
    <3>1. Based(pdl, calls[k].base)
      BY <2>1 DEF Framed
    <3> QED
      BY <1>2, <1>5, <3>1 DEF Based, Owned, Callers
  <2>3. /\ pdl'[f.base].pat = f.patb
        /\ IF f.kind = "FNCA" THEN ~Flat(f.patb) ELSE Flat(f.inner)
    BY <1>1, <1>2, <1>3, <1>5
  <2>4. \A k \in DOMAIN calls' : k \in DOMAIN calls \/ k = Len(calls) + 1
    BY <1>4
  <2> QED
    BY <1>4, <1>5, <2>2, <2>3, <2>4 DEF Callers
<1>11. Inside'
  <2>1. patb' = Caller'.inner
    BY <1>1, <1>3, <1>4
  <2>2. ~ \E i \in DOMAIN pdl' : i > Caller'.base
    BY <1>2, <1>3, <1>4
  <2> QED
    BY <2>1, <2>2 DEF Inside
<1>12. Resumes'
  <2>1. pc' # "exit"
    BY <1>1
  <2>2. Ready(pdl', Len(pdl'), patb')
    BY <1>2 DEF Ready
  <2> QED
    BY <2>1, <2>2 DEF Resumes, Failing, At
<1> QED
  BY <1>7, <1>8, <1>9, <1>10, <1>11, <1>12, OwnedStep

LEMMA OwnedCalls ==
  ASSUME TypeOK, TypeOK', Lists, Owned, Build = "isnobol4",
         StarCall \/ Fnca \/ (Dsar /\ calls' # calls)
  PROVE  OwnedLive'
<1>0. Fetched /\ Node.fn \in {"STAR", "DSAR", "FNCA"}
  BY DEF StarCall, Fnca, Dsar, IsAt
<1>1. CASE StarCall
  <2>1. Node.arg \in Vars
    BY <1>1, NodeType DEF StarCall, IsAt, IsNode, OfName
  <2> DEFINE v == env[Node.arg]
  <2>2. v.t = "P" /\ Keep(v) /\ env' = env /\ IsFlat(v)
    BY <1>1, <2>1 DEF StarCall, Call, Owned, FlatNow
  <2>3. FlatNow'
    BY <2>2, FlatKeep DEF Owned
  <2>4. \E room : Call("STAR", v.p, room, Append(Own, Trap("SCFL", cursor, lenf)))
    BY <1>1 DEF StarCall
  <2>5. Calling
    BY <2>2, <2>4 DEF Call, Calling, IsFlat
  <2> QED
    BY <1>0, <2>3, <2>5, OwnedCalling
<1>2. CASE Fnca
  <2>1. FlatNow'
    BY <1>2, FlatSame DEF Fnca, Call, Owned
  <2>2. Calling
    BY <1>2 DEF Fnca, Call, Calling
  <2> QED
    BY <1>0, <2>1, <2>2, OwnedCalling
<1>3. CASE Dsar /\ calls' # calls
  <2> DEFINE h == Append(Own, Trap("SCFL", cursor, lenf))
             v == saved[<<patb, pati>>]
  <2>1. /\ <<patb, pati>> \in DOMAIN saved /\ v.t = "P"
        /\ SaltOrSalf(h) /\ calls' = Append(calls, Frame("DSAR", v.p, Len(h)))
        /\ patb' = v.p /\ UNCHANGED <<saved, env>>
    BY <1>3 DEF Dsar, Plain, mach, Overflow
  <2>2. IsFlat(v) /\ FlatNow'
    BY <2>1, FlatSame DEF Owned, FlatNow
  <2>3. pdl' = h /\ pc' = "fail"
    BY <2>1 DEF SaltOrSalf, Salt, Salf
  <2>4. Calling
    BY <2>1, <2>2, <2>3 DEF Calling, IsFlat
  <2> QED
    BY <1>0, <2>2, <2>4, OwnedCalling
<1> QED
  BY <1>1, <1>2, <1>3

(***************************************************************************)
(* The steps that take bounding entries off, or put them on                *)
(***************************************************************************)
LEMMA OwnedNot == ASSUME ~Live' PROVE OwnedLive'
  BY DEF OwnedLive

\* The parts of Owned that a shorter list keeps.
LEMMA OwnedPrefix ==
  ASSUME TypeOK, Owned, NEW h \in Seq(Entries), Len(h) <= Len(pdl),
         \A i \in DOMAIN h : h[i] = pdl[i]
  PROVE  Linked(h) /\ Seals(h) /\ Scans(calls, h) /\ Callers(calls, h)
<1>1. /\ Len(h) \in Nat /\ DOMAIN h = 1 .. Len(h)
      /\ Len(pdl) \in Nat /\ DOMAIN pdl = 1 .. Len(pdl)
  BY DEF TypeOK
<1>2. \A i \in DOMAIN h : i \in DOMAIN pdl /\ i \in Nat
  BY <1>1
<1>3. ASSUME NEW i \in DOMAIN h, i > 1 PROVE Ready(h, i - 1, h[i].pat)
  <2>1. i - 1 \in DOMAIN h /\ h[i - 1] = pdl[i - 1]
    BY <1>1, <1>3
  <2>2. Ready(pdl, i - 1, pdl[i].pat)
    BY <1>2, <1>3 DEF Owned, Linked
  <2> QED
    BY <2>1, <2>2 DEF Ready
<1>4. Seals(h) /\ Scans(calls, h)
  BY <1>2 DEF Owned, Seals, Scans
<1>5. Callers(calls, h)
  BY <1>2 DEF Owned, Callers
<1> QED
  BY <1>3, <1>4, <1>5 DEF Linked

\* When the frame called last goes, FENCE(P)'s are left.
LEMMA FrontFences ==
  ASSUME TypeOK, Lists, Owned, Build = "isnobol4", At("exit"), calls # <<>>,
         calls' = Front(calls)
  PROVE  /\ ~InValue'
         /\ \A k \in DOMAIN calls' :
              /\ k \in DOMAIN calls /\ calls'[k] = calls[k]
              /\ calls[k].kind = "FNCA" /\ ~Flat(calls[k].patb)
              /\ Based(pdl, calls[k].base) /\ calls[k].base < Caller.base
              /\ pdl[calls[k].base].pat = calls[k].patb
         /\ \A k \in DOMAIN calls : calls[k].base # Caller.base => k \in DOMAIN calls'
         /\ Caller.base \in Nat /\ Caller.base <= Len(pdl) + 1 /\ Caller.base >= 1
<1>1. Framed(calls, pdl, TRUE)
  BY DEF Lists, Framed, At
<1>2. /\ calls \in Seq(Frames) /\ Len(calls) \in Nat \ {0}
      /\ Caller = calls[Len(calls)]
      /\ Front(calls) \in Seq(Frames) /\ Len(Front(calls)) = Len(calls) - 1
  BY Popped DEF TypeOK, Caller
<1>3. \A k \in DOMAIN calls' : k # Len(calls)
  BY <1>2
<1>4. \A k \in DOMAIN calls' :
        /\ k \in DOMAIN calls /\ calls'[k] = calls[k]
        /\ Based(pdl, calls[k].base) /\ calls[k].base < Caller.base
  BY <1>1, FramedBelow
<1>5. \A k \in DOMAIN calls' :
        /\ calls[k].kind = "FNCA" /\ ~Flat(calls[k].patb)
        /\ pdl[calls[k].base].pat = calls[k].patb
  BY <1>3, <1>4 DEF Owned, Callers, Based
<1>6. ~InValue'
  <2> SUFFICES ASSUME calls' # <<>> PROVE Caller'.kind = "FNCA"
    BY DEF InValue
  <2>1. /\ Len(Front(calls)) \in DOMAIN Front(calls)
        /\ Last(Front(calls)) = Front(calls)[Len(Front(calls))]
    BY <1>2 DEF Last
  <2>2. Len(calls') \in DOMAIN calls' /\ Caller' = calls'[Len(calls')]
    BY <2>1 DEF Caller
  <2> QED
    BY <2>2, <1>4, <1>5
<1>7. \A k \in DOMAIN calls : calls[k].base # Caller.base => k \in DOMAIN calls'
  <2>1. DOMAIN calls = 1 .. Len(calls) /\ DOMAIN calls' = 1 .. Len(calls) - 1
    BY <1>2
  <2> QED
    BY <1>2, <2>1
<1> QED
  BY <1>1, <1>4, <1>5, <1>6, <1>7, FramedBelow

\* The entry under a frame's own.
LEMMA ReadyBase ==
  ASSUME TypeOK, Owned, calls # <<>>, Based(pdl, Caller.base)
  PROVE  Ready(pdl, Caller.base - 1, Caller.patb)
<1>1. /\ Caller = calls[Len(calls)] /\ Len(calls) \in DOMAIN calls /\ Caller.base \in Nat
  BY CallerLast
<1>2. pdl[Caller.base].pat = Caller.patb
  BY <1>1 DEF Owned, Callers, Based
<1>3. DOMAIN pdl = 1 .. Len(pdl) /\ Caller.base \in DOMAIN pdl
  BY DEF TypeOK, Based
<1>4. CASE Caller.base > 1
  BY <1>2, <1>3, <1>4 DEF Owned, Linked
<1>5. CASE Caller.base = 1
  BY <1>5 DEF Ready
<1> QED
  BY <1>1, <1>3, <1>4, <1>5

\* The entry of the frame called last, while its scan runs.
LEMMA CallerEntry ==
  ASSUME TypeOK, Lists, Build = "isnobol4", Running, calls # <<>>
  PROVE  Based(pdl, Caller.base)
         /\ \A k \in DOMAIN calls : k # Len(calls) => calls[k].base < Caller.base
<1>1. Framed(calls, pdl, FALSE)
  BY FramedNow DEF Running, Failing, At
<1> QED
  BY <1>1, CallerLast DEF Framed

LEMMA OwnedOne ==
  ASSUME FlatNow', calls' = <<>>, NEW e, pdl' = <<e>>,
         e.fn \in {"SCON", "SCFL"}, e.pat = patb', pc' = "next"
  PROVE  OwnedLive'
<1>1. DOMAIN pdl' = {1} /\ pdl'[1] = e /\ Len(pdl') = 1
  OBVIOUS
<1>2. Linked(pdl') /\ Seals(pdl') /\ Scans(calls', pdl') /\ Callers(calls', pdl')
  BY <1>1 DEF Linked, Seals, Scans, Callers
<1>3. Inside'
  BY DEF Inside, InValue
<1>4. Ready(pdl', Len(pdl'), patb')
  BY <1>1 DEF Ready
<1>5. Resumes'
  BY <1>4 DEF Resumes, Failing, At
<1> QED
  BY <1>2, <1>3, <1>5, OwnedStep

LEMMA OwnedScnr == ASSUME TypeOK, Lists, Owned, Scnr PROVE OwnedLive'
<1>1. calls' = <<>> /\ FlatNow'
  <2>1. calls' = calls /\ UNCHANGED <<env, saved>> /\ calls = <<>>
    BY DEF Scnr, Begin, Plain, mach, Lists
  <2> QED
    BY <2>1, FlatSame DEF Owned
<1>2. CASE pc' = "failed"
  BY <1>2, OwnedNot DEF Live, Running, At
<1>3. ASSUME NEW fn \in {"SCON", "SCFL"}, NEW s, Begin(fn, s) PROVE OwnedLive'
  <2>1. PICK e : pdl' = <<e>> /\ e.fn = fn /\ e.pat = patb' /\ pc' = "next"
    BY <1>3 DEF Begin, Trap, Entry
  <2> QED
    BY <1>1, <1>3, <2>1, OwnedOne
<1> QED
  BY <1>2, <1>3 DEF Scnr

LEMMA OwnedScon ==
  ASSUME TypeOK, TypeOK', Lists, Owned, Build = "isnobol4", Scon PROVE OwnedLive'
<1>1. /\ pdl # <<>> /\ Top.fn = "SCON" /\ Running /\ calls' = calls
      /\ UNCHANGED <<env, saved>>
  BY DEF Scon, PopsTo, Popping, Running, At
<1>2. Len(pdl) = 1 /\ DOMAIN pdl = {1} /\ pdl[1].fn = "SCON"
  <2>1. Len(pdl) \in DOMAIN pdl /\ pdl[Len(pdl)].fn = "SCON"
    BY <1>1, TopEntry
  <2>2. Len(pdl) = 1
    BY <2>1 DEF Lists, Formed, Shaped
  <2>3. DOMAIN pdl = 1 .. Len(pdl)
    BY DEF TypeOK
  <2> QED
    BY <2>1, <2>2, <2>3
<1>3. calls = <<>>
  <2>1. ASSUME calls # <<>> PROVE FALSE
    BY <1>1, <1>2, <2>1, CallerEntry DEF Based
  <2> QED
    BY <2>1
<1>4. FlatNow' /\ calls' = <<>> /\ Rest = <<>>
  <2>1. Rest \in Seq(Entries) /\ Len(Rest) = 0
    BY <1>1, <1>2, TopEntry
  <2>2. Rest = <<>>
    BY <2>1
  <2> QED
    BY <1>1, <1>3, <2>2, FlatSame DEF Owned
<1>5. CASE Exit(1, Rest)
  <2>1. pdl' = <<>> /\ pc' = "exit" /\ ret' = 1
    BY <1>4, <1>5 DEF Exit
  <2>2. Linked(pdl') /\ Seals(pdl') /\ Scans(calls', pdl') /\ Callers(calls', pdl')
    BY <1>4, <2>1 DEF Linked, Seals, Scans, Callers
  <2>3. Inside' /\ Resumes'
    BY <1>4, <2>1 DEF Inside, InValue, Resumes, Running, Failing, At
  <2> QED
    BY <1>4, <2>2, <2>3, OwnedStep
<1>6. CASE pc' = "wild"
  BY <1>6, OwnedNot DEF Live, Running, At
<1>7. ASSUME NEW c, pdl' = Append(Rest, [Trap("SCON", c, 1) EXCEPT !.pat = req.pat]),
             patb' = req.pat, pc' = "next"
      PROVE  OwnedLive'
  <2> DEFINE e == [Trap("SCON", c, 1) EXCEPT !.pat = req.pat]
  <2>1. e.fn = "SCON" /\ e.pat = patb'
    BY <1>7 DEF Trap, Entry
  <2>2. pdl' = <<e>>
    BY <1>4, <1>7
  <2> QED
    BY <1>4, <1>7, <2>1, <2>2, OwnedOne
<1> QED
  BY <1>5, <1>6, <1>7 DEF Scon, Wild

LEMMA OwnedScfl ==
  ASSUME TypeOK, TypeOK', Lists, Owned, Build = "isnobol4", Scfl PROVE OwnedLive'
<1>1. /\ pdl # <<>> /\ Top.fn = "SCFL" /\ Running /\ calls' = calls
      /\ patb' = patb /\ UNCHANGED <<env, saved>> /\ pdl' = Rest
      /\ pc' = "exit" /\ ret' = 1
  BY DEF Scfl, PopsTo, Popping, Running, At, Exit, Plain, mach
<1>2. /\ Rest \in Seq(Entries) /\ Len(Rest) = Len(pdl) - 1 /\ Len(pdl) \in Nat \ {0}
      /\ \A i \in DOMAIN Rest : i \in DOMAIN pdl /\ Rest[i] = pdl[i]
      /\ DOMAIN Rest = 1 .. Len(pdl) - 1 /\ DOMAIN pdl = 1 .. Len(pdl)
      /\ Len(pdl) \in DOMAIN pdl /\ Top = pdl[Len(pdl)]
  BY <1>1, TopEntry DEF TypeOK
<1>3. FlatNow' /\ Linked(Rest) /\ Seals(Rest) /\ Scans(calls, Rest) /\ Callers(calls, Rest)
  BY <1>1, <1>2, OwnedPrefix, FlatSame DEF Owned
<1>4. ASSUME calls # <<>> PROVE Caller.base = Len(pdl)
  <2>1. /\ Based(pdl, Caller.base)
        /\ \A k \in DOMAIN calls : k # Len(calls) => calls[k].base < Caller.base
    BY <1>1, <1>4, CallerEntry
  <2>2. Caller.base \in 1 .. Len(pdl)
    BY <1>2, <2>1 DEF Based
  <2>3. Len(pdl) = 1 \/ \E k \in DOMAIN calls : calls[k].base = Len(pdl)
    BY <1>1, <1>2 DEF Owned, Scans
  <2>4. CASE Len(pdl) = 1
    BY <2>2, <2>4
  <2>5. ASSUME NEW k \in DOMAIN calls, calls[k].base = Len(pdl)
        PROVE  Caller.base = Len(pdl)
    BY <1>4, <1>2, <2>1, <2>2, <2>5, CallerLast
  <2> QED
    BY <2>3, <2>4, <2>5
<1>5. Inside'
  <2> SUFFICES ASSUME InValue
               PROVE  patb = Caller.inner /\ ~ \E i \in DOMAIN Rest : i > Caller.base
    BY <1>1 DEF Inside, InValue, Caller
  <2>1. patb = Caller.inner /\ Caller.base = Len(pdl)
    BY <1>4 DEF Owned, Inside, InValue
  <2> QED
    BY <1>2, <2>1
<1>6. ASSUME calls # <<>>
      PROVE  Ready(Rest, Caller.base - 1, Caller.patb) /\ Len(Rest) = Caller.base - 1
  <2>1. Ready(pdl, Caller.base - 1, Caller.patb) /\ Caller.base = Len(pdl)
    BY <1>1, <1>4, <1>6, CallerEntry, ReadyBase
  <2>2. Caller.base - 1 = 0 \/ Rest[Caller.base - 1] = pdl[Caller.base - 1]
    BY <1>2, <2>1
  <2> QED
    BY <1>2, <2>1, <2>2 DEF Ready
<1>7. Resumes'
  BY <1>1, <1>6 DEF Resumes, Running, Failing, At, InValue, Caller
<1> QED
  BY <1>1, <1>3, <1>5, <1>7, OwnedStep

\* No seal is on top in the scan of a value.
LEMMA OwnedFncd ==
  ASSUME TypeOK, TypeOK', Lists, Owned, Build = "isnobol4", Fncd PROVE OwnedLive'
<1>1. /\ pdl # <<>> /\ Top.fn = "FNCD" /\ Running /\ calls' = calls
      /\ patb' = patb /\ UNCHANGED <<env, saved>> /\ pdl' = Rest
      /\ pc' = "exit" /\ ret' = 1
  BY FncdRest DEF Fncd, PopsTo, Popping, Running, At, Exit, mach
<1>2. /\ Rest \in Seq(Entries) /\ Len(Rest) = Len(pdl) - 1 /\ Len(pdl) \in Nat \ {0}
      /\ \A i \in DOMAIN Rest : i \in DOMAIN pdl /\ Rest[i] = pdl[i]
      /\ DOMAIN Rest = 1 .. Len(pdl) - 1 /\ DOMAIN pdl = 1 .. Len(pdl)
      /\ Len(pdl) \in DOMAIN pdl /\ Top = pdl[Len(pdl)]
  BY <1>1, TopEntry DEF TypeOK
<1>3. FlatNow' /\ Linked(Rest) /\ Seals(Rest) /\ Scans(calls, Rest) /\ Callers(calls, Rest)
  BY <1>1, <1>2, OwnedPrefix, FlatSame DEF Owned
<1>4. ASSUME calls # <<>>
      PROVE  Based(pdl, Caller.base) /\ Caller.base \in 1 .. Len(pdl) - 1
  <2>1. Based(pdl, Caller.base) /\ Caller.base # Len(pdl)
    BY <1>1, <1>2, <1>4, CallerEntry DEF Based
  <2> QED
    BY <1>2, <2>1 DEF Based
<1>5. ~InValue
  <2> SUFFICES ASSUME InValue PROVE FALSE
    OBVIOUS
  <2>1. calls # <<>> /\ Caller.kind # "FNCA"
    BY DEF InValue
  <2>2. Len(pdl) > Caller.base
    BY <1>2, <1>4, <2>1
  <2>3. Top.pat = Caller.inner
    BY <1>2, <2>2 DEF Owned, Inside
  <2>4. Flat(Caller.inner)
    BY <2>1, CallerLast DEF Owned, Callers
  <2>5. ~Flat(Top.pat)
    BY <1>1, <1>2 DEF Owned, Seals
  <2> QED
    BY <2>3, <2>4, <2>5
<1>6. ~InValue'
  BY <1>1, <1>5 DEF InValue, Caller
<1>7. ASSUME calls # <<>> PROVE Ready(Rest, Caller.base - 1, Caller.patb)
  <2>1. Ready(pdl, Caller.base - 1, Caller.patb)
    BY <1>4, <1>7, ReadyBase
  <2>2. Caller.base - 1 = 0 \/ Rest[Caller.base - 1] = pdl[Caller.base - 1]
    BY <1>2, <1>4, <1>7
  <2> QED
    BY <2>1, <2>2 DEF Ready
<1>8. Resumes'
  BY <1>1, <1>6, <1>7 DEF Resumes, Running, Failing, At, Caller
<1> QED
  BY <1>1, <1>3, <1>6, <1>8, OwnedStep DEF Inside

\* The entry that says where another block begins goes: PATBCL is that block.
LEMMA OwnedStrexc ==
  ASSUME TypeOK, TypeOK', Lists, Owned, Build = "isnobol4", Strexc PROVE OwnedLive'
<1>1. /\ pdl # <<>> /\ Top.fn = "STREXC" /\ Running /\ calls' = calls
      /\ patb' = Top.pat /\ UNCHANGED <<env, saved>> /\ pdl' = Rest /\ pc' = "fail"
  BY DEF Strexc, PopsTo, Popping, Running, At, SaltOrSalf, Salt, Salf
<1>2. /\ Rest \in Seq(Entries) /\ Len(Rest) = Len(pdl) - 1 /\ Len(pdl) \in Nat \ {0}
      /\ \A i \in DOMAIN Rest : i \in DOMAIN pdl /\ Rest[i] = pdl[i]
      /\ DOMAIN Rest = 1 .. Len(pdl) - 1 /\ DOMAIN pdl = 1 .. Len(pdl)
      /\ Len(pdl) \in DOMAIN pdl /\ Top = pdl[Len(pdl)]
  BY <1>1, TopEntry DEF TypeOK
<1>3. FlatNow' /\ Linked(Rest) /\ Seals(Rest) /\ Scans(calls, Rest) /\ Callers(calls, Rest)
  BY <1>1, <1>2, OwnedPrefix, FlatSame DEF Owned
<1>4. ~InValue
  <2> SUFFICES ASSUME InValue PROVE FALSE
    OBVIOUS
  <2>1. Based(pdl, Caller.base) /\ Caller.base # Len(pdl)
    BY <1>1, <1>2, CallerEntry DEF Based, InValue
  <2>2. Len(pdl) > Caller.base
    BY <1>2, <2>1 DEF Based
  <2> QED
    BY <1>1, <1>2, <2>2 DEF Owned, Inside
<1>5. ~InValue'
  BY <1>1, <1>4 DEF InValue, Caller
<1>6. Ready(Rest, Len(Rest), patb')
  <2>1. CASE Len(pdl) = 1
    BY <1>2, <2>1 DEF Ready
  <2>2. CASE Len(pdl) > 1
    <3>1. Ready(pdl, Len(pdl) - 1, Top.pat)
      BY <1>2, <2>2 DEF Owned, Linked
    <3>2. Rest[Len(pdl) - 1] = pdl[Len(pdl) - 1]
      BY <1>2, <2>2
    <3> QED
      BY <1>1, <1>2, <3>1, <3>2 DEF Ready
  <2> QED
    BY <1>2, <2>1, <2>2
<1>7. Resumes'
  BY <1>1, <1>6 DEF Resumes, Failing, At
<1> QED
  BY <1>1, <1>3, <1>5, <1>7, OwnedStep DEF Inside

(***************************************************************************)
(* The code after a call                                                   *)
(***************************************************************************)
LEMMA OwnedStarFailed ==
  ASSUME TypeOK, TypeOK', Lists, Owned, Build = "isnobol4", StarFailed
  PROVE  OwnedLive'
<1>1. /\ At("exit") /\ ret = 1 /\ calls # <<>> /\ Caller.kind \in {"STAR", "DSAR"}
      /\ calls' = Front(calls) /\ patb' = Caller.patb /\ pdl' = pdl
      /\ pc' = "fail" /\ UNCHANGED <<env, saved>>
  BY DEF StarFailed, Returning, Restored, SaltOrSalf, Salt, Salf
<1>2. /\ ~InValue'
      /\ \A k \in DOMAIN calls' : calls'[k] = calls[k] /\ calls[k].kind = "FNCA"
           /\ ~Flat(calls[k].patb) /\ pdl[calls[k].base].pat = calls[k].patb
      /\ \A k \in DOMAIN calls : calls[k].base # Caller.base => k \in DOMAIN calls'
      /\ Caller.base \in Nat
  BY <1>1, FrontFences
<1>3. FlatNow'
  BY <1>1, FlatSame DEF Owned
<1>4. Ready(pdl, Len(pdl), Caller.patb) /\ Len(pdl) = Caller.base - 1
  <2>1. Failing /\ InValue
    BY <1>1 DEF Failing, InValue
  <2> QED
    BY <1>1, <2>1 DEF Owned, Resumes
<1>5. Linked(pdl') /\ Seals(pdl')
  BY <1>1 DEF Owned
<1>6. Scans(calls', pdl')
  <2>1. \A i \in DOMAIN pdl : i # Caller.base
    <3>1. DOMAIN pdl = 1 .. Len(pdl)
      BY DEF TypeOK
    <3> QED
      BY <1>2, <1>4, <3>1
  <2> QED
    BY <1>1, <1>2, <2>1 DEF Owned, Scans
<1>7. Callers(calls', pdl')
  BY <1>1, <1>2 DEF Callers
<1>8. Resumes'
  BY <1>1, <1>4 DEF Resumes, Failing, At
<1> QED
  BY <1>2, <1>3, <1>5, <1>6, <1>7, <1>8, OwnedStep DEF Inside

\* The callee's entries stand between the two entries that name the blocks.
LEMMA OwnedStarMatched ==
  ASSUME TypeOK, TypeOK', Lists, Owned, Build = "isnobol4", StarMatched
  PROVE  OwnedLive'
<1> DEFINE h == Fenced(pdl, Caller.base, Caller.inner, Caller.patb)
           b == Caller.base
<1>1. /\ At("exit") /\ ret = 2 /\ calls # <<>> /\ Caller.kind \in {"STAR", "DSAR"}
      /\ calls' = Front(calls) /\ patb' = Caller.patb /\ pdl' = h
      /\ pc' \in {"next", "exit", "overflow"} /\ (pc' = "exit" => ret' = 2)
      /\ UNCHANGED <<env, saved>>
  BY DEF StarMatched, Returning, Restored, Scok, ScokWith
<1>2. /\ ~InValue'
      /\ \A k \in DOMAIN calls' :
           /\ k \in DOMAIN calls /\ calls'[k] = calls[k]
           /\ calls[k].kind = "FNCA" /\ ~Flat(calls[k].patb)
           /\ Based(pdl, calls[k].base) /\ calls[k].base < b
           /\ pdl[calls[k].base].pat = calls[k].patb
      /\ \A k \in DOMAIN calls : calls[k].base # b => k \in DOMAIN calls'
  BY <1>1, FrontFences
<1>3. FlatNow'
  BY <1>1, FlatSame DEF Owned
<1>4. Based(pdl, b) /\ pdl \in Seq(Entries) /\ h \in Seq(Entries)
  BY <1>1, CallerBased DEF TypeOK
<1>5. /\ Len(pdl) \in Nat /\ DOMAIN pdl = 1 .. Len(pdl) /\ b \in 1 .. Len(pdl)
      /\ DOMAIN h = 1 .. Len(h)
  BY <1>4 DEF Based
<1>6. /\ Len(h) = IF Len(pdl) > b THEN Len(pdl) + 1 ELSE Len(pdl)
      /\ \A i \in 1 .. Len(pdl) : /\ h[i].fn = IF i = b THEN "STREXC" ELSE pdl[i].fn
                                  /\ i # b => h[i] = pdl[i]
      /\ h[b].pat = Caller.patb
      /\ Len(pdl) > b => h[Len(pdl) + 1] = Sentinel(Caller.inner)
  <2>1. Caller.base \in DOMAIN pdl /\ pdl \in Seq(Entries)
    BY <1>4, <1>5
  <2> QED
    BY <2>1, FencedList
<1>7. Sentinel(Caller.inner).fn = "STREXC" /\ Sentinel(Caller.inner).pat = Caller.inner
  BY DEF Sentinel, Entry
<1>8. InValue
  BY <1>1 DEF InValue
<1>9. pdl[b].pat = Caller.patb
  BY <1>1, <1>4, CallerLast DEF Owned, Callers, Based
<1> HIDE DEF h
<1>10. \A i \in DOMAIN h : i = b \/ (i # b /\ i \in DOMAIN pdl /\ h[i] = pdl[i])
                         \/ (i = Len(pdl) + 1 /\ Len(pdl) > b)
  BY <1>5, <1>6
<1>11. Linked(h)
  <2>1. ASSUME NEW i \in DOMAIN h, i > 1, i \in DOMAIN pdl
        PROVE  Ready(h, i - 1, h[i].pat)
    <3>1. i - 1 \in 1 .. Len(pdl) /\ i - 1 # 0
      BY <1>5, <2>1
    <3>2. h[i].pat = pdl[i].pat
      BY <1>6, <1>9, <1>10, <2>1, <1>5
    <3>3. Ready(pdl, i - 1, pdl[i].pat)
      BY <2>1 DEF Owned, Linked
    <3>4. CASE i - 1 = b
      BY <1>6, <3>1, <3>4 DEF Ready
    <3>5. CASE i - 1 # b
      BY <1>6, <3>1, <3>2, <3>3, <3>5 DEF Ready
    <3> QED
      BY <3>4, <3>5
  <2>2. ASSUME Len(pdl) > b PROVE Ready(h, Len(pdl), Caller.inner)
    <3>1. Len(pdl) \in DOMAIN pdl /\ Len(pdl) # b
      BY <1>5, <2>2
    <3>2. pdl[Len(pdl)].pat = Caller.inner
      BY <1>8, <2>2, <3>1 DEF Owned, Inside
    <3> QED
      BY <1>5, <1>6, <3>1, <3>2 DEF Ready
  <2>3. ASSUME NEW i \in DOMAIN h, i > 1, i = Len(pdl) + 1, Len(pdl) > b
        PROVE  Ready(h, i - 1, h[i].pat)
    <3>1. i - 1 = Len(pdl) /\ h[i].pat = Caller.inner
      BY <1>5, <1>6, <1>7, <2>3
    <3> QED
      BY <2>2, <2>3, <3>1
  <2> QED
    BY <1>5, <1>10, <2>1, <2>3 DEF Linked
<1>12. Seals(h)
  BY <1>5, <1>6, <1>7, <1>10 DEF Owned, Seals
<1>13. Scans(calls', h)
  <2>1. ASSUME NEW i \in DOMAIN h, h[i].fn = "SCFL", i # 1
        PROVE  \E k \in DOMAIN calls' : calls'[k].base = i
    <3>1. i # b /\ i \in DOMAIN pdl /\ pdl[i].fn = "SCFL"
      BY <1>5, <1>6, <1>7, <1>10, <2>1
    <3>2. PICK k \in DOMAIN calls : calls[k].base = i
      BY <2>1, <3>1 DEF Owned, Scans
    <3> QED
      BY <1>2, <3>1, <3>2
  <2> QED
    BY <2>1 DEF Scans
<1>14. Callers(calls', h)
  <2>1. ASSUME NEW k \in DOMAIN calls' PROVE h[calls[k].base].pat = calls[k].patb
    <3>1. calls[k].base \in 1 .. Len(pdl) /\ calls[k].base # b
      BY <1>2, <1>5, <2>1 DEF Based
    <3> QED
      BY <1>2, <1>6, <3>1
  <2> QED
    BY <1>2, <2>1 DEF Callers
<1>15. Ready(h, Len(h), patb')
  BY <1>5, <1>6, <1>7 DEF Ready
<1>16. Resumes'
  BY <1>1, <1>15 DEF Resumes, Failing, At
<1> QED
  BY <1>1, <1>2, <1>3, <1>11, <1>12, <1>13, <1>14, <1>16, OwnedStep DEF Inside

LEMMA OwnedFence ==
  ASSUME TypeOK, TypeOK', Lists, Owned, Build = "isnobol4",
         FenceFailed \/ FenceMatched
  PROVE  OwnedLive'
<1> DEFINE b == Caller.base
<1>1. /\ At("exit") /\ calls # <<>> /\ Caller.kind = "FNCA" /\ Intact
      /\ calls' = Front(calls) /\ patb' = Caller.patb /\ UNCHANGED <<env, saved>>
      /\ pdl \in Seq(Entries) /\ pdl' \in Seq(Entries)
  BY DEF FenceFailed, FenceMatched, Returning, Unfenced, Restored, TypeOK
<1>2. /\ ~InValue'
      /\ \A k \in DOMAIN calls' :
           /\ k \in DOMAIN calls /\ calls'[k] = calls[k]
           /\ calls[k].kind = "FNCA" /\ ~Flat(calls[k].patb)
           /\ Based(pdl, calls[k].base) /\ calls[k].base < b
           /\ pdl[calls[k].base].pat = calls[k].patb
      /\ \A k \in DOMAIN calls : calls[k].base # b => k \in DOMAIN calls'
      /\ b \in Nat /\ b >= 1
  BY <1>1, FrontFences
<1>3. FlatNow' /\ ~Flat(Caller.patb)
  <2>1. ~Flat(Caller.patb)
    BY <1>1, CallerLast DEF Owned, Callers
  <2> QED
    BY <1>1, <2>1, FlatSame DEF Owned
<1>4. /\ Below \in Seq(Entries) /\ Len(Below) <= Len(pdl) /\ Len(Below) = b - 1
      /\ \A i \in DOMAIN Below : Below[i] = pdl[i]
  BY <1>1, <1>2, BelowList
<1>5. /\ DOMAIN Below = 1 .. b - 1 /\ DOMAIN pdl = 1 .. Len(pdl) /\ Len(pdl) \in Nat
      /\ \A i \in DOMAIN Below : i \in DOMAIN pdl /\ i # b
  BY <1>1, <1>2, <1>4
<1>6. Linked(Below) /\ Seals(Below) /\ Callers(calls, Below) /\ Scans(calls, Below)
  BY <1>4, OwnedPrefix
<1>7. Scans(calls', Below)
  BY <1>2, <1>5, <1>6 DEF Scans
<1>8. ASSUME Ready(pdl, b - 1, Caller.patb) PROVE Ready(Below, b - 1, Caller.patb)
  <2>1. b - 1 = 0 \/ Below[b - 1] = pdl[b - 1]
    BY <1>2, <1>4, <1>5
  <2> QED
    BY <1>8, <2>1 DEF Ready
<1>9. CASE FenceFailed
  <2>1. pdl' = Below /\ pc' = "fail" /\ Failing
    BY <1>9 DEF FenceFailed, Salt, Failing, Returning
  <2>2. Ready(Below, Len(Below), patb')
    BY <1>1, <1>4, <1>8, <2>1 DEF Owned, Resumes
  <2>3. Resumes'
    BY <2>1, <2>2 DEF Resumes, Failing, At
  <2>4. Callers(calls', pdl')
    BY <1>2, <1>6, <2>1 DEF Callers
  <2> QED
    BY <1>2, <1>3, <1>6, <1>7, <2>1, <2>3, <2>4, OwnedStep DEF Inside
<1>10. CASE FenceMatched
  <2>1. /\ pdl' = Append(Below, Seal) /\ ret = 2
        /\ pc' \in {"next", "exit", "overflow"} /\ (pc' = "exit" => ret' = 2)
    BY <1>10 DEF FenceMatched, Scok, ScokWith, Returning
  <2>2. Seal.fn = "FNCD" /\ Seal.pat = Caller.patb
    BY DEF Seal, Entry
  <2>3. /\ Len(pdl') = b /\ DOMAIN pdl' = 1 .. b /\ pdl'[b] = Seal
        /\ \A i \in DOMAIN Below : pdl'[i] = Below[i]
        /\ \A i \in DOMAIN pdl' : i \in DOMAIN Below \/ i = b
    BY <1>2, <1>4, <1>5, <2>1
  <2>4. Ready(Below, b - 1, Caller.patb)
    <3>1. Based(pdl, b)
      BY <1>1, <2>1, CallerBased
    <3> QED
      BY <1>1, <1>8, <3>1, ReadyBase
  <2>5. Linked(pdl')
    <3>1. ASSUME NEW i \in DOMAIN Below, i > 1 PROVE Ready(pdl', i - 1, pdl'[i].pat)
      <4>1. i - 1 \in DOMAIN Below /\ Ready(Below, i - 1, Below[i].pat)
        BY <1>2, <1>5, <1>6, <3>1 DEF Linked
      <4> QED
        BY <2>3, <3>1, <4>1 DEF Ready
    <3>2. ASSUME b > 1 PROVE Ready(pdl', b - 1, pdl'[b].pat)
      <4>1. b - 1 \in DOMAIN Below
        BY <1>2, <1>5, <3>2
      <4> QED
        BY <2>2, <2>3, <2>4, <4>1 DEF Ready
    <3> QED
      BY <2>3, <3>1, <3>2 DEF Linked
  <2>6. Seals(pdl')
    BY <1>3, <1>6, <2>2, <2>3 DEF Seals
  <2>7. Scans(calls', pdl')
    BY <1>7, <2>2, <2>3 DEF Scans
  <2>8. Callers(calls', pdl')
    <3>1. ASSUME NEW k \in DOMAIN calls' PROVE pdl'[calls[k].base].pat = calls[k].patb
      <4>1. calls[k].base \in DOMAIN Below
        BY <1>2, <1>5, <3>1 DEF Based
      <4> QED
        BY <1>2, <1>4, <2>3, <3>1, <4>1
    <3> QED
      BY <1>2, <3>1 DEF Callers
  <2>9. Resumes'
    <3>1. Ready(pdl', Len(pdl'), patb')
      BY <1>1, <2>2, <2>3 DEF Ready
    <3> QED
      BY <2>1, <3>1 DEF Resumes, Failing, At
  <2> QED
    BY <1>2, <1>3, <2>5, <2>6, <2>7, <2>8, <2>9, OwnedStep DEF Inside
<1> QED
  BY <1>9, <1>10

(***************************************************************************)
(* Every step                                                              *)
(***************************************************************************)
LEMMA OwnedStopped ==
  ASSUME TypeOK, Aborted \/ Scan \/ Astray \/ UNCHANGED vars, OwnedLive
  PROVE  OwnedLive'
<1>1. CASE Aborted \/ Scan \/ Astray
  <2>1. ~Live'
    BY <1>1 DEF Aborted, Returning, Scan, Astray, Wild, Live, Running, At
  <2> QED
    BY <2>1, OwnedNot
<1>2. CASE UNCHANGED vars
  BY <1>2 DEF vars, OwnedLive, Live, Running, Owned, FlatNow, Linked, Ready,
     Seals, Scans, Callers, Inside, InValue, Caller, Resumes, Failing, At
<1> QED
  BY <1>1, <1>2

LEMMA InitOwned == ASSUME FlatValues, Init PROVE OwnedLive
<1>1. pdl = <<>> /\ calls = <<>> /\ env = req.env /\ saved = <<>> /\ req \in Requests
      /\ pc = "start"
  BY DEF Init
<1>2. FlatNow
  BY <1>1 DEF FlatNow, FlatValues
<1>3. Linked(pdl) /\ Seals(pdl) /\ Scans(calls, pdl) /\ Callers(calls, pdl)
  BY <1>1 DEF Linked, Seals, Scans, Callers
<1>4. Inside /\ Resumes
  BY <1>1 DEF Inside, InValue, Resumes, Running, Failing, At
<1> QED
  BY <1>2, <1>3, <1>4 DEF OwnedLive, Owned

LEMMA NextOwned ==
  ASSUME TypeOK, TypeOK', Lists, OwnedLive, Build = "isnobol4", [Next]_vars
  PROVE  OwnedLive'
<1>1. CASE Aborted \/ Scan \/ Astray \/ UNCHANGED vars
  BY <1>1, OwnedStopped
<1>2. ASSUME Step, ~Aborted, ~Scan, ~Astray PROVE Owned
  <2>1. CASE Ordinary
    <3>1. Moves
      BY <2>1, OrdinarySteps, QuietMoves DEF Lists
    <3> QED
      BY <3>1 DEF Moves, Moved, OwnedLive, Live
  <2>2. CASE StarCall \/ Fnca \/ Dsar \/ Scon \/ Scfl \/ Fncd \/ Strexc \/ Scnr
    BY <2>2 DEF Live, OwnedLive, Running, At, Fetched, PopsTo, Popping,
       StarCall, Fnca, Dsar, IsAt, Scon, Scfl, Fncd, Strexc, Scnr
  <2>3. CASE StarFailed \/ StarMatched \/ FenceFailed \/ FenceMatched
    BY <2>3 DEF Live, OwnedLive, At, Returning,
       StarFailed, StarMatched, FenceFailed, FenceMatched
  <2> QED
    BY <1>2, <2>1, <2>2, <2>3, Kinds
<1>3. CASE Ordinary /\ Owned
  <2>1. Moves /\ FlatNow'
    BY <1>3, OrdinarySteps, QuietMoves, FlatOrdinary DEF Lists, Owned
  <2> QED
    BY <1>3, <2>1, OwnedMoved
<1>4. CASE Owned /\ (StarCall \/ Fnca \/ (Dsar /\ calls' # calls))
  BY <1>4, OwnedCalls
<1>5. CASE Owned /\ (Scon \/ Scfl \/ Fncd \/ Strexc \/ Scnr)
  BY <1>5, OwnedScon, OwnedScfl, OwnedFncd, OwnedStrexc, OwnedScnr
<1>6. CASE Owned /\ (StarFailed \/ StarMatched \/ FenceFailed \/ FenceMatched)
  BY <1>6, OwnedStarFailed, OwnedStarMatched, OwnedFence
<1> QED
  BY <1>1, <1>2, <1>3, <1>4, <1>5, <1>6, Kinds DEF Next, Done

\* In isnobol4.c, where no variable has a pattern for its value that calls
\* another, every alternative that backtracking resumes is one of the block
\* that PATBCL names: what the returns of STAR, DSAR and FNCA leave on the
\* list, between the entries that name blocks, is never taken for another
\* block's.  With a value that itself names a variable it does not hold: the
\* upper of the two entries then names the block that STAR called and not the
\* block that its scan ended in.
THEOREM AlternativesOwned ==
  ASSUME Build = "isnobol4", FlatValues PROVE Spec => []OwnBlock
<1>1. Init => OwnedLive
  BY InitOwned
<1>2. TypeOK /\ Lists /\ OwnedLive /\ TypeOK' /\ [Next]_vars => OwnedLive'
  BY NextOwned
<1>3. TypeOK /\ OwnedLive => OwnBlock
  <2> SUFFICES ASSUME TypeOK, OwnedLive, PopsTo("node") PROVE Top.pat = patb
    BY DEF OwnBlock
  <2>1. Running /\ pdl # <<>> /\ Top.fn = "node"
    BY DEF PopsTo, Popping, Running, At
  <2>2. Ready(pdl, Len(pdl), patb)
    BY <2>1 DEF OwnedLive, Live, Owned, Resumes
  <2>3. Top = pdl[Len(pdl)] /\ Len(pdl) # 0
    BY <2>1, TopEntry
  <2> QED
    BY <2>1, <2>2, <2>3 DEF Ready
<1> QED
  BY <1>1, <1>2, <1>3, ListsKept, PTL DEF Spec
===============================================================================
