---------------------------- MODULE ScannerProofs ----------------------------
(***************************************************************************)
(* Theorems about Scanner, for every set of patterns, requests and limits. *)
(***************************************************************************)
EXTENDS Scanner, SequenceTheorems, WellFoundedInduction, TLAPS

(***************************************************************************)
(* Sequences used as stacks                                                *)
(***************************************************************************)
\* Popping a stack.
LEMMA Popped ==
  ASSUME NEW S, NEW s \in Seq(S), s # <<>>
  PROVE  /\ Front(s) \in Seq(S) /\ Last(s) \in S
         /\ Len(Front(s)) = Len(s) - 1 /\ Len(s) \in Nat \ {0}
         /\ Last(s) = s[Len(s)]
         /\ \A i \in DOMAIN Front(s) : i \in DOMAIN s /\ Front(s)[i] = s[i]
<1>1. Len(s) \in Nat \ {0} /\ DOMAIN s = 1..Len(s)
  OBVIOUS
<1>2. \A i \in 1..(Len(s) - 1) : s[i] \in S
  BY <1>1
<1>3. /\ Front(s) \in Seq(S)
      /\ Len(Front(s)) = Len(s) - 1
      /\ \A i \in 1..(Len(s) - 1) : Front(s)[i] = s[i]
  BY <1>1, <1>2, SubSeqProperties DEF Front
<1> QED
  BY <1>1, <1>3 DEF Last

\* Cutting a stack back.
LEMMA CutBack ==
  ASSUME NEW S, NEW s \in Seq(S), NEW n \in Int, n <= Len(s)
  PROVE  /\ SubSeq(s, 1, n) \in Seq(S)
         /\ Len(SubSeq(s, 1, n)) = IF 1 <= n THEN n ELSE 0
         /\ \A i \in DOMAIN SubSeq(s, 1, n) :
              i \in DOMAIN s /\ SubSeq(s, 1, n)[i] = s[i]
<1>1. \A i \in 1..n : s[i] \in S /\ i \in DOMAIN s
  OBVIOUS
<1>2. /\ SubSeq(s, 1, n) \in Seq(S)
      /\ Len(SubSeq(s, 1, n)) = IF 1 <= n THEN n - 1 + 1 ELSE 0
      /\ \A i \in 1..(n - 1 + 1) : SubSeq(s, 1, n)[i] = s[1 + i - 1]
  BY <1>1, SubSeqProperties
<1> QED
  BY <1>1, <1>2

\* Pushing on a stack.
LEMMA OnTop ==
  ASSUME NEW S, NEW s \in Seq(S), NEW e \in S
  PROVE  /\ Append(s, e) \in Seq(S) /\ Append(s, e) # <<>>
         /\ Len(Append(s, e)) = Len(s) + 1
         /\ Last(Append(s, e)) = e
         /\ \A i \in DOMAIN Append(s, e) :
              Append(s, e)[i] = IF i = Len(s) + 1 THEN e ELSE s[i]
  BY AppendProperties DEF Last

\* A non-empty set of places in a sequence has a last one.
LEMMA Greatest ==
  ASSUME NEW n \in Nat, NEW S, S \subseteq 1..n, S # {}
  PROVE  \E x \in S : \A y \in S : y <= x
<1> DEFINE M == {m \in Nat : m <= n /\ n - m \in S}
<1>1. M # {} /\ M \subseteq Nat
  <2>1. PICK x \in S : TRUE
    OBVIOUS
  <2>2. n - x \in Nat /\ n - (n - x) = x /\ n - x <= n
    OBVIOUS
  <2> QED
    BY <2>1, <2>2
<1>2. PICK m \in M : \A k \in M : m <= k
  <2> HIDE DEF M
  <2>1. PICK m \in M : \A k \in M : ~ (<<k, m>> \in OpToRel(<, Nat))
    BY <1>1, NatLessThanWellFounded, WFMin
  <2>2. ASSUME NEW k \in M PROVE m <= k
    <3>1. k \in Nat /\ m \in Nat /\ <<k, m>> \in Nat \X Nat
      BY <1>1
    <3>2. k < m => <<k, m>> \in OpToRel(<, Nat)
      BY <3>1, Zenon DEF OpToRel
    <3>3. ~ (k < m)
      BY <2>1, <3>2, Zenon
    <3> QED
      BY <3>1, <3>3
  <2> QED
    BY <2>2
<1>3. \A y \in S : n - y \in Nat /\ n - y <= n /\ n - (n - y) = y
  OBVIOUS
<1>4. \A y \in S : n - y \in M
  BY <1>3
<1>5. \A y \in S : m <= n - y
  BY <1>2, <1>4
<1>6. \A y \in S : y <= n - m
  BY <1>2, <1>3, <1>5
<1> QED
  BY <1>2, <1>6

(***************************************************************************)
(* How a handler ends: what the next dispatch needs has its type           *)
(***************************************************************************)
Places == {"start", "next", "fail", "exit",
           "matched", "failed", "overflow", "wild"}
Control == /\ pc \in Places /\ ret \in 1..3 /\ lenf \in {0, 1}
           /\ pati \in Nat /\ cursor \in Nat /\ pdl \in Seq(Entries)
Stores  == /\ req \in Requests /\ AreValues(env)
           /\ \A n \in DOMAIN saved : IsValue(saved[n])
           /\ patb \in Addresses /\ head \in Nat /\ maxlen \in Int
           /\ calls \in Seq(Frames) /\ pdlhed \in Nat /\ nhed \in Nat
Stacks  == stk \in Seq(StackItems) /\ nam \in Seq(Names)

LEMMA Parts == TypeOK <=> Control /\ Stores /\ Stacks /\ tmval \in Nat
  BY DEF TypeOK, Control, Stores, Stacks, Places

\* What the fetched node is.
LEMMA NodeType == ASSUME TypeOK, Fetched PROVE IsNode(Node)
  BY BlockAssumption DEF TypeOK, Fetched, Node

LEMMA SubjectType == ASSUME TypeOK PROVE Subject \in Seq(Char) /\ L \in Nat
  BY RequestAssumption DEF TypeOK, Subject, L, IsRequest

LEMMA TrapType ==
  ASSUME TypeOK, NEW fn \in EntryFns, NEW c \in Nat, NEW len \in {0, 1}
  PROVE  Trap(fn, c, len) \in Entries
  BY DEF TypeOK, Trap, Entry, Entries

LEMMA OwnType ==
  ASSUME TypeOK, Fetched, NEW c \in Nat PROVE OwnAt(c) \in Seq(Entries)
<1>1. Entry("node", Node.alt, Node.then, c, Node.res, 0, lenf, patb) \in Entries
  BY NodeType DEF TypeOK, Entry, Entries, EntryFns, IsNode
<1> QED
  BY <1>1, OnTop DEF OwnAt, TypeOK

LEMMA SalfType ==
  ASSUME Control, NEW h \in Seq(Entries), Salf(h), Failed
  PROVE  Control'
  BY DEF Control, Salf, Failed, Places

LEMMA SaltLen ==
  ASSUME NEW h \in Seq(Entries), h # <<>> PROVE Last(h).lenf \in {0, 1}
<1>1. Last(h) \in Entries
  BY Popped
<1> QED
  BY <1>1 DEF Entries

LEMMA SaltOrSalfType ==
  ASSUME Control, NEW h \in Seq(Entries), Salt(h) \/ Salf(h) \/ SaltOrSalf(h)
  PROVE  pc' = "fail" /\ lenf' \in {0, 1} /\ pdl' \in Seq(Entries)
<1>1. CASE Salf(h)
  BY <1>1 DEF Salf
<1>2. CASE Salt(h)
  BY <1>2, SaltLen DEF Salt
<1> QED
  BY <1>1, <1>2 DEF SaltOrSalf

LEMMA ScokType ==
  ASSUME Control, NEW then \in Nat, NEW h \in Seq(Entries),
         NEW len \in {0, 1}, ScokWith(then, h, len), cursor' \in Nat
  PROVE  Control'
  BY DEF Control, ScokWith, Places

LEMMA PlainType ==
  ASSUME Stores, Stacks, Plain PROVE Stores' /\ Stacks'
  BY DEF Stores, Stacks, Plain, mach, AreValues, IsValue

LEMMA MachType == ASSUME Stores, UNCHANGED mach PROVE Stores'
  BY DEF Stores, mach, AreValues, IsValue

LEMMA WildType == ASSUME Control, Wild PROVE Control'
  BY DEF Control, Wild, Places

LEMMA EndingType ==
  ASSUME TypeOK, Fetched
  PROVE  /\ Mismatch => Control'
         /\ Short => Control'
         /\ \A c \in Nat : Matched(c) => Control'
<1> USE Parts
<1>1. Own \in Seq(Entries) /\ Node.then \in Nat
  BY OwnType, NodeType DEF Own, Control, IsNode
<1>2. Mismatch => Control'
  BY <1>1, SalfType DEF Mismatch
<1>3. Short => Control'
  BY <1>1, SaltOrSalfType DEF Short, Failed, Control, Places
<1>4. ASSUME NEW c \in Nat, Matched(c) PROVE Control'
  BY <1>1, <1>4, ScokType DEF Matched, Scok, Control
<1> QED
  BY <1>2, <1>3, <1>4

(***************************************************************************)
(* Nodes that only move the cursor                                         *)
(***************************************************************************)
LEMMA CompareType ==
  ASSUME TypeOK, Fetched, NEW t, Len(t) \in Nat, Compare(t) PROVE Control'
<1>1. cursor + Len(t) \in Nat
  BY DEF TypeOK
<1> QED
  BY <1>1, EndingType DEF Compare

LEMMA ClassType ==
  ASSUME TypeOK, Chr \/ AnyOf \/ Break \/ BreakX \/ Span
  PROVE  Control' /\ Plain
<1> USE Parts
<1>0. Fetched
  BY DEF Chr, AnyOf, Break, BreakX, Span, IsAt
<1>1. CASE Chr
  <2>1. Node.arg \in Seq(Char)
    BY <1>0, <1>1, NodeType DEF Chr, IsAt, IsNode
  <2> QED
    BY <1>0, <1>1, <2>1, CompareType DEF Chr
<1>2. CASE AnyOf
  <2>1. cursor + 1 \in Nat
    BY DEF Control
  <2> QED
    BY <1>0, <1>2, <2>1, EndingType, WildType DEF AnyOf
<1>3. \A cs : Stops(cursor, cs) \subseteq Nat
  BY SubjectType DEF Stops, Control
<1>4. CASE Break
  BY <1>0, <1>3, <1>4, EndingType DEF Break, IsLeast
<1>5. CASE BreakX
  <2>1. CASE Short
    BY <1>0, <1>5, <2>1, EndingType DEF BreakX
  <2>2. ASSUME NEW p \in Stops(cursor, Node.arg), cursor' = p,
               Scok(Node.then, Retry(Own, p, pati, Node.res))
        PROVE  Control'
    <3>1. p \in Nat /\ Node.then \in Nat /\ Node.res \in Nat
      BY <1>0, <1>3, NodeType DEF IsNode
    <3>2. Retry(Own, p, pati, Node.res) \in Seq(Entries)
      <4>1. Own \in Seq(Entries)
        BY <1>0, OwnType DEF Own, Control
      <4>2. /\ Entry("zero", 0, pati, 0, 0, 0, lenf, patb) \in Entries
            /\ Entry("BRXF", 0, 0, p, Node.res, 0, lenf, patb) \in Entries
        BY <3>1 DEF Entry, Entries, EntryFns, Control, Stores
      <4> QED
        BY <4>1, <4>2 DEF Retry
    <3> QED
      BY <2>2, <3>1, <3>2, ScokType DEF Scok, Control
  <2> QED
    BY <1>5, <2>1, <2>2 DEF BreakX
<1>6. CASE Span
  <2>1. \A c : c \in {p \in cursor..L : p < L /\ Ch(p) \notin Node.arg} \cup {L}
                 => c \in Nat
    BY SubjectType DEF Control
  <2> QED
    BY <1>0, <1>6, <2>1, EndingType DEF Span
<1> QED
  BY <1>1, <1>2, <1>4, <1>5, <1>6 DEF Chr, AnyOf, Break, BreakX, Span

LEMMA PlaceType ==
  ASSUME TypeOK, LenNode \/ Pos \/ Rpos \/ Tab \/ Rtab \/ Pass \/ FailNode
  PROVE  Control' /\ Plain
<1> USE Parts
<1>0. Fetched
  BY DEF LenNode, Pos, Rpos, Tab, Rtab, Pass, FailNode, IsAt
<1>1. cursor \in Nat /\ L \in Nat /\ maxlen \in Int
  BY SubjectType DEF Control, Stores
<1>2. Node.fn \in OfPlace => Node.arg \in Nat
  BY <1>0, NodeType DEF IsNode
<1>3. CASE LenNode
  <2>1. cursor + Node.arg \in Nat
    BY <1>1, <1>2, <1>3 DEF LenNode, IsAt, OfPlace
  <2> QED
    BY <1>0, <1>3, <2>1, EndingType DEF LenNode
<1>4. CASE Pos
  BY <1>0, <1>1, <1>4, EndingType DEF Pos
<1>5. CASE Rpos
  BY <1>0, <1>1, <1>5, EndingType DEF Rpos
<1>6. CASE Tab
  BY <1>0, <1>2, <1>6, EndingType DEF Tab, IsAt, OfPlace
<1>7. CASE Rtab
  <2>1. Node.arg \in Nat
    BY <1>2, <1>7 DEF Rtab, IsAt, OfPlace
  <2>2. cursor + Node.arg <= L => L - Node.arg \in Nat
    BY <1>1, <2>1
  <2>3. Plain /\ (Short \/ \E c \in Nat : Matched(c))
    BY <1>1, <1>7, <2>1, <2>2 DEF Rtab
  <2> QED
    BY <1>0, <2>3, EndingType
<1>8. CASE Pass
  BY <1>0, <1>1, <1>8, EndingType DEF Pass
<1>9. CASE FailNode
  BY <1>0, <1>9, EndingType DEF FailNode
<1> QED
  BY <1>3, <1>4, <1>5, <1>6, <1>7, <1>8, <1>9
     DEF LenNode, Pos, Rpos, Tab, Rtab, Pass, FailNode

\* An own entry with a trap on top of it.
LEMMA TrappedType ==
  ASSUME TypeOK, Fetched, NEW fn \in EntryFns
  PROVE  Append(Own, Trap(fn, cursor, lenf)) \in Seq(Entries)
<1>1. Own \in Seq(Entries) /\ Trap(fn, cursor, lenf) \in Entries
  BY OwnType, TrapType DEF Own, TypeOK
<1> QED
  BY <1>1, OnTop

LEMMA ScanType ==
  ASSUME TypeOK, \/ Farb \/ Bal \/ Abort \/ Succeed \/ Fnce
                 \/ TooShort \/ PdlFull
  PROVE  Control' /\ Plain
<1> USE Parts
<1>1. CASE Farb
  <2>1. Fetched /\ cursor + 1 \in Nat /\ Plain
    BY <1>1 DEF Farb, IsAt, Control
  <2>2. OwnAt(cursor + 1) \in Seq(Entries) /\ Node.then \in Nat
    BY <2>1, OwnType, NodeType DEF IsNode
  <2>3. CASE Salt(pdl) /\ Failed
    BY <2>1, <2>3, SaltOrSalfType DEF Control, Failed, Places
  <2>4. CASE cursor' = cursor + 1 /\ Scok(Node.then, OwnAt(cursor + 1))
    BY <2>1, <2>2, <2>4, ScokType DEF Scok, Control
  <2> QED
    BY <1>1, <2>3, <2>4 DEF Farb
<1>2. CASE Bal
  <2>1. Fetched
    BY <1>2 DEF Bal, IsAt
  <2>2. CASE Wild
    BY <1>2, <2>2, WildType DEF Bal
  <2>3. CASE Salf(pdl) /\ Failed
    BY <1>2, <2>3, SalfType DEF Bal, Control
  <2>4. ASSUME NEW end \in Int, cursor < end, cursor' = end,
               Scok(Node.then, OwnAt(end))
        PROVE  Control'
    <3>1. end \in Nat
      BY <2>4 DEF Control
    <3>2. OwnAt(end) \in Seq(Entries) /\ Node.then \in Nat
      BY <2>1, <3>1, OwnType, NodeType DEF IsNode
    <3> QED
      BY <2>4, <3>1, <3>2, ScokType DEF Scok, Control
  <2>5. \A c \in Nat, len \in Int : \A e \in BalEnds(c, len) : e \in Int /\ c < e
    BY DEF BalEnds
  <2>6. maxlen - (cursor + Residual(Node.res)) \in Int
    BY <2>1, NodeType DEF Residual, IsNode, Control, Stores
  <2> QED
    BY <1>2, <2>2, <2>3, <2>4, <2>5, <2>6 DEF Bal, Control
<1>3. CASE Abort
  <2>1. Own \in Seq(Entries)
    BY <1>3, OwnType DEF Abort, IsAt, Own, Control
  <2> QED
    BY <1>3, <2>1 DEF Abort, Exit, Control, Places
<1>4. CASE Succeed
  <2>1. Fetched /\ "SUCF" \in EntryFns
    BY <1>4 DEF Succeed, IsAt, EntryFns
  <2>2. Node.then \in Nat
    BY <2>1, NodeType DEF IsNode
  <2> QED
    BY <1>4, <2>1, <2>2, TrappedType, ScokType DEF Succeed, Control
<1>5. CASE Fnce
  <2>1. Fetched /\ "FNCF" \in EntryFns
    BY <1>5 DEF Fnce, IsAt, EntryFns
  <2>2. Node.then \in Nat
    BY <2>1, NodeType DEF IsNode
  <2> QED
    BY <1>5, <2>1, <2>2, TrappedType, ScokType DEF Fnce, Control
<1>6. CASE TooShort
  <2>1. Fetched
    BY <1>6 DEF TooShort
  <2> QED
    BY <1>6, <2>1, EndingType DEF TooShort, Short
<1>7. CASE PdlFull
  BY <1>7 DEF PdlFull, Overflow, Control, Places
<1> QED
  BY <1>1, <1>2, <1>3, <1>4, <1>5, <1>6, <1>7
     DEF Farb, Bal, Abort, Succeed, Fnce, TooShort, PdlFull, Overflow

(***************************************************************************)
(* Nodes that push and pop cursors                                         *)
(***************************************************************************)
Typed == Control' /\ Stores' /\ Stacks'

LEMMA CursorOnTop ==
  ASSUME Stacks, HasCursor
  PROVE  Last(stk).v \in Nat /\ Front(stk) \in Seq(StackItems)
<1>1. stk \in Seq(StackItems) /\ stk # <<>> /\ Last(stk).k = "cursor"
  BY DEF Stacks, HasCursor
<1>2. Last(stk) \in StackItems /\ Front(stk) \in Seq(StackItems)
  BY <1>1, Popped
<1> QED
  BY <1>1, <1>2 DEF StackItems

LEMMA PushedType ==
  ASSUME Stacks, NEW c \in Nat, Pushed(c) PROVE stk' \in Seq(StackItems)
<1>1. Saved(c) \in StackItems
  BY DEF Saved, StackItems
<1> QED
  BY <1>1, OnTop DEF Stacks, Pushed

LEMMA TopType == ASSUME TypeOK, pdl # <<>> PROVE Top \in Entries /\ Rest \in Seq(Entries)
  BY Popped DEF TypeOK, Top, Rest

LEMMA ArbnoType == ASSUME TypeOK, Arbn \/ Arbf \/ Earb \/ Onar \/ Onrf PROVE Typed
<1> USE Parts DEF Typed
<1>0. Fetched /\ UNCHANGED nam /\ Stores'
  BY MachType DEF Arbn, Arbf, Earb, Onar, Onrf, IsAt
<1>1. Own \in Seq(Entries) /\ Node.then \in Nat
  BY <1>0, OwnType, NodeType DEF Own, Control, IsNode
<1>2. CASE Arbn
  <2>1. Control'
    BY <1>0, <1>2, EndingType DEF Arbn, Control
  <2>2. stk' \in Seq(StackItems)
    BY <1>2, PushedType DEF Arbn, Control
  <2> QED
    BY <1>0, <2>1, <2>2 DEF Stacks
<1>3. CASE Arbf
  <2>1. CASE HasCursor
    <3>1. SaltOrSalf(Own) /\ stk' = Front(stk) /\ Failed
      BY <1>3, <2>1 DEF Arbf
    <3> QED
      BY <1>0, <1>1, <2>1, <3>1, CursorOnTop, SaltOrSalfType
         DEF Stacks, Control, Failed, Places
  <2>2. CASE ~HasCursor
    BY <1>0, <1>3, <2>2, WildType DEF Arbf, Stacks
  <2> QED
    BY <2>1, <2>2
<1>4. CASE Earb
  <2>1. CASE HasCursor
    <3>1. Entry("earb", 0, 0, cursor, 0, Last(stk).v, 0, patb) \in Entries
      BY <2>1, CursorOnTop DEF Entry, Entries, EntryFns, Control, Stores
    <3>2. Append(pdl, Entry("earb", 0, 0, cursor, 0, Last(stk).v, 0, patb))
            \in Seq(Entries)
      BY <3>1, OnTop DEF Control
    <3>3. /\ cursor' = cursor /\ stk' = Front(stk)
          /\ Scok(Node.then,
                  Append(pdl, Entry("earb", 0, 0, cursor, 0, Last(stk).v, 0, patb)))
      BY <1>4, <2>1 DEF Earb
    <3>4. Control'
      BY <1>1, <3>2, <3>3, ScokType DEF Scok, Control
    <3> QED
      BY <1>0, <2>1, <3>3, <3>4, CursorOnTop DEF Stacks
  <2>2. CASE ~HasCursor
    BY <1>0, <1>4, <2>2, WildType DEF Earb, Stacks
  <2> QED
    BY <2>1, <2>2
<1>5. ASSUME AtEarb, Onar1 PROVE Typed
  <2>1. Began \in Nat /\ Front(pdl) \in Seq(Entries)
    BY <1>5, TopType DEF AtEarb, Began, Top, Rest, Entries
  <2>2. stk' \in Seq(StackItems)
    BY <1>5, <2>1, PushedType DEF Onar1
  <2>3. Control'
    BY <1>5, <2>1, SaltOrSalfType DEF Onar1, Control, Failed, Places
  <2> QED
    BY <1>0, <2>2, <2>3 DEF Stacks
<1>6. CASE Onar
  <2>1. CASE Wild /\ UNCHANGED stk
    BY <1>0, <2>1, WildType DEF Stacks
  <2>2. CASE Matched(cursor) /\ UNCHANGED stk
    BY <1>0, <2>2, EndingType DEF Stacks, Control
  <2>3. CASE AtEarb /\ Onar1
    BY <1>5, <2>3
  <2> QED
    BY <1>6, <2>1, <2>2, <2>3 DEF Onar
<1>7. CASE Onrf
  <2>1. CASE Wild /\ UNCHANGED stk
    BY <1>0, <2>1, WildType DEF Stacks
  <2> QED
    BY <1>5, <1>7, <2>1 DEF Onrf
<1> QED
  BY <1>2, <1>3, <1>4, <1>6, <1>7

\* Text is a string whatever its ends: it stops at the end of the subject.
LEMMA StringType ==
  ASSUME TypeOK, NEW i \in Nat, NEW j \in Nat PROVE IsValue(String(i, j))
<1>1. Subject \in Seq(Char) /\ L \in Nat /\ L = Len(Subject)
  BY SubjectType DEF L
<1>2. PICK e \in Nat : e <= L /\ Text(i, j) = SubSeq(Subject, i + 1, e)
  BY <1>1 DEF Text
<1>3. \A k \in (i + 1)..e : Subject[k] \in Char
  BY <1>1, <1>2
<1>4. Text(i, j) \in Seq(Char)
  BY <1>2, <1>3, SubSeqProperties
<1> QED
  BY <1>4 DEF String, IsValue

LEMMA AssignType ==
  ASSUME Stores, NEW v \in Vars, NEW x, IsValue(x)
  PROVE  AreValues([env EXCEPT ![v] = x])
  BY DEF Stores, AreValues, IsValue

LEMMA NamingType == ASSUME TypeOK, Atp \/ Nme \/ Enme \/ Enmi PROVE Typed
<1> USE Parts DEF Typed
<1>0. Fetched
  BY DEF Atp, Nme, Enme, Enmi, IsAt
<1>1. /\ Own \in Seq(Entries) /\ Node.then \in Nat
      /\ Node.fn \in OfName => Node.arg \in Vars
  BY <1>0, OwnType, NodeType DEF Own, Control, IsNode
<1>2. CASE Atp
  <2>1. Control'
    BY <1>0, <1>2, EndingType DEF Atp, Control
  <2>2. Node.arg \in Vars /\ IsValue([t |-> "I", i |-> cursor])
    BY <1>1, <1>2 DEF Atp, IsAt, OfName, IsValue, Control
  <2>3. AreValues(env')
    BY <1>2, <2>2, AssignType DEF Atp
  <2> QED
    BY <1>2, <2>1, <2>3 DEF Atp, Stores, Stacks, AreValues, IsValue
<1>3. CASE Nme
  <2>1. Append(Own, Trap("FNME", cursor, lenf)) \in Seq(Entries)
    BY <1>0, TrappedType DEF EntryFns
  <2>2. Control'
    BY <1>1, <1>3, <2>1, ScokType DEF Nme, Control
  <2>3. stk' \in Seq(StackItems)
    BY <1>3, PushedType DEF Nme, Control
  <2> QED
    BY <1>3, <2>2, <2>3, MachType DEF Nme, Stacks
<1>4. ASSUME HasCursor, NEW fn \in {"DNME", "DNMI"}
      PROVE  Undo(fn, Last(stk).v) \in Seq(Entries)
  <2>1. Entry(fn, 0, 0, cursor, 0, Last(stk).v, lenf, patb) \in Entries
    BY <1>4, CursorOnTop DEF Entry, Entries, EntryFns, Control, Stores
  <2> QED
    BY <1>1, <2>1, OnTop DEF Undo
<1>5. CASE Enme
  <2>1. CASE HasCursor
    <3>1. Node.arg \in Vars /\ Last(stk).v \in Nat /\ Front(stk) \in Seq(StackItems)
      BY <1>1, <1>5, <2>1, CursorOnTop DEF Enme, IsAt, OfName
    <3>2. nam' \in Seq(Names)
      <4>1. [var |-> Node.arg, from |-> Last(stk).v, to |-> cursor] \in Names
        BY <3>1 DEF Names, Control
      <4> QED
        BY <1>5, <2>1, <4>1, OnTop DEF Enme, Stacks
    <3>3. Control'
      BY <1>1, <1>4, <1>5, <2>1, ScokType DEF Enme, Control
    <3> QED
      BY <1>5, <2>1, <3>1, <3>2, <3>3, MachType DEF Enme, Stacks
  <2>2. CASE ~HasCursor
    BY <1>5, <2>2, WildType, MachType DEF Enme, Stacks
  <2> QED
    BY <2>1, <2>2
<1>6. CASE Enmi
  <2>1. CASE HasCursor
    <3>1. Node.arg \in Vars /\ Last(stk).v \in Nat /\ Front(stk) \in Seq(StackItems)
      BY <1>1, <1>6, <2>1, CursorOnTop DEF Enmi, IsAt, OfName
    <3>2. AreValues(env')
      BY <1>6, <2>1, <3>1, StringType, AssignType DEF Enmi, Control
    <3>3. Control'
      BY <1>1, <1>4, <1>6, <2>1, ScokType DEF Enmi, Control
    <3> QED
      BY <1>6, <2>1, <3>1, <3>2, <3>3 DEF Enmi, Stacks, Stores, IsValue
  <2>2. CASE ~HasCursor
    <3>1. UNCHANGED mach /\ UNCHANGED <<stk, nam>> /\ Wild
      BY <1>6, <2>2 DEF Enmi, mach
    <3> QED
      BY <3>1, WildType, MachType DEF Stacks
  <2> QED
    BY <2>1, <2>2
<1> QED
  BY <1>2, <1>3, <1>5, <1>6

(***************************************************************************)
(* Scans inside a scan                                                     *)
(***************************************************************************)
LEMMA KeepType ==
  ASSUME Stores, NEW v, IsValue(v), Keep(v)
  PROVE  \A n \in DOMAIN saved' : IsValue(saved'[n])
  BY DEF Stores, Keep

LEMMA ValueType ==
  ASSUME TypeOK, Fetched, Node.fn = "STAR"
  PROVE  /\ IsValue(env[Node.arg])
         /\ Node.then \in Nat /\ Residual(Node.res) \in Nat
  BY NodeType DEF IsNode, OfName, TypeOK, AreValues, Residual

LEMMA FrameType ==
  ASSUME TypeOK, Fetched, NEW kind \in {"STAR", "DSAR", "FNCA"},
         NEW inner \in Addresses, NEW base \in Nat
  PROVE  Append(calls, Frame(kind, inner, base)) \in Seq(Frames)
<1>1. Node.then \in Nat /\ Len(nam) \in Nat
  BY NodeType DEF IsNode, TypeOK
<1>2. Frame(kind, inner, base) \in Frames
  BY <1>1 DEF Frame, Frames, TypeOK
<1> QED
  BY <1>2, OnTop DEF TypeOK

\* What a called scan starts with; the caller's saved values apart.
LEMMA CallType ==
  ASSUME TypeOK, Fetched, NEW kind \in {"STAR", "FNCA"},
         NEW inner \in Addresses, NEW room \in Int,
         Call(kind, inner, room, Append(Own, Trap("SCFL", cursor, lenf)))
  PROVE  /\ Control' /\ Stacks'
         /\ req' \in Requests /\ AreValues(env') /\ patb' \in Addresses
         /\ head' \in Nat /\ maxlen' \in Int /\ calls' \in Seq(Frames)
<1> DEFINE h == Append(Own, Trap("SCFL", cursor, lenf))
<1>1. h \in Seq(Entries) /\ Len(h) \in Nat
  BY TrappedType DEF EntryFns
<1> HIDE DEF h
<1>2. Call(kind, inner, room, h)
  BY DEF h
<1>3. calls' \in Seq(Frames)
  BY <1>1, <1>2, FrameType DEF Call
<1>4. Control'
  <2>1. /\ pdl' = h /\ pc' \in Places /\ pati' = 1 /\ lenf' = 1
        /\ UNCHANGED <<ret, cursor>>
    BY <1>2 DEF Call, Places
  <2> QED
    BY <1>1, <2>1, Parts DEF Control
<1>5. Stacks'
  BY <1>2 DEF Call, Stacks, TypeOK
<1> QED
  BY <1>2, <1>3, <1>4, <1>5 DEF Call, TypeOK, AreValues, IsValue

LEMMA CallsType == ASSUME TypeOK, Star \/ StarCall \/ Dsar \/ Fnca PROVE Typed
<1> USE Parts DEF Typed
<1>0. Fetched
  BY DEF Star, StarCall, Dsar, Fnca, IsAt
<1>1. CASE Star
  <2> DEFINE v == env[Node.arg]
  <2>1. IsValue(v)
    BY <1>0, <1>1, ValueType DEF Star, IsAt
  <2>2. ASSUME NEW t, Len(t) \in Nat, Compare(t) PROVE Control'
    BY <1>0, <2>2, CompareType
  <2>3. v.t = "S" => Len(v.s) \in Nat
    BY <2>1 DEF IsValue
  <2>4. v.t = "I" => Len(IntSpc(v.i)) \in Nat
    BY <2>1 DEF IsValue, IntSpc
  <2>5. Keep(v)
    BY <1>1 DEF Star
  <2>6. Control'
    BY <1>0, <1>1, <2>2, <2>3, <2>4, EndingType DEF Star
  <2> HIDE DEF v
  <2> QED
    BY <1>1, <2>1, <2>5, <2>6, KeepType DEF Star, Stores, Stacks, AreValues, IsValue
<1>2. CASE StarCall
  <2> DEFINE v == env[Node.arg]
             room == maxlen - Residual(Node.res)
  <2>1. IsValue(v) /\ room \in Int
    BY <1>0, <1>2, ValueType DEF StarCall, IsAt, Stores
  <2>2. /\ v.p \in Addresses /\ Keep(v)
        /\ Call("STAR", v.p, room, Append(Own, Trap("SCFL", cursor, lenf)))
        /\ UNCHANGED <<pdlhed, nhed>>
    BY <1>2, <2>1 DEF StarCall, IsValue
  <2> HIDE DEF v, room
  <2> QED
    BY <1>0, <2>1, <2>2, CallType, KeepType DEF Stores
<1>3. CASE Dsar
  <2> DEFINE v == saved[<<patb, pati>>]
             h == IF Build = "isnobol4"
                  THEN Append(Own, Trap("SCFL", cursor, lenf)) ELSE Own
  <2>0. CASE <<patb, pati>> \notin DOMAIN saved
    BY <1>3, <2>0, PlainType DEF Dsar, Wild, Control, Places
  <2>1. <<patb, pati>> \in DOMAIN saved => IsValue(v)
    BY DEF Stores
  <2>2. Own \in Seq(Entries) /\ h \in Seq(Entries) /\ Len(h) \in Nat
    <3>1. Own \in Seq(Entries)
      BY <1>0, OwnType DEF Own, Control
    <3>2. Append(Own, Trap("SCFL", cursor, lenf)) \in Seq(Entries)
      BY <1>0, TrappedType DEF EntryFns
    <3> QED
      BY <3>1, <3>2
  <2>3. Residual(Node.res) \in Nat
    BY <1>0, NodeType DEF IsNode, Residual
  <2>4. CASE <<patb, pati>> \in DOMAIN saved /\ v.t # "P"
    <3>1. SaltOrSalf(Own) /\ Failed /\ Plain
      BY <1>3, <2>4 DEF Dsar
    <3> QED
      BY <2>2, <3>1, SaltOrSalfType, PlainType DEF Control, Failed, Places
  <2>5. CASE <<patb, pati>> \in DOMAIN saved /\ v.t = "P" /\ Len(h) > PdlMax
    BY <1>3, <2>5, PlainType DEF Dsar, Overflow, Control, Places
  <2>6. CASE <<patb, pati>> \in DOMAIN saved /\ v.t = "P" /\ ~(Len(h) > PdlMax)
    <3>1. /\ SaltOrSalf(h) /\ Failed
          /\ calls' = Append(calls, Frame("DSAR", v.p, Len(h)))
          /\ maxlen' = maxlen - Residual(Node.res)
          /\ patb' = v.p /\ stk' = <<>>
          /\ UNCHANGED <<nam, saved, head, pdlhed, nhed, env, req>>
      BY <1>3, <2>6 DEF Dsar
    <3>2. v.p \in Addresses
      BY <2>1, <2>6 DEF IsValue
    <3> HIDE DEF v, h
    <3>3. calls' \in Seq(Frames)
      BY <1>0, <2>2, <3>1, <3>2, FrameType
    <3>4. Control'
      BY <2>2, <3>1, SaltOrSalfType DEF Control, Failed, Places
    <3> QED
      BY <2>3, <3>1, <3>2, <3>3, <3>4 DEF Stores, Stacks, AreValues, IsValue
  <2> QED
    BY <2>0, <2>4, <2>5, <2>6
<1>4. CASE Fnca
  <2>1. Node.arg \in Addresses
    BY <1>0, <1>4, NodeType DEF Fnca, IsAt, IsNode
  <2>2. pdlhed' \in Nat /\ nhed' \in Nat
    BY <1>4 DEF Fnca, Control, Stacks
  <2> QED
    BY <1>0, <1>4, <2>1, <2>2, CallType DEF Fnca, Stores
<1> QED
  BY <1>1, <1>2, <1>3, <1>4

(***************************************************************************)
(* Popping the history list                                                *)
(***************************************************************************)
LEMMA BackType == ASSUME TypeOK, pdl # <<>> PROVE Back \in Nat
  BY TopType DEF Back, Entries, TypeOK

LEMMA PopType ==
  ASSUME TypeOK, \/ Dead \/ Alternative \/ Scfl \/ Fncf \/ Sucf \/ Brxf
                 \/ Strexc \/ Astray
  PROVE  Typed
<1> USE Parts DEF Typed
<1>1. CASE Dead
  <2>1. Rest \in Seq(Entries) /\ SaltOrSalf(Rest) /\ Failed /\ Plain
    BY <1>1, TopType DEF Dead, Popping
  <2> QED
    BY <2>1, SaltOrSalfType, PlainType DEF Control, Failed, Places
<1>2. CASE Alternative
  <2>1. Top \in Entries /\ Rest \in Seq(Entries)
    BY <1>2, TopType DEF Alternative, PopsTo, Popping
  <2>2. Control'
    BY <1>2, <2>1 DEF Alternative, Control, Places, Entries
  <2> QED
    BY <1>2, <2>2, PlainType DEF Alternative
<1>3. CASE Scfl \/ Fncf
  <2>1. pdl # <<>>
    BY <1>3 DEF Scfl, Fncf, PopsTo, Popping
  <2>2. /\ pc' = "exit" /\ ret' \in 1..3 /\ pdl' = Rest
        /\ UNCHANGED <<pati, lenf>> /\ cursor' = Back /\ Plain
    BY <1>3 DEF Scfl, Fncf, Exit
  <2> QED
    BY <2>1, <2>2, TopType, BackType, PlainType DEF Control, Places
<1>4. CASE Sucf
  <2>1. pdl # <<>>
    BY <1>4 DEF Sucf, PopsTo, Popping
  <2>2. Rest \in Seq(Entries) /\ Back \in Nat /\ Plain
    BY <1>4, <2>1, TopType, BackType DEF Sucf
  <2>3. CASE Wild
    BY <2>2, <2>3, WildType, PlainType
  <2>4. CASE Rest # <<>> /\ ScokWith(Last(Rest).then,
                              Append(Rest, Trap("SUCF", Back, lenf)), 1)
    <3>1. Last(Rest).then \in Nat
      <4>1. Last(Rest) \in Entries
        BY <2>2, <2>4, Popped
      <4> QED
        BY <4>1 DEF Entries
    <3>2. Append(Rest, Trap("SUCF", Back, lenf)) \in Seq(Entries)
      <4>1. Trap("SUCF", Back, lenf) \in Entries
        BY <2>2, TrapType DEF EntryFns, Control
      <4> QED
        BY <2>2, <4>1, OnTop
    <3>3. cursor' = Back
      BY <1>4 DEF Sucf
    <3> QED
      BY <2>2, <2>4, <3>1, <3>2, <3>3, ScokType, PlainType
  <2> QED
    BY <1>4, <2>3, <2>4 DEF Sucf
<1>5. CASE Brxf
  <2> DEFINE h     == SubSeq(pdl, 1, Len(pdl) - 2)
             off   == pdl[Len(pdl) - 1].then
             stops == Stops(Back + 1, Block(patb)[off].arg)
  <2>1. pdl # <<>> /\ Len(pdl) > 2 /\ Len(pdl) \in Nat /\ pdl \in Seq(Entries)
    BY <1>5 DEF Brxf, PopsTo, Popping, Control
  <2>2. Back \in Nat /\ Plain
    BY <1>5, <2>1, BackType DEF Brxf
  <2>3. h \in Seq(Entries) /\ h # <<>>
    <3>1. Len(pdl) - 2 \in Int /\ 1 <= Len(pdl) - 2 /\ Len(pdl) - 2 <= Len(pdl)
      BY <2>1
    <3>2. h \in Seq(Entries) /\ Len(h) = Len(pdl) - 2
      BY <2>1, <3>1, CutBack
    <3> HIDE DEF h
    <3> QED
      BY <3>1, <3>2
  <2>4. off \in Nat /\ Last(h).then \in Nat
    <3>1. pdl[Len(pdl) - 1] \in Entries
      BY <2>1
    <3>2. Last(h) \in Entries
      BY <2>3, Popped
    <3> QED
      BY <3>1, <3>2 DEF Entries
  <2>5. stops \subseteq Nat
    BY <2>2, SubjectType DEF Stops
  <2> HIDE DEF h, off, stops
  <2>6. CASE Salt(h) /\ UNCHANGED <<pati, ret>> /\ cursor' \in Nat
    BY <2>2, <2>3, <2>6, SaltOrSalfType, PlainType DEF Control, Places
  <2>7. ASSUME NEW p \in stops, cursor' = p,
               Scok(Last(h).then, Retry(h, p, off, tmval))
        PROVE  Typed
    <3>1. p \in Nat
      BY <2>5
    <3>2. /\ Entry("zero", 0, off, 0, 0, 0, lenf, patb) \in Entries
          /\ Entry("BRXF", 0, 0, p, tmval, 0, lenf, patb) \in Entries
      BY <2>4, <3>1 DEF Entry, Entries, EntryFns, Control, Stores
    <3>3. Retry(h, p, off, tmval) \in Seq(Entries)
      BY <2>3, <3>2 DEF Retry
    <3> QED
      BY <2>2, <2>4, <2>7, <3>1, <3>3, ScokType, PlainType DEF Scok, Control
  <2>8. Back + 1 \in Nat
    BY <2>2
  <2> QED
    BY <1>5, <2>2, <2>6, <2>7, <2>8 DEF Brxf, h, off, stops
<1>6. CASE Strexc
  <2>1. Top \in Entries /\ Rest \in Seq(Entries) /\ SaltOrSalf(Rest) /\ Failed
    BY <1>6, TopType DEF Strexc, PopsTo, Popping
  <2>2. Control'
    BY <2>1, SaltOrSalfType DEF Control, Failed, Places
  <2> QED
    BY <1>6, <2>1, <2>2 DEF Strexc, Stores, Stacks, Entries, AreValues, IsValue
<1>7. CASE Astray
  BY <1>7, WildType, PlainType DEF Astray
<1> QED
  BY <1>1, <1>2, <1>3, <1>4, <1>5, <1>6, <1>7

LEMMA UnstackType == ASSUME TypeOK, Scon \/ Fnme \/ Undone \/ Fncd PROVE Typed
<1> USE Parts DEF Typed
<1>0. /\ pdl # <<>> /\ Top \in Entries /\ Rest \in Seq(Entries)
      /\ Back \in Nat /\ Top.from \in Nat /\ Top.alt \in Nat
  <2>1. pdl # <<>>
    BY DEF Scon, Fnme, Undone, Fncd, PopsTo, Popping
  <2> QED
    BY <2>1, TopType, BackType DEF Entries
<1>1. CASE Scon
  <2>0. /\ UNCHANGED <<nam, maxlen, pdlhed, nhed, calls, saved, env, req>>
        /\ req.pat \in Addresses
    BY <1>1, RequestAssumption DEF Scon, IsRequest, Stores
  <2>1. CASE Exit(1, Rest) /\ UNCHANGED <<cursor, head, patb, stk>>
    BY <1>0, <2>0, <2>1 DEF Exit, Control, Stores, Stacks, Places, AreValues, IsValue
  <2>2. CASE Wild /\ UNCHANGED <<head, patb, stk>>
    BY <2>0, <2>2, WildType DEF Stores, Stacks, AreValues, IsValue
  <2>3. CASE /\ Exit(1, Rest) /\ stk' = SubSeq(stk, 1, Len(stk) - 2)
             /\ UNCHANGED <<cursor, head, patb>>
    <3>1. stk' \in Seq(StackItems)
      BY <2>3, CutBack DEF Stacks
    <3> QED
      BY <1>0, <2>0, <2>3, <3>1
         DEF Exit, Control, Stores, Stacks, Places, AreValues, IsValue
  <2>4. CASE /\ Counting /\ Last(stk).v # 1
             /\ cursor' = Back + 1 /\ head' = Back + 1
             /\ stk' = Append(Front(stk), [Last(stk) EXCEPT !.v = @ - 1])
             /\ pdl' = Append(Rest, [Trap("SCON", Back + 1, 1)
                                       EXCEPT !.pat = req.pat])
             /\ patb' = req.pat /\ pati' = 1 /\ lenf' = 1 /\ pc' = "next"
             /\ UNCHANGED ret
    <3>1. stk # <<>> /\ Last(stk).k = "count"
      BY <2>4 DEF Counting, Stacks
    <3>2. Front(stk) \in Seq(StackItems) /\ Last(stk) \in StackItems
      BY <3>1, Popped DEF Stacks
    <3>3. [Last(stk) EXCEPT !.v = @ - 1] \in StackItems
      BY <2>4, <3>1, <3>2 DEF StackItems
    <3>4. stk' \in Seq(StackItems)
      BY <2>4, <3>2, <3>3, OnTop
    <3>5. [Trap("SCON", Back + 1, 1) EXCEPT !.pat = req.pat] \in Entries
      <4>1. Trap("SCON", Back + 1, 1) \in Entries
        BY <1>0, TrapType DEF EntryFns
      <4> QED
        BY <2>0, <4>1 DEF Entries
    <3>6. pdl' \in Seq(Entries)
      BY <1>0, <2>4, <3>5, OnTop
    <3> QED
      BY <1>0, <2>0, <2>4, <3>4, <3>6
         DEF Control, Stores, Stacks, Places, AreValues, IsValue
  <2> QED
    BY <1>1, <2>1, <2>2, <2>3, <2>4 DEF Scon
<1>2. CASE Fnme
  <2>1. Stores' /\ UNCHANGED nam /\ cursor' \in Nat
    BY <1>0, <1>2, MachType DEF Fnme
  <2>2. CASE HasCursor
    <3>1. SaltOrSalf(Rest) /\ stk' = Front(stk) /\ UNCHANGED <<pati, ret>>
      BY <1>2, <2>2 DEF Fnme
    <3> QED
      BY <1>0, <2>1, <2>2, <3>1, CursorOnTop, SaltOrSalfType
         DEF Control, Stacks, Places
  <2>3. CASE ~HasCursor
    BY <1>2, <2>1, <2>3 DEF Fnme, Control, Stacks, Places
  <2> QED
    BY <2>2, <2>3
<1>3. CASE Undone
  <2>1. /\ SaltOrSalf(Rest) /\ Pushed(Top.from) /\ UNCHANGED <<pati, ret>>
        /\ cursor' = Back /\ UNCHANGED mach
        /\ nam' = nam \/ (nam # <<>> /\ nam' = Front(nam))
    BY <1>3 DEF Undone
  <2>2. nam' \in Seq(Names)
    BY <2>1, Popped DEF Stacks
  <2>3. stk' \in Seq(StackItems)
    BY <1>0, <2>1, PushedType
  <2> QED
    BY <1>0, <2>1, <2>2, <2>3, SaltOrSalfType, MachType DEF Control, Stacks, Places
<1>4. CASE Fncd
  <2>1. SealBase \in Int /\ SealBase <= Len(pdl) /\ nhed <= Len(nam)
    BY <1>0, <1>4 DEF Fncd, SealBase
  <2>2. SubSeq(pdl, 1, SealBase) \in Seq(Entries)
    BY <2>1, CutBack DEF Control
  <2>3. nam' \in Seq(Names)
    BY <1>4, <2>1, CutBack DEF Fncd, Stacks, Stores
  <2>4. Stores' /\ UNCHANGED stk /\ UNCHANGED cursor
    BY <1>4, MachType DEF Fncd
  <2>5. Control'
    BY <1>4, <2>2, <2>4 DEF Fncd, Exit, Control, Places
  <2> QED
    BY <2>3, <2>4, <2>5 DEF Stacks
<1> QED
  BY <1>1, <1>2, <1>3, <1>4

(***************************************************************************)
(* Returning from a scan, starting and ending a statement                  *)
(***************************************************************************)
LEMMA CallerType ==
  ASSUME TypeOK, calls # <<>>
  PROVE  Caller \in Frames /\ Front(calls) \in Seq(Frames)
  BY Popped DEF Caller, TypeOK

LEMMA RestoredType ==
  ASSUME TypeOK, calls # <<>>, Restored
  PROVE  /\ maxlen' \in Int /\ patb' \in Addresses
         /\ stk' \in Seq(StackItems) /\ calls' \in Seq(Frames)
  BY CallerType DEF Restored, Frames

LEMMA ReturnType ==
  ASSUME TypeOK, \/ Aborted \/ StarFailed \/ StarMatched
                 \/ FenceFailed \/ FenceMatched
  PROVE  Typed
<1> USE Parts DEF Typed
<1>0. calls # <<>> /\ Caller \in Frames /\ Front(calls) \in Seq(Frames)
  <2>1. calls # <<>>
    BY DEF Aborted, StarFailed, StarMatched, FenceFailed, FenceMatched, Returning
  <2> QED
    BY <2>1, CallerType
<1>00. /\ Caller.then \in Nat /\ Caller.inner \in Addresses /\ Caller.base \in Nat
       /\ Caller.patb \in Addresses /\ Caller.pdlhed \in Nat
       /\ Caller.nam \in Nat /\ Caller.nhed \in Nat
       /\ Caller.stk \in Seq(StackItems)
  BY <1>0 DEF Frames
<1>1. CASE Aborted
  BY <1>0, <1>00, <1>1 DEF Aborted, Control, Stores, Stacks, AreValues, IsValue
<1>2. CASE StarFailed
  <2>1. Restored /\ SaltOrSalf(pdl) /\ UNCHANGED <<ret, pati, cursor, nam, head,
                                          pdlhed, nhed, saved, env, req>>
    BY <1>2 DEF StarFailed
  <2>2. Control'
    BY <2>1, SaltOrSalfType DEF Control, Places
  <2> QED
    BY <1>0, <2>1, <2>2, RestoredType DEF Stores, Stacks, AreValues, IsValue
<1>3. CASE StarMatched
  <2>1. \A p \in Addresses : Sentinel(p) \in Entries
    BY DEF Sentinel, Entry, Entries, EntryFns, Control
  <2> DEFINE bottom == [i \in 1..Len(pdl) |->
                          IF i = Caller.base
                          THEN [Sentinel(Caller.patb) EXCEPT !.lenf = pdl[i].lenf]
                          ELSE pdl[i]]
  <2>2. bottom \in Seq(Entries)
    <3>1. ASSUME NEW i \in 1..Len(pdl) PROVE bottom[i] \in Entries
      <4>1. pdl[i] \in Entries /\ Sentinel(Caller.patb) \in Entries
        BY <1>00, <2>1 DEF Control
      <4>2. [Sentinel(Caller.patb) EXCEPT !.lenf = pdl[i].lenf] \in Entries
        BY <4>1 DEF Entries
      <4> QED
        BY <4>1, <4>2
    <3> HIDE DEF bottom
    <3>2. Len(pdl) \in Nat /\ bottom = [i \in 1..Len(pdl) |-> bottom[i]]
      BY DEF bottom, Control
    <3> QED
      BY <3>1, <3>2, IsASeq
  <2>3. Fenced(pdl, Caller.base, Caller.inner, Caller.patb) \in Seq(Entries)
    <3> HIDE DEF bottom
    <3>1. Append(bottom, Sentinel(Caller.inner)) \in Seq(Entries)
      BY <1>00, <2>1, <2>2, OnTop
    <3> QED
      BY <2>2, <3>1 DEF Fenced, bottom
  <2> HIDE DEF bottom
  <2>4. /\ Restored
        /\ UNCHANGED <<cursor, nam, head, pdlhed, nhed, saved, env, req>>
        /\ \/ Scok(Caller.then,
                   Fenced(pdl, Caller.base, Caller.inner, Caller.patb))
           \/ Scok(Caller.then, pdl)
    BY <1>3 DEF StarMatched
  <2>5. Control'
    BY <1>00, <2>3, <2>4, ScokType DEF Scok, Control
  <2> QED
    BY <1>0, <2>4, <2>5, RestoredType DEF Stores, Stacks, AreValues, IsValue
<1>4. ASSUME Unfenced PROVE Stores' /\ Stacks' /\ Below \in Seq(Entries) /\ cursor' = cursor
  <2>1. nam' \in Seq(Names) /\ Below \in Seq(Entries)
    BY <1>00, <1>4, CutBack DEF Unfenced, Intact, Below, Stacks, Control
  <2> QED
    BY <1>0, <1>00, <1>4, <2>1, RestoredType
       DEF Unfenced, Stores, Stacks, AreValues, IsValue
<1>5. CASE FenceFailed
  <2>1. Unfenced /\ Salt(Below) /\ UNCHANGED <<ret, pati>>
    BY <1>5 DEF FenceFailed
  <2> QED
    BY <1>4, <2>1, SaltOrSalfType DEF Control, Places
<1>6. CASE FenceMatched
  <2>1. Unfenced /\ Scok(Caller.then, Append(Below, Seal))
    BY <1>6 DEF FenceMatched
  <2>2. Seal \in Entries
    BY <1>00 DEF Seal, Entry, Entries, EntryFns, Control
  <2>3. Append(Below, Seal) \in Seq(Entries)
    BY <1>4, <2>1, <2>2, OnTop
  <2> QED
    BY <1>00, <1>4, <2>1, <2>3, ScokType DEF Scok, Control
<1> QED
  BY <1>1, <1>2, <1>3, <1>5, <1>6

LEMMA StatementType == ASSUME TypeOK, Scnr \/ Scan PROVE Typed
<1> USE Parts DEF Typed
<1>0. req.pat \in Addresses /\ L \in Nat
  BY RequestAssumption, SubjectType DEF IsRequest, Stores
<1>1. Need \in Nat
  BY <1>0, BlockAssumption DEF Need
<1>2. ASSUME NEW fn \in {"SCON", "SCFL"}, NEW s \in Seq(StackItems), Begin(fn, s)
      PROVE  Typed
  <2> DEFINE e == [Trap(fn, 0, IF fn = "SCON" THEN 1 ELSE lenf) EXCEPT !.pat = req.pat]
  <2>1. e \in Entries
    <3>1. Trap(fn, 0, IF fn = "SCON" THEN 1 ELSE lenf) \in Entries
      BY TrapType DEF EntryFns, Control
    <3> QED
      BY <1>0, <3>1 DEF Entries
  <2>2. pdl' = <<e>>
    BY <1>2 DEF Begin
  <2> HIDE DEF e
  <2>3. pdl' \in Seq(Entries)
    BY <2>1, <2>2
  <2> QED
    BY <1>0, <1>2, <2>3
       DEF Begin, Control, Stores, Stacks, Places, AreValues, IsValue
<1>3. CASE Scnr
  <2>1. CASE /\ pc' = "failed"
             /\ UNCHANGED <<ret, pati, cursor, lenf, pdl>> /\ Plain
    <3>1. Stores' /\ Stacks'
      BY <2>1, PlainType
    <3>2. Control'
      BY <2>1 DEF Control, Places
    <3> QED
      BY <3>1, <3>2
  <2>2. CASE Begin("SCFL", <<>>)
    <3>1. <<>> \in Seq(StackItems)
      OBVIOUS
    <3> QED
      BY <1>2, <2>2, <3>1
  <2>3. CASE ~Hopeless /\ Begin("SCON", << [k |-> "pattern", v |-> 0],
                                           [k |-> "count", v |-> Starts] >>)
    <3>1. Starts \in Nat \ {0}
      BY <1>0, <1>1, <2>3 DEF Starts, Hopeless
    <3>2. /\ [k |-> "pattern", v |-> 0] \in StackItems
          /\ [k |-> "count", v |-> Starts] \in StackItems
      BY <3>1 DEF StackItems
    <3>3. << [k |-> "pattern", v |-> 0], [k |-> "count", v |-> Starts] >>
            \in Seq(StackItems)
      BY <3>2
    <3> QED
      BY <1>2, <2>3, <3>3
  <2> QED
    BY <1>3, <2>1, <2>2, <2>3 DEF Scnr
<1>4. CASE Scan
  <2>1. AreValues(Nmd)
    <3>1. ASSUME NEW v \in Vars, Assigned(v) # {} PROVE IsValue(Final(v))
      <4> DEFINE i == CHOOSE x \in Assigned(v) : \A y \in Assigned(v) : y <= x
      <4>1. Assigned(v) \subseteq 1..Len(nam) /\ Len(nam) \in Nat
        BY DEF Assigned, Stacks
      <4>2. \E x \in Assigned(v) : \A y \in Assigned(v) : y <= x
        BY <3>1, <4>1, Greatest
      <4>3. i \in 1..Len(nam)
        BY <4>1, <4>2
      <4>4. nam[i] \in Names /\ Final(v) = String(nam[i].from, nam[i].to)
        BY <4>3 DEF Final, Stacks
      <4> HIDE DEF i
      <4> QED
        BY <4>4, StringType DEF Names
    <3> QED
      BY <3>1 DEF Nmd, Stores, AreValues
  <2>2. AreValues(env')
    BY <1>4, <2>1 DEF Scan, Stores, AreValues, IsValue
  <2> QED
    BY <1>4, <2>2 DEF Scan, Control, Stores, Stacks, Places
<1> QED
  BY <1>3, <1>4

LEMMA TmvalType == ASSUME TypeOK PROVE TmvalAfter \in Nat
<1>1. CASE Fetched
  <2>1. Node.res \in Nat
    BY <1>1, NodeType DEF IsNode
  <2>2. HasCursor => Last(stk).v \in Nat
    BY CursorOnTop, Parts
  <2> QED
    BY <1>1, <2>1, <2>2 DEF TmvalAfter
<1>2. CASE ~Fetched
  BY <1>2 DEF TmvalAfter, TypeOK
<1> QED
  BY <1>1, <1>2

(***************************************************************************)
(* Types are kept, in both builds                                          *)
(***************************************************************************)
LEMMA InitTypeOK == Init => TypeOK
  BY RequestAssumption DEF Init, TypeOK, IsRequest

LEMMA StepTyped == ASSUME TypeOK, Step PROVE Typed
<1> USE Parts
<1>1. CASE Chr \/ AnyOf \/ Break \/ BreakX \/ Span
  BY <1>1, ClassType, PlainType DEF Typed
<1>2. CASE LenNode \/ Pos \/ Rpos \/ Tab \/ Rtab \/ Pass \/ FailNode
  BY <1>2, PlaceType, PlainType DEF Typed
<1>3. CASE \/ Farb \/ Bal \/ Abort \/ Succeed \/ Fnce \/ TooShort \/ PdlFull
  BY <1>3, ScanType, PlainType DEF Typed
<1>4. CASE Arbn \/ Arbf \/ Earb \/ Onar \/ Onrf
  BY <1>4, ArbnoType
<1>5. CASE Atp \/ Nme \/ Enme \/ Enmi
  BY <1>5, NamingType
<1>6. CASE Star \/ StarCall \/ Dsar \/ Fnca
  BY <1>6, CallsType
<1>7. CASE \/ Dead \/ Alternative \/ Scfl \/ Fncf \/ Sucf \/ Brxf
           \/ Strexc \/ Astray
  BY <1>7, PopType
<1>8. CASE Scon \/ Fnme \/ Undone \/ Fncd
  BY <1>8, UnstackType
<1>9. CASE \/ Aborted \/ StarFailed \/ StarMatched \/ FenceFailed \/ FenceMatched
  BY <1>9, ReturnType
<1>10. CASE Scnr \/ Scan
  BY <1>10, StatementType
<1> QED
  BY <1>1, <1>2, <1>3, <1>4, <1>5, <1>6, <1>7, <1>8, <1>9, <1>10
     DEF Step, Fetch, Pop, Return

LEMMA NextTypeOK == TypeOK /\ [Next]_vars => TypeOK'
<1> SUFFICES ASSUME TypeOK, [Next]_vars PROVE TypeOK'
  OBVIOUS
<1>1. CASE Step /\ tmval' = TmvalAfter
  BY <1>1, StepTyped, TmvalType, Parts DEF Typed, TypeOK, Control, Stores,
     Stacks, Places
<1>2. CASE UNCHANGED vars
  BY <1>2 DEF vars, TypeOK, AreValues, IsValue
<1> QED
  BY <1>1, <1>2 DEF Next, Done

\* Every variable keeps its type: whatever patterns the program is given, no
\* handler leaves a link, a cursor, a count or a frame that is none, in the
\* production build as in the other.
THEOREM TypesKept == Spec => []TypeOK
<1>1. Init => TypeOK
  BY InitTypeOK
<1>2. TypeOK /\ [Next]_vars => TypeOK'
  BY NextTypeOK
<1> QED
  BY <1>1, <1>2, PTL DEF Spec

(***************************************************************************)
(* Scanner never reads outside the subject (snobol4.c): Inv is inductive,  *)
(* for every set of patterns, requests and limits.                         *)
(***************************************************************************)
\* Inv by the piece of state it is about: the entry e at place i of the
\* history list, the list h, the frames c of the C functions waiting.
Sound(e, i) == /\ e.fn \in Resuming => e.cur \in head..L
               /\ e.fn \in {"earb", "DNME", "DNMI"} => e.from \in head..L
               /\ e.fn = "SCON" => i = 1 /\ e.cur = head
Kept(h)     == \A i \in DOMAIN h : Sound(h[i], i)
Held(c)     == \A i \in DOMAIN c : c[i].maxlen <= L /\ Waiting(c[i].stk, i = 1)

LEMMA InvParts ==
  ASSUME TypeOK
  PROVE  Inv <=> /\ cursor \in head..L /\ Kept(pdl) /\ maxlen <= L
                 /\ At("start") => calls = <<>>
                 /\ Waiting(stk, calls = <<>>) /\ Held(calls)
<1>1. cursor \in head..L <=> head <= cursor /\ cursor <= L
  BY SubjectType DEF TypeOK
<1> QED
  BY <1>1 DEF Inv, InSubject, Placed, Kept, Sound, Held

\* What every step but a start and a restart does.
Stays == /\ UNCHANGED <<head, req>> /\ pc' # "start"
         /\ cursor' \in head..L /\ Kept(pdl')

\* Such a step that leaves the frames alone, and one that leaves the C stack
\* alone too.
SameFrames == Stays /\ UNCHANGED <<maxlen, calls>> /\ Waiting(stk', calls = <<>>)
SameStack  == Stays /\ UNCHANGED <<maxlen, calls, stk>>

LEMMA Carried ==
  ASSUME Inv, TypeOK', Stays, maxlen' <= L,
         Waiting(stk', calls' = <<>>), Held(calls')
  PROVE  Inv'
<1>1. L' = L
  BY DEF L, Subject, Stays
<1>2. (cursor \in head..L)' /\ Kept(pdl)' /\ (maxlen <= L)'
  BY <1>1 DEF Stays, Kept, Sound
<1>3. Waiting(stk, calls = <<>>)' /\ Held(calls)'
  BY <1>1 DEF Stays, Waiting, Held
<1>4. (At("start") => calls = <<>>)'
  BY DEF Stays, At
<1>5. ASSUME TypeOK' PROVE (cursor \in head..L <=> head <= cursor /\ cursor <= L)'
  BY <1>1, <1>5, SubjectType DEF TypeOK, Inv
<1> QED
  BY <1>1, <1>2, <1>3, <1>4, <1>5 DEF Inv, InSubject, Placed, Kept, Sound, Held

LEMMA CarriedFrames == ASSUME Inv, TypeOK', SameFrames \/ SameStack PROVE Inv'
<1>1. TypeOK /\ maxlen <= L /\ Waiting(stk, calls = <<>>) /\ Held(calls)
  BY InvParts DEF Inv
<1>2. /\ Stays /\ UNCHANGED <<maxlen, calls>> /\ Waiting(stk', calls = <<>>)
  BY <1>1 DEF SameFrames, SameStack, Waiting
<1> QED
  BY <1>1, <1>2, Carried DEF Held

(***************************************************************************)
(* The history list                                                        *)
(***************************************************************************)
LEMMA KeptPush ==
  ASSUME NEW h \in Seq(Entries), Kept(h), NEW e \in Entries, e.fn # "SCON",
         Sound(e, 1)
  PROVE  Kept(Append(h, e)) /\ Append(h, e) \in Seq(Entries)
<1>1. \A i \in DOMAIN Append(h, e) :
        /\ Append(h, e)[i] = IF i = Len(h) + 1 THEN e ELSE h[i]
        /\ i # Len(h) + 1 => i \in DOMAIN h
  BY OnTop
<1> QED
  BY <1>1, OnTop DEF Kept, Sound

LEMMA KeptCut ==
  ASSUME NEW h \in Seq(Entries), Kept(h), NEW n \in Int, n <= Len(h)
  PROVE  Kept(SubSeq(h, 1, n))
  BY CutBack DEF Kept

LEMMA KeptRest ==
  ASSUME Inv, pdl # <<>>
  PROVE  /\ Kept(Rest) /\ Sound(Top, Len(pdl)) /\ Top \in Entries
         /\ Rest \in Seq(Entries)
<1>1. Kept(pdl) /\ pdl \in Seq(Entries)
  BY InvParts DEF Inv, TypeOK
<1>2. /\ Rest \in Seq(Entries) /\ Top \in Entries /\ Top = pdl[Len(pdl)]
      /\ Len(pdl) \in DOMAIN pdl
      /\ \A i \in DOMAIN Rest : i \in DOMAIN pdl /\ Rest[i] = pdl[i]
  BY <1>1, Popped DEF Rest, Top
<1> QED
  BY <1>1, <1>2 DEF Kept

LEMMA KeptOwn ==
  ASSUME Inv, Fetched, NEW c \in head..L
  PROVE  Kept(OwnAt(c)) /\ OwnAt(c) \in Seq(Entries)
<1> DEFINE e == Entry("node", Node.alt, Node.then, c, Node.res, 0, lenf, patb)
<1>0. TypeOK /\ Kept(pdl) /\ pdl \in Seq(Entries) /\ c \in Nat
  BY InvParts, SubjectType DEF Inv, TypeOK
<1>1. e \in Entries
  BY <1>0, NodeType DEF TypeOK, Entry, Entries, EntryFns, IsNode
<1>2. e.fn = "node" /\ e.cur = c
  BY DEF Entry
<1> HIDE DEF e
<1>3. Sound(e, 1)
  BY <1>2 DEF Sound
<1> QED
  BY <1>0, <1>1, <1>2, <1>3, KeptPush DEF OwnAt, e

\* A trap holds the cursor it is given.
LEMMA KeptTrap ==
  ASSUME Inv, NEW h \in Seq(Entries), Kept(h),
         NEW fn \in EntryFns \ {"SCON", "earb", "DNME", "DNMI"},
         NEW c \in head..L, NEW len \in {0, 1}
  PROVE  /\ Kept(Append(h, Trap(fn, c, len)))
         /\ Append(h, Trap(fn, c, len)) \in Seq(Entries)
<1>0. TypeOK /\ c \in Nat
  BY SubjectType DEF Inv, TypeOK
<1>1. Trap(fn, c, len) \in Entries /\ Trap(fn, c, len).fn = fn
      /\ Trap(fn, c, len).cur = c
  BY <1>0, TrapType DEF Trap, Entry
<1>2. Sound(Trap(fn, c, len), 1)
  BY <1>1 DEF Sound
<1> QED
  BY <1>1, <1>2, KeptPush

\* What BREAKX leaves for its retry.
LEMMA KeptRetry ==
  ASSUME TypeOK, NEW h \in Seq(Entries), Kept(h), NEW p \in head..L, p \in Nat,
         NEW off \in Nat, NEW res \in Nat
  PROVE  Kept(Retry(h, p, off, res))
<1> DEFINE e1 == Entry("zero", 0, off, 0, 0, 0, lenf, patb)
           e2 == Entry("BRXF", 0, 0, p, res, 0, lenf, patb)
<1>1. e1 \in Entries /\ e2 \in Entries
  BY DEF TypeOK, Entry, Entries, EntryFns
<1>2. e1.fn = "zero" /\ e2.fn = "BRXF" /\ e2.cur = p
  BY DEF Entry
<1> HIDE DEF e1, e2
<1>3. Sound(e1, 1) /\ Sound(e2, 1)
  BY <1>2 DEF Sound, Resuming
<1>4. Kept(Append(Append(h, e1), e2))
  BY <1>1, <1>2, <1>3, KeptPush
<1>5. Retry(h, p, off, res) = Append(Append(h, e1), e2)
  BY <1>1 DEF Retry, e1, e2
<1> QED
  BY <1>4, <1>5

(***************************************************************************)
(* How a handler ends                                                      *)
(***************************************************************************)
\* On to the next dispatch with the list h and the cursor c.
LEMMA EndsInside ==
  ASSUME NEW h, Kept(h), cursor' \in head..L, UNCHANGED mach,
         \/ Salf(h) \/ Salt(h) \/ SaltOrSalf(h)
         \/ \E r : Exit(r, h)
         \/ \E then, len : ScokWith(then, h, len)
  PROVE  Stays /\ UNCHANGED <<maxlen, calls>>
<1>1. pdl' = h /\ pc' # "start"
  BY DEF Salf, Salt, SaltOrSalf, Exit, ScokWith
<1> QED
  BY <1>1 DEF Stays, mach

LEMMA PlainEnds ==
  ASSUME NEW h, Kept(h), cursor' \in head..L, Plain,
         \/ Salf(h) \/ Salt(h) \/ SaltOrSalf(h)
         \/ \E r : Exit(r, h)
         \/ \E then, len : ScokWith(then, h, len)
  PROVE  SameStack
<1>1. Stays /\ UNCHANGED <<maxlen, calls>>
  BY EndsInside DEF Plain
<1> QED
  BY <1>1 DEF SameStack, Plain

LEMMA WildEnds ==
  ASSUME Inv, cursor' = cursor, UNCHANGED mach, Wild \/ Overflow
  PROVE  Stays /\ UNCHANGED <<maxlen, calls>>
  BY InvParts DEF Inv, Stays, Wild, Overflow, mach

LEMMA EndingsInside ==
  ASSUME Inv, Fetched, Plain
  PROVE  /\ Mismatch => SameStack
         /\ Short => SameStack
         /\ Wild => SameStack
         /\ \A c \in head..L : Matched(c) => SameStack
<1>1. cursor \in head..L /\ Kept(Own)
  BY InvParts, KeptOwn DEF Inv, Own
<1>2. Mismatch => SameStack
  BY <1>1, PlainEnds DEF Mismatch, Failed
<1>3. Short => SameStack
  BY <1>1, PlainEnds DEF Short, Failed
<1>4. Wild => SameStack
  BY WildEnds DEF Plain, SameStack, Wild
<1>5. ASSUME NEW c \in head..L, Matched(c) PROVE SameStack
  BY <1>1, <1>5, PlainEnds DEF Matched, Scok
<1> QED
  BY <1>2, <1>3, <1>4, <1>5

(***************************************************************************)
(* Nodes that only move the cursor                                         *)
(***************************************************************************)
\* The numbers the handlers compare.
LEMMA Numbers ==
  ASSUME Inv
  PROVE  /\ L \in Nat /\ head \in Nat /\ cursor \in head..L /\ cursor \in Nat
         /\ maxlen \in Int /\ maxlen <= L
         /\ Visible \in Int /\ Visible <= L
         /\ Fetched => Residual(Node.res) \in Nat
<1>1. TypeOK /\ cursor \in head..L /\ maxlen <= L
  BY InvParts DEF Inv
<1>2. L \in Nat /\ head \in Nat /\ cursor \in Nat /\ maxlen \in Int
  BY <1>1, SubjectType DEF TypeOK
<1>3. Fetched => Residual(Node.res) \in Nat
  BY <1>1, NodeType DEF IsNode, Residual
<1> QED
  BY <1>1, <1>2, <1>3 DEF Visible

LEMMA CompareSafe ==
  ASSUME Inv, Fetched, Plain, NEW t, Len(t) \in Nat, Compare(t)
  PROVE  SameStack
<1>1. cursor + Len(t) <= L => cursor + Len(t) \in head..L
  BY Numbers
<1> QED
  BY <1>1, EndingsInside DEF Compare

\* Where BREAK stops, and what getbal finds, lies in the subject.
LEMMA StopsSafe ==
  ASSUME Inv, NEW c \in Nat, head <= c, NEW cs
  PROVE  Stops(c, cs) \subseteq head..L
  BY Numbers DEF Stops

LEMMA ClassSafe ==
  ASSUME Inv, Chr \/ AnyOf \/ Break \/ BreakX \/ Span PROVE SameStack
<1>0. Fetched /\ Plain
  BY DEF Chr, AnyOf, Break, BreakX, Span, IsAt
<1>1. CASE Chr
  <2>1. Node.arg \in Seq(Char)
    BY <1>0, <1>1, NodeType DEF Chr, IsAt, IsNode, Inv
  <2> QED
    BY <1>0, <1>1, <2>1, CompareSafe DEF Chr
<1>2. CASE AnyOf
  <2>1. cursor < Visible => cursor + 1 \in head..L
    BY Numbers
  <2> QED
    BY <1>0, <1>2, <2>1, EndingsInside DEF AnyOf
<1>3. Stops(cursor, Node.arg) \subseteq head..L
  BY Numbers, StopsSafe
<1>4. CASE Break
  BY <1>0, <1>3, <1>4, EndingsInside DEF Break, IsLeast
<1>5. CASE BreakX
  <2>1. CASE Short
    BY <1>0, <2>1, EndingsInside
  <2>2. ASSUME NEW p \in head..L, cursor' = p,
               Scok(Node.then, Retry(Own, p, pati, Node.res))
        PROVE  SameStack
    <3>1. Kept(Retry(Own, p, pati, Node.res))
      <4>1. Kept(Own) /\ Own \in Seq(Entries) /\ p \in Nat
        BY <1>0, Numbers, KeptOwn DEF Own
      <4>2. TypeOK /\ Node.res \in Nat
        BY <1>0, NodeType DEF IsNode, Inv
      <4> QED
        BY <4>1, <4>2, KeptRetry DEF TypeOK
    <3> QED
      BY <1>0, <2>2, <3>1, PlainEnds DEF Scok
  <2> QED
    BY <1>3, <1>5, <2>1, <2>2 DEF BreakX, IsLeast
<1>6. CASE Span
  <2> DEFINE out == {p \in cursor..L : p < L /\ Ch(p) \notin Node.arg} \cup {L}
  <2>1. out \subseteq head..L
    BY Numbers
  <2> HIDE DEF out
  <2> QED
    BY <1>0, <1>6, <2>1, EndingsInside DEF Span, out
<1> QED
  BY <1>1, <1>2, <1>4, <1>5, <1>6

LEMMA PlaceSafe ==
  ASSUME Inv, LenNode \/ Pos \/ Rpos \/ Tab \/ Rtab \/ Pass \/ FailNode
  PROVE  SameStack
<1>0. Fetched /\ Plain
  BY DEF LenNode, Pos, Rpos, Tab, Rtab, Pass, FailNode, IsAt
<1>1. \/ Short \/ Mismatch
      \/ /\ LenNode \/ Tab \/ Rtab
         /\ Node.arg \in Nat
         /\ \/ cursor + Node.arg <= maxlen /\ Matched(cursor + Node.arg)
            \/ cursor <= Node.arg /\ Node.arg <= maxlen /\ Matched(Node.arg)
            \/ cursor + Node.arg <= L /\ Matched(L - Node.arg)
      \/ Matched(cursor)
  <2>1. Node.fn \in OfPlace => Node.arg \in Nat
    BY <1>0, NodeType DEF IsNode, Inv
  <2>2. Node.fn \in {"LEN", "TAB", "RTAB"} => Node.arg \in Nat
    BY <2>1 DEF OfPlace
  <2> QED
    BY <2>2, Numbers DEF LenNode, Pos, Rpos, Tab, Rtab, Pass, FailNode, IsAt
<1>2. Node.arg \in Nat =>
        /\ cursor + Node.arg <= maxlen => cursor + Node.arg \in head..L
        /\ cursor <= Node.arg /\ Node.arg <= maxlen => Node.arg \in head..L
        /\ cursor + Node.arg <= L => L - Node.arg \in head..L
  BY Numbers
<1>3. cursor \in head..L
  BY Numbers
<1> QED
  BY <1>0, <1>1, <1>2, <1>3, EndingsInside

LEMMA ScanSafe ==
  ASSUME Inv, \/ Farb \/ Bal \/ Abort \/ Succeed \/ Fnce
              \/ TooShort \/ PdlFull
  PROVE  SameStack
<1>0. /\ Plain /\ TypeOK /\ Kept(pdl) /\ pdl \in Seq(Entries)
      /\ lenf \in {0, 1} /\ cursor \in head..L
  BY InvParts DEF Farb, Bal, Abort, Succeed, Fnce, TooShort, PdlFull, Overflow,
     Inv, TypeOK
<1>1. CASE Farb
  <2>1. Fetched
    BY <1>1 DEF Farb, IsAt
  <2>2. CASE Salt(pdl) /\ Failed
    BY <1>0, <2>2, PlainEnds DEF Failed
  <2>3. CASE /\ ~(cursor + Residual(Node.res) >= maxlen)
             /\ cursor' = cursor + 1 /\ Scok(Node.then, OwnAt(cursor + 1))
    <3>1. cursor + 1 \in head..L
      BY <2>1, <2>3, Numbers
    <3> QED
      BY <1>0, <2>1, <2>3, <3>1, KeptOwn, PlainEnds DEF Scok
  <2> QED
    BY <1>1, <2>2, <2>3 DEF Farb
<1>2. CASE Bal
  <2>1. Fetched
    BY <1>2 DEF Bal, IsAt
  <2>2. CASE Wild
    BY <1>0, <2>1, <2>2, EndingsInside
  <2>3. CASE Salf(pdl) /\ Failed
    BY <1>0, <2>3, PlainEnds DEF Failed
  <2>4. ASSUME NEW end \in BalEnds(cursor, maxlen - (cursor + Residual(Node.res))),
               cursor' = end, Scok(Node.then, OwnAt(end))
        PROVE  SameStack
    <3>1. end \in (cursor + 1)..(cursor + (maxlen - (cursor + Residual(Node.res))))
      BY <2>4 DEF BalEnds
    <3>2. end \in head..L
      BY <2>1, <3>1, Numbers
    <3> QED
      BY <1>0, <2>1, <2>4, <3>2, KeptOwn, PlainEnds DEF Scok
  <2> QED
    BY <1>2, <2>2, <2>3, <2>4 DEF Bal
<1>3. CASE Abort
  <2>1. Fetched
    BY <1>3 DEF Abort, IsAt
  <2> QED
    BY <1>0, <1>3, <2>1, KeptOwn, PlainEnds DEF Abort, Own
<1>4. ASSUME NEW fn \in {"SUCF", "FNCF"}, IsAt(fn) \/ Fetched, cursor' = cursor,
             ScokWith(Node.then, Append(Own, Trap(fn, cursor, lenf)), 1)
      PROVE  SameStack
  <2>1. Fetched
    BY <1>4 DEF IsAt
  <2>2. Kept(Own) /\ Own \in Seq(Entries)
    BY <1>0, <2>1, KeptOwn DEF Own
  <2>3. Kept(Append(Own, Trap(fn, cursor, lenf)))
    BY <1>0, <2>2, KeptTrap DEF EntryFns
  <2> QED
    BY <1>0, <1>4, <2>3, PlainEnds
<1>5. CASE Succeed
  BY <1>4, <1>5 DEF Succeed, IsAt
<1>6. CASE Fnce
  BY <1>4, <1>6 DEF Fnce, IsAt
<1>7. CASE TooShort
  BY <1>0, <1>7, EndingsInside DEF TooShort, Short
<1>8. CASE PdlFull
  BY <1>0, <1>8, WildEnds DEF PdlFull, Overflow, Plain, SameStack
<1> QED
  BY <1>1, <1>2, <1>3, <1>5, <1>6, <1>7, <1>8

(***************************************************************************)
(* Nodes and entries that push and pop cursors                             *)
(***************************************************************************)
\* The C stack after a pop and after a push.
LEMMA StackSafe ==
  ASSUME Inv
  PROVE  /\ HasCursor => /\ Last(stk).v \in head..L
                         /\ Waiting(Front(stk), calls = <<>>)
         /\ \A c \in head..L : Waiting(Append(stk, Saved(c)), calls = <<>>)
<1>0. stk \in Seq(StackItems) /\ Waiting(stk, calls = <<>>)
  BY InvParts DEF Inv, TypeOK
<1>1. ASSUME HasCursor
      PROVE  Last(stk).v \in head..L /\ Waiting(Front(stk), calls = <<>>)
  <2>1. stk # <<>> /\ Last(stk).k = "cursor"
    BY <1>1 DEF HasCursor
  <2>2. /\ Last(stk) = stk[Len(stk)] /\ Len(stk) \in Nat \ {0}
        /\ \A i \in DOMAIN Front(stk) : i \in DOMAIN stk /\ Front(stk)[i] = stk[i]
    <3> HIDE DEF Waiting
    <3> QED
      BY <1>0, <2>1, Popped, Zenon
  <2>3. Len(stk) \in DOMAIN stk
    BY <1>0, <2>2
  <2> QED
    BY <1>0, <2>1, <2>2, <2>3 DEF Waiting
<1>2. ASSUME NEW c \in head..L
      PROVE  Waiting(Append(stk, Saved(c)), calls = <<>>)
  <2>1. c \in Nat
    BY Numbers
  <2>2. Saved(c) \in StackItems /\ Saved(c).k = "cursor" /\ Saved(c).v = c
    BY <2>1 DEF Saved, StackItems
  <2>3. \A i \in DOMAIN Append(stk, Saved(c)) :
          /\ Append(stk, Saved(c))[i] = IF i = Len(stk) + 1 THEN Saved(c) ELSE stk[i]
          /\ i # Len(stk) + 1 => i \in DOMAIN stk
    BY <1>0, <2>2, OnTop
  <2> QED
    BY <1>0, <2>2, <2>3 DEF Waiting
<1> QED
  BY <1>1, <1>2

LEMMA ArbnoSafe ==
  ASSUME Inv, Arbn \/ Arbf \/ Earb \/ Onar \/ Onrf PROVE SameFrames
<1>0. /\ Fetched /\ UNCHANGED mach /\ TypeOK /\ cursor \in head..L
      /\ Waiting(stk, calls = <<>>)
  BY InvParts DEF Arbn, Arbf, Earb, Onar, Onrf, IsAt, Inv
<1>1. Kept(Own) /\ Own \in Seq(Entries) /\ Kept(pdl) /\ pdl \in Seq(Entries)
  BY <1>0, KeptOwn, InvParts DEF Own, TypeOK
<1>2. ASSUME Wild, cursor' = cursor, UNCHANGED stk PROVE SameFrames
  BY <1>0, <1>2, WildEnds DEF SameFrames
<1>3. ASSUME Matched(cursor), \/ UNCHANGED stk \/ Pushed(cursor)
      PROVE  SameFrames
  <2>1. Stays /\ UNCHANGED <<maxlen, calls>>
    BY <1>0, <1>1, <1>3, EndsInside DEF Matched, Scok
  <2> QED
    BY <1>0, <1>3, <2>1, StackSafe DEF SameFrames, Pushed
<1>4. CASE Arbn
  BY <1>3, <1>4 DEF Arbn
<1>5. CASE Arbf
  <2>1. CASE HasCursor
    <3>1. SaltOrSalf(Own) /\ stk' = Front(stk) /\ Failed
      BY <1>5, <2>1 DEF Arbf
    <3>2. Stays /\ UNCHANGED <<maxlen, calls>>
      BY <1>0, <1>1, <3>1, EndsInside DEF Failed
    <3> QED
      BY <2>1, <3>1, <3>2, StackSafe DEF SameFrames
  <2> QED
    BY <1>2, <1>5, <2>1 DEF Arbf, Failed
<1>6. CASE Earb
  <2>1. CASE HasCursor
    <3> DEFINE e == Entry("earb", 0, 0, cursor, 0, Last(stk).v, 0, patb)
    <3>1. Last(stk).v \in head..L /\ Last(stk).v \in Nat
      BY <2>1, StackSafe, Numbers
    <3>2. e \in Entries
      BY <1>0, <3>1 DEF Entry, Entries, EntryFns, TypeOK
    <3>3. e.fn = "earb" /\ e.from = Last(stk).v /\ e.cur = cursor
      BY DEF Entry
    <3>4. /\ cursor' = cursor /\ stk' = Front(stk)
          /\ Scok(Node.then, Append(pdl, e))
      BY <1>6, <2>1 DEF Earb
    <3> HIDE DEF e
    <3>5. Sound(e, 1)
      BY <3>1, <3>3 DEF Sound, Resuming
    <3>6. Kept(Append(pdl, e))
      BY <1>1, <3>2, <3>3, <3>5, KeptPush
    <3>7. Stays /\ UNCHANGED <<maxlen, calls>>
      BY <1>0, <3>4, <3>6, EndsInside DEF Scok
    <3> QED
      BY <2>1, <3>4, <3>7, StackSafe DEF SameFrames
  <2> QED
    BY <1>2, <1>6, <2>1 DEF Earb
<1>7. ASSUME AtEarb, Onar1 PROVE SameFrames
  <2>1. Kept(Rest) /\ Sound(Top, Len(pdl)) /\ Top.fn = "earb" /\ Began = Top.from
    BY <1>7, KeptRest DEF AtEarb, Began, Top
  <2>2. Began \in head..L
    BY <2>1 DEF Sound
  <2>3. SaltOrSalf(Rest) /\ Pushed(Began) /\ Failed
    BY <1>7 DEF Onar1, Rest
  <2>4. Stays /\ UNCHANGED <<maxlen, calls>>
    BY <1>0, <2>1, <2>3, EndsInside DEF Failed
  <2> QED
    BY <2>2, <2>3, <2>4, StackSafe DEF SameFrames, Pushed
<1>8. CASE Onar
  <2>1. Wild => cursor' = cursor
    BY DEF Wild
  <2> QED
    BY <1>2, <1>3, <1>7, <1>8, <2>1 DEF Onar
<1>9. CASE Onrf
  BY <1>2, <1>7, <1>9 DEF Onrf
<1> QED
  BY <1>4, <1>5, <1>6, <1>8, <1>9

LEMMA NamingSafe ==
  ASSUME Inv, TypeOK', Atp \/ Nme \/ Enme \/ Enmi PROVE Inv'
<1>0. /\ Fetched /\ TypeOK /\ cursor \in head..L /\ lenf \in {0, 1}
      /\ Waiting(stk, calls = <<>>) /\ cursor' = cursor
      /\ UNCHANGED <<head, req, maxlen, calls>>
  <2>1. cursor' = cursor /\ Fetched /\ UNCHANGED <<head, req, maxlen, calls>>
    BY DEF Atp, Nme, Enme, Enmi, IsAt, Matched, mach, Wild
  <2> QED
    BY <2>1, InvParts DEF Inv, TypeOK
<1>1. Kept(Own) /\ Own \in Seq(Entries) /\ Kept(pdl)
  BY <1>0, KeptOwn, InvParts DEF Own
<1>2. ASSUME NEW h, Kept(h), pdl' = h, pc' # "start" PROVE Stays
  BY <1>0, <1>2 DEF Stays
<1>3. CASE Atp
  <2>1. pdl' = Own /\ pc' # "start" /\ stk' = stk
    BY <1>3 DEF Atp, Matched, Scok, ScokWith
  <2> QED
    BY <1>0, <1>1, <1>2, <2>1, CarriedFrames DEF SameStack
<1>4. CASE Nme
  <2>1. /\ pdl' = Append(Own, Trap("FNME", cursor, lenf)) /\ pc' # "start"
        /\ stk' = Append(stk, Saved(cursor))
    BY <1>4 DEF Nme, ScokWith, Pushed
  <2>2. Kept(Append(Own, Trap("FNME", cursor, lenf)))
    BY <1>0, <1>1, KeptTrap DEF EntryFns
  <2> QED
    BY <1>0, <1>2, <2>1, <2>2, StackSafe, CarriedFrames DEF SameFrames
<1>5. ASSUME HasCursor, NEW fn \in {"DNME", "DNMI"}, stk' = Front(stk),
             ScokWith(Node.then, Undo(fn, Last(stk).v), 1)
      PROVE  Inv'
  <2> DEFINE e == Entry(fn, 0, 0, cursor, 0, Last(stk).v, lenf, patb)
  <2>1. Last(stk).v \in head..L /\ Last(stk).v \in Nat
    BY <1>5, StackSafe, Numbers
  <2>2. e \in Entries /\ e.fn = fn /\ e.cur = cursor /\ e.from = Last(stk).v
    BY <1>0, <2>1 DEF Entry, Entries, EntryFns, TypeOK
  <2>3. pdl' = Append(Own, e) /\ pc' # "start"
    BY <1>5 DEF Undo, ScokWith
  <2> HIDE DEF e
  <2>4. Sound(e, 1)
    BY <1>0, <2>1, <2>2 DEF Sound, Resuming
  <2>5. Kept(Append(Own, e))
    BY <1>1, <2>2, <2>4, KeptPush
  <2> QED
    BY <1>0, <1>2, <1>5, <2>3, <2>5, StackSafe, CarriedFrames DEF SameFrames
<1>6. ASSUME Wild, UNCHANGED stk PROVE Inv'
  <2>1. pdl' = pdl /\ pc' # "start"
    BY <1>6 DEF Wild
  <2> QED
    BY <1>0, <1>1, <1>2, <1>6, <2>1, CarriedFrames DEF SameStack
<1>7. CASE Enme
  BY <1>5, <1>6, <1>7 DEF Enme
<1>8. CASE Enmi
  BY <1>5, <1>6, <1>8 DEF Enmi
<1> QED
  BY <1>3, <1>4, <1>7, <1>8

(***************************************************************************)
(* Scans inside a scan                                                     *)
(***************************************************************************)
LEMMA HeldPush ==
  ASSUME Inv, NEW f \in Frames, f.maxlen = maxlen, f.stk = stk
  PROVE  Held(Append(calls, f)) /\ Append(calls, f) # <<>>
<1>1. /\ calls \in Seq(Frames) /\ Held(calls) /\ maxlen <= L
      /\ Waiting(stk, calls = <<>>)
  BY InvParts DEF Inv, TypeOK
<1>2. /\ Append(calls, f) # <<>>
      /\ \A i \in DOMAIN Append(calls, f) :
           /\ Append(calls, f)[i] = IF i = Len(calls) + 1 THEN f ELSE calls[i]
           /\ i # Len(calls) + 1 => i \in DOMAIN calls
  BY <1>1, OnTop
<1>3. calls = <<>> <=> Len(calls) + 1 = 1
  BY <1>1
<1>4. Waiting(stk, Len(calls) + 1 = 1)
  BY <1>1, <1>3 DEF Waiting
<1> HIDE DEF Waiting
<1> QED
  BY <1>1, <1>2, <1>4 DEF Held

LEMMA HeldPop ==
  ASSUME Inv, calls # <<>>
  PROVE  /\ Held(Front(calls)) /\ Caller \in Frames /\ Caller.maxlen <= L
         /\ Waiting(Caller.stk, Front(calls) = <<>>)
<1>1. calls \in Seq(Frames) /\ Held(calls)
  BY InvParts DEF Inv, TypeOK
<1>2. /\ Front(calls) \in Seq(Frames) /\ Caller \in Frames
      /\ Caller = calls[Len(calls)]
      /\ Len(Front(calls)) = Len(calls) - 1 /\ Len(calls) \in Nat \ {0}
      /\ \A i \in DOMAIN Front(calls) :
           i \in DOMAIN calls /\ Front(calls)[i] = calls[i]
  <2> HIDE DEF Held
  <2> QED
    BY <1>1, Popped, Zenon DEF Caller
<1>3. Len(calls) \in DOMAIN calls /\ (Len(calls) = 1 <=> Front(calls) = <<>>)
  BY <1>1, <1>2
<1>4. Waiting(Caller.stk, Len(calls) = 1) /\ Caller.maxlen <= L
  BY <1>1, <1>2, <1>3 DEF Held
<1>5. Waiting(Caller.stk, Front(calls) = <<>>)
  BY <1>3, <1>4 DEF Waiting
<1> HIDE DEF Waiting
<1> QED
  BY <1>1, <1>2, <1>4, <1>5 DEF Held

LEMMA NothingWaits == \A o : Waiting(<<>>, o)
  BY DEF Waiting

LEMMA CallsSafe ==
  ASSUME Inv, TypeOK', Star \/ StarCall \/ Dsar \/ Fnca PROVE Inv'
<1>0. /\ Fetched /\ TypeOK /\ cursor \in head..L /\ lenf \in {0, 1}
      /\ maxlen <= L /\ maxlen \in Int /\ L \in Nat
      /\ Residual(Node.res) \in Nat
      /\ Kept(Own) /\ Own \in Seq(Entries)
  <2>1. Fetched
    BY DEF Star, StarCall, Dsar, Fnca, IsAt
  <2> QED
    BY <2>1, InvParts, Numbers, KeptOwn DEF Inv, TypeOK, Own
<1> DEFINE called == Append(Own, Trap("SCFL", cursor, lenf))
<1>1. Kept(called) /\ called \in Seq(Entries) /\ Len(called) \in Nat
  BY <1>0, KeptTrap DEF EntryFns
<1> HIDE DEF called
<1>2. ASSUME NEW kind \in {"STAR", "DSAR", "FNCA"}, NEW inner \in Addresses,
             NEW base \in Nat, calls' = Append(calls, Frame(kind, inner, base)),
             stk' = <<>>, maxlen' <= L, Stays
      PROVE  Inv'
  <2> DEFINE f == Frame(kind, inner, base)
  <2>1. Node.then \in Nat /\ Len(nam) \in Nat
    BY <1>0, NodeType DEF IsNode, TypeOK
  <2>2. f \in Frames /\ f.maxlen = maxlen /\ f.stk = stk
    BY <1>0, <2>1 DEF Frame, Frames, TypeOK
  <2> HIDE DEF f
  <2>3. Held(Append(calls, f))
    BY <2>2, HeldPush
  <2> QED
    BY <1>2, <2>3, NothingWaits, Carried DEF f
<1>3. ASSUME NEW kind \in {"STAR", "FNCA"}, NEW inner \in Addresses,
             NEW room \in Int, room <= L, Call(kind, inner, room, called)
      PROVE  Inv'
  <2>1. /\ pdl' = called /\ pc' # "start" /\ UNCHANGED <<cursor, head, req>>
        /\ maxlen' = room /\ stk' = <<>>
        /\ calls' = Append(calls, Frame(kind, inner, Len(called)))
    BY <1>3 DEF Call
  <2>2. Stays
    BY <1>0, <1>1, <2>1 DEF Stays
  <2> QED
    BY <1>1, <1>2, <1>3, <2>1, <2>2
<1>4. CASE Star
  <2> DEFINE v == env[Node.arg]
  <2>1. IsValue(v)
    BY <1>0, <1>4, ValueType DEF Star, IsAt
  <2>2. /\ \/ v.t = "S" /\ Compare(v.s)
           \/ v.t = "I" /\ Compare(IntSpc(v.i))
           \/ Short
        /\ UNCHANGED <<stk, maxlen, head, calls, req>>
    BY <1>4 DEF Star
  <2>3. v.t = "S" => Len(v.s) \in Nat
    BY <2>1 DEF IsValue
  <2>4. v.t = "I" => Len(IntSpc(v.i)) \in Nat
    BY <2>1 DEF IsValue, IntSpc
  <2>5. \A t : Len(t) \in Nat /\ Compare(t) =>
          /\ cursor' \in head..L /\ pdl' = Own /\ pc' # "start"
    <3> TAKE t
    <3> HAVE Len(t) \in Nat /\ Compare(t)
    <3>1. cursor + Len(t) <= L => cursor + Len(t) \in head..L
      BY Numbers
    <3> QED
      BY <1>0, <3>1 DEF Compare, Short, Mismatch, Matched, Salt, Salf, Scok,
         ScokWith, Failed
  <2>6. Short => cursor' \in head..L /\ pdl' = Own /\ pc' # "start"
    BY <1>0 DEF Short, Salt, Failed
  <2>7. cursor' \in head..L /\ pdl' = Own /\ pc' # "start"
    <3> HIDE DEF v
    <3> QED
      BY <2>2, <2>3, <2>4, <2>5, <2>6
  <2> QED
    BY <1>0, <2>2, <2>7, CarriedFrames DEF SameStack, Stays
<1>5. CASE StarCall
  <2> DEFINE v == env[Node.arg]
             room == maxlen - Residual(Node.res)
  <2>1. IsValue(v) /\ room \in Int /\ room <= L
    BY <1>0, <1>5, ValueType DEF StarCall, IsAt
  <2>2. v.p \in Addresses /\ Call("STAR", v.p, room, called)
    BY <1>5, <2>1 DEF StarCall, IsValue, called
  <2> HIDE DEF v, room
  <2> QED
    BY <1>3, <2>1, <2>2
<1>6. CASE Fnca
  <2>1. Node.arg \in Addresses
    BY <1>0, <1>6, NodeType DEF Fnca, IsAt, IsNode
  <2> QED
    BY <1>0, <1>3, <1>6, <2>1 DEF Fnca, called
<1>7. CASE Dsar
  <2> DEFINE v == saved[<<patb, pati>>]
             h == IF Build = "isnobol4" THEN called ELSE Own
  <2>0. Kept(h) /\ h \in Seq(Entries) /\ Len(h) \in Nat
    BY <1>0, <1>1
  <2>1. <<patb, pati>> \in DOMAIN saved => IsValue(v)
    BY <1>0 DEF TypeOK
  <2>2. CASE /\ Wild \/ Overflow \/ (SaltOrSalf(Own) /\ Failed)
             /\ Plain
    <3>1. /\ cursor' = cursor /\ pc' # "start"
          /\ pdl' = pdl \/ pdl' = Own
      BY <2>2 DEF Wild, Overflow, SaltOrSalf, Salt, Salf, Failed
    <3>2. Stays /\ UNCHANGED <<maxlen, calls, stk>>
      BY <1>0, <2>2, <3>1, InvParts DEF Stays, Plain, mach
    <3> QED
      BY <3>2, CarriedFrames DEF SameStack
  <2>3. CASE /\ <<patb, pati>> \in DOMAIN saved /\ v.t = "P"
             /\ SaltOrSalf(h) /\ Failed
             /\ calls' = Append(calls, Frame("DSAR", v.p, Len(h)))
             /\ maxlen' = maxlen - Residual(Node.res)
             /\ stk' = <<>> /\ UNCHANGED <<head, req>>
    <3>1. v.p \in Addresses
      BY <2>1, <2>3 DEF IsValue
    <3> HIDE DEF v, h
    <3>2. cursor' = cursor /\ pc' # "start" /\ pdl' = h
      BY <2>3 DEF SaltOrSalf, Salt, Salf, Failed
    <3>3. Stays /\ maxlen' <= L
      BY <1>0, <2>0, <2>3, <3>2 DEF Stays
    <3> QED
      BY <1>2, <2>0, <2>3, <3>1, <3>3
  <2> QED
    BY <1>7, <2>2, <2>3 DEF Dsar, Overflow, called
<1> QED
  BY <1>4, <1>5, <1>6, <1>7

(***************************************************************************)
(* Popping the history list.  snobol4.c takes the cursor from the entry.   *)
(***************************************************************************)
LEMMA BackSafe ==
  ASSUME Inv, Build = "snobol4", pdl # <<>>, Top.fn \in Resuming
  PROVE  Back \in head..L
  BY KeptRest DEF Back, Sound

LEMMA PopSafe ==
  ASSUME Inv, Build = "snobol4",
         \/ Dead \/ Alternative \/ Scfl \/ Fncf \/ Sucf \/ Brxf \/ Astray
  PROVE  SameStack
<1>0. /\ Plain /\ TypeOK /\ cursor \in head..L /\ lenf \in {0, 1}
      /\ Kept(pdl) /\ pdl \in Seq(Entries)
  BY InvParts DEF Inv, TypeOK, Dead, Alternative, Scfl, Fncf, Sucf, Brxf, Astray
<1>1. CASE Dead
  <2>1. pdl # <<>> /\ SaltOrSalf(Rest) /\ cursor' = cursor
    BY <1>1 DEF Dead, Popping, Failed
  <2> QED
    BY <1>0, <2>1, KeptRest, PlainEnds
<1>2. CASE Alternative
  <2>1. /\ pdl # <<>> /\ Top.fn \in Resuming /\ cursor' = Top.cur
        /\ pdl' = Rest /\ pc' # "start"
    BY <1>2 DEF Alternative, PopsTo, Popping, Resuming, EntryFns
  <2>2. Kept(Rest) /\ Top.cur \in head..L
    BY <2>1, KeptRest DEF Sound
  <2> QED
    BY <1>0, <2>1, <2>2 DEF SameStack, Stays, Plain, mach
<1>3. CASE Scfl \/ Fncf
  <2>1. /\ pdl # <<>> /\ Top.fn \in Resuming /\ cursor' = Back
        /\ \E r : Exit(r, Rest)
    BY <1>3 DEF Scfl, Fncf, PopsTo, Popping, Resuming, EntryFns
  <2> QED
    BY <1>0, <2>1, KeptRest, BackSafe, PlainEnds
<1>4. CASE Sucf
  <2>1. pdl # <<>> /\ Top.fn \in Resuming /\ cursor' = Back
    BY <1>4 DEF Sucf, PopsTo, Popping, Resuming, EntryFns
  <2>2. Kept(Rest) /\ Rest \in Seq(Entries) /\ Back \in head..L
    BY <2>1, KeptRest, BackSafe
  <2>3. Kept(Append(Rest, Trap("SUCF", Back, lenf)))
    BY <1>0, <2>2, KeptTrap DEF EntryFns
  <2>4. CASE Wild
    <3>1. pdl' = pdl /\ pc' # "start"
      BY <2>4 DEF Wild
    <3> QED
      BY <1>0, <2>1, <2>2, <3>1 DEF SameStack, Stays, Plain, mach
  <2>5. CASE ScokWith(Last(Rest).then, Append(Rest, Trap("SUCF", Back, lenf)), 1)
    BY <1>0, <2>1, <2>2, <2>3, <2>5, PlainEnds
  <2> QED
    BY <1>4, <2>4, <2>5 DEF Sucf
<1>5. CASE Brxf
  <2> DEFINE h     == SubSeq(pdl, 1, Len(pdl) - 2)
             off   == pdl[Len(pdl) - 1].then
             stops == Stops(Back + 1, Block(patb)[off].arg)
  <2>1. pdl # <<>> /\ Len(pdl) > 2 /\ Len(pdl) \in Nat /\ Top.fn \in Resuming
    BY <1>0, <1>5 DEF Brxf, PopsTo, Popping, Resuming, EntryFns
  <2>2. /\ Back \in head..L /\ Back \in Nat /\ Back + 1 \in Nat /\ head <= Back + 1
        /\ Residual(Top.res) \in Nat
    <3>1. Back \in head..L /\ Top.res \in Nat
      BY <2>1, BackSafe, KeptRest DEF Entries
    <3> QED
      BY <3>1, Numbers DEF Residual
  <2>3. Kept(h) /\ h \in Seq(Entries)
    <3>1. Len(pdl) - 2 \in Int /\ Len(pdl) - 2 <= Len(pdl)
      BY <2>1
    <3> QED
      BY <1>0, <3>1, KeptCut, CutBack
  <2>4. off \in Nat /\ tmval \in Nat
    <3>1. pdl[Len(pdl) - 1] \in Entries
      BY <1>0, <2>1
    <3> QED
      BY <1>0, <3>1 DEF Entries, TypeOK
  <2>5. stops \subseteq head..L
    BY <2>2, StopsSafe
  <2>6. Back + Residual(Top.res) < maxlen => Back + 1 \in head..L
    BY <2>2, Numbers
  <2>7. ~(Back + Residual(Top.res) >= maxlen) => Back + 1 \in head..L
    BY <2>2, <2>6, Numbers
  <2> HIDE DEF h, off, stops
  <2>8. CASE Salt(h) /\ cursor' \in head..L
    BY <1>0, <2>3, <2>8, PlainEnds
  <2>9. ASSUME NEW p \in stops, cursor' = p,
               Scok(Last(h).then, Retry(h, p, off, tmval))
        PROVE  SameStack
    <3>1. p \in head..L /\ p \in Nat
      BY <2>5, <2>9, Numbers
    <3>2. Kept(Retry(h, p, off, tmval))
      BY <1>0, <2>3, <2>4, <3>1, KeptRetry
    <3> QED
      BY <1>0, <2>9, <3>1, <3>2, PlainEnds DEF Scok
  <2> QED
    BY <1>5, <2>2, <2>7, <2>8, <2>9 DEF Brxf, h, off, stops
<1>6. CASE Astray
  <2>1. cursor' = cursor /\ pdl' = pdl /\ pc' # "start"
    BY <1>6 DEF Astray, Wild
  <2> QED
    BY <1>0, <2>1 DEF SameStack, Stays, Plain, mach
<1> QED
  BY <1>1, <1>2, <1>3, <1>4, <1>5, <1>6

LEMMA UnstackSafe ==
  ASSUME Inv, Build = "snobol4", Fnme \/ Undone \/ Fncd \/ Strexc
  PROVE  SameFrames
<1>0. /\ TypeOK /\ cursor \in head..L /\ Waiting(stk, calls = <<>>)
      /\ pdl # <<>> /\ Kept(pdl) /\ pdl \in Seq(Entries)
      /\ UNCHANGED <<head, req, maxlen, calls>>
  BY InvParts DEF Inv, TypeOK, Fnme, Undone, Fncd, Strexc, PopsTo, Popping, mach
<1>1. Kept(Rest) /\ Sound(Top, Len(pdl))
  BY <1>0, KeptRest
<1>2. CASE Fnme
  <2>1. Back \in head..L /\ cursor' = Back
    BY <1>0, <1>2, BackSafe DEF Fnme, PopsTo, Resuming, EntryFns
  <2>2. CASE HasCursor
    <3>1. SaltOrSalf(Rest) /\ stk' = Front(stk)
      BY <1>2, <2>2 DEF Fnme
    <3>2. pdl' = Rest /\ pc' # "start"
      BY <3>1 DEF SaltOrSalf, Salt, Salf
    <3> QED
      BY <1>0, <1>1, <2>1, <2>2, <3>1, <3>2, StackSafe DEF SameFrames, Stays
  <2>3. CASE ~HasCursor
    <3>1. pdl' = pdl /\ pc' # "start" /\ stk' = stk
      BY <1>2, <2>3 DEF Fnme
    <3> QED
      BY <1>0, <2>1, <3>1 DEF SameFrames, Stays
  <2> QED
    BY <2>2, <2>3
<1>3. CASE Undone
  <2>1. /\ Top.fn \in {"DNME", "DNMI"} /\ SaltOrSalf(Rest) /\ Pushed(Top.from)
        /\ cursor' = Back
    BY <1>3 DEF Undone, PopsTo
  <2>2. Back \in head..L
    BY <1>0, <2>1, BackSafe DEF Resuming, EntryFns
  <2>3. Top.from \in head..L
    BY <1>1, <2>1 DEF Sound
  <2>4. pdl' = Rest /\ pc' # "start" /\ stk' = Append(stk, Saved(Top.from))
    BY <2>1 DEF SaltOrSalf, Salt, Salf, Pushed
  <2> QED
    BY <1>0, <1>1, <2>1, <2>2, <2>3, <2>4, StackSafe DEF SameFrames, Stays
<1>4. CASE Fncd
  <2>1. /\ pdl' = SubSeq(pdl, 1, SealBase) /\ pc' # "start" /\ stk' = stk
        /\ cursor' = cursor /\ SealBase <= Len(pdl)
    BY <1>4 DEF Fncd, Exit
  <2>2. SealBase \in Int
    BY <1>0, KeptRest DEF SealBase, Entries
  <2>3. Kept(SubSeq(pdl, 1, SealBase))
    BY <1>0, <2>1, <2>2, KeptCut
  <2> QED
    BY <1>0, <2>1, <2>3 DEF SameFrames, Stays
<1>5. CASE Strexc
  <2>1. SaltOrSalf(Rest) /\ cursor' = cursor /\ stk' = stk
    BY <1>5 DEF Strexc, Failed
  <2>2. pdl' = Rest /\ pc' # "start"
    BY <2>1 DEF SaltOrSalf, Salt, Salf
  <2> QED
    BY <1>0, <1>1, <2>1, <2>2 DEF SameFrames, Stays
<1> QED
  BY <1>2, <1>3, <1>4, <1>5

(***************************************************************************)
(* Starting, restarting and ending a match                                 *)
(***************************************************************************)
\* Only SCON's entry is left when SCON runs, so nothing the attempt put on
\* the lists outlives the restart.
LEMMA RestartSafe ==
  ASSUME Inv, TypeOK', Build = "snobol4", Scon PROVE Inv'
<1>0. /\ TypeOK /\ cursor \in head..L /\ L \in Nat /\ head \in Nat /\ maxlen <= L
      /\ Waiting(stk, calls = <<>>) /\ Held(calls)
      /\ Kept(pdl) /\ pdl \in Seq(Entries) /\ stk \in Seq(StackItems)
      /\ pdl # <<>> /\ Top.fn = "SCON"
      /\ UNCHANGED <<req, maxlen, calls>>
  BY InvParts, Numbers DEF Inv, TypeOK, Scon, PopsTo, Popping
<1>1. Kept(Rest) /\ Sound(Top, Len(pdl)) /\ Rest \in Seq(Entries)
  BY <1>0, KeptRest
<1>2. CASE Exit(1, Rest) /\ UNCHANGED <<cursor, head, stk>>
  <2>1. pdl' = Rest /\ pc' # "start"
    BY <1>2 DEF Exit
  <2> QED
    BY <1>0, <1>1, <1>2, <2>1, CarriedFrames DEF SameStack, Stays
<1>3. CASE Wild /\ UNCHANGED <<head, stk>>
  <2>1. pdl' = pdl /\ pc' # "start" /\ cursor' = cursor
    BY <1>3 DEF Wild
  <2> QED
    BY <1>0, <1>3, <2>1, CarriedFrames DEF SameStack, Stays
<1>4. CASE /\ Counting /\ Exit(1, Rest) /\ stk' = SubSeq(stk, 1, Len(stk) - 2)
           /\ UNCHANGED <<cursor, head>>
  <2>1. pdl' = Rest /\ pc' # "start"
    BY <1>4 DEF Exit
  <2>2. Len(stk) - 2 \in Int /\ Len(stk) - 2 <= Len(stk)
    BY <1>0
  <2>3. \A i \in DOMAIN stk' : i \in DOMAIN stk /\ stk'[i] = stk[i]
    <3> HIDE DEF Waiting
    <3> QED
      BY <1>0, <1>4, <2>2, CutBack
  <2>4. Waiting(stk', calls = <<>>)
    BY <1>0, <2>3 DEF Waiting
  <2> QED
    BY <1>0, <1>1, <1>4, <2>1, <2>4, CarriedFrames DEF SameFrames, Stays
<1>5. CASE /\ Counting /\ Last(stk).v # 1
           /\ cursor' = Back + 1 /\ head' = Back + 1
           /\ stk' = Append(Front(stk), [Last(stk) EXCEPT !.v = @ - 1])
           /\ pdl' = Append(Rest, [Trap("SCON", Back + 1, 1)
                                     EXCEPT !.pat = req.pat])
           /\ pc' = "next"
  <2> DEFINE n == Len(stk)
             top == [Last(stk) EXCEPT !.v = @ - 1]
             e == [Trap("SCON", Back + 1, 1) EXCEPT !.pat = req.pat]
  <2>1. Len(pdl) = 1 /\ Top.cur = head /\ Rest = <<>>
    <3>1. Len(pdl) = 1 /\ Top.cur = head
      BY <1>0, <1>1 DEF Sound
    <3>2. Len(Rest) = Len(pdl) - 1
      BY <1>0, Popped DEF Rest
    <3> QED
      BY <1>1, <3>1, <3>2
  <2>2. Back = head
    BY <2>1 DEF Back
  <2>3. /\ n >= 2 /\ n \in Nat /\ stk[n].k = "count" /\ stk[n - 1].k = "pattern"
        /\ Last(stk) = stk[n] /\ stk[n] \in StackItems
    BY <1>0, <1>5 DEF Counting, Last
  <2>4. n = 2 /\ calls = <<>> /\ head + stk[2].v <= L + 1
    <3>1. n \in DOMAIN stk /\ n - 1 \in DOMAIN stk
      BY <1>0, <2>3
    <3>2. calls = <<>> /\ n - 1 = 1 /\ head + stk[n].v <= L + 1
      BY <1>0, <2>3, <3>1 DEF Waiting
    <3>3. n = 2
      BY <2>3, <3>2
    <3> QED
      BY <3>2, <3>3
  <2>5. stk[2].v \in Nat \ {0} /\ stk[2].v # 1 /\ stk[1].k = "pattern"
    BY <1>5, <2>3, <2>4 DEF StackItems
  <2>6. head + 1 <= L /\ head + 1 + (stk[2].v - 1) <= L + 1
    BY <1>0, <2>4, <2>5
  <2>7. e.fn = "SCON" /\ e.cur = head + 1
    BY <2>2 DEF Trap, Entry
  <2>8. pdl' = <<e>>
    BY <1>5, <2>1
  <2>9. top.k = "count" /\ top.v = stk[2].v - 1
    BY <2>3, <2>4 DEF StackItems
  <2>10. \A i \in DOMAIN stk' : \/ i = 1 /\ stk'[i] = stk[1]
                                \/ i = 2 /\ stk'[i] = top
    <3>0. top \in [k : {"count"}, v : Nat \ {0}]
      <4>1. stk[n] \in [k : {"count"}, v : Nat \ {0}]
        BY <2>3 DEF StackItems
      <4>2. top = [stk[n] EXCEPT !.v = @ - 1] /\ stk[n].v # 1
        BY <2>3, <2>4, <2>5
      <4> QED
        BY <4>1, <4>2
    <3>1. stk # <<>> /\ top \in StackItems
      <4> HIDE DEF top
      <4>1. stk # <<>>
        BY <2>4
      <4> QED
        BY <3>0, <4>1 DEF StackItems
    <3>2. /\ Front(stk) \in Seq(StackItems) /\ Len(Front(stk)) = n - 1
          /\ \A i \in DOMAIN Front(stk) : Front(stk)[i] = stk[i]
      BY <1>0, <3>1, Popped, Zenon
    <3>3. stk' = Append(Front(stk), top)
      BY <1>5
    <3> HIDE DEF top
    <3>4. \A i \in DOMAIN stk' :
            stk'[i] = IF i = Len(Front(stk)) + 1 THEN top ELSE Front(stk)[i]
      BY <3>1, <3>2, <3>3, OnTop
    <3>5. Len(Front(stk)) = 1 /\ DOMAIN stk' = 1..2 /\ DOMAIN Front(stk) = 1..1
      <4>1. stk' \in Seq(StackItems) /\ Len(stk') = Len(Front(stk)) + 1
        BY <3>1, <3>2, <3>3, OnTop
      <4> QED
        BY <2>4, <3>2, <4>1
    <3>6. \A i \in 1..2 : stk'[i] = IF i = 2 THEN top ELSE Front(stk)[i]
      BY <3>4, <3>5
    <3>7. Front(stk)[1] = stk[1]
      BY <3>2, <3>5
    <3> QED
      BY <3>5, <3>6, <3>7
  <2> HIDE DEF e, top
  <2>11. L' = L /\ head' = head + 1 /\ cursor' = head + 1
    BY <1>0, <1>5, <2>2 DEF L, Subject
  <2>12. (cursor \in head..L)'
    BY <1>0, <2>6, <2>11
  <2>13. Kept(pdl)'
    BY <1>0, <2>6, <2>7, <2>8, <2>11 DEF Kept, Sound
  <2>14. Waiting(stk, calls = <<>>)'
    BY <1>0, <2>4, <2>5, <2>6, <2>9, <2>10, <2>11 DEF Waiting
  <2>15. Held(calls)' /\ (maxlen <= L)' /\ (At("start") => calls = <<>>)'
    BY <1>0, <1>5, <2>4, <2>11 DEF Held, At
  <2>16. (cursor \in head..L <=> head <= cursor /\ cursor <= L)'
    BY <1>0, <2>6, <2>11
  <2> QED
    BY <2>12, <2>13, <2>14, <2>15, <2>16
       DEF Inv, InSubject, Placed, Kept, Sound, Held
<1> QED
  BY <1>2, <1>3, <1>4, <1>5 DEF Scon

LEMMA ReturnSafe ==
  ASSUME Inv, TypeOK', Build = "snobol4",
         \/ Aborted \/ StarFailed \/ StarMatched
         \/ FenceFailed \/ FenceMatched
  PROVE  Inv'
<1>0. /\ TypeOK /\ cursor \in head..L /\ lenf \in {0, 1} /\ calls # <<>>
      /\ Kept(pdl) /\ pdl \in Seq(Entries) /\ maxlen <= L
      /\ pc = "exit" /\ UNCHANGED <<head, req, cursor>>
  BY InvParts DEF Inv, TypeOK, Aborted, StarFailed, StarMatched, FenceFailed,
     FenceMatched, Returning, At, Unfenced
<1>1. /\ Held(Front(calls)) /\ Caller \in Frames /\ Caller.maxlen <= L
      /\ Waiting(Caller.stk, Front(calls) = <<>>)
  BY <1>0, HeldPop
<1>2. ASSUME Kept(pdl'), pc' # "start", calls' = Front(calls),
             stk' = Caller.stk, maxlen' = maxlen \/ maxlen' = Caller.maxlen
      PROVE  Inv'
  <2>1. Stays /\ maxlen' <= L
    BY <1>0, <1>1, <1>2 DEF Stays
  <2> QED
    BY <1>1, <1>2, <2>1, Carried
<1>3. CASE Aborted
  BY <1>0, <1>2, <1>3 DEF Aborted
<1>4. CASE StarFailed
  <2>1. pdl' = pdl /\ pc' # "start"
    BY <1>4 DEF StarFailed, SaltOrSalf, Salt, Salf
  <2> QED
    BY <1>0, <1>2, <1>4, <2>1 DEF StarFailed, Restored
<1>5. CASE StarMatched
  <2>1. Scok(Caller.then, pdl) /\ Restored
    BY <1>5 DEF StarMatched
  <2>2. pdl' = pdl /\ pc' # "start"
    BY <2>1 DEF Scok, ScokWith
  <2> QED
    BY <1>0, <1>2, <2>1, <2>2 DEF Restored
<1>6. ASSUME Unfenced PROVE Kept(Below) /\ Below \in Seq(Entries)
  <2>1. Caller.base - 1 \in Int /\ Caller.base - 1 <= Len(pdl)
    BY <1>0, <1>1, <1>6 DEF Unfenced, Intact, Frames
  <2> QED
    BY <1>0, <2>1, KeptCut, CutBack DEF Below
<1>7. CASE FenceFailed
  <2>1. Unfenced /\ Salt(Below)
    BY <1>7 DEF FenceFailed
  <2>2. pdl' = Below /\ pc' # "start"
    BY <2>1 DEF Salt
  <2> QED
    BY <1>2, <1>6, <2>1, <2>2 DEF Unfenced, Restored
<1>8. CASE FenceMatched
  <2>1. Unfenced /\ Scok(Caller.then, Append(Below, Seal))
    BY <1>8 DEF FenceMatched
  <2>2. pdl' = Append(Below, Seal) /\ pc' # "start"
    BY <2>1 DEF Scok, ScokWith
  <2>3. Seal \in Entries /\ Seal.fn = "FNCD"
    BY <1>0, <1>1 DEF Seal, Entry, Entries, EntryFns, Frames, TypeOK
  <2>4. Sound(Seal, 1)
    BY <2>3 DEF Sound, Resuming
  <2>5. Kept(pdl')
    BY <1>6, <2>1, <2>2, <2>3, <2>4, KeptPush
  <2> QED
    BY <1>2, <2>1, <2>2, <2>5 DEF Unfenced, Restored
<1> QED
  BY <1>3, <1>4, <1>5, <1>7, <1>8

LEMMA StatementSafe == ASSUME Inv, TypeOK', Scnr \/ Scan PROVE Inv'
<1>0. /\ TypeOK /\ cursor \in head..L /\ L \in Nat /\ maxlen <= L
      /\ Kept(pdl) /\ Waiting(stk, calls = <<>>) /\ Held(calls)
      /\ At("start") => calls = <<>>
  BY InvParts, Numbers DEF Inv
<1>1. CASE Scan
  <2>1. /\ pc' # "start"
        /\ UNCHANGED <<cursor, pdl, head, req, maxlen, calls, stk>>
    BY <1>1 DEF Scan
  <2> QED
    BY <1>0, <2>1, CarriedFrames DEF SameStack, Stays
<1>2. CASE pc' = "failed" /\ UNCHANGED <<cursor, pdl>> /\ Plain
  BY <1>0, <1>2, CarriedFrames DEF SameStack, Stays, Plain, mach
<1>3. ASSUME NEW fn, NEW s, Begin(fn, s), Scnr,
             \A i \in DOMAIN s :
               \/ i = 1 /\ s[i].k = "pattern"
               \/ i = 2 /\ s[i].k = "count" /\ s[i].v \in 1..(L + 1)
      PROVE  Inv'
  <2>1. L' = L /\ head' = 0 /\ cursor' = 0 /\ maxlen' = L
    BY <1>3 DEF Begin, L, Subject
  <2>2. calls = <<>> /\ calls' = <<>> /\ stk' = s /\ pc' = "next"
    BY <1>0, <1>3 DEF Begin, Scnr
  <2>3. /\ Len(pdl') = 1 /\ DOMAIN pdl' = {1} /\ pdl'[1].cur = 0
        /\ pdl'[1].fn = fn /\ pdl'[1].from = 0
    BY <1>3 DEF Begin, Trap, Entry
  <2>4. Kept(pdl)'
    BY <1>0, <2>1, <2>3 DEF Kept, Sound
  <2>5. Waiting(stk, calls = <<>>)'
    BY <1>0, <1>3, <2>1, <2>2 DEF Waiting
  <2>6. Held(calls)' /\ (maxlen <= L)' /\ (At("start") => calls = <<>>)'
    BY <1>0, <2>1, <2>2 DEF Held, At
  <2>7. (head <= cursor /\ cursor <= L)'
    BY <1>0, <2>1
  <2> QED
    BY <2>4, <2>5, <2>6, <2>7 DEF Inv, InSubject, Placed, Kept, Sound, Held
<1>4. ~Hopeless => Starts \in 1..(L + 1)
  <2>1. Need \in Nat
    BY <1>0, BlockAssumption, RequestAssumption DEF Need, IsRequest, TypeOK
  <2> QED
    BY <1>0, <2>1 DEF Starts, Hopeless
<1>5. CASE Scnr /\ Begin("SCFL", <<>>)
  <2>1. DOMAIN <<>> = {}
    OBVIOUS
  <2> QED
    BY <1>3, <1>5, <2>1
<1>6. CASE /\ ~Hopeless /\ Scnr
           /\ Begin("SCON", << [k |-> "pattern", v |-> 0],
                               [k |-> "count", v |-> Starts] >>)
  <2> DEFINE s == << [k |-> "pattern", v |-> 0], [k |-> "count", v |-> Starts] >>
  <2>1. \A i \in DOMAIN s : \/ i = 1 /\ s[i].k = "pattern"
                            \/ i = 2 /\ s[i].k = "count" /\ s[i].v \in 1..(L + 1)
    BY <1>4, <1>6
  <2> HIDE DEF s
  <2> QED
    BY <1>3, <1>6, <2>1 DEF s
<1> QED
  BY <1>1, <1>2, <1>5, <1>6 DEF Scnr

(***************************************************************************)
(* No attempt reads outside the subject                                    *)
(***************************************************************************)
LEMMA InitInv == Init => Inv
<1> SUFFICES ASSUME Init PROVE Inv
  OBVIOUS
<1>1. TypeOK
  BY InitTypeOK
<1>2. L \in Nat
  BY <1>1, SubjectType
<1> QED
  BY <1>1, <1>2 DEF Init, Inv, InSubject, Placed, Waiting

LEMMA NextInv == ASSUME Build = "snobol4", Inv, [Next]_vars PROVE Inv'
<1>0. TypeOK'
  BY NextTypeOK DEF Inv
<1>1. CASE Step
  <2>1. CASE Chr \/ AnyOf \/ Break \/ BreakX \/ Span
    BY <1>0, <2>1, ClassSafe, CarriedFrames
  <2>2. CASE LenNode \/ Pos \/ Rpos \/ Tab \/ Rtab \/ Pass \/ FailNode
    BY <1>0, <2>2, PlaceSafe, CarriedFrames
  <2>3. CASE \/ Farb \/ Bal \/ Abort \/ Succeed \/ Fnce \/ TooShort \/ PdlFull
    BY <1>0, <2>3, ScanSafe, CarriedFrames
  <2>4. CASE Arbn \/ Arbf \/ Earb \/ Onar \/ Onrf
    BY <1>0, <2>4, ArbnoSafe, CarriedFrames
  <2>5. CASE Atp \/ Nme \/ Enme \/ Enmi
    BY <1>0, <2>5, NamingSafe
  <2>6. CASE Star \/ StarCall \/ Dsar \/ Fnca
    BY <1>0, <2>6, CallsSafe
  <2>7. CASE Dead \/ Alternative \/ Scfl \/ Fncf \/ Sucf \/ Brxf \/ Astray
    BY <1>0, <2>7, PopSafe, CarriedFrames
  <2>8. CASE Fnme \/ Undone \/ Fncd \/ Strexc
    BY <1>0, <2>8, UnstackSafe, CarriedFrames
  <2>9. CASE Scon
    BY <1>0, <2>9, RestartSafe
  <2>10. CASE \/ Aborted \/ StarFailed \/ StarMatched
              \/ FenceFailed \/ FenceMatched
    BY <1>0, <2>10, ReturnSafe
  <2>11. CASE Scnr \/ Scan
    BY <1>0, <2>11, StatementSafe
  <2> QED
    BY <1>1, <2>1, <2>2, <2>3, <2>4, <2>5, <2>6, <2>7, <2>8, <2>9, <2>10, <2>11
       DEF Step, Fetch, Pop, Return
<1>2. CASE UNCHANGED vars
  BY <1>0, <1>2 DEF vars, Inv, InSubject, Placed, Waiting, At, L, Subject
<1> QED
  BY <1>1, <1>2 DEF Next, Done

\* In the snobol4 build no handler takes the cursor left of the start of the
\* attempt or past the end of the subject, and nothing on the history list
\* will: whatever the patterns, even blocks no pattern function makes.
THEOREM CursorInSubject == ASSUME Build = "snobol4" PROVE Spec => []InSubject
<1>1. Init => Inv
  BY InitInv
<1>2. Inv /\ [Next]_vars => Inv'
  BY NextInv
<1>3. Inv => InSubject
  BY DEF Inv
<1> QED
  BY <1>1, <1>2, <1>3, PTL DEF Spec

\* In the snobol4 build a restart drops all that an attempt left: SCON's entry
\* is the first of the history list, SCNR's pair is under every cursor on the
\* C stack, and the starts still to be tried are within the subject.
THEOREM AttemptsPlaced == ASSUME Build = "snobol4" PROVE Spec => []Inv
<1>1. Init => Inv
  BY InitInv
<1>2. Inv /\ [Next]_vars => Inv'
  BY NextInv
<1> QED
  BY <1>1, <1>2, PTL DEF Spec
=============================================================================
