--------------------------- MODULE MonitorProofs ---------------------------
(***************************************************************************)
(* The wire of the monitor channel is self-describing, for all calls of    *)
(* monitor_emit_..., whatever the controller and signals do; the           *)
(* controller and the program are in step, and the controller sees the     *)
(* program's end.                                                          *)
(***************************************************************************)
EXTENDS MonitorChannel, SequenceTheorems, FiniteSetTheorems, TLAPS

Name   == {Lvalue(c) : c \in Calls} \cup {Lval}
Happen == [kind : Kinds, of : Name]
Wire   == [kind : Kinds \cup {"NAME_DEF", "END"}, id : Int, of : Name, long : BOOLEAN, cut : BOOLEAN]
CallsAssumption == \A c \in Calls : c.kind \in Kinds

Stores == /\ names \in Seq(Name) /\ history \in Seq(Happen)
          /\ sent \in Seq(Wire) /\ todo \in Seq(Wire)

\* r binds the id i + 1 of the table; the record at j of the wire binds r's id.
Binds(r)     == r.kind = "NAME_DEF" /\ r.id + 1 \in DOMAIN names /\ names[r.id + 1] = r.of
BoundAt(r, j) == sent[j].kind = "NAME_DEF" /\ sent[j].id = r.id /\ sent[j].of = r.of
Uses(r)      == r.kind # "NAME_DEF" /\ r.id # None

\* What is on the wire.
Defined  == \A i \in DOMAIN sent : sent[i].kind = "NAME_DEF" => Binds(sent[i])
Once     == \A i, j \in DOMAIN sent :
              sent[i].kind = "NAME_DEF" /\ sent[j].kind = "NAME_DEF" /\ sent[i].id = sent[j].id => i = j
Before   == \A i \in DOMAIN sent : Uses(sent[i]) => \E j \in 1..i - 1 : BoundAt(sent[i], j)

\* What is still to be written: nothing, a record whose id the wire binds, or
\* a definition the wire has not and the record it is for.
Alone(r)    == r.kind # "NAME_DEF" /\ (Uses(r) => \E j \in DOMAIN sent : BoundAt(r, j))
Pair(d, r)  == /\ Binds(d) /\ \A j \in DOMAIN sent : sent[j].kind = "NAME_DEF" => sent[j].id # d.id
               /\ r.kind # "NAME_DEF" /\ r.id = d.id /\ r.of = d.of
Pending == \/ todo = <<>>
           \/ Len(todo) = 1 /\ Alone(todo[1])
           \/ Len(todo) = 2 /\ Pair(todo[1], todo[2])

\* Unless the program ends, the wire binds every name, or is about to.
Known(k) == \/ \E j \in DOMAIN sent : sent[j].kind = "NAME_DEF" /\ sent[j].id = k - 1
            \/ Len(todo) = 2 /\ todo[1].id = k - 1
Ending   == pc \in {"gone", "killed"} \/ todo = <<End>>
Complete == ~Ending => \A k \in DOMAIN names : Known(k)
Idle     == /\ pc \in {"run", "ready", "go"} => todo = <<>>
            /\ pc = "write" => todo # <<>>
            /\ pc \in {"ready", "go"} => history # <<>>

IInv == Stores /\ Defined /\ Once /\ Before /\ Pending /\ Complete /\ Idle

------------------------------------------------------------------------------
LEMMA NoneOrKind == Kinds = {"VALUE", "CALL", "RETURN", "LABEL"} /\ None = -1
BY DEF Kinds, None

\* Records never are definitions by another name.
LEMMA EndWire == End \in Wire /\ ~Uses(End) /\ End.kind = "END"
BY DEF End, Record, Wire, Uses, None, Name

\* intern_name returns the id of the name, and keeps the others.
LEMMA Interning ==
  ASSUME Stores, NEW n \in Name
  PROVE  /\ Interned(n) \in Seq(Name) /\ Id(n) + 1 \in DOMAIN Interned(n) /\ Id(n) \in Nat
         /\ Interned(n)[Id(n) + 1] = n
         /\ \A k \in DOMAIN names : k \in DOMAIN Interned(n) /\ Interned(n)[k] = names[k]
         /\ IF Contains(names, n) THEN Interned(n) = names
            ELSE Id(n) + 1 = Len(names) + 1 /\ \A k \in DOMAIN Interned(n) : k \in DOMAIN names \/ k = Id(n) + 1
<1> DEFINE t == Interned(n)
           i == CHOOSE i \in DOMAIN t : t[i] = n
<1>1. names \in Seq(Name) BY DEF Stores
<1>2. CASE Contains(names, n)
  <2>1. t = names BY <1>2 DEF Interned
  <2>2. \E k \in DOMAIN t : t[k] = n BY <1>1, <1>2, <2>1 DEF Contains
  <2>3. i \in DOMAIN t /\ t[i] = n BY <2>2
  <2>4. Id(n) = i - 1 BY DEF Id
  <2> QED BY <1>1, <1>2, <2>1, <2>3, <2>4
<1>3. CASE ~Contains(names, n)
  <2>1. t = Append(names, n) BY <1>3 DEF Interned
  <2>2. \A k \in DOMAIN names : names[k] # n BY <1>1, <1>3 DEF Contains
  <2>3. t \in Seq(Name) /\ Len(t) = Len(names) + 1 /\ t[Len(names) + 1] = n
        /\ \A k \in DOMAIN names : t[k] = names[k]
    BY <1>1, <2>1
  <2>4. i \in DOMAIN t /\ t[i] = n BY <1>1, <2>3
  <2>5. i = Len(names) + 1 BY <1>1, <2>2, <2>3, <2>4
  <2>6. Id(n) = i - 1 BY DEF Id
  <2> HIDE DEF i
  <2>7. Id(n) + 1 = Len(names) + 1 /\ Id(n) \in Nat BY <1>1, <2>5, <2>6
  <2>8. DOMAIN t = 1..Len(names) + 1 /\ DOMAIN names = 1..Len(names) BY <1>1, <2>3
  <2>9. \A k \in DOMAIN t : k \in DOMAIN names \/ k = Len(names) + 1 BY <1>1, <2>8
  <2> QED BY <1>3, <2>3, <2>7, <2>8, <2>9
<1> QED BY <1>2, <1>3

\* An event that begins: its records use an id the wire binds or define it first.
LEMMA Beginning ==
  ASSUME IInv, NEW e \in Happen, Begun(e), sent' = sent,
         \A k \in DOMAIN names : \E j \in DOMAIN sent : sent[j].kind = "NAME_DEF" /\ sent[j].id = k - 1
  PROVE  /\ names' \in Seq(Name) /\ todo' \in Seq(Wire) /\ todo' # <<>>
         /\ Defined' /\ Once' /\ Before' /\ Pending' /\ \A k \in DOMAIN names' : Known(k)'
<1>1. Stores /\ Defined /\ Once /\ Before BY DEF IInv
<1>2. sent \in Seq(Wire) /\ names \in Seq(Name) BY <1>1 DEF Stores
<1>3. Once' /\ Before' BY <1>1 DEF Once, Before, BoundAt
<1>4. CASE e.kind = "LABEL"
  <2>1. PICK r : r = Record("LABEL", None, e.of, FALSE) OBVIOUS
  <2>2. todo' = <<r>> /\ names' = names BY <1>4, <2>1 DEF Begun, Records, RecordOf, IsNew
  <2>3. r \in Wire /\ r.kind = "LABEL" /\ r.id = None BY <2>1, NoneOrKind DEF Record, Wire, Happen
  <2>4. Len(todo') = 1 /\ todo'[1] = r /\ todo' # <<>> BY <2>2
  <2>5. todo' \in Seq(Wire) BY <2>2, <2>3
  <2>6. Alone(todo[1])' BY <2>3, <2>4 DEF Alone, Uses
  <2>7. Pending' BY <2>4, <2>6 DEF Pending
  <2>8. \A k \in DOMAIN names' : Known(k)' BY <2>2 DEF Known
  <2>9. Defined' BY <1>1, <2>2 DEF Defined, Binds
  <2> QED BY <1>2, <1>3, <2>2, <2>4, <2>5, <2>7, <2>8, <2>9
<1>5. CASE e.kind # "LABEL"
  <2>1. PICK n : n = e.of OBVIOUS
  <2>2. PICK m : m = Id(n) OBVIOUS
  <2>3. PICK t : t = Interned(n) OBVIOUS
  <2>4. PICK r : r = Record(e.kind, Id(n), n, e.kind = "VALUE") OBVIOUS
  <2>5. PICK d : d = Record("NAME_DEF", Id(n), n, TRUE) OBVIOUS
  <2>6. n \in Name /\ e.kind \in Kinds BY <2>1 DEF Happen
  <2>7. names' = t /\ todo' = IF Contains(names, n) THEN <<r>> ELSE <<d, r>>
    BY <1>5, <2>1, <2>3, <2>4, <2>5 DEF Begun, Records, RecordOf, IsNew, Definition
  <2>8. /\ t \in Seq(Name) /\ m + 1 \in DOMAIN t /\ m \in Nat /\ t[m + 1] = n
        /\ \A k \in DOMAIN names : k \in DOMAIN t /\ t[k] = names[k]
        /\ IF Contains(names, n) THEN t = names
           ELSE m + 1 = Len(names) + 1 /\ \A k \in DOMAIN t : k \in DOMAIN names \/ k = m + 1
    BY <1>1, <2>2, <2>3, <2>6, Interning
  <2>9. /\ r = [kind |-> e.kind, id |-> m, of |-> n, long |-> (e.kind = "VALUE"), cut |-> FALSE]
        /\ d = [kind |-> "NAME_DEF", id |-> m, of |-> n, long |-> TRUE, cut |-> FALSE]
    BY <2>2, <2>4, <2>5 DEF Record
  <2>10. (e.kind = "VALUE") \in BOOLEAN OBVIOUS
  <2>11. r \in Wire /\ d \in Wire BY <2>6, <2>8, <2>9, <2>10 DEF Wire
  <2>12. /\ r.kind \in Kinds /\ r.id = m /\ r.of = n
         /\ d.kind = "NAME_DEF" /\ d.id = m /\ d.of = n
    BY <2>6, <2>9
  <2>13. r.kind # "NAME_DEF" BY <2>12, NoneOrKind
  <2>14. Defined'
    <3>1. \A i \in DOMAIN sent : sent[i].kind = "NAME_DEF" =>
            sent[i].id + 1 \in DOMAIN t /\ t[sent[i].id + 1] = sent[i].of
      BY <1>1, <2>8 DEF Defined, Binds
    <3> QED BY <2>7, <3>1 DEF Defined, Binds
  <2>15. CASE Contains(names, n)
    <3>1. todo' = <<r>> BY <2>7, <2>15
    <3>2. Len(todo') = 1 /\ todo'[1] = r /\ todo' # <<>> BY <3>1
    <3>3. todo' \in Seq(Wire) BY <2>11, <3>1
    <3>4. PICK j \in DOMAIN sent : sent[j].kind = "NAME_DEF" /\ sent[j].id = m
      BY <2>8, <2>15
    <3>5. sent[j].of = n BY <1>1, <2>8, <2>15, <3>4 DEF Defined, Binds
    <3>6. Alone(todo[1])' BY <2>12, <2>13, <3>2, <3>4, <3>5 DEF Alone, BoundAt
    <3>7. Pending' BY <3>2, <3>6 DEF Pending
    <3>8. \A k \in DOMAIN names' : Known(k)' BY <2>7, <2>8, <2>15 DEF Known
    <3> QED BY <1>3, <2>7, <2>8, <2>14, <3>2, <3>3, <3>7, <3>8
  <2>16. CASE ~Contains(names, n)
    <3>1. todo' = <<d, r>> BY <2>7, <2>16
    <3>2. Len(todo') = 2 /\ todo'[1] = d /\ todo'[2] = r /\ todo' # <<>> BY <3>1
    <3>3. todo' \in Seq(Wire) BY <2>11, <3>1
    <3>4. Binds(d)' BY <2>7, <2>8, <2>12 DEF Binds
    <3>5. ASSUME NEW j \in DOMAIN sent, sent[j].kind = "NAME_DEF" PROVE sent[j].id # m
      <4>1. sent[j].id + 1 \in DOMAIN names BY <1>1, <3>5 DEF Defined, Binds
      <4>2. sent[j].id + 1 <= Len(names) BY <1>2, <4>1
      <4> QED BY <1>2, <2>8, <2>16, <4>2
    <3>6. Pair(d, r)' BY <2>12, <2>13, <3>4, <3>5 DEF Pair
    <3>7. Pair(todo[1], todo[2])' BY <3>2, <3>6 DEF Pair, Binds
    <3>8. Pending' BY <3>2, <3>7 DEF Pending
    <3>9. ASSUME NEW k \in DOMAIN names' PROVE Known(k)'
      <4>1. CASE k \in DOMAIN names BY <4>1 DEF Known
      <4>2. CASE k = m + 1
        <5>1. (todo[1].id = k - 1)' BY <2>8, <2>12, <3>2, <4>2
        <5> QED BY <3>2, <5>1 DEF Known
      <4> QED BY <2>7, <2>8, <2>16, <4>1, <4>2
    <3> QED BY <1>3, <2>7, <2>8, <2>14, <3>2, <3>3, <3>8, <3>9
  <2> QED BY <2>15, <2>16
<1> QED BY <1>4, <1>5

LEMMA SecondLast ==
  ASSUME NEW S, NEW s \in Seq(S), Len(s) = 2
  PROVE  s[2] \in S /\ Tail(s)[1] = s[2]
<1>1. s # <<>> OBVIOUS
<1>2. Len(Tail(s)) = 1 /\ \A i \in 1..Len(Tail(s)) : Tail(s)[i] = s[i + 1]
  BY <1>1, HeadTailProperties
<1>3. Tail(s)[1] = s[2] BY <1>2
<1>4. 2 \in 1..Len(s) OBVIOUS
<1>5. s[2] \in S BY <1>4
<1> QED BY <1>3, <1>5

\* The next record goes on the wire, whole or cut.
LEMMA Sending ==
  ASSUME IInv, todo # <<>>, NEW r \in Wire, r = Head(todo) \/ r = Cut(Head(todo)),
         sent' = Append(sent, r), todo' = Tail(todo), names' = names
  PROVE  /\ sent' \in Seq(Wire) /\ todo' \in Seq(Wire)
         /\ Defined' /\ Once' /\ Before' /\ Pending'
         /\ \A k \in DOMAIN names : Known(k) => Known(k)'
<1>1. Stores /\ Defined /\ Once /\ Before /\ Pending BY DEF IInv
<1>2. sent \in Seq(Wire) /\ todo \in Seq(Wire) BY <1>1 DEF Stores
<1>3. Len(todo) > 0 BY <1>2
<1>4. PICK h \in Wire : h = todo[1] BY <1>2, <1>3
<1>5. Head(todo) = h BY <1>2, <1>4
<1>6. r.kind = h.kind /\ r.id = h.id /\ r.of = h.of BY <1>4, <1>5 DEF Cut, Wire
<1>7. PICK n : n = Len(sent) + 1 OBVIOUS
<1>8. /\ n \in Nat /\ n > 0 /\ DOMAIN sent = 1..n - 1 /\ DOMAIN sent' = 1..n
      /\ sent'[n] = r /\ \A i \in DOMAIN sent : sent'[i] = sent[i]
  BY <1>2, <1>7
<1>9. sent' \in Seq(Wire) BY <1>2
<1>10. todo' \in Seq(Wire) /\ Len(todo') = Len(todo) - 1 BY <1>2, <1>3
<1>11. \/ Len(todo) = 1 /\ Alone(h)
       \/ Len(todo) = 2 /\ Pair(h, todo[2])
  BY <1>1, <1>3, <1>4 DEF Pending
<1>12. Defined'
  <2>1. h.kind = "NAME_DEF" => Binds(h) BY <1>11 DEF Alone, Pair
  <2>2. ASSUME NEW i \in 1..n, sent'[i].kind = "NAME_DEF" PROVE Binds(sent[i])'
    <3>1. CASE i = n BY <1>6, <1>8, <2>1, <2>2, <3>1 DEF Binds
    <3>2. CASE i \in DOMAIN sent BY <1>1, <1>8, <2>2, <3>2 DEF Defined, Binds
    <3> QED BY <1>8, <3>1, <3>2
  <2> QED BY <1>8, <2>2 DEF Defined
<1>13. Once'
  <2>1. ASSUME NEW i \in DOMAIN sent, sent[i].kind = "NAME_DEF", h.kind = "NAME_DEF" PROVE sent[i].id # h.id
    BY <1>11, <2>1 DEF Alone, Pair
  <2>2. ASSUME NEW i \in 1..n, NEW j \in 1..n, sent'[i].kind = "NAME_DEF", sent'[j].kind = "NAME_DEF",
               sent'[i].id = sent'[j].id
        PROVE  i = j
    <3>1. (i = n \/ i \in DOMAIN sent) /\ (j = n \/ j \in DOMAIN sent) BY <1>8
    <3>2. CASE i = n /\ j = n BY <3>2
    <3>3. CASE i = n /\ j \in DOMAIN sent BY <1>6, <1>8, <2>1, <2>2, <3>3
    <3>4. CASE i \in DOMAIN sent /\ j = n BY <1>6, <1>8, <2>1, <2>2, <3>4
    <3>5. CASE i \in DOMAIN sent /\ j \in DOMAIN sent BY <1>1, <1>8, <2>2, <3>5 DEF Once
    <3> QED BY <3>1, <3>2, <3>3, <3>4, <3>5
  <2> QED BY <1>8, <2>2 DEF Once
<1>14. Before'
  <2>1. Uses(h) => \E j \in DOMAIN sent : BoundAt(h, j) BY <1>11 DEF Alone, Pair, Binds, Uses
  <2>2. ASSUME NEW i \in 1..n, Uses(sent[i])' PROVE \E j \in 1..i - 1 : BoundAt(sent[i], j)'
    <3>1. CASE i = n
      <4>1. Uses(h) BY <1>6, <1>8, <2>2, <3>1 DEF Uses
      <4>2. PICK j \in DOMAIN sent : BoundAt(h, j) BY <2>1, <4>1
      <4>3. BoundAt(sent[i], j)' BY <1>6, <1>8, <3>1, <4>2 DEF BoundAt
      <4> QED BY <1>8, <3>1, <4>2, <4>3
    <3>2. CASE i \in DOMAIN sent
      <4>1. Uses(sent[i]) BY <1>8, <2>2, <3>2 DEF Uses
      <4>2. PICK j \in 1..i - 1 : BoundAt(sent[i], j) BY <1>1, <3>2, <4>1 DEF Before
      <4>3. j \in DOMAIN sent BY <1>8, <3>2, <4>2
      <4>4. BoundAt(sent[i], j)' BY <1>8, <3>2, <4>2, <4>3 DEF BoundAt
      <4> QED BY <4>4
    <3> QED BY <1>8, <3>1, <3>2
  <2> QED BY <1>8, <2>2 DEF Before
<1>15. Pending'
  <2>1. CASE Len(todo) = 1
    <3>1. todo' = <<>> BY <1>10, <2>1
    <3> QED BY <3>1 DEF Pending
  <2>2. CASE Len(todo) = 2 /\ Pair(h, todo[2])
    <3>1. todo[2] \in Wire /\ todo'[1] = todo[2] BY <1>2, <2>2, SecondLast
    <3>2. PICK q \in Wire : q = todo[2] BY <3>1
    <3>3. q.kind # "NAME_DEF" /\ q.id = h.id /\ q.of = h.of /\ h.kind = "NAME_DEF" BY <2>2, <3>2 DEF Pair, Binds
    <3>4. BoundAt(q, n)' BY <1>6, <1>8, <3>3 DEF BoundAt
    <3>5. Alone(q)' BY <1>8, <3>3, <3>4 DEF Alone
    <3>6. Alone(todo[1])' BY <3>1, <3>2, <3>5 DEF Alone, Uses, BoundAt
    <3>7. Len(todo') = 1 BY <1>10, <2>2
    <3> QED BY <3>6, <3>7 DEF Pending
  <2> QED BY <1>11, <2>1, <2>2
<1>16. ASSUME NEW k \in DOMAIN names, Known(k) PROVE Known(k)'
  <2>1. CASE \E j \in DOMAIN sent : sent[j].kind = "NAME_DEF" /\ sent[j].id = k - 1
    <3>1. PICK j \in DOMAIN sent : sent[j].kind = "NAME_DEF" /\ sent[j].id = k - 1 BY <2>1
    <3>2. j \in DOMAIN sent' /\ sent'[j] = sent[j] BY <1>8, <3>1
    <3> QED BY <3>1, <3>2 DEF Known
  <2>2. CASE Len(todo) = 2 /\ todo[1].id = k - 1
    <3>1. h.kind = "NAME_DEF" /\ h.id = k - 1 BY <1>4, <1>11, <2>2 DEF Pair, Binds
    <3>2. n \in DOMAIN sent' /\ sent'[n].kind = "NAME_DEF" /\ sent'[n].id = k - 1 BY <1>6, <1>8, <3>1
    <3> QED BY <3>2 DEF Known
  <2> QED BY <1>16, <2>1, <2>2 DEF Known
<1> QED BY <1>9, <1>10, <1>12, <1>13, <1>14, <1>15, <1>16

------------------------------------------------------------------------------
\* A step that writes nothing keeps what is known of the wire.
LEMMA SameWire ==
  ASSUME IInv, sent' = sent, names' = names
  PROVE  Defined' /\ Once' /\ Before'
BY DEF IInv, Defined, Once, Before, Binds, BoundAt, Uses

LEMMA SameTodo ==
  ASSUME IInv, sent' = sent, names' = names, todo' = todo, history' = history,
         (Ending => Ending') /\ Idle'
  PROVE  IInv'
<1>1. Defined' /\ Once' /\ Before' BY SameWire
<1>2. Stores' BY DEF IInv, Stores
<1>3. Pending' BY DEF IInv, Pending, Alone, Pair, Binds, BoundAt, Uses
<1>4. Complete' BY DEF IInv, Complete, Known
<1> QED BY <1>1, <1>2, <1>3, <1>4 DEF IInv

\* While nothing is pending the wire binds every name.
LEMMA AllKnown ==
  ASSUME IInv, pc \in {"run", "ready", "go"}
  PROVE  \A k \in DOMAIN names : \E j \in DOMAIN sent : sent[j].kind = "NAME_DEF" /\ sent[j].id = k - 1
<1>1. todo = <<>> BY DEF IInv, Idle
<1>2. ~Ending BY <1>1 DEF Ending
<1>3. Len(todo) # 2 BY <1>1
<1> QED BY <1>2, <1>3 DEF IInv, Complete, Known

LEMMA EventBegins ==
  ASSUME IInv, NEW e \in Happen, pc \in {"run", "ready", "go"}, Begun(e), sent' = sent, history' \in Seq(Happen)
  PROVE  IInv'
<1>1. /\ names' \in Seq(Name) /\ todo' \in Seq(Wire) /\ todo' # <<>>
      /\ Defined' /\ Once' /\ Before' /\ Pending' /\ \A k \in DOMAIN names' : Known(k)'
  BY AllKnown, Beginning
<1>2. pc' = "write" BY DEF Begun
<1>3. Stores' BY <1>1 DEF IInv, Stores
<1>4. Complete' BY <1>1 DEF Complete
<1>5. Idle' BY <1>1, <1>2 DEF Idle
<1> QED BY <1>1, <1>3, <1>4, <1>5 DEF IInv

LEMMA RecordSent ==
  ASSUME IInv, pc = "write", NEW r, r = Head(todo) \/ r = Cut(Head(todo)),
         sent' = Append(sent, r), todo' = Tail(todo), names' = names, history' = history,
         todo = <<End>> => pc' = "gone",
         pc' \in {"gone", "ack"} \/ Continued(todo')
  PROVE  IInv'
<1>1. todo # <<>> /\ todo \in Seq(Wire) BY DEF IInv, Idle, Stores
<1>2. Head(todo) \in Wire BY <1>1
<1>3. r \in Wire BY <1>2 DEF Cut, Wire
<1>4. /\ sent' \in Seq(Wire) /\ todo' \in Seq(Wire)
      /\ Defined' /\ Once' /\ Before' /\ Pending'
      /\ \A k \in DOMAIN names : Known(k) => Known(k)'
  BY <1>1, <1>3, Sending
<1>5. Stores' BY <1>4 DEF IInv, Stores
<1>6. Complete'
  <2>1. CASE Ending BY <2>1 DEF Ending, Complete
  <2>2. CASE ~Ending BY <1>4, <2>2 DEF IInv, Complete
  <2> QED BY <2>1, <2>2
<1>7. Idle' BY DEF Idle, Continued
<1> QED BY <1>4, <1>5, <1>6, <1>7 DEF IInv

LEMMA Leaving ==
  ASSUME IInv, Exit
  PROVE  IInv'
<1>1. Defined' /\ Once' /\ Before' BY SameWire DEF Exit
<1>2. \/ todo' = <<>> /\ pc' = "gone"
      \/ todo' = <<End>> /\ pc' = "write"
  <2>1. todo' = <<>> \/ todo' = <<End>> BY DEF Exit, Atexit
  <2>2. <<End>> # <<>> OBVIOUS
  <2> QED BY <2>1, <2>2 DEF Exit
<1>3. todo' = <<>> \/ (Len(todo') = 1 /\ todo'[1] = End) BY <1>2
<1>4. Alone(End)' BY EndWire DEF Alone, Uses
<1>5. Pending'
  <2>1. CASE todo' = <<>> BY <2>1 DEF Pending
  <2>2. CASE Len(todo') = 1 /\ todo'[1] = End
    <3>1. Alone(todo[1])' BY <1>4, <2>2 DEF Alone, Uses, BoundAt
    <3> QED BY <2>2, <3>1 DEF Pending
  <2> QED BY <1>3, <2>1, <2>2
<1>6. Complete' BY <1>2 DEF Complete, Ending
<1>7. Idle' BY <1>2 DEF Idle
<1>8. todo' \in Seq(Wire)
  <2>1. \A w \in Wire : <<w>> \in Seq(Wire) OBVIOUS
  <2>2. <<End>> \in Seq(Wire) BY <2>1, EndWire
  <2>3. <<>> \in Seq(Wire) OBVIOUS
  <2> QED BY <1>2, <2>2, <2>3
<1>9. Stores' BY <1>8 DEF IInv, Stores, Exit
<1> QED BY <1>1, <1>5, <1>6, <1>7, <1>9 DEF IInv

LEMMA WireKept ==
  ASSUME CallsAssumption, IInv, [MonNext]_monvars
  PROVE  IInv'
<1>1. CASE Event
  <2>1. PICK call \in Calls :
          LET e == [kind |-> call.kind, of |-> Lvalue(call)]
          IN /\ pc = "run" /\ history' = Append(history, e)
             /\ IF ok THEN Begun(e)
                ELSE pc' = (IF attempted THEN "run" ELSE "ready") /\ UNCHANGED <<names, todo>>
             /\ UNCHANGED sent
    BY <1>1 DEF Event
  <2>2. PICK e : e = [kind |-> call.kind, of |-> Lvalue(call)] OBVIOUS
  <2>3. e \in Happen BY <2>2 DEF CallsAssumption, Happen, Name
  <2>4. history \in Seq(Happen) BY DEF IInv, Stores
  <2>5. history' = Append(history, e) BY <2>1, <2>2
  <2>6. history' \in Seq(Happen) /\ history' # <<>> BY <2>3, <2>4, <2>5
  <2>7. CASE ok
    <3>1. Begun(e) /\ sent' = sent /\ pc = "run" BY <2>1, <2>2, <2>7
    <3> QED BY <2>3, <2>6, <3>1, EventBegins
  <2>8. CASE ~ok
    <3>1. names' = names /\ todo' = todo /\ sent' = sent /\ pc = "run" /\ pc' \in {"run", "ready"}
      BY <2>1, <2>8
    <3>2. todo = <<>> BY <3>1 DEF IInv, Idle
    <3>3. Defined' /\ Once' /\ Before' BY <3>1, SameWire
    <3>4. Stores' BY <2>6, <3>1 DEF IInv, Stores
    <3>5. Pending' BY <3>1, <3>2 DEF Pending
    <3>6. Complete' BY <3>1, AllKnown DEF Complete, Known
    <3>7. Idle' BY <2>6, <3>1, <3>2 DEF Idle
    <3> QED BY <3>3, <3>4, <3>5, <3>6, <3>7 DEF IInv
  <2> QED BY <2>7, <2>8
<1>2. CASE OpenGo
  <2>1. history \in Seq(Happen) /\ history # <<>> BY <1>2 DEF OpenGo, IInv, Stores, Idle
  <2>2. Last(history) \in Happen BY <2>1 DEF Last
  <2>3. history' \in Seq(Happen) BY <1>2, <2>1 DEF OpenGo
  <2> QED BY <1>2, <2>2, <2>3, EventBegins DEF OpenGo
<1>3. CASE Write
  <2>1. todo = <<End>> => Head(todo) = End OBVIOUS
  <2> QED BY <1>3, <2>1, RecordSent DEF Write
<1>4. CASE WriteShort
  <2>1. todo = <<End>> => Head(todo).long = FALSE BY DEF End, Record
  <2>2. todo # <<End>> BY <1>4, <2>1 DEF WriteShort
  <2> QED BY <1>4, <2>2, RecordSent DEF WriteShort
<1>5. CASE Finish \/ Signal BY <1>5, Leaving DEF Finish, Signal
<1>6. CASE BrokenPipe \/ Kill
  BY <1>6, SameTodo DEF BrokenPipe, Kill, IInv, Idle, Ending
<1>7. CASE Disabled \/ NoGo \/ OpenReady
  BY <1>7, SameTodo DEF Disabled, NoGo, Unmonitored, OpenReady, IInv, Idle, Ending
<1>8. CASE WaitAck
  <2>1. /\ sent' = sent /\ names' = names /\ todo' = todo /\ history' = history
        /\ pc = "ack" /\ pc' = IF todo = <<>> THEN "run" ELSE "write"
    BY <1>8 DEF WaitAck, Continued
  <2>2. Idle' BY <2>1 DEF Idle
  <2>3. Ending => Ending' BY <2>1 DEF Ending
  <2> QED BY <2>1, <2>2, <2>3, SameTodo
<1>9. CASE Controller \/ CloseGo \/ Leave \/ EndOfFile \/ UNCHANGED monvars
  <2>1. UNCHANGED <<prog, sent>>
    BY <1>9 DEF Controller, Start, Read, Answer, ReadAstray, CloseGo, Leave, EndOfFile, monvars
  <2>2. Idle' BY <2>1 DEF prog, IInv, Idle
  <2>3. Ending => Ending' BY <2>1 DEF prog, Ending
  <2> QED BY <2>1, <2>2, <2>3, SameTodo DEF prog
<1> QED BY <1>1, <1>2, <1>3, <1>4, <1>5, <1>6, <1>7, <1>8, <1>9 DEF MonNext, Emitter, Faults

LEMMA WireAtFirst == MonInit => IInv
<1> SUFFICES ASSUME MonInit PROVE IInv OBVIOUS
<1>1. names = <<>> /\ todo = <<>> /\ history = <<>> /\ sent = <<>> /\ pc = "run" BY DEF MonInit
<1>2. DOMAIN names = {} /\ DOMAIN sent = {} BY <1>1
<1>3. Stores BY <1>1 DEF Stores
<1> QED BY <1>1, <1>2, <1>3 DEF IInv, Defined, Once, Before, Pending, Complete, Idle

LEMMA WireAnnounces == IInv => Announced
<1> SUFFICES ASSUME IInv, NEW i \in DOMAIN sent, sent[i].id # None, sent[i].kind # "NAME_DEF"
             PROVE  \E j \in 1..i - 1 :
                      /\ sent[j].kind = "NAME_DEF" /\ sent[j].id = sent[i].id /\ sent[j].of = sent[i].of
                      /\ \A k \in DOMAIN sent : sent[k].kind = "NAME_DEF" /\ sent[k].id = sent[i].id => k = j
  BY DEF Announced
<1>1. PICK j \in 1..i - 1 : BoundAt(sent[i], j) BY DEF IInv, Before, Uses
<1>2. j \in DOMAIN sent BY DEF IInv, Stores
<1>3. \A k \in DOMAIN sent : sent[k].kind = "NAME_DEF" /\ sent[k].id = sent[i].id => k = j
  BY <1>1, <1>2 DEF IInv, Once, BoundAt
<1> QED BY <1>1, <1>3 DEF BoundAt

\* Every record the program writes to the monitor is about a name that the one
\* MWK_NAME_DEF with its id, written before it, binds: monitor_ipc_runtime.c's
\* streaming intern table, for all calls, whatever happens to the channel.
THEOREM WireDescribesItself ==
  ASSUME CallsAssumption
  PROVE  MonSpec => []Announced
<1>1. MonInit => IInv BY WireAtFirst
<1>2. IInv /\ [MonNext]_monvars => IInv' BY WireKept
<1>3. IInv => Announced BY WireAnnounces
<1> QED BY <1>1, <1>2, <1>3, PTL DEF MonSpec

------------------------------------------------------------------------------
\* The history is what the wire tells and the records to be written tell,
\* once the channel is open and unless the program ends.
Tells(r, n) == r.kind \in Kinds /\ history[n] = [kind |-> r.kind, of |-> r.of]
Rest  == \/ /\ todo = <<>> /\ Told(Len(sent)) = Len(history)
         \/ /\ todo # <<>> /\ Told(Len(sent)) + 1 = Len(history) /\ Tells(todo[Len(todo)], Len(history))
            /\ Len(todo) = 2 => todo[1].kind = "NAME_DEF"
OnWire == \A i \in Reports(Len(sent)) : Tells(sent[i], Told(i))
Recorded == ok /\ ~Ending => OnWire /\ Rest

\* Before it is open there is nothing on the wire, and at most one event that
\* is to be written once it is.
Opening ==
  /\ ~ok => sent = <<>> /\ taken = 0 /\ acks = <<>> /\ todo = <<>> /\ ctl \in {"none", "away", "ready", "go"}
            /\ pc \notin {"write", "ack"}
  /\ ok  => attempted /\ ctl \notin {"none", "away", "ready", "go"}
  /\ ~attempted => history = <<>>
  /\ pc \in {"ready", "go"} => ~ok /\ attempted /\ Len(history) = 1

\* Where the two are: the controller has read all and answered all, but for
\* the record the program waits for an answer to.
Step == ok /\ Answers /\ Whole =>
  /\ ctl # "astray" /\ taken \in 0..Len(sent)
  /\ pc = "run" \/ (pc = "write" /\ todo # <<End>>) => ctl = "reads" /\ acks = <<>> /\ taken = Len(sent)
  /\ pc = "ack" => \/ ctl = "reads"   /\ acks = <<>> /\ taken = Len(sent) - 1
                   \/ ctl = "answers" /\ acks = <<>> /\ taken = Len(sent)
                   \/ ctl = "reads"   /\ Len(acks) = 1 /\ taken = Len(sent)

\* MWK_END is the last record of a program that went by itself while somebody
\* was there to read.
Parting ==
  /\ taken \in 0..Len(sent)
  /\ \A i \in DOMAIN sent : sent[i] = End => i = Len(sent) /\ pc = "gone"
  /\ HasReader /\ pc = "gone" => sent # <<>> /\ sent[Len(sent)] = End
  /\ ctl = "done" => pc \in {"gone", "killed"} /\ taken = Len(sent)
  /\ ctl = "done" /\ pc = "gone" => sent # <<>> /\ sent[Len(sent)] = End
  /\ pc = "write" => todo # <<>>
  /\ pc = "ack" => todo # <<End>>
Inv == acks \in Seq({"G", "S"}) /\ Recorded /\ Opening /\ Step /\ Parting

------------------------------------------------------------------------------
\* Counting the records that tell of an event.
LEMMA Counting ==
  ASSUME NEW n \in Nat
  PROVE  /\ IsFiniteSet(Reports(n)) /\ Told(n) \in Nat
         /\ \A i \in Reports(n) : i \in 1..n /\ Told(i) \in 1..Told(n)
<1>1. \A k \in Nat : IsFiniteSet(Reports(k))
  <2>1. \A k \in Nat : IsFiniteSet(1..k) /\ Reports(k) \in SUBSET (1..k) BY FS_Interval DEF Reports
  <2> QED BY <2>1, FS_Subset
<1>2. \A k \in Nat : Told(k) \in Nat BY <1>1, FS_CardinalityType DEF Told
<1>3. ASSUME NEW i \in Reports(n) PROVE i \in 1..n /\ Told(i) \in 1..Told(n)
  <2>1. i \in 1..n /\ i \in Nat /\ i \in Reports(i) BY <1>3 DEF Reports
  <2>2. Reports(i) \in SUBSET Reports(n) BY <2>1 DEF Reports
  <2>3. Told(i) <= Told(n) BY <1>1, <2>2, FS_Subset DEF Told
  <2>4. Told(i) # 0 BY <1>1, <2>1, FS_EmptySet DEF Told
  <2> QED BY <1>2, <2>1, <2>3, <2>4
<1> QED BY <1>1, <1>2, <1>3

LEMMA SameCount ==
  ASSUME sent' = sent, NEW n
  PROVE  Reports(n)' = Reports(n) /\ Told(n)' = Told(n)
BY DEF Reports, Told

LEMMA NextCount ==
  ASSUME sent \in Seq(Wire), NEW r \in Wire, sent' = Append(sent, r), NEW n, n = Len(sent)
  PROVE  /\ \A i \in 0..n : Reports(i)' = Reports(i) /\ Told(i)' = Told(i)
         /\ r.kind \in Kinds    => Reports(n + 1)' = Reports(n) \cup {n + 1} /\ Told(n + 1)' = Told(n) + 1
         /\ r.kind \notin Kinds => Reports(n + 1)' = Reports(n) /\ Told(n + 1)' = Told(n)
<1>1. n \in Nat /\ sent'[n + 1] = r /\ \A i \in 1..n : sent'[i] = sent[i] OBVIOUS
<1>2. ASSUME NEW i \in 0..n PROVE Reports(i)' = Reports(i)
  <2>1. \A j \in 1..i : j \in 1..n BY <1>1
  <2> QED BY <1>1, <2>1 DEF Reports
<1>3. Reports(n + 1)' = Reports(n) \cup (IF r.kind \in Kinds THEN {n + 1} ELSE {})
  <2>1. 1..n + 1 = 1..n \cup {n + 1} BY <1>1
  <2> QED BY <1>1, <2>1 DEF Reports
<1>4. n + 1 \notin Reports(n) BY <1>1 DEF Reports
<1>5. Cardinality(Reports(n) \cup {n + 1}) = Cardinality(Reports(n)) + 1
  BY <1>1, <1>4, Counting, FS_AddElement
<1> QED BY <1>2, <1>3, <1>5 DEF Told

\* What a record tells does not change when an event is added to the history.
LEMMA ToldBefore ==
  ASSUME NEW e \in Happen, history \in Seq(Happen), history' = Append(history, e),
         NEW r, NEW n \in 1..Len(history), Tells(r, n)
  PROVE  Tells(r, n)'
BY DEF Tells

\* The records an event is begun with.
LEMMA BegunWith ==
  ASSUME NEW e \in Happen, Begun(e)
  PROVE  /\ todo' # <<>> /\ Len(todo') \in 1..2
         /\ LET r == todo'[Len(todo')] IN r.kind \in Kinds /\ [kind |-> r.kind, of |-> r.of] = e
         /\ Len(todo') = 2 => todo'[1].kind = "NAME_DEF"
<1>1. PICK q : q = RecordOf(e) OBVIOUS
<1>2. PICK d : d = Definition(e.of) OBVIOUS
<1>3. q.kind = e.kind /\ q.of = e.of BY <1>1 DEF RecordOf, Record
<1>4. d.kind = "NAME_DEF" BY <1>2 DEF Definition, Record
<1>5. todo' = <<d, q>> \/ todo' = <<q>> BY <1>1, <1>2 DEF Begun, Records
<1>6. todo'[Len(todo')] = q BY <1>5
<1>7. e.kind \in Kinds /\ e = [kind |-> e.kind, of |-> e.of] BY DEF Happen
<1> QED BY <1>3, <1>4, <1>5, <1>6, <1>7

------------------------------------------------------------------------------
\* The history keeps to the wire and to the records to be written.
LEMMA StillRecorded ==
  ASSUME Recorded, UNCHANGED <<sent, todo, history, ok>>, Ending => Ending'
  PROVE  Recorded'
<1>1. OnWire => OnWire' BY SameCount DEF OnWire, Tells
<1>2. Rest => Rest' BY SameCount DEF Rest, Tells
<1> QED BY <1>1, <1>2 DEF Recorded

LEMMA BegunRecorded ==
  ASSUME IInv, NEW e \in Happen, Begun(e), sent' = sent, history' \in Seq(Happen), history' # <<>>,
         Told(Len(sent)) + 1 = Len(history'), history'[Len(history')] = e,
         \A i \in Reports(Len(sent)) : Tells(sent[i], Told(i))'
  PROVE  Recorded'
<1>1. OnWire' BY SameCount DEF OnWire
<1>2. Rest'
  <2>1. PICK r : r = todo'[Len(todo')] OBVIOUS
  <2>2. r.kind \in Kinds /\ [kind |-> r.kind, of |-> r.of] = e BY <2>1, BegunWith
  <2>3. Tells(todo[Len(todo)], Len(history))' BY <2>1, <2>2 DEF Tells
  <2> QED BY <2>3, BegunWith, SameCount DEF Rest
<1> QED BY <1>1, <1>2 DEF Recorded

LEMMA SentRecorded ==
  ASSUME IInv, Recorded, Opening, pc = "write", todo # <<End>>, ok,
         NEW r \in Wire, r = Head(todo) \/ r = Cut(Head(todo)),
         sent' = Append(sent, r), todo' = Tail(todo), history' = history
  PROVE  Recorded'
<1>1. /\ sent \in Seq(Wire) /\ todo \in Seq(Wire) /\ history \in Seq(Happen) /\ todo # <<>> BY DEF IInv, Stores, Idle
<1>2. OnWire /\ Rest BY DEF Recorded, Ending
<1>3. PICK n \in Nat : n = Len(sent) BY <1>1
<1>4. PICK h \in Wire : h = todo[1] BY <1>1
<1>5. h = Head(todo) /\ r.kind = h.kind /\ r.of = h.of
  <2>1. h = Head(todo) BY <1>1, <1>4
  <2>2. r = h \/ r = [h EXCEPT !.cut = TRUE] BY <2>1 DEF Cut
  <2> QED BY <2>1, <2>2 DEF Wire
<1>6. Len(todo) \in 1..2 BY <1>1 DEF IInv, Pending
<1>7. Len(sent') = n + 1 /\ sent'[n + 1] = r /\ \A i \in 1..n : sent'[i] = sent[i] BY <1>1, <1>3
<1>8. \A i \in Reports(n) : i \in 1..n /\ i \in 0..n /\ Tells(sent[i], Told(i))
  BY <1>2, <1>3, Counting DEF OnWire
<1>9. \A i \in Reports(n) : Tells(sent[i], Told(i))' BY <1>1, <1>3, <1>7, <1>8, NextCount DEF Tells
<1>10. CASE Len(todo) = 1
  <2>1. todo' = <<>> BY <1>1, <1>10
  <2>2. Told(n) + 1 = Len(history) /\ Tells(h, Len(history)) BY <1>1, <1>2, <1>3, <1>4, <1>10 DEF Rest
  <2>3. r.kind \in Kinds /\ Tells(r, Len(history)) BY <1>5, <2>2 DEF Tells
  <2>4. Reports(n + 1)' = Reports(n) \cup {n + 1} /\ Told(n + 1)' = Len(history)
    BY <1>1, <1>3, <2>2, <2>3, NextCount
  <2>5. Tells(sent[n + 1], Told(n + 1))' BY <1>7, <2>3, <2>4 DEF Tells
  <2>6. \A i \in Reports(n + 1)' : Tells(sent[i], Told(i))' BY <1>9, <2>4, <2>5
  <2>7. OnWire' BY <1>7, <2>6 DEF OnWire
  <2>8. Rest' BY <1>7, <2>1, <2>4 DEF Rest
  <2> QED BY <2>7, <2>8 DEF Recorded
<1>11. CASE Len(todo) = 2
  <2>1. Len(todo') = 1 /\ todo'[1] = todo[2] /\ todo' # <<>> BY <1>1, <1>11, SecondLast
  <2>2. Told(n) + 1 = Len(history) /\ Tells(todo[2], Len(history)) /\ h.kind = "NAME_DEF"
    BY <1>1, <1>2, <1>3, <1>4, <1>11 DEF Rest
  <2>3. r.kind \notin Kinds BY <1>5, <2>2 DEF Kinds
  <2>4. Reports(n + 1)' = Reports(n) /\ Told(n + 1)' = Told(n) BY <1>1, <1>3, <2>3, NextCount
  <2>5. OnWire' BY <1>7, <1>9, <2>4 DEF OnWire
  <2>6. Tells(todo[Len(todo)], Len(history))' BY <2>1, <2>2 DEF Tells
  <2>7. Told(Len(sent))' + 1 = Len(history)' BY <1>7, <2>2, <2>4
  <2>8. Len(todo)' # 2 /\ todo' # <<>>
    <3>1. Len(todo') = Len(todo) - 1 BY <1>1
    <3>2. Len(todo') # 2 BY <1>11, <3>1
    <3> QED BY <2>1, <3>2
  <2>9. Rest' BY <2>6, <2>7, <2>8 DEF Rest
  <2> QED BY <2>5, <2>9 DEF Recorded
<1> QED BY <1>6, <1>10, <1>11

LEMMA KeepsRecorded ==
  ASSUME CallsAssumption, IInv, Recorded, Opening, Parting, [MonNext]_monvars
  PROVE  Recorded'
<1>0. sent \in Seq(Wire) /\ history \in Seq(Happen) BY DEF IInv, Stores
<1>1. CASE Event
  <2>1. PICK call \in Calls :
          LET e == [kind |-> call.kind, of |-> Lvalue(call)]
          IN /\ pc = "run" /\ history' = Append(history, e) /\ (ok => Begun(e)) /\ UNCHANGED <<ok, sent>>
    BY <1>1 DEF Event
  <2>2. PICK e : e = [kind |-> call.kind, of |-> Lvalue(call)] OBVIOUS
  <2>3. e \in Happen BY <2>2 DEF CallsAssumption, Happen, Name
  <2>4. history' = Append(history, e) /\ (ok => Begun(e)) /\ sent' = sent /\ ok' = ok /\ pc = "run" BY <2>1, <2>2
  <2>5. /\ history' \in Seq(Happen) /\ history' # <<>> /\ Len(history') = Len(history) + 1
        /\ history'[Len(history')] = e
    BY <1>0, <2>3, <2>4
  <2>6. CASE ok
    <3>1. todo = <<>> /\ ~Ending BY <2>4 DEF IInv, Idle, Ending
    <3>2. Told(Len(sent)) = Len(history) /\ OnWire BY <2>6, <3>1 DEF Recorded, Rest
    <3>3. Told(Len(sent)) + 1 = Len(history') BY <2>5, <3>2
    <3>4. ASSUME NEW i \in Reports(Len(sent)) PROVE Tells(sent[i], Told(i))'
      <4>1. Told(i) \in 1..Len(history) /\ Tells(sent[i], Told(i)) BY <1>0, <3>2, Counting DEF OnWire
      <4>2. history'[Told(i)] = history[Told(i)] BY <1>0, <2>4, <4>1
      <4> QED BY <2>4, <4>1, <4>2, SameCount DEF Tells
    <3> QED BY <2>3, <2>4, <2>5, <2>6, <3>3, <3>4, BegunRecorded
  <2>7. CASE ~ok BY <2>4, <2>7 DEF Recorded
  <2> QED BY <2>6, <2>7
<1>2. CASE OpenGo
  <2>1. sent = <<>> /\ Len(history) = 1 /\ history' = history /\ sent' = sent /\ Begun(Last(history))
    BY <1>2 DEF OpenGo, Opening
  <2>2. PICK e \in Happen : e = Last(history) /\ e = history[1] BY <1>0, <2>1 DEF Last
  <2>3. Reports(0) = {} BY DEF Reports
  <2>4. Told(0) = 0 BY <2>3, FS_EmptySet DEF Told
  <2>5. Begun(e) BY <2>1, <2>2
  <2>6. Len(sent) = 0 /\ history # <<>> /\ history[Len(history)] = e BY <2>1, <2>2
  <2>7. Told(Len(sent)) + 1 = Len(history') /\ history' # <<>> /\ history' \in Seq(Happen)
    BY <1>0, <2>1, <2>4, <2>6
  <2>8. \A i \in Reports(Len(sent)) : Tells(sent[i], Told(i))' BY <2>3, <2>6
  <2> QED BY <2>1, <2>5, <2>6, <2>7, <2>8, BegunRecorded
<1>3. CASE Write \/ WriteShort
  <2>1. todo \in Seq(Wire) /\ todo # <<>> BY <1>3 DEF Write, WriteShort, IInv, Stores, Idle
  <2>2. PICK r : (r = Head(todo) \/ r = Cut(Head(todo))) /\ sent' = Append(sent, r) BY <1>3 DEF Write, WriteShort
  <2>3. Head(todo) \in Wire BY <2>1
  <2>4. r \in Wire BY <2>2, <2>3 DEF Wire, Cut
  <2>5. pc = "write" /\ todo' = Tail(todo) /\ history' = history /\ ok BY <1>3 DEF Write, WriteShort, Opening
  <2>6. CASE todo # <<End>> BY <2>2, <2>4, <2>5, <2>6, SentRecorded
  <2>7. CASE todo = <<End>>
    <3>1. Head(todo) = End BY <2>7
    <3>2. Head(todo).long => Head(todo) # End BY DEF End, Record
    <3>3. pc' = "gone" BY <1>3, <3>1, <3>2 DEF Write, WriteShort
    <3> QED BY <3>3 DEF Recorded, Ending
  <2> QED BY <2>6, <2>7
<1>4. CASE Finish \/ Signal
  <2>1. todo' = <<End>> \/ pc' = "gone" BY <1>4 DEF Finish, Signal, Exit, Atexit
  <2> QED BY <2>1 DEF Recorded, Ending
<1>5. CASE BrokenPipe \/ Kill
  <2>1. pc' \in {"gone", "killed"} BY <1>5 DEF BrokenPipe, Kill
  <2> QED BY <2>1 DEF Recorded, Ending
<1>6. CASE Disabled \/ NoGo \/ OpenReady
  <2>1. ~ok' BY <1>6 DEF Disabled, NoGo, Unmonitored, OpenReady, Opening
  <2> QED BY <2>1 DEF Recorded
<1>7. CASE WaitAck
  <2>1. UNCHANGED <<sent, todo, history, ok>> /\ pc = "ack" BY <1>7 DEF WaitAck
  <2>2. Ending => Ending' BY <2>1 DEF Ending
  <2> QED BY <2>1, <2>2, StillRecorded
<1>8. CASE Controller \/ CloseGo \/ Leave \/ EndOfFile \/ UNCHANGED monvars
  <2>1. UNCHANGED <<prog, sent>>
    BY <1>8 DEF Controller, Start, Read, Answer, ReadAstray, CloseGo, Leave, EndOfFile, monvars
  <2>2. UNCHANGED <<sent, todo, history, ok>> /\ (Ending => Ending') BY <2>1 DEF prog, Ending
  <2> QED BY <2>2, StillRecorded
<1> QED BY <1>1, <1>2, <1>3, <1>4, <1>5, <1>6, <1>7, <1>8 DEF MonNext, Emitter, Faults

------------------------------------------------------------------------------
LEMMA KeepsOpening ==
  ASSUME IInv, Opening, [MonNext]_monvars
  PROVE  Opening'
<1>0. history \in Seq(Happen) BY DEF IInv, Stores
<1>1. CASE Event
  <2>1. PICK e : /\ pc = "run" /\ history' = Append(history, e) /\ attempted' = TRUE
                 /\ ok => Begun(e)
                 /\ ~ok => pc' = (IF attempted THEN "run" ELSE "ready") /\ UNCHANGED <<names, todo>>
                 /\ UNCHANGED <<ok, sent, acks, ctl, taken>>
    BY <1>1 DEF Event
  <2>2. ok => pc' = "write" BY <2>1 DEF Begun
  <2>3. ~attempted => Len(history') = 1
    <3>1. ~attempted => history' = <<e>> BY <2>1 DEF Opening
    <3> QED BY <3>1
  <2> QED BY <2>1, <2>2, <2>3 DEF Opening
<1>2. CASE OpenGo \/ OpenReady \/ Disabled \/ NoGo \/ Start
  BY <1>2 DEF OpenGo, OpenReady, Disabled, NoGo, Unmonitored, Start, Begun, Opening, prog
<1>3. CASE Write \/ WriteShort
  BY <1>3 DEF Write, WriteShort, HasReader, Opening, Continued
<1>4. CASE Finish \/ Signal \/ BrokenPipe \/ Kill
  BY <1>4 DEF Finish, Signal, Exit, Atexit, BrokenPipe, Kill, Opening
<1>5. CASE WaitAck
  BY <1>5 DEF WaitAck, Continued, Opening
<1>6. CASE Read \/ Answer \/ ReadAstray \/ CloseGo \/ Leave \/ EndOfFile \/ UNCHANGED monvars
  BY <1>6 DEF Read, Answer, ReadAstray, CloseGo, Leave, EndOfFile, HasReader, Answers, prog, monvars, Opening
<1> QED BY <1>1, <1>2, <1>3, <1>4, <1>5, <1>6 DEF MonNext, Emitter, Controller, Faults

LEMMA KeepsParting ==
  ASSUME IInv, Opening, Recorded, Parting, [MonNext]_monvars
  PROVE  Parting'
<1>0. sent \in Seq(Wire) /\ todo \in Seq(Wire) BY DEF IInv, Stores
<1>1. CASE Event \/ OpenGo
  <2>1. UNCHANGED <<sent, taken>> /\ pc' # "gone" /\ pc' # "ack" /\ ctl' # "done" /\ pc \notin {"gone", "killed"}
    BY <1>1 DEF Event, OpenGo, Begun, Parting
  <2>2. pc' = "write" => todo' # <<>>
    <3>1. pc' = "write" => \E e : Begun(e) BY <1>1 DEF Event, OpenGo
    <3>2. ASSUME NEW e, Begun(e) PROVE todo' # <<>>
      <4>1. \A q, d : <<d, q>> # <<>> /\ <<q>> # <<>> OBVIOUS
      <4> QED BY <3>2, <4>1 DEF Begun, Records
    <3> QED BY <3>1, <3>2
  <2> QED BY <2>1, <2>2 DEF Parting
<1>2. CASE OpenReady \/ Disabled \/ NoGo \/ Start \/ CloseGo \/ Answer \/ Leave \/ UNCHANGED monvars
  BY <1>2 DEF OpenReady, Disabled, NoGo, Unmonitored, Start, CloseGo, Answer, Leave, Answers, HasReader, Parting, prog, monvars
<1>3. CASE Write \/ WriteShort
  <2>1. pc = "write" /\ HasReader /\ todo # <<>> BY <1>3 DEF Write, WriteShort, Parting
  <2>2. PICK h \in Wire : h = Head(todo) BY <1>0, <2>1
  <2>3. PICK r : (r = h \/ r = Cut(h)) /\ sent' = Append(sent, r) /\ (r # h => ~Whole')
    <3>1. CASE Write BY <2>2, <3>1 DEF Write
    <3>2. CASE WriteShort
      <4>1. sent' = Append(sent, Cut(h)) BY <2>2, <3>2 DEF WriteShort
      <4>2. Cut(h).cut BY DEF Cut, Wire
      <4>3. Cut(h) \in Wire BY DEF Cut, Wire
      <4>4. Len(sent) + 1 \in DOMAIN sent' /\ sent'[Len(sent) + 1] = Cut(h) BY <1>0, <4>1, <4>3
      <4>5. ~Whole' BY <4>2, <4>4 DEF Whole
      <4> QED BY <4>1, <4>5
    <3> QED BY <1>3, <3>1, <3>2
  <2>4. r \in Wire BY <2>3 DEF Cut, Wire
  <2>5. PICK n \in Nat : n = Len(sent) BY <1>0
  <2>6. /\ Len(sent') = n + 1 /\ DOMAIN sent' = 1..n + 1 /\ sent'[n + 1] = r /\ sent' # <<>>
        /\ \A i \in 1..n : sent'[i] = sent[i]
    BY <1>0, <2>3, <2>4, <2>5
  <2>7. \A i \in 1..n : sent[i] # End BY <1>0, <2>1, <2>5 DEF Parting
  <2>8. r = End => h = End /\ pc' = "gone"
    <3>1. r = End => ~r.cut BY DEF End, Record
    <3>2. Cut(h).cut BY DEF Cut, Wire
    <3>3. CASE Write
      <4>1. sent' = Append(sent, h) BY <2>2, <3>3 DEF Write
      <4>2. r = h BY <1>0, <2>3, <2>6, <2>5, <4>1
      <4> QED BY <2>2, <3>3, <4>2 DEF Write
    <3>4. CASE WriteShort
      <4>1. sent' = Append(sent, Cut(h)) BY <2>2, <3>4 DEF WriteShort
      <4>2. Cut(h) \in Wire BY DEF Cut, Wire
      <4>3. r = Cut(h) BY <1>0, <2>3, <2>6, <2>5, <4>1, <4>2
      <4> QED BY <3>1, <3>2, <4>3
    <3> QED BY <1>3, <3>3, <3>4
  <2>9. pc' = "gone" => r = End
    <3>1. CASE Write
      <4>1. sent' = Append(sent, h) BY <2>2, <3>1 DEF Write
      <4>2. r = h BY <1>0, <2>5, <2>6, <4>1
      <4> QED BY <2>2, <3>1, <4>2 DEF Write
    <3>2. CASE WriteShort BY <3>2 DEF WriteShort, Continued
    <3> QED BY <1>3, <3>1, <3>2
  <2>10. ctl' = ctl /\ taken' = taken /\ ctl # "done" BY <1>3, <2>1 DEF Write, WriteShort, HasReader
  <2>11. pc' = "write" => todo' # <<>>
    <3>1. CASE Write BY <3>1 DEF Write
    <3>2. CASE WriteShort BY <3>2 DEF WriteShort, Continued
    <3> QED BY <1>3, <3>1, <3>2
  <2>12. pc' = "ack" => todo' # <<End>>
    <3>1. CASE Write /\ pc' = "ack"
      <4>1. h # End BY <2>2, <3>1 DEF Write
      <4>2. todo # <<End>> BY <2>2, <4>1
      <4>3. ok BY <2>1 DEF Opening
      <4>4. Rest BY <2>1, <4>2, <4>3 DEF Recorded, Ending
      <4>5. todo[Len(todo)].kind \in Kinds /\ Len(todo) \in 1..2 BY <1>0, <2>1, <4>4 DEF Rest, Tells, IInv, Pending
      <4>6. todo' = Tail(todo) BY <3>1 DEF Write
      <4>7. CASE Len(todo) = 1
        <5>1. todo' = <<>> BY <1>0, <4>6, <4>7
        <5> QED BY <5>1
      <4>8. CASE Len(todo) = 2
        <5>1. todo'[1] = todo[2] BY <1>0, <4>6, <4>8, SecondLast
        <5>2. todo'[1].kind \in Kinds BY <4>5, <4>8, <5>1
        <5>3. todo'[1] # End BY <5>2, EndWire DEF Kinds
        <5> QED BY <5>3
      <4> QED BY <4>5, <4>7, <4>8
    <3>2. CASE WriteShort BY <3>2 DEF WriteShort, Continued
    <3> QED BY <1>3, <3>1, <3>2
  <2>13. (taken \in 0..Len(sent))' BY <2>5, <2>6, <2>10 DEF Parting
  <2>14. (\A i \in DOMAIN sent : sent[i] = End => i = Len(sent) /\ pc = "gone")'
    <3>1. ASSUME NEW i \in 1..n + 1, sent'[i] = End PROVE i = n + 1 /\ pc' = "gone"
      <4>1. i \notin 1..n BY <2>6, <2>7, <3>1
      <4>2. i = n + 1 BY <4>1
      <4> QED BY <2>6, <2>8, <3>1, <4>2
    <3> QED BY <2>6, <3>1
  <2>15. (HasReader /\ pc = "gone" => sent # <<>> /\ sent[Len(sent)] = End)'
    BY <2>6, <2>9
  <2> QED BY <2>10, <2>11, <2>12, <2>13, <2>14, <2>15 DEF Parting
<1>4. CASE Finish \/ Signal
  <2>1. UNCHANGED <<sent, taken, ctl, ok>> /\ pc \notin {"gone", "killed"} /\ (pc' = "gone" \/ (pc' = "write" /\ todo' # <<>>))
    BY <1>4 DEF Finish, Signal, Exit
  <2>2. pc' = "gone" => ~HasReader /\ ctl # "done"
    <3>1. pc' = "gone" => ~ok
      <4>1. <<End>> # <<>> OBVIOUS
      <4> QED BY <1>4, <4>1 DEF Finish, Signal, Exit, Atexit
    <3> QED BY <3>1 DEF Opening, HasReader
  <2> QED BY <2>1, <2>2 DEF Parting, HasReader
<1>5. CASE BrokenPipe \/ Kill
  <2>1. /\ UNCHANGED <<todo, sent, taken, ctl>> /\ pc \notin {"gone", "killed"} /\ pc' \in {"gone", "killed"}
        /\ pc' = "gone" => ~HasReader
    BY <1>5 DEF BrokenPipe, Kill
  <2> QED BY <2>1 DEF Parting, HasReader
<1>6. CASE WaitAck
  <2>1. UNCHANGED <<todo, sent, taken, ctl>> /\ pc = "ack" /\ pc' = IF todo = <<>> THEN "run" ELSE "write"
    BY <1>6 DEF WaitAck, Continued
  <2> QED BY <2>1 DEF Parting
<1>7. CASE Read
  <2>1. /\ HasReader /\ taken < Len(sent) /\ taken' = taken + 1 /\ UNCHANGED <<prog, sent>>
        /\ ctl' \in {"astray", "done", "silent", "answers"} /\ (ctl' = "done" => sent[taken'] = End)
    BY <1>7 DEF Read, HasReader
  <2>2. taken' \in 1..Len(sent) BY <1>0, <2>1 DEF Parting
  <2>3. ctl' = "done" => taken' = Len(sent) /\ pc = "gone" BY <1>0, <2>1, <2>2 DEF Parting
  <2>4. pc' = pc /\ todo' = todo BY <2>1 DEF prog
  <2>5. pc = "gone" => sent # <<>> /\ sent[Len(sent)] = End BY <2>1 DEF Parting
  <2> QED BY <1>0, <2>1, <2>2, <2>3, <2>4, <2>5 DEF Parting
<1>8. CASE ReadAstray
  <2>1. /\ HasReader /\ taken < Len(sent) /\ taken' = taken + 1 /\ UNCHANGED <<pc, todo, sent, ctl>> /\ ctl = "astray"
    BY <1>8 DEF ReadAstray, HasReader, prog
  <2>2. taken' \in 1..Len(sent) BY <1>0, <2>1 DEF Parting
  <2> QED BY <1>0, <2>1, <2>2 DEF Parting, HasReader
<1>9. CASE EndOfFile BY <1>9 DEF EndOfFile, Parting, HasReader, prog
<1> QED BY <1>1, <1>2, <1>3, <1>4, <1>5, <1>6, <1>7, <1>8, <1>9 DEF MonNext, Emitter, Controller, Faults

------------------------------------------------------------------------------
LEMMA KeepsStep ==
  ASSUME IInv, acks \in Seq({"G", "S"}), Opening, Parting, Step, [MonNext]_monvars
  PROVE  Step' /\ acks' \in Seq({"G", "S"})
<1>0. sent \in Seq(Wire) /\ todo \in Seq(Wire) /\ taken \in 0..Len(sent) BY DEF IInv, Stores, Parting
<1>a. sent' = sent => Whole' = Whole BY DEF Whole
<1>1. CASE Event \/ OpenGo
  <2>1. CASE Event
    <3>1. UNCHANGED <<ok, sent, acks, ctl, taken>> /\ pc = "run" /\ pc' \in {"run", "ready", "write"}
      BY <2>1 DEF Event, Begun
    <3> QED BY <1>0, <1>a, <3>1 DEF Step, Answers
  <2>2. CASE OpenGo
    <3>1. UNCHANGED <<sent, acks, taken>> /\ ctl' = "reads" /\ pc' = "write" /\ sent = <<>> /\ acks = <<>> /\ taken = 0
      BY <2>2 DEF OpenGo, Begun, Opening
    <3>2. Len(sent') = 0 BY <3>1
    <3> QED BY <3>1, <3>2 DEF Step
  <2> QED BY <1>1, <2>1, <2>2
<1>2. CASE OpenReady \/ Disabled \/ NoGo \/ Start
  <2>1. ~ok' /\ acks' = acks BY <1>2 DEF OpenReady, Disabled, NoGo, Unmonitored, Start, Opening, prog
  <2> QED BY <2>1 DEF Step
<1>3. CASE Write
  <2>1. PICK h \in Wire : h = Head(todo) BY <1>0, <1>3 DEF Write, Parting
  <2>2. /\ sent' = Append(sent, h) /\ UNCHANGED <<ok, acks, ctl, taken>> /\ pc = "write"
        /\ pc' = IF h = End THEN "gone" ELSE "ack"
    BY <1>3, <2>1 DEF Write
  <2>3. PICK n \in Nat : n = Len(sent) BY <1>0
  <2>4. /\ Len(sent') = n + 1 /\ DOMAIN sent' = 1..n + 1
        /\ \A i \in 1..n : sent'[i] = sent[i]
    BY <1>0, <2>2, <2>3
  <2>5. DOMAIN sent = 1..n BY <1>0, <2>3
  <2>6. Whole' => Whole BY <2>4, <2>5 DEF Whole
  <2>7. h # End => todo # <<End>> BY <2>1
  <2> QED BY <1>0, <2>2, <2>3, <2>4, <2>6, <2>7 DEF Step, Answers
<1>4. CASE WriteShort
  <2>1. PICK h \in Wire : h = Head(todo) BY <1>0, <1>4 DEF WriteShort, Parting
  <2>2. PICK r \in Wire : r = Cut(h) BY DEF Cut, Wire
  <2>3. sent' = Append(sent, r) /\ acks' = acks BY <1>4, <2>1, <2>2 DEF WriteShort
  <2>4. Len(sent) + 1 \in DOMAIN sent' /\ sent'[Len(sent) + 1] = r BY <1>0, <2>3
  <2>5. r.cut BY <2>2 DEF Cut, Wire
  <2>6. ~Whole' BY <2>4, <2>5 DEF Whole
  <2> QED BY <2>3, <2>6 DEF Step
<1>5. CASE BrokenPipe \/ Kill \/ Finish \/ Signal
  <2>1. /\ UNCHANGED <<ok, sent, acks, ctl, taken>>
        /\ pc' \in {"gone", "killed"} \/ (pc' = "write" /\ todo' = <<End>>)
    BY <1>5 DEF BrokenPipe, Kill, Finish, Signal, Exit, Atexit
  <2> QED BY <1>0, <1>a, <2>1 DEF Step, Answers
<1>6. CASE WaitAck
  <2>1. /\ UNCHANGED <<ok, todo, sent, ctl, taken>> /\ pc = "ack" /\ Answered
        /\ acks' = (IF acks = <<>> THEN acks ELSE Tail(acks)) /\ pc' = IF todo = <<>> THEN "run" ELSE "write"
    BY <1>6 DEF WaitAck, Continued
  <2>2. acks' \in Seq({"G", "S"}) BY <2>1
  <2>3. Len(acks) = 1 => acks' = <<>> BY <2>1
  <2>4. Whole' = Whole BY <1>a, <2>1
  <2>5. Answers => acks # <<>> BY <2>1 DEF Answered
  <2> QED BY <1>0, <2>1, <2>2, <2>3, <2>4, <2>5 DEF Step, Answers
<1>7. CASE Read
  <2>1. /\ ctl \in {"reads", "silent"} /\ taken < Len(sent) /\ taken' = taken + 1 /\ UNCHANGED <<pc, ok, todo, sent, acks>>
        /\ \/ sent[taken'].cut /\ ctl' = "astray"
           \/ ctl' \in {"done", "silent"}
           \/ ctl = "reads" /\ ctl' = "answers"
    BY <1>7 DEF Read, prog
  <2>2. taken' \in 1..Len(sent) /\ taken' \in DOMAIN sent' BY <1>0, <2>1
  <2>3. CASE ctl' = "astray" /\ sent[taken'].cut
    <3>1. ~Whole' BY <2>1, <2>2, <2>3 DEF Whole
    <3> QED BY <2>1, <3>1 DEF Step
  <2>4. CASE ctl' \in {"done", "silent"} BY <2>1, <2>4 DEF Step, Answers
  <2>5. CASE ctl = "reads" /\ ctl' = "answers"
    <3>1. Whole' = Whole BY <1>a, <2>1
    <3> QED BY <1>0, <2>1, <2>2, <2>5, <3>1 DEF Step, Answers
  <2> QED BY <2>1, <2>3, <2>4, <2>5
<1>8. CASE Answer
  <2>1. PICK b \in {"G", "S"} : acks' = Append(acks, b) BY <1>8 DEF Answer
  <2>2. UNCHANGED <<pc, ok, todo, sent, taken>> /\ ctl = "answers" /\ ctl' = "reads" BY <1>8 DEF Answer, prog
  <2>3. acks' \in Seq({"G", "S"}) /\ Len(acks') = Len(acks) + 1 BY <2>1
  <2>4. acks = <<>> => Len(acks') = 1 BY <2>3
  <2>5. Whole' = Whole BY <1>a, <2>2
  <2> QED BY <1>0, <2>2, <2>3, <2>4, <2>5 DEF Step, Answers
<1>9. CASE ReadAstray
  <2>1. ctl = "astray" /\ UNCHANGED <<ok, sent, ctl>> BY <1>9 DEF ReadAstray, prog
  <2>2. acks' = acks \/ acks' = Append(acks, "G") BY <1>9 DEF ReadAstray
  <2>3. acks' \in Seq({"G", "S"}) BY <2>2
  <2>4. Whole' = Whole BY <1>a, <2>1
  <2> QED BY <2>1, <2>3, <2>4 DEF Step, Answers
<1>10. CASE CloseGo \/ Leave \/ EndOfFile
  <2>1. ctl' \in {"silent", "left", "done"} /\ acks' = acks BY <1>10 DEF CloseGo, Leave, EndOfFile
  <2> QED BY <2>1 DEF Step, Answers
<1>11. CASE UNCHANGED monvars BY <1>0, <1>a, <1>11 DEF monvars, prog, Step, Answers
<1> QED BY <1>1, <1>2, <1>3, <1>4, <1>5, <1>6, <1>7, <1>8, <1>9, <1>10, <1>11 DEF MonNext, Emitter, Controller, Faults

LEMMA InvAtFirst == MonInit => Inv
<1> SUFFICES ASSUME MonInit PROVE Inv OBVIOUS
<1>1. /\ pc = "run" /\ attempted = FALSE /\ ok = FALSE /\ todo = <<>> /\ history = <<>>
      /\ sent = <<>> /\ acks = <<>> /\ ctl \in {"none", "away"} /\ taken = 0
  BY DEF MonInit
<1>2. Len(sent) = 0 /\ DOMAIN sent = {} BY <1>1
<1> QED BY <1>1, <1>2 DEF Inv, Recorded, Opening, Step, Parting, HasReader

LEMMA InvKept == ASSUME CallsAssumption, IInv, Inv, [MonNext]_monvars PROVE Inv'
BY KeepsRecorded, KeepsOpening, KeepsStep, KeepsParting DEF Inv

LEMMA InStep == IInv /\ Inv => LockStep
<1> SUFFICES ASSUME IInv, Inv, pc = "run", ok, Answers, Whole
             PROVE  /\ ctl = "reads" /\ acks = <<>> /\ taken = Len(sent)
                    /\ Told(taken) = Len(history)
                    /\ \A i \in Reports(taken) : history[Told(i)] = [kind |-> sent[i].kind, of |-> sent[i].of]
  BY DEF LockStep
<1>1. ctl = "reads" /\ acks = <<>> /\ taken = Len(sent) BY DEF Inv, Step
<1>2. todo = <<>> BY DEF IInv, Idle
<1>3. ~Ending BY <1>2 DEF Ending
<1>4. OnWire /\ Rest BY <1>3 DEF Inv, Recorded
<1> QED BY <1>1, <1>2, <1>4 DEF OnWire, Rest, Tells

\* Whenever the program runs, a controller that answers has read all that was
\* written, has answered all of it but nothing twice, and was told of every
\* event in order: wait_ack, whatever calls, signals and closed FIFOs.
THEOREM InLockStep ==
  ASSUME CallsAssumption
  PROVE  MonSpec => []LockStep
<1>1. MonInit => IInv /\ Inv BY WireAtFirst, InvAtFirst
<1>2. IInv /\ Inv /\ [MonNext]_monvars => (IInv /\ Inv)' BY WireKept, InvKept
<1>3. IInv /\ Inv => LockStep BY InStep
<1> QED BY <1>1, <1>2, <1>3, PTL DEF MonSpec

\* A controller that stays to the end sees MWK_END as the last record, unless
\* the program was killed: monitor_atexit, also after a signal that is caught.
THEOREM EndIsSeen ==
  ASSUME CallsAssumption
  PROVE  MonSpec => []EndSeen
<1>1. MonInit => IInv /\ Inv BY WireAtFirst, InvAtFirst
<1>2. IInv /\ Inv /\ [MonNext]_monvars => (IInv /\ Inv)' BY WireKept, InvKept
<1>3. IInv /\ Inv => EndSeen
  <2> SUFFICES ASSUME IInv, Inv, ctl = "done", pc = "gone" PROVE sent # <<>> /\ Last(sent) = End /\ taken = Len(sent)
    BY DEF EndSeen
  <2>1. sent # <<>> /\ sent[Len(sent)] = End /\ taken = Len(sent) BY DEF Inv, Parting
  <2> QED BY <2>1 DEF Last
<1> QED BY <1>1, <1>2, <1>3, PTL DEF MonSpec
=============================================================================
