------------------------------ MODULE Objects -------------------------------
(***************************************************************************)
(* What storage promises the program: objects that stay where they are and *)
(* go away when nothing can reach them, and one object for each string,    *)
(* which is also reached by its text while it has a value or an attribute. *)
(* An object is its cells; a cell holds a number or a place in an object.  *)
(***************************************************************************)
EXTENDS Integers, SequencesExt, FiniteSets

CONSTANTS
  Strings, \* texts of strings, which are their names
  Ids,     \* names of the other objects
  Work     \* registers the program works with; the others are moved to and from

VARIABLES
  objs,  \* the objects that can be reached, by name
  reg,   \* the program's registers
  stack, \* its stack
  full   \* 0, or what it asked for in vain

vars == <<objs, reg, stack, full>>

Zero   == [n |-> 0]
Of(c)  == "o" \in DOMAIN c
At(o)  == [o |-> o, i |-> 0]

\* Objects of os that can be reached from cells, those objects only.
Reached(os, cells) ==
  LET of(cs) == {c.o : c \in {c \in cs : Of(c)}}
      some   == {s \in Strings \cap DOMAIN os : Range(os[s]) # {Zero}}
      reach[n \in 0..Cardinality(DOMAIN os)] ==  \* in n steps at most
        of(cells) \cup some \cup
        IF n = 0 THEN {} ELSE of(UNION {Range(os[o]) : o \in reach[n - 1] \cap DOMAIN os})
  IN reach[Cardinality(DOMAIN os)]
Live(os, cells) == [o \in Reached(os, cells) \cap DOMAIN os |-> os[o]]

\* The program has these objects, registers and stack now.
Become(os, r, s) == reg' = r /\ stack' = s /\ objs' = Live(os, Range(r) \cup Range(s)) /\ full' = full

And(o, x)  == [a \in DOMAIN objs \cup {o} |-> IF a = o THEN x ELSE objs[a]]
Cells(x)   == IF Of(reg[x]) THEN objs[reg[x].o] ELSE <<>>
IsBlock(x) == Of(reg[x]) /\ reg[x].o \in Ids
Room(x)    == IF Of(reg[x]) THEN {i \in 1..2 : reg[x].i + i \in DOMAIN Cells(x)} ELSE {}

Changed    == {x \in DOMAIN reg : reg'[x] # reg[x]}
Init == objs = Live(objs, Range(reg) \cup Range(stack)) /\ full = 0

\* A block of n cells; the object of a text; a block and two cells more.
New(x, n) == \E o \in Ids \ DOMAIN objs :
  Become(And(o, [i \in 1..n |-> Zero]), [reg EXCEPT ![x] = At(o)], stack)
Name(x) == \E s \in Strings :
  Become(IF s \in DOMAIN objs THEN objs ELSE And(s, <<Zero, Zero>>), [reg EXCEPT ![x] = At(s)], stack)
Longer(x, y) == IsBlock(y) /\ \E o \in Ids \ DOMAIN objs :
  Become(And(o, Cells(y) \o <<reg[x], reg[x]>>), [reg EXCEPT ![y] = At(o)], stack)
\* A block is cut behind a place.
Cut(x) == IsBlock(x) /\ Become([objs EXCEPT ![reg[x].o] = SubSeq(@, 1, reg[x].i)], reg, stack)

Store(x, y) == Of(reg[y]) /\ \E i, j \in DOMAIN Cells(y) :
  Become([objs EXCEPT ![reg[y].o] = [k \in DOMAIN @ |-> IF k \in {i, j} THEN reg[x] ELSE @[k]]], reg, stack)
Load(x)  == \E i \in Room(x) : Become(objs, [reg EXCEPT ![x] = Cells(x)[reg[x].i + i]], stack)
Inner(x) == Of(reg[x]) /\ Become(objs, [reg EXCEPT ![x].i = @ + 1], stack)
\* Two registers are exchanged, or one takes the place of another, which may be saved.
Move == /\ \A x \in DOMAIN reg : reg'[x] \in Range(reg) \cup {Zero}
        /\ Cardinality(Changed) <= 2 /\ Become(objs, reg', stack)
Number(x) == ~Of(reg'[x]) /\ Become(objs, [reg EXCEPT ![x] = reg'[x]], stack)
Push(x) == Become(objs, reg, Append(stack, reg[x]))
Pop(x)  == stack # <<>> /\ Become(objs, [reg EXCEPT ![x] = Last(stack)], Front(stack))
Stop    == full = 0 /\ full' # 0 /\ UNCHANGED <<objs, reg, stack>>

Next ==
  \/ Stop \/ Move
  \/ \E x \in Changed \cap Work : \/ \E n \in 1..2 : New(x, n)
                        \/ Name(x) \/ Load(x) \/ Inner(x) \/ Number(x) \/ Pop(x) \/ \E y \in Work : Longer(y, x)
  \/ Changed = {} /\ \E x \in Work : Cut(x) \/ Push(x) \/ Pop(x) \/ \E y \in Work : Store(x, y)
Spec == Init /\ [][Next]_vars
=============================================================================
