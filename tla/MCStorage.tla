----------------------------- MODULE MCStorage ------------------------------
(***************************************************************************)
(* Storage for two or three strings and a few small blocks, so that most   *)
(* programs of a few steps have to regenerate.                             *)
(***************************************************************************)
EXTENDS Storage

\* All texts share a bin, two of them an ascension number.
MCStrings == {"s", "t", "u"}
MCHash    == [s \in MCStrings |-> [bin |-> 1, asc |-> IF s = "u" THEN 2 ELSE 1]]
MCWords   == [s \in MCStrings |-> 1]
MCIds     == {"b" \o ToString(i) : i \in 1..17}
MCNumbers == {0, 8}
\* What the theorems about Storage assume.
ASSUME MCStorageFits == StorageAssumption

\* What programs have done before: XPTR and YPTR are exchanged, XPTR is
\* stored behind YPTR.
Xch(s)    == [s EXCEPT !.reg["XPTR"] = s.reg["YPTR"], !.reg["YPTR"] = s.reg["XPTR"]]
Put(s, i) == [s EXCEPT !.heap[Top(s.heap, s.reg["YPTR"].a)].cells[i] = s.reg["XPTR"]]
\* s with a block as its value, behind garbage; t behind it, without a value.
Garbage   == Blocked(Empty, 1)
Valued1   == Put(Blocked(Xch(Loca1(Garbage, "s")), 2), 1)
Crowded   == Loca1(Valued1, "t")
\* Code that runs, behind garbage, and another block of code.
Running1  == [Blocked(Xch(Blocked(Blocked(Empty, 1), 1)), 2) EXCEPT !.reg["OCBSCL"] = Blocked(Blocked(Empty, 1), 1).reg["XPTR"]]
\* A list of two pairs, the second one free.
Pairs1    == Put(Put(Xch([Blocked(Empty, 2) EXCEPT !.heap[1].cells = @ \o <<Zero, Zero>>, !.reg["YPTR"] = Num(8)]), 1), 2)
MCStarts  == {Empty, Valued1, Crowded, Xch(Running1), Pairs1}
MCInit    == \E s \in MCStarts : Begin(s)
MCSpec    == MCInit /\ [][Next]_vars
=============================================================================
