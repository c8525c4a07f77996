------------------------------- MODULE Matching -------------------------------
(***************************************************************************)
(* What a match statement promises: when it ends, its result is the one    *)
(* its pattern means.  Scanner is the program meant to keep the promise.   *)
(***************************************************************************)
EXTENDS PatternSemantics

CONSTANT Asked   \* the match statements that may run

VARIABLES statement, result

MatchInit == statement \in Asked /\ result = [done |-> FALSE]
Answer    == /\ ~result.done /\ result'.done
             /\ result'.outcome = Expected(statement)
             /\ UNCHANGED statement
Match     == MatchInit /\ [][Answer]_<<statement, result>>
==============================================================================
