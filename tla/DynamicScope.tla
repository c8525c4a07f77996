---------------------------- MODULE DynamicScope -----------------------------
(***************************************************************************)
(* What DEFINE promises: while a function runs, its name, its arguments    *)
(* and its local variables have values of their own, and when it returns   *)
(* each has the value it had before, however the function was left.  The   *)
(* code keeps that but for functions whose entry label has no code: they   *)
(* do not run, and the names they bind have lost their values.             *)
(***************************************************************************)
EXTENDS Integers

CONSTANT Names

VARIABLES
  cur,    \* the value of each name
  aside,  \* for each call that has not returned, by its depth, the values put
          \* aside for the names it binds
  noentry \* the sets of names that functions without an entry bind

Init == DOMAIN aside = {}

Assign == aside' = aside /\ \E x \in Names : \A y \in Names \ {x} : cur'[y] = cur[y]

\* The deepest call is d: every other is above it, and as it was.
Deepest(d, in, out) == DOMAIN out = DOMAIN in \ {d} /\ \A k \in DOMAIN out : k < d /\ in[k] = out[k]

Call == \E d \in DOMAIN aside' :
  /\ Deepest(d, aside', aside)
  /\ \A x \in DOMAIN aside'[d] : aside'[d][x] = cur[x]
  /\ \A x \in Names \ DOMAIN aside'[d] : cur'[x] = cur[x]

Return == \E d \in DOMAIN aside :
  /\ Deepest(d, aside, aside')
  /\ \A x \in Names : cur'[x] = IF x \in DOMAIN aside[d] THEN aside[d][x] ELSE cur[x]

Lost == aside' = aside /\ \E ns \in noentry : \A x \in Names \ ns : cur'[x] = cur[x]

Next == Assign \/ Call \/ Return \/ Lost
Spec == Init /\ [][Next]_<<cur, aside>>
=============================================================================
