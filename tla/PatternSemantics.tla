-------------------------- MODULE PatternSemantics --------------------------
(***************************************************************************)
(* What a pattern expression means, and the blocks the pattern functions   *)
(* of isnobol4.c build for it.                                             *)
(*                                                                         *)
(* An expression is a tuple: its kind, then its arguments.                 *)
(*   "chr" s   "any" "notany" "span" "break" "breakx" cs   "len" n         *)
(*   "pos" "rpos" "tab" "rtab" n   "at" v   "star" v   "prim" fn           *)
(*   "rem"  "arb"  "bal"   "cat" "alt" p q   "arbno" "fence" p             *)
(*   "nam" p v   (P . V)   "dol" p v   (P $ V)                             *)
(*                                                                         *)
(* The meaning is the one the manual pages and the SIL comments give: an   *)
(* expression tried at a place of the subject has a list of outcomes, in   *)
(* the order in which backtracking reaches them.                           *)
(***************************************************************************)
EXTENDS PatternBlocks, Integers, FiniteSets, TLC, SequencesExt

(***************************************************************************)
(* Construction: the pattern functions applied from the inside out.        *)
(***************************************************************************)
Chars == {"any", "notany", "span", "break", "breakx"}
FnOf  == [any |-> "ANY", notany |-> "NOTANY", span |-> "SPAN",
          break |-> "BREAK", breakx |-> "BREAKX", pos |-> "POS",
          rpos |-> "RPOS", tab |-> "TAB", rtab |-> "RTAB"]

Parts(p) == CASE p[1] \in {"cat", "alt"} -> {p[2], p[3]}
              [] p[1] \in {"arbno", "fence", "nam", "dol"} -> {p[2]}
              [] OTHER -> {}

\* The blocks of some patterns, and of the arguments of FENCE in them, which
\* keep blocks of their own.  Expressions are at most Depth deep.
Depth == 6
MemoryOf(patterns) ==
  LET level[k \in 0..Depth] ==
        IF k = 0 THEN patterns ELSE UNION {Parts(p) : p \in level[k-1]}
      within == UNION {level[k] : k \in 0..Depth}
      block[p \in within] ==
        CASE p[1] = "chr"   -> StringPattern(p[2])
          [] p[1] \in Chars -> CharsPattern(FnOf[p[1]], p[2])
          [] p[1] = "len"   -> LenPattern(p[2])
          [] p[1] \in {"pos", "rpos", "tab", "rtab"} ->
               PosPattern(FnOf[p[1]], p[2])
          [] p[1] = "at"    -> CursorPattern(p[2])
          [] p[1] = "star"  -> StarPattern(p[2])
          [] p[1] = "prim"  -> PrimPattern(p[2])
          [] p[1] = "rem"   -> RemPattern
          [] p[1] = "arb"   -> ArbPattern
          [] p[1] = "bal"   -> BalPattern
          [] p[1] = "cat"   -> Concat(block[p[2]], block[p[3]])
          [] p[1] = "alt"   -> Or(block[p[2]], block[p[3]])
          [] p[1] = "arbno" -> Arbno(block[p[2]])
          [] p[1] = "fence" -> FencePattern(p[2])
          [] p[1] = "nam"   -> Named("ENME", block[p[2]], p[3])
          [] p[1] = "dol"   -> Named("ENMI", block[p[2]], p[3])
      fenced == {p[2] : p \in {x \in within : x[1] = "fence"}}
  IN  [p \in patterns \cup fenced |-> block[p]] @@ <<>>

\* Match statements: subject, pattern, variables, &ANCHOR and &FULLSCAN.
Statements(subjects, patterns, vals, anchors, fulls) ==
  [subj : subjects, pat : patterns, env : vals, anchor : anchors, full : fulls]

(***************************************************************************)
(* Meaning                                                                 *)
(***************************************************************************)
At0(end)   == [end |-> end, names |-> <<>>]
AbortMark  == [end |-> -1, names |-> <<>>]

\* Nothing is tried after an abort.
Cut(s) == LET stops == {i \in DOMAIN s : s[i] = AbortMark}
          IN  IF stops = {} THEN s
              ELSE SubSeq(s, 1, CHOOSE i \in stops : \A j \in stops : i <= j)

\* The places in ends, nearest first.
Places(ends) == LET seq == SetToSortSeq(ends, <) IN
                [i \in DOMAIN seq |-> At0(seq[i])]

CharAt(subj, i) == subj[i + 1]
Balanced(subj, i, j) ==
  LET depth(k) == Cardinality({x \in i..(k-1) : CharAt(subj, x) = "("})
                - Cardinality({x \in i..(k-1) : CharAt(subj, x) = ")"})
  IN  depth(j) = 0 /\ \A k \in i..j : depth(k) >= 0

RunEnd(subj, i, cs) ==
  CHOOSE j \in i..Len(subj) :
    /\ \A k \in i..(j-1) : CharAt(subj, k) \in cs
    /\ j < Len(subj) => CharAt(subj, j) \notin cs

\* The ends of a pattern without parts.
Ends(p, subj, i) ==
  LET n == Len(subj)
      breaks == {j \in i..(n-1) : CharAt(subj, j) \in p[2]}
  IN
  CASE p[1] = "chr" ->
         {j \in {i + Len(p[2])} : j <= n /\ SubSeq(subj, i+1, j) = p[2]}
    [] p[1] = "any"    -> {j \in {i+1} : i < n /\ CharAt(subj, i) \in p[2]}
    [] p[1] = "notany" -> {j \in {i+1} : i < n /\ CharAt(subj, i) \notin p[2]}
    [] p[1] = "span"   -> {RunEnd(subj, i, p[2])} \ {i}
    [] p[1] = "break"  -> {j \in breaks : \A k \in breaks : j <= k}
    [] p[1] = "breakx" -> breaks
    [] p[1] = "len"    -> {i + p[2]} \cap 0..n
    [] p[1] = "pos"    -> {i} \cap {p[2]}
    [] p[1] = "rpos"   -> {i} \cap {n - p[2]}
    [] p[1] = "tab"    -> {p[2]} \cap i..n
    [] p[1] = "rtab"   -> {n - p[2]} \cap i..n
    [] p[1] = "at"     -> {i}
    [] p[1] = "rem"    -> {n}
    [] p[1] = "arb"    -> i..n
    [] p[1] = "bal"    -> {j \in (i+1)..n : Balanced(subj, i, j)}

RECURSIVE Outcomes(_, _, _, _)
\* q is tried after each outcome of p that keep allows.
After(firsts, i, keep(_), rest(_)) ==
  Cut(FlattenSeq([k \in DOMAIN firsts |->
    IF firsts[k] = AbortMark THEN <<AbortMark>>
    ELSE IF ~keep(firsts[k].end) THEN <<>>
    ELSE LET more == rest(firsts[k].end) IN
         [m \in DOMAIN more |->
            IF more[m] = AbortMark THEN AbortMark
            ELSE [more[m] EXCEPT !.names = firsts[k].names \o @]]]))

Outcomes(p, subj, vals, i) ==
  LET sub(q, j) == Outcomes(q, subj, vals, j) IN
  CASE p[1] = "cat" -> After(sub(p[2], i), i, LAMBDA e : TRUE,
                             LAMBDA e : sub(p[3], e))
    [] p[1] = "alt" -> Cut(sub(p[2], i) \o sub(p[3], i))
    [] p[1] = "arbno" ->
         Cut(<<At0(i)>> \o After(sub(p[2], i), i, LAMBDA e : e # i,
                                 LAMBDA e : sub(p, e)))
    [] p[1] = "star" ->
         LET v == vals[p[2]] IN
         sub(CASE v.t = "P" -> v.p
               [] v.t = "S" -> <<"chr", v.s>>
               [] v.t = "I" -> <<"chr", <<ToString(v.i)>>>>, i)
    [] p[1] = "fence" ->
         LET all == sub(p[2], i) IN IF all = <<>> THEN <<>> ELSE <<all[1]>>
    [] p[1] = "nam" ->
         LET all == sub(p[2], i) IN
         [k \in DOMAIN all |->
            IF all[k] = AbortMark THEN AbortMark
            ELSE [all[k] EXCEPT !.names =
                    Append(@, [var |-> p[3], from |-> i, to |-> all[k].end])]]
    [] p[1] = "dol" -> sub(p[2], i)
    [] p[1] = "prim" /\ p[2] = "SALF"  -> <<>>
    [] p[1] = "prim" /\ p[2] = "ABORT" -> <<AbortMark>>
    [] p[1] = "prim" /\ p[2] = "FNCE"  -> <<At0(i), AbortMark>>
    [] OTHER -> Places(Ends(p, subj, i))

(***************************************************************************)
(* A match statement: the first start with an outcome decides.             *)
(***************************************************************************)
NoMatch == [matched |-> FALSE]
Expected(r) ==
  LET starts == IF r.anchor THEN {0} ELSE 0..Len(r.subj)
      ways   == [s \in starts |-> Outcomes(r.pat, r.subj, r.env, s)] @@ <<>>
      live   == {s \in starts : ways[s] # <<>>}
      start  == CHOOSE s \in live : \A t \in live : s <= t
      first  == ways[start][1]
  IN  IF live = {} \/ first = AbortMark THEN NoMatch
      ELSE [matched |-> TRUE, head |-> start, end |-> first.end,
            names |-> first.names]
==============================================================================
