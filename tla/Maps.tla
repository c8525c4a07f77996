-------------------------------- MODULE Maps --------------------------------
(***************************************************************************)
(* What tables, arrays and sorting promise a program. A table is a map     *)
(* that remembers the order in which its keys were first mentioned; a name *)
(* of an entry stays the name of that entry. An array is a function of its *)
(* subscripts. A sorted array has the rows of what was sorted, in order,   *)
(* and those with equal keys in the order they had.                        *)
(***************************************************************************)
EXTENDS Integers, SequencesExt, FiniteSets

CONSTANTS Keys, Values, Null, Subscripts, Columns, Field

VARIABLES
  entries, \* of the table, in order: [k, v]
  frozen,  \* whether it gets no new ones
  held,    \* the key of the entry the program has the name of, if any
  array,   \* an array: bounds of its subscripts, what is at each of them
  sorting, \* the SORT whose second argument is evaluated, or Idle
  said     \* how the last operation ended: "fine" or "failed"

vars == <<entries, frozen, held, array, sorting, said>>

Idle == [of |-> "none"]
Known == {e.k : e \in ToSet(entries)}
With(k, v) == LET es == entries
                  at == {i \in DOMAIN es : es[i].k = k}
              IN IF at = {} THEN Append(es, [k |-> k, v |-> v]) ELSE [i \in DOMAIN es |-> IF i \in at THEN [k |-> k, v |-> v] ELSE es[i]]
ValueOf(k) == LET es == SelectSeq(entries, LAMBDA e : e.k = k) IN IF es = <<>> THEN Null ELSE es[1].v
Valued     == SelectSeq(entries, LAMBDA e : e.v # Null)
Fails      == said' = "failed" /\ UNCHANGED <<frozen, held, entries, array>>

\* The order of values: strings, numbers, others by their type; an object is
\* in the place of its field's value, when a field is asked for.
Class(x) == IF x.t = "S" THEN 1 ELSE IF x.t \in {"I", "R"} THEN 6 ELSE 100
Precedes(x, y) == Class(x) < Class(y) \/ (Class(x) = Class(y) /\ x.v < y.v)
RECURSIVE Meant(_)
Meant(x) == IF x.t = "D" THEN Meant(Field[x.v]) ELSE x

\* Each row has the place that the rows before it leave.
Ranked(rows, key, desc) ==
  LET Earlier(i, j) == LET x == key[i]  y == key[j]
                       IN \/ IF desc THEN Precedes(y, x) ELSE Precedes(x, y)
                          \/ (~Precedes(x, y) /\ ~Precedes(y, x) /\ i < j)
      at == [j \in DOMAIN rows |-> 1 + Cardinality({i \in DOMAIN rows : Earlier(i, j)})]
  IN [p \in DOMAIN rows |-> rows[CHOOSE j \in DOMAIN rows : at[j] = p]]

\* Arrays: rows of one with one or two subscripts, and the other way.
Span(b)  == b.lo .. b.hi
Rows(a)  == LET r == a.bounds[1]
                at(i) == r.lo + i - 1
            IN [i \in 1..(r.hi - r.lo + 1) |->
                 IF Len(a.bounds) = 1 THEN <<a.at[<<at(i)>>]>>
                 ELSE [c \in 1..(a.bounds[2].hi - a.bounds[2].lo + 1) |-> a.at[<<at(i), a.bounds[2].lo + c - 1>>]]]
Numbered(bounds, rows) ==
  [bounds |-> bounds,
   at |-> IF Len(bounds) = 1 THEN [s \in {<<i>> : i \in Span(bounds[1])} |-> rows[s[1] - bounds[1].lo + 1][1]]
          ELSE [s \in Span(bounds[1]) \X Span(bounds[2]) |->
                 rows[s[1] - bounds[1].lo + 1][s[2] - bounds[2].lo + 1]]]
TwoColumns(n) == <<[lo |-> 1, hi |-> n], [lo |-> 1, hi |-> 2]>>
PairRows(es)  == [i \in DOMAIN es |-> <<es[i].k, es[i].v>>]

------------------------------------------------------------------------------
\* T<k> = v and N = .T<k>: a frozen table has no place for a new key.
Assign(k, v) == /\ UNCHANGED <<sorting, frozen, held>>
                /\ IF frozen /\ k \notin Known THEN Fails
                   ELSE said' = "fine" /\ entries' = With(k, v) /\ UNCHANGED array
Mention(k)   == /\ UNCHANGED <<sorting, frozen>>
                /\ IF frozen /\ k \notin Known THEN Fails
                   ELSE said' = "fine" /\ held' = <<k>> /\ entries' = With(k, ValueOf(k)) /\ UNCHANGED array
AssignNamed(v) == /\ UNCHANGED <<sorting, frozen, held>> /\ said' = "fine" /\ held # <<>>
                  /\ entries' = With(held[1], v) /\ UNCHANGED array
Freezes(f) == UNCHANGED <<sorting, held>> /\ said' = "fine" /\ frozen' = f /\ UNCHANGED <<entries, array>>

\* A<s> = v: subscripts that are left out are 0.
Padded(s, n) == [i \in 1..n |-> IF i \in DOMAIN s THEN s[i] ELSE 0]
AssignItem(s, v) ==
  /\ UNCHANGED <<sorting, frozen, held, entries>>
  /\ LET a == array
         at == Padded(s, Len(a.bounds))
     IN IF Len(s) <= Len(a.bounds) /\ at \in DOMAIN a.at
        THEN said' = "fine" /\ array' = [a EXCEPT !.at[at] = v]
        ELSE said' = "failed" /\ array' = a

\* A = CONVERT(T, 'ARRAY') and T = CONVERT(A, 'TABLE').
ToArray == /\ sorting = Idle /\ UNCHANGED <<sorting, frozen, held>>
           /\ LET es == Valued
              IN IF es = <<>> THEN Fails
                 ELSE /\ said' = "fine" /\ UNCHANGED entries
                      /\ array' = Numbered(TwoColumns(Len(es)), PairRows(es))
ToTable == /\ sorting = Idle /\ UNCHANGED <<sorting, array>>
           /\ LET a == array
                  rows == Rows(a)
              IN IF Len(a.bounds) # 2 \/ a.bounds[2].hi - a.bounds[2].lo # 1 THEN Fails
                 ELSE /\ said' = "fine" /\ ~frozen' /\ held' = <<>>
                      /\ entries' = [i \in DOMAIN rows |-> [k |-> rows[i][1], v |-> rows[i][2]]]

\* A = SORT(T, c), A = SORT(A, c) and RSORT, in two steps: c may be a function
\* of the program. The column is the second subscript, or a field.
Begin(of, desc) ==
  /\ sorting = Idle /\ UNCHANGED <<frozen, held, entries, array>>
  /\ LET n == Len(Valued)
     IN IF of = "table" /\ n = 0 THEN said' = "failed" /\ sorting' = Idle
        ELSE UNCHANGED said /\ sorting' = [of |-> of, desc |-> desc, n |-> IF of = "table" THEN n ELSE 0]
Sorted(rows, c, field) ==
  Ranked(rows, [i \in DOMAIN rows |-> IF field THEN Meant(rows[i][c]) ELSE rows[i][c]], sorting.desc)
NoField(rows) == \E i \in DOMAIN rows : rows[i][1].t = "D" /\ rows[i][1].v \notin DOMAIN Field
Finish(col, field) ==
  /\ sorting # Idle /\ sorting' = Idle
  /\ LET es     == Valued
         a      == array
         bounds == IF sorting.of = "table" THEN TwoColumns(Len(es)) ELSE a.bounds
         rows   == IF sorting.of = "table" THEN PairRows(es) ELSE Rows(a)
         c      == IF Len(bounds) = 1 THEN col ELSE col - bounds[2].lo + 1
     IN IF \/ Len(bounds) > 2
           \/ c \notin DOMAIN rows[1]
           \/ field /\ (Len(bounds) > 1 \/ (Len(rows) > 1 /\ NoField(rows)))
        THEN Fails
        ELSE /\ said' = "fine" /\ UNCHANGED <<frozen, held, entries>>
             /\ array' = Numbered(bounds, Sorted(rows, c, field))

\* A program with some array, which may be about to be sorted.
Init == entries = <<>> /\ frozen = FALSE /\ held = <<>> /\ said = "fine"
Next == \/ \E k \in Keys, v \in Values : Assign(k, v)
        \/ \E k \in Keys : Mention(k)
        \/ \E v \in Values : AssignNamed(v)
        \/ \E s \in Subscripts, v \in Values : AssignItem(s, v)
        \/ \E f \in BOOLEAN : Freezes(f)
        \/ ToArray \/ ToTable
        \/ \E of \in {"table", "array"}, desc \in BOOLEAN : Begin(of, desc)
        \/ \E col \in Columns, field \in BOOLEAN : Finish(col, field)
Spec == Init /\ [][Next]_vars
=============================================================================
