------------------------------- MODULE Tables -------------------------------
(***************************************************************************)
(* Tables, arrays and sorting (isnobol4.c ASSOC ITEM CNVRT SORT1 FREEZE,   *)
(* lib/pair.c). A table is a chain of blocks of pairs; the last pair of a  *)
(* block holds the size of the next one and the link to it. The program    *)
(* has a table, an array and the name of an entry.                         *)
(***************************************************************************)
EXTENDS Integers, SequencesExt, FiniteSetsExt

CONSTANTS
  Keys, Values, Null, \* descriptors: type t and value v
  NaN,                \* the value of the real that is not a number
  EXTSIZ,             \* entries of a table made without a size
  Starts,             \* what programs begin with: TABLE(x, w), an array, a SORT of it, operations done
  Subscripts,         \* lists of subscripts that are tried
  Columns,            \* second arguments of SORT
  Field,              \* what the field SORT is given holds in an object that has it:
                      \* it leads to a value that is no object, or SORT does not end
  MaxOps,             \* bound on operations
  Careless            \* whether the program does what ends it, below

VARIABLES
  heap,   \* blocks of pairs of tables, in the order of addresses
  tab,    \* the block the table begins with
  frozen, \* FRZN in its title
  named,  \* the place of the pair a name points to, or Nowhere
  arr,    \* an array: bounds of its dimensions, the last one first, and cells
  sort,   \* the SORT that evaluates its second argument, or Idle
  said,   \* how the last operation ended: "fine", "failed", "crash"
  ops     \* operations done

vars == <<heap, tab, frozen, named, arr, sort, said, ops>>

Desc(t, v) == [t |-> t, v |-> v]
ZEROCL  == Desc("0", 0)
ONECL   == Desc("0", 1)
Nowhere == <<>>
Idle    == [of |-> "none"]

------------------------------------------------------------------------------
\* ASSOCE: a block of x pairs without keys; the next one is to have w.
ASSOCE(x, w) == [i \in 1..x |-> [k |-> ZEROCL, v |-> Null]] \o <<[k |-> ONECL, v |-> Desc("0", w)]>>
\* ASSOC: no size is the usual one.
Size(n) == IF n = 0 THEN EXTSIZ ELSE n

\* LOCAPV: the pairs of a block, the last one among them, that have the key.
LOCAPV(b, k) == {p \in DOMAIN heap[b] : heap[b][p].k = k}
RECURSIVE Chain(_)
Chain(b) == LET link == Last(heap[b]).k
            IN <<b>> \o (IF link = ONECL THEN <<>> ELSE Chain(link.v))
Found(k) == UNION {{b} \X LOCAPV(b, k) : b \in ToSet(Chain(tab))}
FirstOf(places) == CHOOSE x \in places : \A y \in places : x[1] < y[1] \/ (x[1] = y[1] /\ x[2] <= y[2])

\* ITEM of a table: the first pair with the key, or the first free one of the
\* last block, or the first of a new block; what the heap is then.
Keyed(h, b, p, k) == [heap |-> [h EXCEPT ![b][p].k = k], at |-> <<b, p>>]
Extended(b) == LET w == Last(heap[b]).v.v
               IN Append([heap EXCEPT ![b][Len(heap[b])].k = Desc("ptr", Len(heap) + 1)], ASSOCE(w, w))
Entered(k) ==
  LET b == Last(Chain(tab))
  IN IF Found(k) # {} THEN [heap |-> heap, at |-> FirstOf(Found(k))]
     ELSE IF frozen THEN [heap |-> heap, at |-> Nowhere]
     ELSE IF LOCAPV(b, ZEROCL) # {} THEN Keyed(heap, b, Min(LOCAPV(b, ZEROCL)), k)
     ELSE Keyed(Extended(b), Len(heap) + 1, 1, k)

\* ITEM of an array: the last subscript first; places are counted from 1.
Padded(s) == s \o [i \in 1..(Len(arr.dims) - Len(s)) |-> 0]
Offset(s, d) == s[Len(arr.dims) + 1 - d] - arr.dims[d].low
Within(s) == \A d \in DOMAIN arr.dims : Offset(s, d) >= 0 /\ Offset(s, d) < arr.dims[d].extent
Place(s) ==
  LET index[d \in 1..Len(arr.dims)] ==
        (IF d = 1 THEN 0 ELSE index[d - 1] * arr.dims[d].extent) + Offset(s, d)
  IN 1 + index[Len(arr.dims)]

\* Pairs of a table without the last of each block, and those with a value,
\* which ICNVTA counts; an array of them has the keys and then the values.
Pairs == LET bs == Chain(tab) IN FlattenSeq([c \in DOMAIN bs |-> Front(heap[bs[c]])])
Valued == SelectSeq(Pairs, LAMBDA e : e.v # Null)
ICNVTA(n) == <<[low |-> 1, extent |-> 2], [low |-> 1, extent |-> n]>>
TwoColumns(es) == [i \in DOMAIN es |-> es[i].k] \o [i \in DOMAIN es |-> es[i].v]

------------------------------------------------------------------------------
\* SORT1 compares: strings with LEXCMP, numbers as numbers with NaN behind
\* them, others by the code of their type, then by their address.
Code(x) == CASE x.t = "S" -> 1 [] x.t = "I" -> 6 [] x.t = "R" -> 7 [] OTHER -> 100
RECURSIVE Followed(_, _)
Followed(x, field) == IF field /\ x.t = "D" THEN Followed(Field[x.v], field) ELSE x
IsNaN(x) == x.t = "R" /\ x.v = NaN
Numbers(x, y) == {x.t, y.t} \subseteq {"I", "R"}
Compared(m, n) == IF m < n THEN -1 ELSE IF m = n THEN 0 ELSE 1
Compare(x, y) ==
  IF Numbers(x, y)
  THEN IF IsNaN(x) THEN IF IsNaN(y) THEN 0 ELSE 1
       ELSE IF IsNaN(y) THEN -1 ELSE Compared(x.v, y.v)
  ELSE IF x.t = y.t THEN Compared(x.v, y.v) ELSE Compared(Code(x), Code(y))

SwapsUnequal(key, f1, f2, desc) ==
  LET c == Compare(key[f1], key[f2]) IN IF desc THEN c < 0 ELSE c > 0
\* SWAP: also when elements are equal and the second was before the first.
Swaps(key, f1, f2, desc) ==
  LET c == Compare(key[f1], key[f2])
  IN IF c = 0 THEN f1 > f2 ELSE IF desc THEN c < 0 ELSE c > 0
\* SORT8: one pass over elements that are gap apart; SORT7: until none was
\* swapped; SORT6: with half the gap.
Pass(p, key, gap, desc) ==
  FoldLeft(LAMBDA acc, i : IF Swaps(key, acc.p[i], acc.p[i + gap], desc)
                           THEN [p |-> [acc.p EXCEPT ![i] = acc.p[i + gap], ![i + gap] = acc.p[i]], tcl |-> acc.tcl + 1]
                           ELSE acc,
           [p |-> p, tcl |-> 0], [i \in 1..(Len(p) - gap) |-> i])
RECURSIVE Passes(_, _, _, _)
Passes(p, key, gap, desc) ==
  LET done == Pass(p, key, gap, desc) IN IF done.tcl = 0 THEN done.p ELSE Passes(done.p, key, gap, desc)
RECURSIVE Shell(_, _, _, _)
Shell(p, key, gap, desc) ==
  IF gap <= 1 THEN p ELSE Shell(Passes(p, key, gap \div 2, desc), key, gap \div 2, desc)
\* The rows, by numbers that stand for the addresses of their keys.
SortedRows(key, desc) == Shell([i \in DOMAIN key |-> i], key, Len(key), desc)
------------------------------------------------------------------------------
Fails == said' = "failed" /\ UNCHANGED <<heap, tab, frozen, named, arr>>
Fine  == said' = "fine"

\* T<k> = v, N = .T<k>, $N = v. A frozen table gives the null string for a new
\* key, which is no place and no name.
Assign == \E k \in Keys, v \in Values :
  LET e == Entered(k)
  IN IF e.at = Nowhere THEN Fails /\ UNCHANGED sort
     ELSE /\ heap' = [e.heap EXCEPT ![e.at[1]][e.at[2]].v = v] /\ Fine
          /\ UNCHANGED <<tab, frozen, named, arr, sort>>
Mention == \E k \in Keys :
  LET e == Entered(k)
  IN IF e.at = Nowhere THEN Fails /\ UNCHANGED sort
     ELSE heap' = e.heap /\ named' = e.at /\ Fine /\ UNCHANGED <<tab, frozen, arr, sort>>
AssignNamed == \E v \in Values :
  /\ named # Nowhere
  /\ heap' = [heap EXCEPT ![named[1]][named[2]].v = v] /\ Fine
  /\ UNCHANGED <<tab, frozen, named, arr, sort>>
FREEZE == frozen' = TRUE  /\ Fine /\ UNCHANGED <<heap, tab, named, arr, sort>>
THAW   == frozen' = FALSE /\ Fine /\ UNCHANGED <<heap, tab, named, arr, sort>>

\* A<s> = v: subscripts that are left out are 0.
AssignItem == \E s \in Subscripts, v \in Values :
  IF Len(s) <= Len(arr.dims) /\ Within(Padded(s))
  THEN arr' = [arr EXCEPT !.cells[Place(Padded(s))] = v] /\ Fine /\ UNCHANGED <<heap, tab, frozen, named, sort>>
  ELSE Fails /\ UNCHANGED sort

\* A = CONVERT(T, 'ARRAY').
CNVTA ==
  /\ sort = Idle /\ UNCHANGED sort
  /\ IF Valued = <<>> THEN Fails
     ELSE /\ arr' = [dims |-> ICNVTA(Len(Valued)), cells |-> TwoColumns(Valued)] /\ Fine
          /\ UNCHANGED <<heap, tab, frozen, named>>

\* T = CONVERT(A, 'TABLE'): the copy begins with a row and ends after the last;
\* without rows it does not end. Rows with the same key are pairs with it.
Row(i) == [k |-> arr.cells[i], v |-> arr.cells[arr.dims[2].extent + i]]
SingleKeys == Cardinality({Row(i).k : i \in 1..arr.dims[2].extent}) = arr.dims[2].extent
CNVAT ==
  /\ sort = Idle /\ UNCHANGED sort
  /\ IF Len(arr.dims) # 2 \/ arr.dims[1].extent # 2 THEN Fails
     ELSE IF arr.dims[2].extent = 0
     THEN Careless /\ said' = "crash" /\ UNCHANGED <<heap, tab, frozen, named, arr>>
     ELSE /\ Careless \/ SingleKeys
          /\ heap' = Append(heap, [i \in 1..arr.dims[2].extent |-> Row(i)]
                                    \o <<[k |-> ONECL, v |-> Desc("0", EXTSIZ)]>>)
          /\ tab' = Len(heap') /\ frozen' = FALSE /\ named' = Nowhere /\ Fine /\ UNCHANGED arr

\* SORT and RSORT: the pairs of a table are counted and the array for them is
\* made before the second argument is evaluated.
SORT == \E of \in {"table", "array"}, desc \in BOOLEAN :
  /\ sort = Idle
  /\ IF of = "table" /\ Valued = <<>> THEN Fails /\ UNCHANGED sort
     ELSE /\ sort' = [of |-> of, desc |-> desc, n |-> IF of = "table" THEN Len(Valued) ELSE 0]
          /\ UNCHANGED <<heap, tab, frozen, named, arr, said>>

\* The dimensions and the cells to be sorted: of a table, the first n pairs.
Dims  == IF sort.of = "table" THEN ICNVTA(sort.n) ELSE arr.dims
Cells == IF sort.of = "table" THEN TwoColumns(SubSeq(Valued, 1, sort.n)) ELSE arr.cells
Rows(dims) == Last(dims).extent
\* Numbers the second argument may be: a column as the program counts them.
Column(dims, col) == IF Len(dims) = 1 THEN col - 1 ELSE col - dims[1].low
InColumns(dims, col) == Column(dims, col) >= 0 /\ Column(dims, col) < (IF Len(dims) = 1 THEN 1 ELSE dims[1].extent)
WithoutField(x) == x.t = "D" /\ x.v \notin DOMAIN Field
\* The loop that copies looks for n pairs and leaves the chain when there are
\* fewer; the one that fills the array of an array begins with an element.
SORT1 == \E col \in Columns, field \in BOOLEAN :
  LET n == Rows(Dims)
      key == [i \in 1..n |-> Followed(Cells[Column(Dims, col) * n + i], field)]
      row == SortedRows(key, sort.desc)
  IN /\ sort # Idle /\ sort' = Idle
     /\ sort.of = "table" => Careless \/ Len(Valued) = sort.n
     /\ IF Len(Dims) > 2 \/ ~InColumns(Dims, col) \/ (field /\ Len(Dims) # 1) THEN Fails
        ELSE IF n = 0 \/ (sort.of = "table" /\ Len(Valued) < n)
        THEN Careless /\ said' = "crash" /\ UNCHANGED <<heap, tab, frozen, named, arr>>
        ELSE IF field /\ n > 1 /\ \E i \in 1..n : WithoutField(Cells[i]) THEN Fails
        ELSE /\ arr' = [dims |-> Dims,
                        cells |-> [c \in DOMAIN Cells |-> Cells[((c - 1) \div n) * n + row[1 + ((c - 1) % n)]]]]
             /\ Fine /\ UNCHANGED <<heap, tab, frozen, named>>

InitFrom(s) ==
  /\ heap = <<ASSOCE(Size(s.x), Size(s.w))>> /\ tab = 1 /\ frozen = FALSE /\ named = Nowhere
  /\ arr = s.arr /\ sort = s.sort /\ said = "fine" /\ ops = s.ops
Init == \E s \in Starts : InitFrom(s)
\* What a program does until it crashes; the operations of a second argument
\* make no new table or array.
Operation == Assign \/ Mention \/ AssignNamed \/ FREEZE \/ THAW \/ AssignItem \/ CNVTA \/ CNVAT \/ SORT
Next == /\ said # "crash"
        /\ \/ ops < MaxOps /\ Operation /\ ops' = ops + 1
           \/ SORT1 /\ UNCHANGED ops
Spec == Init /\ [][Next]_vars

------------------------------------------------------------------------------
\* The map, the name and the array the program sees in the blocks, by way of
\* the operations above.
Bounds == [i \in DOMAIN arr.dims |->
             LET d == arr.dims[Len(arr.dims) + 1 - i] IN [lo |-> d.low, hi |-> d.low + d.extent - 1]]
Anywhere == UNION {Bounds[i].lo .. Bounds[i].hi : i \in DOMAIN Bounds}
Seen == [s \in {t \in [DOMAIN arr.dims -> Anywhere] : Within(t)} |-> arr.cells[Place(s)]]
M == INSTANCE Maps WITH
       entries <- SelectSeq(Pairs, LAMBDA e : e.k # ZEROCL),
       held    <- IF named = Nowhere THEN <<>> ELSE <<heap[named[1]][named[2]].k>>,
       array   <- [bounds |-> Bounds, at |-> Seen],
       sorting <- sort

\* Tables, arrays and sorting are as they are meant, whatever blocks a table
\* consists of and wherever the rows are while they are sorted: ITEM, CNVRT
\* and SORT1 implement the maps of Maps. Careless excludes rows with equal keys
\* as a table, arrays without rows, and a second argument of SORT that changes
\* how many pairs have values.
AsMeant == M!Spec
=============================================================================
