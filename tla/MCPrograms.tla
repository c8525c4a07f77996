----------------------------- MODULE MCPrograms -----------------------------
(***************************************************************************)
(* The compiler of MCCompiler and the data of the programs: a run compiles *)
(* or works with a table and an array.                                     *)
(***************************************************************************)
EXTENDS MCCompiler

VARIABLES heap, tab, frozen, named, arr, sort, said, ops
data == <<heap, tab, frozen, named, arr, sort, said, ops>>

\* Strings, integers, reals with 9 as what is not a number, objects.
S(n) == [t |-> "S", v |-> n]
I(n) == [t |-> "I", v |-> n]
R(n) == [t |-> "R", v |-> n]
D(n) == [t |-> "D", v |-> n]
MCNull == S(0)
\* Object 1 has a field with 3, object 2 one with object 1, object 3 has none.
MCField == (1 :> I(3)) @@ (2 :> D(1))
MCKeys  == {S(1), I(1), I(2)}
MCVals  == {MCNull, I(1), I(2)}
\* Too many, too few and some outside the bounds.
MCSubscripts == {<<-1>>, <<1, 2>>, <<0, 2, 1>>, <<1, 1, 1, 1>>, <<2>>}
MCColumns    == 0..3

\* A small table that grows; an array of two columns; every order of four
\* elements of mixed types, and of three objects and integers, about to be
\* sorted; arrays with other bounds.
MCMaxOps == 4
Dim(l, e) == [low |-> l, extent |-> e]
Start(x, w, dims, cells, o, n) ==
  [x |-> x, w |-> w, arr |-> [dims |-> dims, cells |-> cells], sort |-> o, ops |-> n]
NoSort == [of |-> "none"]
Sorts  == {[of |-> "array", desc |-> d, n |-> 0] : d \in BOOLEAN}
Vector(n, vs) == {Start(1, 1, <<Dim(1, n)>>, c, o, MCMaxOps) : c \in [1..n -> vs], o \in Sorts}
NewTable == Start(1, 1, <<Dim(1, 1)>>, <<MCNull>>, NoSort, 0)
MCStarts ==
  {NewTable,
   Start(2, 0, <<Dim(0, 2), Dim(-1, 2)>>, <<MCNull, S(1), I(2), MCNull>>, NoSort, 1),
   Start(1, 1, <<Dim(0, 2), Dim(2, 2), Dim(-1, 2)>>, [j \in 1..8 |-> I(j)], NoSort, 3),
   Start(1, 1, <<Dim(3, 1), Dim(0, 3)>>, <<I(3), I(1), I(2)>>, NoSort, 3)}
  \cup Vector(4, {S(1), I(1), R(1), R(9)}) \cup Vector(3, {I(2), D(1), D(2), D(3)})
Tab == INSTANCE Tables WITH
         Keys <- MCKeys, Values <- MCVals, Null <- MCNull, NaN <- 9, EXTSIZ <- 2, Starts <- MCStarts,
         Subscripts <- MCSubscripts, Columns <- MCColumns, Field <- MCField, MaxOps <- MCMaxOps, Careless <- FALSE

ProgramsInit ==
  \/ AllInit /\ Tab!InitFrom(NewTable)
  \/ /\ half = "data" /\ Tab!Init /\ program = <<>> /\ i = 0 /\ m = <<>> /\ pc = "idle" /\ step = "idle"
     /\ source = <<>> /\ plus = FALSE /\ text = <<>> /\ tree = <<>> /\ stack = <<>> /\ part = "" /\ kept = <<>>
     /\ ELEMND = 0 /\ EXELND = 0 /\ EXPRND = 0 /\ EXOPND = 0 /\ todo = <<>> /\ code = <<>>
ProgramsNext ==
  \/ AllNext /\ UNCHANGED data
  \/ half = "data" /\ Tab!Next /\ UNCHANGED <<half, vars, expressions>>
ProgramsSpec == ProgramsInit /\ [][ProgramsNext]_<<half, vars, expressions, data>>

\* Tables, arrays and sorting are as they are meant.
TablesAsMeant == Tab!AsMeant
=============================================================================
