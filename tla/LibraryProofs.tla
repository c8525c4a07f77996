--------------------------- MODULE LibraryProofs ---------------------------
(***************************************************************************)
(* External functions: the libraries that are open are those in use, and a *)
(* call calls what its name was defined as.                                *)
(***************************************************************************)
EXTENDS Libraries, FiniteSetTheorems, SequenceTheorems, TLAPS

Files  == {FileOf[l] : l \in Libs} \ {Missing}
Funcs  == [at : Places, name : Functions, file : Files \cup {NoLib}]
Lib    == [name : Libs, file : Files, refs : Nat]
Def    == {Undefined, InProgram} \cup [is : {"external"}, at : Places, name : Functions, file : Files \cup {NoLib}]
Types  == /\ funcs \in Seq(Funcs) /\ libs \in Seq(Lib)
          /\ opened \in [Files -> Nat] /\ def \in [Functions -> Def]

\* A library is found by its name or by its file, which comes to the same.
OneName == \A i \in DOMAIN libs : libs[i].file = FileOf[libs[i].name]
OneFile == \A i, j \in DOMAIN libs : libs[i].file = libs[j].file => i = j
\* The functions of a file, and how the libraries count them.
Hits(s, file) == {k \in DOMAIN s : s[k].file = file}
Uses(s, file) == Cardinality(Hits(s, file))
Open(ls, file) == \E i \in DOMAIN ls : ls[i].file = file
Refs   == \A i \in DOMAIN libs : libs[i].refs > 0 /\ libs[i].refs = Uses(funcs, libs[i].file)
Once   == \A file \in Files : opened[file] = IF Open(libs, file) THEN 1 ELSE 0
Held   == \A k \in DOMAIN funcs : funcs[k].file # NoLib => Open(libs, funcs[k].file)
\* What a name was defined as is what is at its place, if anything is.
Linkage == \A f \in Functions : def[f].is = "external" =>
             \A i \in DOMAIN funcs : funcs[i].at = def[f].at => funcs[i].name = def[f].name

IInv == Types /\ OneName /\ OneFile /\ Refs /\ Once /\ Held

------------------------------------------------------------------------------
\* An element less: the others keep their order.
LEMMA Removing ==
  ASSUME NEW S, NEW s \in Seq(S), NEW i \in DOMAIN s, NEW t, t = Without(s, i)
  PROVE  /\ t \in Seq(S) /\ Len(t) = Len(s) - 1
         /\ \A k \in DOMAIN t : t[k] = IF k < i THEN s[k] ELSE s[k + 1]
         /\ \A k \in DOMAIN s : k < i => k \in DOMAIN t /\ t[k] = s[k]
         /\ \A k \in DOMAIN s : k > i => k - 1 \in DOMAIN t /\ t[k - 1] = s[k]
<1>1. i \in 1..Len(s) /\ DOMAIN s = 1..Len(s) /\ Len(s) \in Nat OBVIOUS
<1> DEFINE a == SubSeq(s, 1, i - 1)
           b == SubSeq(s, i + 1, Len(s))
<1>2. a \in Seq(S) /\ Len(a) = i - 1 /\ \A k \in 1..i - 1 : a[k] = s[k] BY <1>1, SubSeqProperties
<1>3. b \in Seq(S) /\ Len(b) = Len(s) - i /\ \A k \in 1..Len(s) - i : b[k] = s[i + k] BY <1>1, SubSeqProperties
<1>4. t = a \o b BY DEF Without, RemoveAt
<1> HIDE DEF a, b
<1>5. /\ t \in Seq(S) /\ Len(t) = Len(a) + Len(b)
      /\ \A k \in 1..Len(a) + Len(b) : t[k] = IF k <= Len(a) THEN a[k] ELSE b[k - Len(a)]
  <2>1. /\ a \o b \in Seq(S) /\ Len(a \o b) = Len(a) + Len(b)
        /\ \A k \in 1..Len(a) + Len(b) : (a \o b)[k] = IF k <= Len(a) THEN a[k] ELSE b[k - Len(a)]
    <3> HIDE <1>1, <1>4
    <3> QED BY <1>2, <1>3, ConcatProperties
  <2> QED BY <1>4, <2>1
<1>6. DOMAIN t = 1..Len(s) - 1 /\ Len(t) = Len(s) - 1 BY <1>1, <1>2, <1>3, <1>5
<1>7. ASSUME NEW k \in 1..Len(s) - 1 PROVE t[k] = IF k < i THEN s[k] ELSE s[k + 1]
  <2>1. CASE k < i BY <1>1, <1>2, <1>3, <1>5, <2>1
  <2>2. CASE k >= i
    <3>1. t[k] = b[k - (i - 1)] BY <1>1, <1>2, <1>3, <1>5, <2>2
    <3>2. k - (i - 1) \in 1..Len(s) - i BY <1>1, <2>2
    <3>3. b[k - (i - 1)] = s[i + (k - (i - 1))] BY <1>3, <3>2
    <3>4. i + (k - (i - 1)) = k + 1 BY <1>1
    <3> QED BY <1>1, <2>2, <3>1, <3>3, <3>4
  <2> QED BY <1>1, <2>1, <2>2
<1>8. ASSUME NEW k \in DOMAIN s, k > i PROVE k - 1 \in DOMAIN t /\ t[k - 1] = s[k]
  <2>1. k - 1 \in 1..Len(s) - 1 /\ ~(k - 1 < i) /\ (k - 1) + 1 = k BY <1>1, <1>8
  <2> QED BY <1>6, <1>7, <2>1
<1>9. ASSUME NEW k \in DOMAIN s, k < i PROVE k \in DOMAIN t /\ t[k] = s[k]
  <2>1. k \in 1..Len(s) - 1 BY <1>1, <1>9
  <2> QED BY <1>6, <1>7, <1>9, <2>1
<1> QED BY <1>5, <1>6, <1>7, <1>8, <1>9

\* Counting the elements of a list with a file.
LEMMA CountType ==
  ASSUME NEW S, NEW s \in Seq(S), NEW file
  PROVE  IsFiniteSet(Hits(s, file)) /\ Uses(s, file) \in Nat /\ (Uses(s, file) = 0 <=> Hits(s, file) = {})
<1>1. IsFiniteSet(DOMAIN s) BY FS_Interval
<1>2. Hits(s, file) \in SUBSET DOMAIN s BY DEF Hits
<1>3. IsFiniteSet(Hits(s, file)) BY <1>1, <1>2, FS_Subset
<1> QED BY <1>3, FS_CardinalityType, FS_EmptySet DEF Uses

LEMMA CountLess ==
  ASSUME NEW S, NEW s \in Seq(S), NEW i \in DOMAIN s, NEW file, NEW t, t = Without(s, i)
  PROVE  Uses(s, file) = Uses(t, file) + (IF s[i].file = file THEN 1 ELSE 0)
<1>1. /\ t \in Seq(S) /\ Len(t) = Len(s) - 1
      /\ \A k \in DOMAIN t : t[k] = IF k < i THEN s[k] ELSE s[k + 1]
      /\ \A k \in DOMAIN s : k < i => k \in DOMAIN t /\ t[k] = s[k]
      /\ \A k \in DOMAIN s : k > i => k - 1 \in DOMAIN t /\ t[k - 1] = s[k]
  BY Removing
<1>2. i \in 1..Len(s) /\ DOMAIN s = 1..Len(s) /\ Len(s) \in Nat /\ DOMAIN t = 1..Len(s) - 1 BY <1>1
<1> DEFINE H == Hits(s, file) \ {i}
           T == Hits(t, file)
           f == [k \in H |-> IF k < i THEN k ELSE k - 1]
<1>3. IsFiniteSet(H) /\ Cardinality(H) = IF s[i].file = file THEN Uses(s, file) - 1 ELSE Uses(s, file)
  <2>1. i \in Hits(s, file) <=> s[i].file = file BY DEF Hits
  <2> QED BY <2>1, CountType, FS_RemoveElement DEF Uses
<1>4. f \in [H -> T]
  <2> SUFFICES ASSUME NEW k \in H PROVE (IF k < i THEN k ELSE k - 1) \in T OBVIOUS
  <2>1. k \in DOMAIN s /\ s[k].file = file /\ k # i BY DEF Hits
  <2>2. k < i \/ k > i BY <1>2, <2>1
  <2> QED BY <1>1, <1>2, <2>1, <2>2 DEF Hits
<1>5. ASSUME NEW k \in H, NEW l \in H, f[k] = f[l] PROVE k = l
  <2>1. k \in 1..Len(s) /\ l \in 1..Len(s) /\ k # i /\ l # i BY <1>2 DEF Hits
  <2> QED BY <1>2, <1>5, <2>1
<1>6. ASSUME NEW j \in T PROVE \E k \in H : f[k] = j
  <2>1. j \in DOMAIN t /\ t[j].file = file BY DEF Hits
  <2>2. CASE j < i
    <3>1. j \in H BY <1>1, <1>2, <2>1, <2>2 DEF Hits
    <3> QED BY <2>2, <3>1
  <2>3. CASE j >= i
    <3>1. t[j] = s[j + 1] /\ j + 1 \in DOMAIN s /\ j + 1 > i BY <1>1, <1>2, <2>1, <2>3
    <3>2. j + 1 \in H BY <1>2, <2>1, <3>1 DEF Hits
    <3>3. f[j + 1] = j BY <1>2, <2>1, <3>1, <3>2
    <3> QED BY <3>2, <3>3
  <2> QED BY <1>2, <2>1, <2>2, <2>3
<1>7. ExistsBijection(H, T)
  <2> HIDE DEF H, T, f
  <2>1. f \in Bijection(H, T) BY <1>4, <1>5, <1>6 DEF Bijection, Injection, Surjection, IsInjective
  <2> QED BY <2>1 DEF ExistsBijection
<1>8. Cardinality(T) = Cardinality(H)
  <2> HIDE DEF H, T
  <2> QED BY <1>3, <1>7, FS_Bijection
<1>9. Uses(s, file) \in Nat BY CountType
<1> QED BY <1>3, <1>8, <1>9 DEF Uses

\* An element more at the head: the others follow it.
LEMMA Prepending ==
  ASSUME NEW S, NEW s \in Seq(S), NEW x \in S, NEW t, t = <<x>> \o s
  PROVE  /\ t \in Seq(S) /\ Len(t) = Len(s) + 1 /\ t[1] = x
         /\ \A k \in DOMAIN s : k + 1 \in DOMAIN t /\ t[k + 1] = s[k]
         /\ \A k \in DOMAIN t : k = 1 \/ (k - 1 \in DOMAIN s /\ t[k] = s[k - 1])
<1>1. <<x>> \in Seq(S) /\ Len(<<x>>) = 1 /\ <<x>>[1] = x OBVIOUS
<1>2. /\ t \in Seq(S) /\ Len(t) = 1 + Len(s)
      /\ \A k \in 1..1 + Len(s) : t[k] = IF k <= 1 THEN <<x>>[k] ELSE s[k - 1]
  <2>1. PICK a \in Seq(S) : a = <<x>> /\ Len(a) = 1 BY <1>1
  <2>2. /\ a \o s \in Seq(S) /\ Len(a \o s) = Len(a) + Len(s)
        /\ \A k \in 1..Len(a) + Len(s) : (a \o s)[k] = IF k <= Len(a) THEN a[k] ELSE s[k - Len(a)]
    BY ConcatProperties
  <2> QED BY <2>1, <2>2
<1>3. DOMAIN s = 1..Len(s) /\ DOMAIN t = 1..Len(s) + 1 /\ Len(s) \in Nat BY <1>2
<1>4. t[1] = x BY <1>1, <1>2, <1>3
<1>5. \A k \in DOMAIN s : k + 1 \in DOMAIN t /\ t[k + 1] = s[k] BY <1>2, <1>3
<1>6. \A k \in DOMAIN t : k = 1 \/ (k - 1 \in DOMAIN s /\ t[k] = s[k - 1]) BY <1>2, <1>3
<1> QED BY <1>2, <1>3, <1>4, <1>5, <1>6

\* To remove it gives the list back.
LEMMA TakenBack ==
  ASSUME NEW S, NEW s \in Seq(S), NEW t \in Seq(S), NEW i \in DOMAIN t, i = 1,
         Len(t) = Len(s) + 1, \A k \in DOMAIN s : k + 1 \in DOMAIN t /\ t[k + 1] = s[k]
  PROVE  Without(t, i) = s
<1>1. PICK u : u = Without(t, i) OBVIOUS
<1>2. /\ u \in Seq(S) /\ Len(u) = Len(t) - 1
      /\ \A k \in DOMAIN t : k > i => k - 1 \in DOMAIN u /\ u[k - 1] = t[k]
  BY <1>1, Removing
<1>4. DOMAIN u = 1..Len(s) /\ DOMAIN s = 1..Len(s) /\ Len(u) = Len(s) BY <1>2
<1>5. ASSUME NEW k \in 1..Len(s) PROVE u[k] = s[k]
  <2>1. k + 1 \in DOMAIN t /\ k + 1 > i /\ (k + 1) - 1 = k /\ t[k + 1] = s[k] BY <1>4
  <2> QED BY <1>2, <2>1
<1>6. u = s BY <1>2, <1>4, <1>5
<1> QED BY <1>1, <1>6

LEMMA CountMore ==
  ASSUME NEW S, NEW s \in Seq(S), NEW x \in S, NEW file
  PROVE  Uses(<<x>> \o s, file) = Uses(s, file) + (IF x.file = file THEN 1 ELSE 0)
<1>1. PICK t \in Seq(S) : t = <<x>> \o s
  <2>1. <<x>> \o s \in Seq(S) /\ Len(<<x>> \o s) = Len(s) + 1 BY Prepending
  <2> QED BY <2>1
<1>2. /\ Len(t) = Len(s) + 1 /\ t[1] = x
      /\ \A k \in DOMAIN s : k + 1 \in DOMAIN t /\ t[k + 1] = s[k]
  BY <1>1, Prepending
<1>3. PICK i \in DOMAIN t : i = 1
  <2>1. 1 \in 1..Len(t) BY <1>2
  <2> QED BY <2>1
<1>4. Without(t, i) = s BY <1>2, <1>3, TakenBack
<1>5. t[i] = x BY <1>2, <1>3
<1>6. Uses(t, file) = Uses(s, file) + (IF t[i].file = file THEN 1 ELSE 0) BY <1>4, CountLess
<1> QED BY <1>1, <1>5, <1>6

------------------------------------------------------------------------------
\* The library found, and one that is not found: by its file in both cases.
LEMMA Found ==
  ASSUME Types, OneName, NEW l \in Libs, Known(l) # {}, NEW i, i = CHOOSE j \in Known(l) : TRUE
  PROVE  i \in DOMAIN libs /\ libs[i].file = FileOf[l] /\ FileOf[l] \in Files /\ FileAt(l) = FileOf[l]
<1>1. i \in Known(l) OBVIOUS
<1>2. i \in DOMAIN libs /\ libs[i].file = FileOf[l] BY <1>1 DEF Known, ByName, ByFile, OneName
<1>3. libs[i] \in Lib BY <1>2 DEF Types
<1> QED BY <1>2, <1>3 DEF Lib, FileAt

LEMMA NotFound ==
  ASSUME NEW l \in Libs, Known(l) = {}
  PROVE  ~Open(libs, FileOf[l]) /\ FileAt(l) = FileOf[l]
BY DEF Known, ByName, ByFile, Open, FileAt

\* One use more or less of a library.
LEMMA Changing ==
  ASSUME NEW ls \in Seq(Lib), NEW i \in DOMAIN ls, NEW n \in Nat, NEW t, t = [ls EXCEPT ![i].refs = n]
  PROVE  /\ t \in Seq(Lib) /\ DOMAIN t = DOMAIN ls /\ Len(t) = Len(ls)
         /\ \A k \in DOMAIN ls : t[k].file = ls[k].file /\ t[k].name = ls[k].name
         /\ t[i].refs = n /\ \A k \in DOMAIN ls : k # i => t[k] = ls[k]
         /\ \A file : Open(t, file) <=> Open(ls, file)
<1>1. \A k \in DOMAIN ls : ls[k] \in Lib OBVIOUS
<1>2. t = [k \in DOMAIN ls |-> IF k = i THEN [ls[i] EXCEPT !.refs = n] ELSE ls[k]] OBVIOUS
<1>3. [ls[i] EXCEPT !.refs = n] \in Lib BY <1>1 DEF Lib
<1>4. DOMAIN t = 1..Len(ls) /\ \A k \in DOMAIN ls : t[k] \in Lib BY <1>1, <1>2, <1>3
<1>5. t \in Seq(Lib) /\ Len(t) = Len(ls) BY <1>2, <1>4
<1>6. /\ \A k \in DOMAIN ls : t[k].file = ls[k].file /\ t[k].name = ls[k].name
      /\ t[i].refs = n /\ \A k \in DOMAIN ls : k # i => t[k] = ls[k]
  BY <1>1, <1>2 DEF Lib
<1> QED BY <1>2, <1>5, <1>6 DEF Open

\* A library opened and closed again: as before.
LEMMA OpenedClosed ==
  ASSUME Types, OneName, OneFile, Refs, NEW l \in Libs, Known(l) # {} \/ FileOf[l] # Missing
  PROVE  Closed(Opened(l), FileAt(l)) = libs /\ DlClosed(DlOpened(l), Opened(l), FileAt(l)) = opened
<1>1. CASE Known(l) # {}
  <2>1. PICK i : i = CHOOSE j \in Known(l) : TRUE OBVIOUS
  <2>2. i \in DOMAIN libs /\ libs[i].file = FileOf[l] /\ FileAt(l) = FileOf[l] BY <1>1, <2>1, Found
  <2>3. libs \in Seq(Lib) /\ \A k \in DOMAIN libs : libs[k] \in Lib BY DEF Types
  <2>4. libs[i].refs \in Nat /\ libs[i].refs > 0 BY <2>2, <2>3 DEF Refs, Lib
  <2>5. PICK t : t = Opened(l) OBVIOUS
  <2>6. t = [libs EXCEPT ![i].refs = libs[i].refs + 1] BY <1>1, <2>1, <2>5 DEF Opened
  <2>7. /\ t \in Seq(Lib) /\ DOMAIN t = DOMAIN libs /\ t[i].refs = libs[i].refs + 1
        /\ \A k \in DOMAIN libs : t[k].file = libs[k].file
    <3>1. PICK j \in DOMAIN libs, n \in Nat : j = i /\ n = libs[i].refs + 1 BY <2>2, <2>4
    <3>2. t = [libs EXCEPT ![j].refs = n] BY <2>6, <3>1
    <3>3. /\ t \in Seq(Lib) /\ DOMAIN t = DOMAIN libs /\ t[j].refs = n
          /\ \A k \in DOMAIN libs : t[k].file = libs[k].file
      BY <2>3, <3>2, Changing
    <3> QED BY <3>1, <3>3
  <2>8. OfFile(t, FileOf[l]) = i BY <2>2, <2>7 DEF OfFile, OneFile
  <2>9. Closed(t, FileOf[l]) = [t EXCEPT ![i].refs = t[i].refs - 1]
    <3>1. t[i].refs > 1 BY <2>4, <2>7
    <3> QED BY <2>8, <3>1 DEF Closed
  <2>10. [t EXCEPT ![i].refs = t[i].refs - 1] = libs
    <3>1. t[i].refs - 1 = libs[i].refs BY <2>4, <2>7
    <3>2. ASSUME NEW r \in Lib, NEW n PROVE r = [[r EXCEPT !.refs = n] EXCEPT !.refs = r.refs] BY DEF Lib
    <3>3. libs = [k \in DOMAIN libs |-> libs[k]] BY <2>3
    <3>4. libs[i] = [[libs[i] EXCEPT !.refs = libs[i].refs + 1] EXCEPT !.refs = libs[i].refs] BY <2>2, <2>3, <3>2
    <3> QED BY <2>2, <2>6, <3>1, <3>3, <3>4
  <2>11. DlClosed(DlOpened(l), t, FileOf[l]) = opened BY <1>1, <2>2, <2>4, <2>7 DEF DlClosed, DlOpened
  <2> QED BY <2>2, <2>5, <2>9, <2>10, <2>11
<1>2. CASE Known(l) = {}
  <2>1. ~Open(libs, FileOf[l]) /\ FileAt(l) = FileOf[l] /\ FileOf[l] \in Files BY <1>2, NotFound DEF Files
  <2>2. PICK x : x = [name |-> l, file |-> FileOf[l], refs |-> 1] OBVIOUS
  <2>3. x \in Lib /\ libs \in Seq(Lib) BY <2>1, <2>2 DEF Lib, Types
  <2>4. PICK t : t = <<x>> \o libs OBVIOUS
  <2>5. t = Opened(l) BY <1>2, <2>2, <2>4 DEF Opened
  <2>6. /\ t \in Seq(Lib) /\ Len(t) = Len(libs) + 1 /\ t[1] = x
        /\ \A k \in DOMAIN libs : k + 1 \in DOMAIN t /\ t[k + 1] = libs[k]
        /\ \A k \in DOMAIN t : k = 1 \/ (k - 1 \in DOMAIN libs /\ t[k] = libs[k - 1])
    BY <2>3, <2>4, Prepending
  <2>7. 1 \in DOMAIN t /\ Len(libs) \in Nat
    <3>1. Len(libs) \in Nat /\ DOMAIN t = 1..Len(t) BY <2>3, <2>6
    <3> QED BY <2>6, <3>1
  <2>8. \A k \in DOMAIN t : t[k].file = FileOf[l] <=> k = 1 BY <2>1, <2>2, <2>6 DEF Open
  <2>9. OfFile(t, FileOf[l]) = 1 BY <2>7, <2>8 DEF OfFile
  <2>10. Closed(t, FileOf[l]) = Without(t, 1) BY <2>2, <2>6, <2>9 DEF Closed
  <2>11. Without(t, 1) = libs
    <3>1. PICK i \in DOMAIN t : i = 1 BY <2>7
    <3> QED BY <2>3, <2>6, <3>1, TakenBack
  <2>12. DlClosed(DlOpened(l), t, FileOf[l]) = opened
    <3>1. DlClosed(DlOpened(l), t, FileOf[l]) = [[opened EXCEPT ![FileOf[l]] = opened[FileOf[l]] + 1] EXCEPT ![FileOf[l]] = (opened[FileOf[l]] + 1) - 1]
      BY <1>2, <2>1, <2>2, <2>6, <2>8 DEF DlClosed, DlOpened, Types
    <3>2. (opened[FileOf[l]] + 1) - 1 = opened[FileOf[l]] BY <2>1 DEF Types
    <3>3. opened = [file \in Files |-> opened[file]] BY DEF Types
    <3> QED BY <2>1, <3>1, <3>2, <3>3
  <2> QED BY <2>1, <2>5, <2>10, <2>11, <2>12
<1> QED BY <1>1, <1>2

\* The functions when one is loaded and when one is freed.
LEMMA Loading ==
  ASSUME Types, NEW x \in Funcs, NEW fs, fs = <<x>> \o funcs
  PROVE  /\ fs \in Seq(Funcs)
         /\ \A file : Uses(fs, file) = Uses(funcs, file) + (IF x.file = file THEN 1 ELSE 0)
         /\ \A k \in DOMAIN fs : fs[k] = x \/ \E j \in DOMAIN funcs : fs[k] = funcs[j]
<1>1. funcs \in Seq(Funcs) BY DEF Types
<1>2. /\ fs \in Seq(Funcs) /\ fs[1] = x
      /\ \A k \in DOMAIN fs : k = 1 \/ (k - 1 \in DOMAIN funcs /\ fs[k] = funcs[k - 1])
  BY <1>1, Prepending
<1>3. \A file : Uses(fs, file) = Uses(funcs, file) + (IF x.file = file THEN 1 ELSE 0) BY <1>1, CountMore
<1> QED BY <1>2, <1>3

LEMMA Freeing ==
  ASSUME Types, NEW i \in DOMAIN funcs, NEW fs, fs = Without(funcs, i)
  PROVE  /\ fs \in Seq(Funcs)
         /\ \A file : Uses(funcs, file) = Uses(fs, file) + (IF funcs[i].file = file THEN 1 ELSE 0)
         /\ \A k \in DOMAIN fs : \E j \in DOMAIN funcs : fs[k] = funcs[j]
<1>1. funcs \in Seq(Funcs) BY DEF Types
<1>2. /\ fs \in Seq(Funcs) /\ Len(fs) = Len(funcs) - 1
      /\ \A k \in DOMAIN fs : fs[k] = IF k < i THEN funcs[k] ELSE funcs[k + 1]
  BY <1>1, Removing
<1>3. \A file : Uses(funcs, file) = Uses(fs, file) + (IF funcs[i].file = file THEN 1 ELSE 0) BY <1>1, CountLess
<1>4. ASSUME NEW k \in DOMAIN fs PROVE \E j \in DOMAIN funcs : fs[k] = funcs[j]
  <2>1. k \in DOMAIN funcs /\ k + 1 \in DOMAIN funcs BY <1>1, <1>2
  <2> QED BY <1>2, <2>1
<1> QED BY <1>2, <1>3, <1>4

LEMMA UsesType ==
  ASSUME Types, NEW file
  PROVE  Uses(funcs, file) \in Nat /\ (Uses(funcs, file) = 0 <=> \A k \in DOMAIN funcs : funcs[k].file # file)
<1>1. funcs \in Seq(Funcs) BY DEF Types
<1> QED BY <1>1, CountType DEF Hits

\* LOAD of one function more from a library, known or not.
LEMMA LoadKeeps ==
  ASSUME IInv, NEW l \in Libs, NEW x \in Funcs, Known(l) # {} \/ FileOf[l] # Missing, x.file = FileAt(l)
  PROVE  /\ funcs' = <<x>> \o funcs /\ libs' = Opened(l) /\ opened' = DlOpened(l)
         /\ def' \in [Functions -> Def]
         => IInv'
<1>0. SUFFICES ASSUME funcs' = <<x>> \o funcs, libs' = Opened(l), opened' = DlOpened(l), def' \in [Functions -> Def]
               PROVE  IInv'
  OBVIOUS
<1>1. /\ funcs' \in Seq(Funcs)
      /\ \A file : Uses(funcs', file) = Uses(funcs, file) + (IF x.file = file THEN 1 ELSE 0)
      /\ \A k \in DOMAIN funcs' : funcs'[k] = x \/ \E j \in DOMAIN funcs : funcs'[k] = funcs[j]
  <2>1. ASSUME NEW fs, fs = <<x>> \o funcs
        PROVE  /\ fs \in Seq(Funcs)
               /\ \A file : Uses(fs, file) = Uses(funcs, file) + (IF x.file = file THEN 1 ELSE 0)
               /\ \A k \in DOMAIN fs : fs[k] = x \/ \E j \in DOMAIN funcs : fs[k] = funcs[j]
    <3>1. Types BY DEF IInv
    <3>2. fs \in Seq(Funcs) BY <2>1, <3>1, Loading
    <3>3. \A file : Uses(fs, file) = Uses(funcs, file) + (IF x.file = file THEN 1 ELSE 0) BY <2>1, <3>1, Loading
    <3>4. \A k \in DOMAIN fs : fs[k] = x \/ \E j \in DOMAIN funcs : fs[k] = funcs[j] BY <2>1, <3>1, Loading
    <3> QED BY <3>2, <3>3, <3>4
  <2> QED BY <1>0, <2>1
<1>2. \A file : Uses(funcs, file) \in Nat BY UsesType DEF IInv
<1>3. libs \in Seq(Lib) /\ \A k \in DOMAIN libs : libs[k] \in Lib BY DEF IInv, Types
<1>4. CASE Known(l) # {}
  <2>1. PICK i : i = CHOOSE j \in Known(l) : TRUE OBVIOUS
  <2>2. i \in DOMAIN libs /\ libs[i].file = FileOf[l] /\ FileAt(l) = FileOf[l] /\ FileOf[l] \in Files
    BY <1>4, <2>1, Found DEF IInv
  <2>3. PICK j \in DOMAIN libs, n \in Nat : j = i /\ n = libs[i].refs + 1 BY <1>3, <2>2 DEF Lib
  <2>4. libs' = [libs EXCEPT ![j].refs = n] /\ opened' = opened BY <1>0, <1>4, <2>1, <2>3 DEF Opened, DlOpened
  <2>5. /\ libs' \in Seq(Lib) /\ DOMAIN libs' = DOMAIN libs /\ libs'[j].refs = n
        /\ \A k \in DOMAIN libs : libs'[k].file = libs[k].file /\ libs'[k].name = libs[k].name
        /\ \A k \in DOMAIN libs : k # j => libs'[k] = libs[k]
        /\ \A file : Open(libs', file) <=> Open(libs, file)
    <3>1. ASSUME NEW t, t = [libs EXCEPT ![j].refs = n]
          PROVE  /\ t \in Seq(Lib) /\ DOMAIN t = DOMAIN libs /\ t[j].refs = n
                 /\ \A k \in DOMAIN libs : t[k].file = libs[k].file /\ t[k].name = libs[k].name
                 /\ \A k \in DOMAIN libs : k # j => t[k] = libs[k]
                 /\ \A file : Open(t, file) <=> Open(libs, file)
      <4>1. t \in Seq(Lib) /\ DOMAIN t = DOMAIN libs /\ t[j].refs = n BY <1>3, <3>1, Changing
      <4>2. \A k \in DOMAIN libs : t[k].file = libs[k].file /\ t[k].name = libs[k].name BY <1>3, <3>1, Changing
      <4>3. \A k \in DOMAIN libs : k # j => t[k] = libs[k] BY <1>3, <3>1, Changing
      <4>4. \A file : Open(t, file) <=> Open(libs, file) BY <4>1, <4>2 DEF Open
      <4> QED BY <4>1, <4>2, <4>3, <4>4
    <3> QED BY <2>4, <3>1
  <2>6. Types' BY <1>0, <1>1, <2>4, <2>5 DEF Types, IInv
  <2>7. OneName' /\ OneFile' BY <2>5 DEF OneName, OneFile, IInv
  <2>8. Refs'
    <3> SUFFICES ASSUME NEW k \in DOMAIN libs PROVE libs'[k].refs > 0 /\ libs'[k].refs = Uses(funcs', libs'[k].file)
      BY <2>5 DEF Refs
    <3>1. libs[k].refs \in Nat /\ libs[k].refs > 0 /\ libs[k].refs = Uses(funcs, libs[k].file)
      BY <1>3 DEF Lib, Refs, IInv
    <3>2. CASE k = j BY <1>1, <2>2, <2>3, <2>5, <3>1, <3>2
    <3>3. CASE k # j
      <4>1. libs[k].file # x.file BY <2>2, <2>3, <3>3 DEF OneFile, IInv
      <4>2. Uses(funcs', libs[k].file) = Uses(funcs, libs[k].file) BY <1>1, <1>2, <4>1
      <4> QED BY <2>5, <3>1, <3>3, <4>2
    <3> QED BY <3>2, <3>3
  <2>9. Once' BY <2>4, <2>5 DEF Once, IInv
  <2>10. Open(libs, x.file) BY <2>2 DEF Open
  <2>11. Held' BY <1>1, <2>5, <2>10 DEF Held, IInv
  <2> QED BY <2>6, <2>7, <2>8, <2>9, <2>11 DEF IInv
<1>5. CASE Known(l) = {}
  <2>1. ~Open(libs, FileOf[l]) /\ FileAt(l) = FileOf[l] /\ FileOf[l] \in Files BY <1>5, NotFound DEF Files
  <2>2. PICK y : y = [name |-> l, file |-> FileOf[l], refs |-> 1] OBVIOUS
  <2>3. y \in Lib BY <2>1, <2>2 DEF Lib
  <2>4. libs' = <<y>> \o libs /\ opened' = [opened EXCEPT ![FileOf[l]] = opened[FileOf[l]] + 1]
    BY <1>0, <1>5, <2>2 DEF Opened, DlOpened
  <2>5. /\ libs' \in Seq(Lib) /\ Len(libs') = Len(libs) + 1 /\ libs'[1] = y
        /\ \A k \in DOMAIN libs : k + 1 \in DOMAIN libs' /\ libs'[k + 1] = libs[k]
        /\ \A k \in DOMAIN libs' : k = 1 \/ (k - 1 \in DOMAIN libs /\ libs'[k] = libs[k - 1])
    BY <1>3, <2>3, <2>4, Prepending
  <2>6. 1 \in DOMAIN libs'
    <3>1. Len(libs) \in Nat /\ DOMAIN libs' = 1..Len(libs') BY <1>3, <2>5
    <3> QED BY <2>5, <3>1
  <2>7. \A file : Open(libs', file) <=> Open(libs, file) \/ file = FileOf[l]
    <3>1. \A file : Open(libs, file) \/ file = FileOf[l] => Open(libs', file) BY <2>2, <2>5, <2>6 DEF Open
    <3>2. \A file : Open(libs', file) => Open(libs, file) \/ file = FileOf[l] BY <2>2, <2>5 DEF Open
    <3> QED BY <3>1, <3>2
  <2>8. Types'
    <3>1. opened' \in [Files -> Nat] BY <2>1, <2>4 DEF Types, IInv
    <3> QED BY <1>0, <1>1, <2>5, <3>1 DEF Types
  <2>9. OneName' BY <2>2, <2>5 DEF OneName, IInv
  <2>10. OneFile'
    <3> SUFFICES ASSUME NEW a \in DOMAIN libs', NEW b \in DOMAIN libs', libs'[a].file = libs'[b].file PROVE a = b
      BY DEF OneFile
    <3>1. CASE a = 1 BY <2>1, <2>2, <2>5, <3>1 DEF Open
    <3>2. CASE b = 1 BY <2>1, <2>2, <2>5, <3>2 DEF Open
    <3>3. CASE a # 1 /\ b # 1
      <4>1. a - 1 = b - 1 BY <2>5, <3>3 DEF OneFile, IInv
      <4>2. a \in Nat /\ b \in Nat BY <2>5
      <4> QED BY <4>1, <4>2
    <3> QED BY <3>1, <3>2, <3>3
  <2>11. Uses(funcs, FileOf[l]) = 0
    <3>1. \A k \in DOMAIN funcs : funcs[k].file # FileOf[l] BY <2>1 DEF Held, IInv, Files, NoLib
    <3> QED BY <3>1, UsesType DEF IInv
  <2>12. Refs'
    <3> SUFFICES ASSUME NEW k \in DOMAIN libs' PROVE libs'[k].refs > 0 /\ libs'[k].refs = Uses(funcs', libs'[k].file)
      BY DEF Refs
    <3>1. CASE k = 1 BY <1>1, <2>1, <2>2, <2>5, <2>11, <3>1
    <3>2. CASE k # 1
      <4>1. k - 1 \in DOMAIN libs /\ libs'[k] = libs[k - 1] BY <2>5, <3>2
      <4>2. libs'[k].file # x.file BY <2>1, <4>1 DEF Open
      <4>3. Uses(funcs', libs'[k].file) = Uses(funcs, libs'[k].file) BY <1>1, <1>2, <4>2
      <4> QED BY <4>1, <4>3 DEF Refs, IInv
    <3> QED BY <3>1, <3>2
  <2>13. Once'
    <3> SUFFICES ASSUME NEW file \in Files PROVE opened'[file] = IF Open(libs', file) THEN 1 ELSE 0 BY DEF Once
    <3>1. opened[file] = IF Open(libs, file) THEN 1 ELSE 0 BY DEF Once, IInv
    <3>2. opened'[file] = IF file = FileOf[l] THEN opened[file] + 1 ELSE opened[file] BY <2>4 DEF Types, IInv
    <3> QED BY <2>1, <2>7, <3>1, <3>2
  <2>14. Held' BY <1>1, <2>1, <2>7 DEF Held, IInv
  <2> QED BY <2>8, <2>9, <2>10, <2>12, <2>13, <2>14 DEF IInv
<1> QED BY <1>4, <1>5

\* UNLOAD of a function frees it and one use of its library.
LEMMA UnloadKeeps ==
  ASSUME IInv, NEW i \in DOMAIN funcs, funcs[i].file # NoLib
  PROVE  /\ funcs' = Without(funcs, i) /\ libs' = Closed(libs, funcs[i].file)
         /\ opened' = DlClosed(opened, libs, funcs[i].file) /\ def' \in [Functions -> Def]
         => IInv'
<1>0. SUFFICES ASSUME funcs' = Without(funcs, i), libs' = Closed(libs, funcs[i].file),
                      opened' = DlClosed(opened, libs, funcs[i].file), def' \in [Functions -> Def]
               PROVE  IInv'
  OBVIOUS
<1>1. PICK file : file = funcs[i].file OBVIOUS
<1>2. /\ funcs' \in Seq(Funcs)
      /\ \A g : Uses(funcs, g) = Uses(funcs', g) + (IF file = g THEN 1 ELSE 0)
      /\ \A k \in DOMAIN funcs' : \E j \in DOMAIN funcs : funcs'[k] = funcs[j]
  <2>1. ASSUME NEW fs, fs = Without(funcs, i)
        PROVE  /\ fs \in Seq(Funcs)
               /\ \A g : Uses(funcs, g) = Uses(fs, g) + (IF funcs[i].file = g THEN 1 ELSE 0)
               /\ \A k \in DOMAIN fs : \E j \in DOMAIN funcs : fs[k] = funcs[j]
    <3>1. Types BY DEF IInv
    <3>2. fs \in Seq(Funcs) BY <2>1, <3>1, Freeing
    <3>3. \A g : Uses(funcs, g) = Uses(fs, g) + (IF funcs[i].file = g THEN 1 ELSE 0) BY <2>1, <3>1, Freeing
    <3>4. \A k \in DOMAIN fs : \E j \in DOMAIN funcs : fs[k] = funcs[j] BY <2>1, <3>1, Freeing
    <3> QED BY <3>2, <3>3, <3>4
  <2> QED BY <1>0, <1>1, <2>1
<1>3. libs \in Seq(Lib) /\ \A k \in DOMAIN libs : libs[k] \in Lib BY DEF IInv, Types
<1>4. PICK j \in DOMAIN libs : j = OfFile(libs, file) /\ libs[j].file = file
  <2>1. \E j \in DOMAIN libs : libs[j].file = file BY <1>1 DEF Held, Open, IInv
  <2> QED BY <2>1 DEF OfFile
<1>5. libs[j] \in Lib /\ file \in Files BY <1>3, <1>4 DEF Lib
<1>6. libs[j].refs \in Nat /\ libs[j].refs > 0 /\ libs[j].refs = Uses(funcs, file)
  BY <1>4, <1>5 DEF Lib, Refs, IInv
<1>7. \A g : Uses(funcs', g) \in Nat /\ (Uses(funcs', g) = 0 => \A k \in DOMAIN funcs' : funcs'[k].file # g)
  BY <1>2, CountType DEF Hits
<1>8. Uses(funcs', file) = Uses(funcs, file) - 1 BY <1>2, <1>7
<1>9. \A g : g # file => Uses(funcs', g) = Uses(funcs, g) BY <1>2, <1>7
<1>10. Open(libs, file) /\ opened[file] = 1 BY <1>4, <1>5 DEF Open, Once, IInv
<1>11. CASE libs[j].refs > 1
  <2>1. PICK n \in Nat : n = libs[j].refs - 1 BY <1>6, <1>11
  <2>2. libs' = [libs EXCEPT ![j].refs = n] BY <1>0, <1>1, <1>4, <1>11, <2>1 DEF Closed
  <2>3. opened' = opened BY <1>0, <1>1, <1>4, <1>11 DEF DlClosed
  <2>4. /\ libs' \in Seq(Lib) /\ DOMAIN libs' = DOMAIN libs /\ libs'[j].refs = n
        /\ \A k \in DOMAIN libs : libs'[k].file = libs[k].file /\ libs'[k].name = libs[k].name
        /\ \A k \in DOMAIN libs : k # j => libs'[k] = libs[k]
    <3>1. ASSUME NEW t, t = [libs EXCEPT ![j].refs = n]
          PROVE  /\ t \in Seq(Lib) /\ DOMAIN t = DOMAIN libs /\ t[j].refs = n
                 /\ \A k \in DOMAIN libs : t[k].file = libs[k].file /\ t[k].name = libs[k].name
                 /\ \A k \in DOMAIN libs : k # j => t[k] = libs[k]
      <4>1. t \in Seq(Lib) BY <1>3, <3>1, Changing
      <4>2. \A k \in DOMAIN libs : t[k].file = libs[k].file /\ t[k].name = libs[k].name BY <1>3, <3>1, Changing
      <4>3. \A k \in DOMAIN libs : k # j => t[k] = libs[k] BY <1>3, <3>1, Changing
      <4>4. DOMAIN t = DOMAIN libs BY <1>3, <3>1, Changing
      <4>5. t[j].refs = n BY <1>3, <3>1, Changing
      <4> QED BY <4>1, <4>2, <4>3, <4>4, <4>5
    <3> QED BY <2>2, <3>1
  <2>5. \A g : Open(libs', g) <=> Open(libs, g) BY <2>4 DEF Open
  <2>6. Types' BY <1>0, <1>2, <2>3, <2>4 DEF Types, IInv
  <2>7. OneName' /\ OneFile' BY <2>4 DEF OneName, OneFile, IInv
  <2>8. Refs'
    <3> SUFFICES ASSUME NEW k \in DOMAIN libs PROVE libs'[k].refs > 0 /\ libs'[k].refs = Uses(funcs', libs'[k].file)
      BY <2>4 DEF Refs
    <3>1. CASE k = j BY <1>4, <1>6, <1>8, <1>11, <2>1, <2>4, <3>1
    <3>2. CASE k # j
      <4>1. libs[k].file # file BY <1>4, <3>2 DEF OneFile, IInv
      <4> QED BY <1>9, <2>4, <3>2, <4>1 DEF Refs, IInv
    <3> QED BY <3>1, <3>2
  <2>9. Once' BY <2>3, <2>5 DEF Once, IInv
  <2>10. Held' BY <1>2, <2>5 DEF Held, IInv
  <2> QED BY <2>6, <2>7, <2>8, <2>9, <2>10 DEF IInv
<1>12. CASE ~(libs[j].refs > 1)
  <2>1. libs' = Without(libs, j) BY <1>0, <1>1, <1>4, <1>12 DEF Closed
  <2>2. opened' = [opened EXCEPT ![file] = 0]
    <3>1. ~\E k \in DOMAIN libs : libs[k].file = file /\ libs[k].refs > 1 BY <1>4, <1>12 DEF OneFile, IInv
    <3>2. opened' = [opened EXCEPT ![file] = opened[file] - 1] BY <1>0, <1>1, <3>1 DEF DlClosed
    <3> QED BY <1>10, <3>2
  <2>3. Len(libs) \in Nat /\ DOMAIN libs = 1..Len(libs) /\ j \in 1..Len(libs) BY <1>3
  <2>4. /\ libs' \in Seq(Lib) /\ Len(libs') = Len(libs) - 1
        /\ \A k \in DOMAIN libs' : libs'[k] = IF k < j THEN libs[k] ELSE libs[k + 1]
        /\ \A k \in DOMAIN libs : k < j => k \in DOMAIN libs' /\ libs'[k] = libs[k]
        /\ \A k \in DOMAIN libs : k > j => k - 1 \in DOMAIN libs' /\ libs'[k - 1] = libs[k]
    <3>1. ASSUME NEW t, t = Without(libs, j)
          PROVE  /\ t \in Seq(Lib) /\ Len(t) = Len(libs) - 1
                 /\ \A k \in DOMAIN t : t[k] = IF k < j THEN libs[k] ELSE libs[k + 1]
                 /\ \A k \in DOMAIN libs : k < j => k \in DOMAIN t /\ t[k] = libs[k]
                 /\ \A k \in DOMAIN libs : k > j => k - 1 \in DOMAIN t /\ t[k - 1] = libs[k]
      BY <1>3, <3>1, Removing
    <3> QED BY <2>1, <3>1
  <2>5. DOMAIN libs' = 1..Len(libs) - 1 BY <2>3, <2>4
  \* Where an element was.
  <2>6. PICK w : w = [k \in 1..Len(libs) - 1 |-> IF k < j THEN k ELSE k + 1] OBVIOUS
  <2>7. ASSUME NEW k \in DOMAIN libs' PROVE w[k] \in DOMAIN libs /\ w[k] # j /\ libs'[k] = libs[w[k]]
    BY <2>3, <2>4, <2>5, <2>6
  <2>8. ASSUME NEW k \in DOMAIN libs', NEW m \in DOMAIN libs', w[k] = w[m] PROVE k = m
    <3>1. k \in Int /\ m \in Int BY <2>3, <2>5
    <3> QED BY <2>3, <2>5, <2>6, <2>8, <3>1
  <2>9. \A g : Open(libs', g) <=> Open(libs, g) /\ g # file
    <3>1. ASSUME NEW g, Open(libs', g) PROVE Open(libs, g) /\ g # file
      <4>1. PICK k \in DOMAIN libs' : libs'[k].file = g BY <3>1 DEF Open
      <4>2. w[k] \in DOMAIN libs /\ w[k] # j /\ libs[w[k]].file = g BY <2>7, <4>1
      <4> QED BY <1>4, <4>2 DEF Open, OneFile, IInv
    <3>2. ASSUME NEW g, Open(libs, g), g # file PROVE Open(libs', g)
      <4>1. PICK k \in DOMAIN libs : libs[k].file = g /\ k # j BY <1>4, <3>2 DEF Open
      <4>2. k < j \/ k > j BY <2>3, <4>1
      <4> QED BY <2>4, <4>1, <4>2 DEF Open
    <3> QED BY <3>1, <3>2
  <2>10. Types'
    <3>1. opened' \in [Files -> Nat] BY <2>2 DEF Types, IInv
    <3> QED BY <1>0, <1>2, <2>4, <3>1 DEF Types
  <2>11. OneName' BY <2>7 DEF OneName, IInv
  <2>12. OneFile'
    <3> SUFFICES ASSUME NEW k \in DOMAIN libs', NEW m \in DOMAIN libs', libs'[k].file = libs'[m].file PROVE k = m
      BY DEF OneFile
    <3>1. w[k] = w[m] BY <2>7 DEF OneFile, IInv
    <3> QED BY <2>8, <3>1
  <2>13. Refs'
    <3> SUFFICES ASSUME NEW k \in DOMAIN libs' PROVE libs'[k].refs > 0 /\ libs'[k].refs = Uses(funcs', libs'[k].file)
      BY DEF Refs
    <3>1. w[k] \in DOMAIN libs /\ w[k] # j /\ libs'[k] = libs[w[k]] BY <2>7
    <3>2. libs'[k].file # file BY <1>4, <3>1 DEF OneFile, IInv
    <3> QED BY <1>9, <3>1, <3>2 DEF Refs, IInv
  <2>14. Once'
    <3> SUFFICES ASSUME NEW g \in Files PROVE opened'[g] = IF Open(libs', g) THEN 1 ELSE 0 BY DEF Once
    <3>1. opened[g] = IF Open(libs, g) THEN 1 ELSE 0 BY DEF Once, IInv
    <3>2. opened'[g] = IF g = file THEN 0 ELSE opened[g] BY <2>2 DEF Types, IInv
    <3> QED BY <2>9, <3>1, <3>2
  <2>15. Uses(funcs', file) = 0 BY <1>6, <1>8, <1>12
  <2>16. Held'
    <3>1. \A k \in DOMAIN funcs' : funcs'[k].file # file BY <1>7, <2>15
    <3> QED BY <1>2, <2>9, <3>1 DEF Held, IInv
  <2> QED BY <2>10, <2>11, <2>12, <2>13, <2>14, <2>16 DEF IInv
<1> QED BY <1>11, <1>12

\* LOAD of a function linked into the program has no library.
LEMMA PmlKeeps ==
  ASSUME IInv, NEW x \in Funcs, x.file = NoLib
  PROVE  /\ funcs' = <<x>> \o funcs /\ UNCHANGED <<libs, opened>> /\ def' \in [Functions -> Def]
         => IInv'
<1>0. SUFFICES ASSUME funcs' = <<x>> \o funcs, libs' = libs, opened' = opened, def' \in [Functions -> Def]
               PROVE  IInv'
  OBVIOUS
<1>1. /\ funcs' \in Seq(Funcs)
      /\ \A file : Uses(funcs', file) = Uses(funcs, file) + (IF x.file = file THEN 1 ELSE 0)
      /\ \A k \in DOMAIN funcs' : funcs'[k] = x \/ \E j \in DOMAIN funcs : funcs'[k] = funcs[j]
  <2>1. ASSUME NEW fs, fs = <<x>> \o funcs
        PROVE  /\ fs \in Seq(Funcs)
               /\ \A file : Uses(fs, file) = Uses(funcs, file) + (IF x.file = file THEN 1 ELSE 0)
               /\ \A k \in DOMAIN fs : fs[k] = x \/ \E j \in DOMAIN funcs : fs[k] = funcs[j]
    <3>1. Types BY DEF IInv
    <3>2. fs \in Seq(Funcs) BY <2>1, <3>1, Loading
    <3>3. \A file : Uses(fs, file) = Uses(funcs, file) + (IF x.file = file THEN 1 ELSE 0) BY <2>1, <3>1, Loading
    <3>4. \A k \in DOMAIN fs : fs[k] = x \/ \E j \in DOMAIN funcs : fs[k] = funcs[j] BY <2>1, <3>1, Loading
    <3> QED BY <3>2, <3>3, <3>4
  <2> QED BY <1>0, <2>1
<1>2. \A file : Uses(funcs, file) \in Nat BY UsesType DEF IInv
<1>3. Types' BY <1>0, <1>1 DEF Types, IInv
<1>4. OneName' /\ OneFile' BY <1>0 DEF OneName, OneFile, IInv
<1>5. Refs'
  <2> SUFFICES ASSUME NEW k \in DOMAIN libs PROVE libs[k].refs > 0 /\ libs[k].refs = Uses(funcs', libs[k].file)
    BY <1>0 DEF Refs
  <2>1. libs[k].file # NoLib
    <3>1. libs[k] \in Lib BY DEF IInv, Types
    <3> QED BY <3>1 DEF Lib, Files, NoLib
  <2>2. Uses(funcs', libs[k].file) = Uses(funcs, libs[k].file) BY <1>1, <1>2, <2>1
  <2> QED BY <2>2 DEF Refs, IInv
<1>6. Once' BY <1>0 DEF Once, Open, IInv
<1>7. Held' BY <1>0, <1>1 DEF Held, Open, IInv
<1> QED BY <1>3, <1>4, <1>5, <1>6, <1>7 DEF IInv

LEMMA SameLists ==
  ASSUME IInv
  PROVE  UNCHANGED <<funcs, libs, opened>> /\ def' \in [Functions -> Def] => IInv'
<1> SUFFICES ASSUME funcs' = funcs, libs' = libs, opened' = opened, def' \in [Functions -> Def] PROVE IInv' OBVIOUS
<1>1. Types' BY DEF IInv, Types
<1>2. OneName' /\ OneFile' BY DEF IInv, OneName, OneFile
<1>3. Refs' BY DEF IInv, Refs
<1>4. Once' /\ Held' BY DEF IInv, Once, Held, Open
<1> QED BY <1>1, <1>2, <1>3, <1>4 DEF IInv

\* A non-empty set of indices has a least one.
LEMMA Least ==
  ASSUME NEW T \in SUBSET Nat, T # {}
  PROVE  \E x \in T : \A y \in T : x <= y
<1> DEFINE U == {0..x : x \in T}
<1>1. U \subseteq FiniteSubsetsOf(Nat)
  <2>1. \A x \in T : 0..x \subseteq Nat /\ IsFiniteSet(0..x) BY FS_Interval
  <2> QED BY <2>1 DEF FiniteSubsetsOf
<1>2. U # {} OBVIOUS
<1>3. PICK u \in U : \A w \in U : ~(<<w, u>> \in StrictSubsetOrdering(Nat))
  <2> HIDE DEF U
  <2> QED BY <1>1, <1>2, FS_StrictSubsetOrderingWellFounded, WFMin
<1>4. PICK x \in T : u = 0..x OBVIOUS
<1>5. ASSUME NEW y \in T, y < x PROVE FALSE
  <2>1. 0..y \subseteq 0..x /\ x \notin 0..y /\ x \in 0..x BY <1>5
  <2>2. 0..y \in SUBSET Nat /\ 0..x \in SUBSET Nat OBVIOUS
  <2>3. <<0..y, 0..x>> \in StrictSubsetOrdering(Nat) BY <2>1, <2>2 DEF StrictSubsetOrdering
  <2> QED BY <1>3, <1>4, <2>3
<1> QED BY <1>5

------------------------------------------------------------------------------
LEMMA InitInv == ASSUME LibInit PROVE IInv
<1>1. funcs = <<>> /\ libs = <<>> /\ opened = [file \in Files |-> 0] BY DEF LibInit, Files
<1>2. DOMAIN libs = {} /\ DOMAIN funcs = {} BY <1>1
<1>3. Types BY <1>1 DEF Types, LibInit, Def
<1> QED BY <1>1, <1>2, <1>3 DEF IInv, OneName, OneFile, Refs, Once, Held, Open

\* The steps, one by one.
LEMMA LoadStep ==
  ASSUME IInv, LOAD
  PROVE  IInv' /\ (said' = "failed" => UNCHANGED <<funcs, libs, opened, def>>)
<1>1. PICK f \in Functions, l \in Libs : \E a \in Malloc :
        IF f \in Pml THEN Linked(a, f, NoLib) /\ UNCHANGED <<libs, opened>>
        ELSE IF Known(l) = {} /\ FileOf[l] = Missing
             THEN /\ said' = (IF l \in Absolute THEN "crash" ELSE "failed")
                  /\ UNCHANGED <<funcs, libs, opened, def>>
        ELSE IF f \in Symbols[FileAt(l)]
             THEN Linked(a, f, FileAt(l)) /\ libs' = Opened(l) /\ opened' = DlOpened(l)
        ELSE /\ libs' = Closed(Opened(l), FileAt(l))
             /\ opened' = DlClosed(DlOpened(l), Opened(l), FileAt(l))
             /\ said' = "failed" /\ UNCHANGED <<funcs, def>>
  BY DEF LOAD
<1>2. PICK a \in Malloc :
        IF f \in Pml THEN Linked(a, f, NoLib) /\ UNCHANGED <<libs, opened>>
        ELSE IF Known(l) = {} /\ FileOf[l] = Missing
             THEN /\ said' = (IF l \in Absolute THEN "crash" ELSE "failed")
                  /\ UNCHANGED <<funcs, libs, opened, def>>
        ELSE IF f \in Symbols[FileAt(l)]
             THEN Linked(a, f, FileAt(l)) /\ libs' = Opened(l) /\ opened' = DlOpened(l)
        ELSE /\ libs' = Closed(Opened(l), FileAt(l))
             /\ opened' = DlClosed(DlOpened(l), Opened(l), FileAt(l))
             /\ said' = "failed" /\ UNCHANGED <<funcs, def>>
  BY <1>1
<1>3. a \in Places BY DEF Malloc
<1>4. ASSUME NEW file \in Files \cup {NoLib}, Linked(a, f, file)
      PROVE  /\ [at |-> a, name |-> f, file |-> file] \in Funcs
             /\ funcs' = <<[at |-> a, name |-> f, file |-> file]>> \o funcs
             /\ def' \in [Functions -> Def] /\ said' = "fine"
  <2>1. [at |-> a, name |-> f, file |-> file] \in Funcs BY <1>3 DEF Funcs
  <2>2. External(a, f, file) \in Def BY <1>3 DEF Def, External
  <2>3. def' = [def EXCEPT ![f] = External(a, f, file)] BY <1>4 DEF Linked
  <2>4. def' \in [Functions -> Def] BY <2>2, <2>3 DEF IInv, Types
  <2> QED BY <1>4, <2>1, <2>4 DEF Linked
<1>5. CASE f \in Pml
  <2>1. Linked(a, f, NoLib) /\ libs' = libs /\ opened' = opened BY <1>2, <1>5
  <2>2. PICK x \in Funcs : x = [at |-> a, name |-> f, file |-> NoLib] BY <1>4, <2>1
  <2>3. funcs' = <<x>> \o funcs /\ x.file = NoLib /\ def' \in [Functions -> Def] /\ said' = "fine" BY <1>4, <2>1, <2>2
  <2>4. IInv' BY <2>1, <2>3, PmlKeeps
  <2> QED BY <2>3, <2>4
<1>6. CASE f \notin Pml /\ Known(l) = {} /\ FileOf[l] = Missing
  <2>1. UNCHANGED <<funcs, libs, opened, def>> BY <1>2, <1>6
  <2>2. IInv' BY <2>1, SameLists DEF IInv, Types
  <2> QED BY <2>1, <2>2
<1>7. CASE f \notin Pml /\ ~(Known(l) = {} /\ FileOf[l] = Missing)
  <2>1. FileAt(l) \in Files
    <3>1. CASE Known(l) = {} BY <1>7, <3>1, NotFound DEF Files
    <3>2. CASE Known(l) # {} BY <3>2, Found DEF IInv
    <3> QED BY <3>1, <3>2
  <2>2. CASE f \in Symbols[FileAt(l)]
    <3>1. Linked(a, f, FileAt(l)) /\ libs' = Opened(l) /\ opened' = DlOpened(l) BY <1>2, <1>7, <2>2
    <3>2. PICK x \in Funcs : x = [at |-> a, name |-> f, file |-> FileAt(l)] BY <1>4, <2>1, <3>1
    <3>3. funcs' = <<x>> \o funcs /\ x.file = FileAt(l) /\ def' \in [Functions -> Def] /\ said' = "fine"
      BY <1>4, <2>1, <3>1, <3>2
    <3>4. IInv' BY <1>7, <3>1, <3>3, LoadKeeps
    <3> QED BY <3>3, <3>4
  <2>3. CASE f \notin Symbols[FileAt(l)]
    <3>1. /\ libs' = Closed(Opened(l), FileAt(l)) /\ opened' = DlClosed(DlOpened(l), Opened(l), FileAt(l))
          /\ UNCHANGED <<funcs, def>>
      BY <1>2, <1>7, <2>3
    <3>2. /\ Closed(Opened(l), FileAt(l)) = libs
          /\ DlClosed(DlOpened(l), Opened(l), FileAt(l)) = opened
      BY <1>7, OpenedClosed DEF IInv
    <3>3. UNCHANGED <<funcs, libs, opened, def>> BY <3>1, <3>2
    <3>4. IInv' BY <3>3, SameLists DEF IInv, Types
    <3> QED BY <3>3, <3>4
  <2> QED BY <2>2, <2>3
<1> QED BY <1>5, <1>6, <1>7

LEMMA UnloadStep ==
  ASSUME IInv, UNLOAD
  PROVE  IInv' /\ said' # "failed"
<1>1. PICK f \in Functions :
        LET here == {i \in DOMAIN funcs : funcs[i].name = f}
            last == CHOOSE i \in here : \A j \in here : i <= j
            fp   == funcs[last]
        IN /\ def' = [def EXCEPT ![f] = Undefined]
           /\ IF here = {} THEN said' = "fine" /\ UNCHANGED <<funcs, libs, opened>>
              ELSE IF fp.file = NoLib THEN said' = "crash" /\ UNCHANGED <<funcs, libs, opened>>
              ELSE /\ funcs' = Without(funcs, last) /\ libs' = Closed(libs, fp.file)
                   /\ opened' = DlClosed(opened, libs, fp.file) /\ said' = "fine"
  BY DEF UNLOAD
<1> DEFINE here == {i \in DOMAIN funcs : funcs[i].name = f}
           last == CHOOSE i \in here : \A j \in here : i <= j
<1>2. def' \in [Functions -> Def]
  <2>1. def' = [def EXCEPT ![f] = Undefined] BY <1>1
  <2> QED BY <2>1 DEF IInv, Types, Def
<1>3. CASE here = {} BY <1>1, <1>2, <1>3, SameLists
<1>4. CASE here # {}
  <2>1. here \in SUBSET Nat BY DEF IInv, Types
  <2>2. last \in here
    <3> HIDE DEF here
    <3>1. \E i \in here : \A j \in here : i <= j BY <1>4, <2>1, Least
    <3> QED BY <3>1
  <2>3. PICK i \in DOMAIN funcs : i = last BY <2>2
  <2>4. CASE funcs[i].file = NoLib BY <1>1, <1>2, <1>4, <2>3, <2>4, SameLists
  <2>5. CASE funcs[i].file # NoLib
    <3>1. /\ funcs' = Without(funcs, i) /\ libs' = Closed(libs, funcs[i].file)
          /\ opened' = DlClosed(opened, libs, funcs[i].file) /\ said' = "fine"
      BY <1>1, <1>4, <2>3, <2>5
    <3>2. IInv' BY <1>2, <2>5, <3>1, UnloadKeeps
    <3> QED BY <3>1, <3>2
  <2> QED BY <2>4, <2>5
<1> QED BY <1>3, <1>4

LEMMA OtherSteps ==
  ASSUME IInv, OPSYN \/ Defines \/ CALL \/ UNCHANGED libvars
  PROVE  IInv' /\ UNCHANGED <<funcs, libs, opened>>
         /\ (said' = "failed" => UNCHANGED <<funcs, libs, opened, def>> \/ UNCHANGED libvars)
<1>1. def \in [Functions -> Def] BY DEF IInv, Types
<1>2. CASE OPSYN BY <1>1, <1>2, SameLists DEF OPSYN
<1>3. CASE Defines
  <2>1. def' \in [Functions -> Def] BY <1>1, <1>3 DEF Defines, Def
  <2> QED BY <1>3, <2>1, SameLists DEF Defines
<1>4. CASE CALL BY <1>1, <1>4, SameLists DEF CALL
<1>5. CASE UNCHANGED libvars BY <1>1, <1>5, SameLists DEF libvars
<1> QED BY <1>2, <1>3, <1>4, <1>5

LEMMA StepKeeps == ASSUME IInv, [LibNext]_libvars PROVE IInv'
BY LoadStep, UnloadStep, OtherSteps DEF LibNext

\* What Counted says, from the counts of the invariant.
LEMMA CountedIs == ASSUME IInv PROVE Counted
<1>1. \A i, j \in DOMAIN libs : libs[i].file = libs[j].file => i = j BY DEF IInv, OneFile
<1>2. \A i \in DOMAIN libs :
        libs[i].refs > 0 /\ libs[i].refs = Cardinality({k \in DOMAIN funcs : funcs[k].file = libs[i].file})
  BY DEF IInv, Refs, Uses, Hits
<1>3. DOMAIN opened = Files BY DEF IInv, Types
<1>4. ASSUME NEW file \in Files PROVE opened[file] = Cardinality({i \in DOMAIN libs : libs[i].file = file})
  <2>1. CASE Open(libs, file)
    <3>1. PICK i \in DOMAIN libs : libs[i].file = file BY <2>1 DEF Open
    <3>2. {k \in DOMAIN libs : libs[k].file = file} = {i} BY <1>1, <3>1
    <3>3. Cardinality({i}) = 1 BY FS_Singleton
    <3> QED BY <2>1, <3>2, <3>3 DEF IInv, Once
  <2>2. CASE ~Open(libs, file)
    <3>1. {k \in DOMAIN libs : libs[k].file = file} = {} BY <2>2 DEF Open
    <3> QED BY <2>2, <3>1, FS_EmptySet DEF IInv, Once
  <2> QED BY <2>1, <2>2
<1>5. ASSUME NEW k \in DOMAIN funcs, funcs[k].file # NoLib PROVE opened[funcs[k].file] = 1
  <2>1. Open(libs, funcs[k].file) BY <1>5 DEF IInv, Held
  <2>2. PICK i \in DOMAIN libs : libs[i].file = funcs[k].file BY <2>1 DEF Open
  <2>3. libs[i] \in Lib BY <2>2 DEF IInv, Types
  <2> QED BY <2>1, <2>2, <2>3 DEF IInv, Once, Lib
<1> QED BY <1>1, <1>2, <1>3, <1>4, <1>5 DEF Counted

\* The libraries that are open are open once each, for as many functions as
\* were loaded from them and not unloaded, and those of functions still loaded
\* are open, whatever the program does.
THEOREM LibrariesCounted == LibSpec => []Counted
<1>1. LibInit => IInv BY InitInv
<1>2. IInv /\ [LibNext]_libvars => IInv' BY StepKeeps
<1>3. IInv => Counted BY CountedIs
<1> QED BY <1>1, <1>2, <1>3, PTL DEF LibSpec

\* A LOAD that fails, for want of the library or of the function in it, leaves
\* the lists, dlopen's counts and the definitions as they were.
THEOREM LoadFailsClean == LibSpec => FailsClean
<1>1. LibInit => IInv BY InitInv
<1>2. IInv /\ [LibNext]_libvars => IInv' BY StepKeeps
<1>3. IInv /\ [LibNext]_libvars => [said' = "failed" => UNCHANGED <<funcs, libs, opened, def>>]_libvars
  <2> SUFFICES ASSUME IInv, LibNext, said' = "failed" PROVE UNCHANGED <<funcs, libs, opened, def>> OBVIOUS
  <2>1. CASE LOAD BY <2>1, LoadStep
  <2>2. CASE UNLOAD BY <2>2, UnloadStep
  <2>3. CASE OPSYN BY <2>3 DEF OPSYN
  <2>4. CASE Defines BY <2>4 DEF Defines
  <2>5. CASE CALL BY <2>5 DEF CALL
  <2> QED BY <2>1, <2>2, <2>3, <2>4, <2>5 DEF LibNext
<1> QED BY <1>1, <1>2, <1>3, PTL DEF LibSpec, FailsClean

------------------------------------------------------------------------------
\* What is at a place stays what it was defined as, unless malloc has a place
\* again that a name still names.
LEMMA StepLinks ==
  ASSUME ~Careless, IInv, Linkage, [LibNext]_libvars
  PROVE  Linkage'
<1>0. def \in [Functions -> Def] BY DEF IInv, Types
<1>1. ASSUME UNCHANGED <<funcs, def>> PROVE Linkage' BY <1>1 DEF Linkage
<1>2. CASE LOAD
  <2>1. PICK f \in Functions, l \in Libs : \E a \in Malloc :
          (\E file : Linked(a, f, file)) \/ UNCHANGED <<funcs, def>>
    BY <1>2 DEF LOAD
  <2>2. PICK a \in Malloc : (\E file : Linked(a, f, file)) \/ UNCHANGED <<funcs, def>> BY <2>1
  <2>3. ASSUME NEW file, Linked(a, f, file) PROVE Linkage'
    <3>1. PICK x : x = [at |-> a, name |-> f, file |-> file] OBVIOUS
    <3>2. funcs' = <<x>> \o funcs /\ def' = [def EXCEPT ![f] = External(a, f, file)] BY <2>3, <3>1 DEF Linked
    <3>3. \A k \in DOMAIN funcs' : funcs'[k] = x \/ \E j \in DOMAIN funcs : funcs'[k] = funcs[j]
      <4> DEFINE S == {funcs[j] : j \in DOMAIN funcs} \cup {x}
      <4>1. funcs \in Seq(S)
        <5>1. funcs \in Seq(Funcs) BY DEF IInv, Types
        <5>2. Len(funcs) \in Nat /\ DOMAIN funcs = 1..Len(funcs) /\ funcs = [k \in DOMAIN funcs |-> funcs[k]] BY <5>1
        <5>3. \A k \in 1..Len(funcs) : funcs[k] \in S BY <5>2
        <5> HIDE DEF S
        <5> QED BY <5>2, <5>3
      <4>2. x \in S OBVIOUS
      <4> HIDE DEF S
      <4>3. ASSUME NEW t, t = <<x>> \o funcs
            PROVE  \A k \in DOMAIN t : t[k] = x \/ \E j \in DOMAIN funcs : t[k] = funcs[j]
        <5>1. t[1] = x BY <4>1, <4>2, <4>3, Prepending
        <5>2. \A k \in DOMAIN t : k = 1 \/ (k - 1 \in DOMAIN funcs /\ t[k] = funcs[k - 1])
          BY <4>1, <4>2, <4>3, Prepending
        <5> QED BY <5>1, <5>2
      <4> QED BY <3>2, <4>3
    <3>4. \A i \in DOMAIN funcs : funcs[i].at # a BY DEF Malloc, InUse
    <3>5. \A g \in Functions : def[g].is = "external" => def[g].at # a BY DEF Malloc
    <3> SUFFICES ASSUME NEW g \in Functions, def'[g].is = "external", NEW i \in DOMAIN funcs', funcs'[i].at = def'[g].at
                 PROVE  funcs'[i].name = def'[g].name
      BY DEF Linkage
    <3>6. CASE g = f
      <4>1. def'[g] = External(a, f, file) BY <1>0, <3>2, <3>6
      <4>2. funcs'[i] = x BY <3>3, <3>4, <4>1 DEF External
      <4> QED BY <3>1, <4>1, <4>2 DEF External
    <3>7. CASE g # f
      <4>1. def'[g] = def[g] BY <1>0, <3>2, <3>7
      <4>2. funcs'[i] # x BY <3>1, <3>5, <4>1
      <4>3. PICK j \in DOMAIN funcs : funcs'[i] = funcs[j] BY <3>3, <4>2
      <4> QED BY <4>1, <4>3 DEF Linkage
    <3> QED BY <3>6, <3>7
  <2> QED BY <1>1, <2>2, <2>3
<1>3. CASE UNLOAD
  <2>1. PICK f \in Functions :
          LET here == {i \in DOMAIN funcs : funcs[i].name = f}
              last == CHOOSE i \in here : \A j \in here : i <= j
          IN /\ def' = [def EXCEPT ![f] = Undefined]
             /\ IF here = {} THEN UNCHANGED funcs
                ELSE UNCHANGED funcs \/ funcs' = Without(funcs, last)
    BY <1>3 DEF UNLOAD
  <2> DEFINE here == {i \in DOMAIN funcs : funcs[i].name = f}
             last == CHOOSE i \in here : \A j \in here : i <= j
  <2>2. \A k \in DOMAIN funcs' : \E j \in DOMAIN funcs : funcs'[k] = funcs[j]
    <3>1. CASE funcs' = funcs BY <3>1
    <3>2. CASE here # {} /\ funcs' = Without(funcs, last)
      <4>1. last \in here
        <5>1. here \in SUBSET Nat BY DEF IInv, Types
        <5> HIDE DEF here
        <5>2. \E i \in here : \A j \in here : i <= j BY <3>2, <5>1, Least
        <5> QED BY <5>2
      <4>2. PICK i \in DOMAIN funcs : i = last BY <4>1
      <4>3. funcs' = Without(funcs, i) BY <3>2, <4>2
      <4>4. ASSUME NEW t, t = Without(funcs, i) PROVE \A k \in DOMAIN t : \E j \in DOMAIN funcs : t[k] = funcs[j]
        BY <4>4, Freeing DEF IInv
      <4> QED BY <4>3, <4>4
    <3> QED BY <2>1, <3>1, <3>2
  <2>3. def' = [def EXCEPT ![f] = Undefined] BY <2>1
  <2>4. ASSUME NEW g \in Functions, def'[g].is = "external" PROVE def'[g] = def[g]
    <3>1. g # f BY <1>0, <2>3, <2>4 DEF Undefined
    <3> QED BY <1>0, <2>3, <3>1
  <2> QED BY <2>2, <2>4 DEF Linkage
<1>4. CASE OPSYN
  <2>1. PICK f \in Functions, g \in Functions : def' = [def EXCEPT ![f] = def[g]] BY <1>4 DEF OPSYN
  <2>2. funcs' = funcs BY <1>4 DEF OPSYN
  <2>3. \A h \in Functions : \E k \in Functions : def'[h] = def[k] BY <1>0, <2>1
  <2> QED BY <2>2, <2>3 DEF Linkage
<1>5. CASE Defines
  <2>1. PICK f \in Functions : def' = [def EXCEPT ![f] = InProgram] BY <1>5 DEF Defines
  <2>2. funcs' = funcs BY <1>5 DEF Defines
  <2>3. ASSUME NEW g \in Functions, def'[g].is = "external" PROVE def'[g] = def[g]
    <3>1. g # f BY <1>0, <2>1, <2>3 DEF InProgram
    <3> QED BY <1>0, <2>1, <3>1
  <2> QED BY <2>2, <2>3 DEF Linkage
<1>6. CASE CALL BY <1>1, <1>6 DEF CALL
<1>7. CASE UNCHANGED libvars BY <1>1, <1>7 DEF libvars
<1> QED BY <1>2, <1>3, <1>4, <1>5, <1>6, <1>7 DEF LibNext

\* A call calls the function its name was defined as, from a library that is
\* open: for a program that does not name a place malloc may have again.
THEOREM CallsTheOneDefined == ASSUME ~Careless PROVE LibSpec => CallsItsOwn
<1>1. LibInit => IInv /\ Linkage
  <2>1. ASSUME LibInit PROVE Linkage BY <2>1 DEF LibInit, Linkage
  <2> QED BY <2>1, InitInv
<1>2. IInv /\ Linkage /\ [LibNext]_libvars => IInv' /\ Linkage' BY StepKeeps, StepLinks
<1>3. IInv /\ Linkage /\ [LibNext]_libvars =>
        [called' # called => called'.name = called'.as /\ (called'.file # NoLib => opened[called'.file] > 0)]_libvars
  <2> SUFFICES ASSUME IInv, Linkage, LibNext, called' # called
               PROVE  called'.name = called'.as /\ (called'.file # NoLib => opened[called'.file] > 0)
    OBVIOUS
  <2>1. CALL BY DEF LibNext, LOAD, UNLOAD, OPSYN, Defines
  <2>2. PICK f \in Functions :
          LET there == {i \in DOMAIN funcs : funcs[i].at = def[f].at}
          IN /\ def[f].is = "external" /\ there # {}
             /\ LET fp == funcs[CHOOSE i \in there : TRUE]
                IN called' = [name |-> fp.name, file |-> fp.file, as |-> def[f].name]
    BY <2>1 DEF CALL
  <2>3. PICK i \in DOMAIN funcs : funcs[i].at = def[f].at /\ called' = [name |-> funcs[i].name, file |-> funcs[i].file, as |-> def[f].name]
    BY <2>2
  <2>4. called'.name = called'.as BY <2>2, <2>3 DEF Linkage
  <2>5. ASSUME called'.file # NoLib PROVE opened[called'.file] > 0
    <3>1. opened[funcs[i].file] = 1 BY <2>3, <2>5, CountedIs DEF Counted
    <3> QED BY <2>3, <3>1
  <2> QED BY <2>4, <2>5
<1> QED BY <1>1, <1>2, <1>3, PTL DEF LibSpec, CallsItsOwn
=============================================================================
