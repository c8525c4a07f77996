----------------------------- MODULE UnitsProofs -----------------------------
(***************************************************************************)
(* File structures, streams and units: each structure is in the lists of   *)
(* one unit and each stream in one structure, until it is freed.           *)
(***************************************************************************)
EXTENDS Units, FiniteSetTheorems, WellFoundedInduction, TLAPS

\* Induction over the numbers of a set.
LEMMA Induction ==
  ASSUME NEW S, 0 \in S, \A n \in Nat : n \in S => n + 1 \in S
  PROVE Nat \subseteq S
<1> SUFFICES ASSUME NEW z \in Nat, z \notin S PROVE FALSE OBVIOUS
<1> DEFINE R == {p \in Nat \X Nat : p[1] < p[2]}
           T == {n \in Nat : n \notin S}
<1>1. IsWellFoundedOn(R, Nat) BY NatLessThanWellFounded DEF OpToRel
<1> HIDE DEF R
<1>2. T \subseteq Nat /\ T # {} OBVIOUS
<1>3. PICK n \in T : \A k \in T : ~(<<k, n>> \in R) BY <1>1, <1>2, WFMin
<1>4. \A k \in T : ~(k < n) BY <1>3 DEF R
<1>5. n # 0 OBVIOUS
<1>6. n - 1 \in Nat /\ n - 1 \notin T BY <1>4, <1>5
<1>7. QED BY <1>6

LEMMA ConsIs ==
  ASSUME NEW f \in Nat, NEW s \in Seq(Nat)
  PROVE LET t == <<f>> \o s
        IN /\ t \in Seq(Nat) /\ Len(t) = Len(s) + 1 /\ t[1] = f /\ \A i \in 1..Len(s) : t[i + 1] = s[i]
           /\ Range(t) = {f} \cup Range(s)
<1> DEFINE t == <<f>> \o s
<1>1. t \in Seq(Nat) /\ Len(t) = Len(s) + 1 /\ t[1] = f /\ \A i \in 1..Len(s) : t[i + 1] = s[i] OBVIOUS
<1> HIDE DEF t
<1>2. DOMAIN t = 1..Len(s) + 1 /\ DOMAIN s = 1..Len(s) /\ Len(s) \in Nat BY <1>1
<1>3. ASSUME NEW x \in Range(t) PROVE x \in {f} \cup Range(s)
  <2>1. PICK i \in DOMAIN t : x = t[i] BY <1>3 DEF Range
  <2>2. CASE i = 1 BY <1>1, <2>1, <2>2
  <2>3. CASE i # 1
    <3>1. i - 1 \in 1..Len(s) /\ i - 1 + 1 = i BY <1>2, <2>3
    <3>2. t[i] = s[i - 1] BY <1>1, <3>1
    <3>3. QED BY <1>2, <2>1, <3>1, <3>2 DEF Range
  <2>4. QED BY <2>2, <2>3
<1>4. ASSUME NEW x \in Range(s) PROVE x \in Range(t)
  <2>1. PICK i \in DOMAIN s : x = s[i] BY <1>4 DEF Range
  <2>2. i + 1 \in DOMAIN t /\ t[i + 1] = x BY <1>1, <1>2, <2>1
  <2>3. QED BY <2>2 DEF Range
<1>5. f \in Range(t)
  <2>1. 1 \in DOMAIN t BY <1>2
  <2>2. QED BY <1>1, <2>1 DEF Range
<1>6. QED BY <1>1, <1>3, <1>4, <1>5 DEF t

------------------------------------------------------------------------------
\* The lists of file structures: c has that of each of them, to the end.
Solves(F, c) == c = [f \in DOMAIN F \cup {Nul} |-> IF f = Nul THEN <<>> ELSE <<f>> \o c[F[f].next]]
Lists(F, c)  == c \in [DOMAIN F \cup {Nul} -> Seq(Nat)] /\ Solves(F, c)
Linked(F)    == \E c : Lists(F, c)
From(F)      == CHOOSE c : Solves(F, c)
On(F, f)     == Range(From(F)[f])
Structs(F)   == DOMAIN F \subseteq Nat \ {0} /\ \A f \in DOMAIN F : F[f].next \in DOMAIN F \cup {Nul}

LEMMA ChainIs == ASSUME NEW h, NEW fp PROVE FileChain(h, fp) = From(h.files)[fp]
BY DEF FileChain, From, Solves

\* There is only one.
LEMMA OneList ==
  ASSUME NEW F, Structs(F), NEW c, Lists(F, c), NEW d, Solves(F, d)
  PROVE d = c
<1> DEFINE D == DOMAIN F \cup {Nul}
           S == {n \in Nat : \A f \in D : Len(c[f]) = n => d[f] = c[f]}
<1>1. c \in [D -> Seq(Nat)] BY DEF Lists
<1>2. /\ \A f \in D : c[f] = IF f = Nul THEN <<>> ELSE <<f>> \o c[F[f].next]
      /\ \A f \in D : d[f] = IF f = Nul THEN <<>> ELSE <<f>> \o d[F[f].next]
      /\ c = [f \in D |-> c[f]] /\ d = [f \in D |-> d[f]]
  <2>1. c = [f \in D |-> IF f = Nul THEN <<>> ELSE <<f>> \o c[F[f].next]] BY DEF Lists, Solves
  <2>2. d = [f \in D |-> IF f = Nul THEN <<>> ELSE <<f>> \o d[F[f].next]] BY DEF Solves
  <2>3. \A f \in D : c[f] = IF f = Nul THEN <<>> ELSE <<f>> \o c[F[f].next] BY <2>1, Zenon
  <2>4. \A f \in D : d[f] = IF f = Nul THEN <<>> ELSE <<f>> \o d[F[f].next] BY <2>2, Zenon
  <2>5. DOMAIN d = D BY <2>2, Zenon
  <2>6. d = [f \in D |-> d[f]] BY <2>2, <2>4, Zenon
  <2>7. QED BY <1>1, <2>3, <2>4, <2>6
<1>3. 0 \in S
  <2> SUFFICES ASSUME NEW f \in D, Len(c[f]) = 0 PROVE d[f] = c[f] OBVIOUS
  <2>1. CASE f = Nul BY <1>2, <2>1
  <2>2. CASE f # Nul
    <3>1. f \in Nat /\ c[F[f].next] \in Seq(Nat) BY <1>1, <2>2 DEF Structs
    <3>2. c[f] = <<f>> \o c[F[f].next] BY <1>2, <2>2
    <3> HIDE DEF D
    <3>4. Len(c[f]) = Len(c[F[f].next]) + 1 BY <3>1, <3>2, ConsIs
    <3>3. QED BY <3>1, <3>4
  <2>3. QED BY <2>1, <2>2
<1>4. ASSUME NEW n \in Nat, n \in S PROVE n + 1 \in S
  <2> SUFFICES ASSUME NEW f \in D, Len(c[f]) = n + 1 PROVE d[f] = c[f] OBVIOUS
  <2>1. f # Nul
    <3>1. c[Nul] = <<>> /\ Len(<<>>) = 0 BY <1>2
    <3>2. QED BY <3>1
  <2>2. f \in Nat /\ F[f].next \in D /\ c[F[f].next] \in Seq(Nat) BY <1>1, <2>1 DEF Structs
  <2>7. c[f] = <<f>> \o c[F[f].next] BY <1>2, <2>1
  <2>3. Len(c[f]) = Len(c[F[f].next]) + 1
    <3> HIDE DEF D
    <3>1. QED BY <2>2, <2>7, ConsIs
  <2>4. Len(c[F[f].next]) = n BY <2>2, <2>3
  <2>5. d[F[f].next] = c[F[f].next] BY <1>4, <2>2, <2>4
  <2>6. QED BY <1>2, <2>1, <2>5
<1> HIDE DEF S
<1>5. Nat \subseteq S BY <1>3, <1>4, Induction
<1>6. ASSUME NEW f \in D PROVE d[f] = c[f]
  <2>1. Len(c[f]) \in S BY <1>1, <1>5
  <2>2. QED BY <2>1 DEF S
<1> HIDE DEF D
<1>7. QED BY <1>2, <1>6

LEMMA FromIs ==
  ASSUME NEW F, Structs(F), NEW c, Lists(F, c)
  PROVE From(F) = c
<1>1. Solves(F, c) BY DEF Lists
<1>2. Solves(F, From(F)) BY <1>1 DEF From
<1>3. QED BY <1>2, OneList

\* What a list is: the structure, and the list of the next one.
LEMMA OnIs ==
  ASSUME NEW F, Structs(F), Linked(F)
  PROVE /\ From(F) \in [DOMAIN F \cup {Nul} -> Seq(Nat)] /\ From(F)[Nul] = <<>> /\ On(F, Nul) = {}
        /\ \A f \in DOMAIN F : /\ From(F)[f] = <<f>> \o From(F)[F[f].next]
                               /\ Len(From(F)[f]) = Len(From(F)[F[f].next]) + 1
                               /\ On(F, f) = {f} \cup On(F, F[f].next)
<1> DEFINE c == From(F)
           D == DOMAIN F \cup {Nul}
<1>1. Lists(F, c)
  <2>1. PICK d : Lists(F, d) BY DEF Linked
  <2>2. QED BY <2>1, FromIs
<1> HIDE DEF c
<1>2. c \in [D -> Seq(Nat)] BY <1>1 DEF Lists
<1>3. \A f \in D : c[f] = IF f = Nul THEN <<>> ELSE <<f>> \o c[F[f].next]
  <2>1. c = [f \in D |-> IF f = Nul THEN <<>> ELSE <<f>> \o c[F[f].next]] BY <1>1 DEF Lists, Solves
  <2>2. QED BY <2>1, Zenon
<1>4. c[Nul] = <<>> BY <1>3
<1>5. Range(c[Nul]) = {} BY <1>4 DEF Range
<1>6. ASSUME NEW f \in DOMAIN F
      PROVE c[f] = <<f>> \o c[F[f].next] /\ Len(c[f]) = Len(c[F[f].next]) + 1 /\ Range(c[f]) = {f} \cup Range(c[F[f].next])
  <2>1. f \in Nat /\ f # Nul /\ F[f].next \in D BY DEF Structs, Nul
  <2>2. c[f] = <<f>> \o c[F[f].next] BY <1>3, <2>1
  <2>3. c[F[f].next] \in Seq(Nat) BY <1>2, <2>1
  <2>5. Len(<<f>> \o c[F[f].next]) = Len(c[F[f].next]) + 1 /\ Range(<<f>> \o c[F[f].next]) = {f} \cup Range(c[F[f].next])
    BY <2>1, <2>3, ConsIs
  <2>4. QED BY <2>2, <2>5
<1>7. QED BY <1>2, <1>4, <1>5, <1>6 DEF c, On

\* What comes behind a structure in a list is its own list, and it is not in that.
LEMMA OnBehind ==
  ASSUME NEW F, Structs(F), Linked(F)
  PROVE \A f \in DOMAIN F \cup {Nul} : \A g \in On(F, f) :
          g \in DOMAIN F /\ On(F, g) \subseteq On(F, f) /\ Len(From(F)[g]) <= Len(From(F)[f])
<1> DEFINE c == From(F)
           D == DOMAIN F \cup {Nul}
           Good(f) == \A g \in On(F, f) : g \in DOMAIN F /\ On(F, g) \subseteq On(F, f) /\ Len(c[g]) <= Len(c[f])
           S == {n \in Nat : \A f \in D : Len(c[f]) = n => Good(f)}
<1>1. /\ c \in [D -> Seq(Nat)] /\ On(F, Nul) = {}
      /\ \A f \in DOMAIN F : Len(c[f]) = Len(c[F[f].next]) + 1 /\ On(F, f) = {f} \cup On(F, F[f].next)
  BY OnIs
<1>2. \A f \in DOMAIN F : f \in D /\ F[f].next \in D BY DEF Structs
<1>3. \A f \in D : Len(c[f]) \in Nat BY <1>1
<1> HIDE DEF c
<1>4. 0 \in S
  <2> SUFFICES ASSUME NEW f \in D, Len(c[f]) = 0 PROVE Good(f) OBVIOUS
  <2>1. f \notin DOMAIN F BY <1>1, <1>2, <1>3
  <2>2. QED BY <1>1, <2>1
<1>5. ASSUME NEW n \in Nat, n \in S PROVE n + 1 \in S
  <2> SUFFICES ASSUME NEW f \in D, Len(c[f]) = n + 1 PROVE Good(f) OBVIOUS
  <2>1. CASE f = Nul BY <1>1, <2>1
  <2>2. CASE f # Nul
    <3>1. f \in DOMAIN F /\ F[f].next \in D /\ Len(c[F[f].next]) = n BY <1>1, <1>2, <1>3, <2>2
    <3>2. Good(F[f].next) BY <1>5, <3>1
    <3>3. On(F, f) = {f} \cup On(F, F[f].next) BY <1>1, <3>1
    <3>4. ASSUME NEW g \in On(F, f) PROVE g \in DOMAIN F /\ On(F, g) \subseteq On(F, f) /\ Len(c[g]) <= Len(c[f])
      <4>1. CASE g = f BY <1>3, <3>1, <4>1
      <4>2. CASE g # f
        <5>1. g \in On(F, F[f].next) BY <3>3, <4>2
        <5>2. g \in DOMAIN F /\ On(F, g) \subseteq On(F, F[f].next) /\ Len(c[g]) <= Len(c[F[f].next]) BY <3>2, <5>1
        <5>3. Len(c[g]) \in Nat BY <1>2, <1>3, <5>2
        <5>4. QED BY <3>1, <3>3, <5>2, <5>3
      <4>3. QED BY <4>1, <4>2
    <3>5. QED BY <3>4
  <2>3. QED BY <2>1, <2>2
<1> HIDE DEF S
<1>6. Nat \subseteq S BY <1>4, <1>5, Induction
<1>7. ASSUME NEW f \in D PROVE Good(f)
  <2>1. Len(c[f]) \in S BY <1>3, <1>6
  <2>2. QED BY <2>1 DEF S
<1>8. QED BY <1>7 DEF c

LEMMA OnlyOnce ==
  ASSUME NEW F, Structs(F), Linked(F), NEW f \in DOMAIN F
  PROVE f \notin On(F, F[f].next)
<1>1. F[f].next \in DOMAIN F \cup {Nul} BY DEF Structs
<1>2. f \in On(F, F[f].next) => Len(From(F)[f]) <= Len(From(F)[F[f].next]) BY <1>1, OnBehind
<1>3. Len(From(F)[f]) = Len(From(F)[F[f].next]) + 1 /\ From(F) \in [DOMAIN F \cup {Nul} -> Seq(Nat)] BY OnIs
<1>4. Len(From(F)[F[f].next]) \in Nat BY <1>1, <1>3
<1>5. QED BY <1>2, <1>3, <1>4

\* Structures that are left, when none of them leads to one that is not, have the
\* lists they had.
LEMMA FewerLists ==
  ASSUME NEW F, Structs(F), Linked(F), NEW G, DOMAIN G \subseteq DOMAIN F,
         \A f \in DOMAIN G : G[f].next = F[f].next /\ G[f].next \in DOMAIN G \cup {Nul}
  PROVE Structs(G) /\ Linked(G) /\ \A f \in DOMAIN G \cup {Nul} : From(G)[f] = From(F)[f] /\ On(G, f) = On(F, f)
<1> DEFINE c == From(F)
           E == DOMAIN G \cup {Nul}
           d == [f \in E |-> c[f]]
<1>1. Structs(G) BY DEF Structs
<1>2. /\ c \in [DOMAIN F \cup {Nul} -> Seq(Nat)] /\ c[Nul] = <<>>
      /\ \A f \in DOMAIN F : c[f] = <<f>> \o c[F[f].next]
  BY OnIs
<1> HIDE DEF c
<1>3. d \in [E -> Seq(Nat)] BY <1>2
<1>4. \A f \in E : d[f] = IF f = Nul THEN <<>> ELSE <<f>> \o d[G[f].next]
  <2> SUFFICES ASSUME NEW f \in E PROVE d[f] = IF f = Nul THEN <<>> ELSE <<f>> \o d[G[f].next] OBVIOUS
  <2>1. CASE f = Nul BY <1>2, <2>1
  <2>2. CASE f # Nul
    <3>1. f \in DOMAIN G /\ f \in DOMAIN F /\ G[f].next \in E /\ G[f].next = F[f].next BY <2>2
    <3>2. d[f] = c[f] /\ d[G[f].next] = c[F[f].next] BY <3>1
    <3>3. c[f] = <<f>> \o c[F[f].next] BY <1>2, <3>1
    <3>4. QED BY <2>2, <3>2, <3>3, Zenon
  <2>3. QED BY <2>1, <2>2
<1>5. Solves(G, d)
  <2>1. d = [f \in E |-> d[f]] OBVIOUS
  <2> HIDE DEF d
  <2>2. d = [f \in E |-> IF f = Nul THEN <<>> ELSE <<f>> \o d[G[f].next]] BY <1>4, <2>1, Zenon
  <2>3. QED BY <2>2 DEF Solves
<1>6. Lists(G, d) BY <1>3, <1>5 DEF Lists
<1>7. From(G) = d BY <1>1, <1>6, FromIs
<1>8. \A f \in E : From(G)[f] = From(F)[f] BY <1>7 DEF c
<1>9. QED BY <1>1, <1>6, <1>8 DEF Linked, On

\* A new structure in front of one.
LEMMA MoreLists ==
  ASSUME NEW F, Structs(F), Linked(F), NEW G, NEW p \in Nat \ {0}, p \notin DOMAIN F, DOMAIN G = DOMAIN F \cup {p},
         \A f \in DOMAIN F : G[f].next = F[f].next,
         G[p].next \in DOMAIN F \cup {Nul}
  PROVE /\ Structs(G) /\ Linked(G) /\ On(G, p) = {p} \cup On(F, G[p].next)
        /\ \A f \in DOMAIN F \cup {Nul} : From(G)[f] = From(F)[f] /\ On(G, f) = On(F, f)
<1> DEFINE c == From(F)
           E == DOMAIN G \cup {Nul}
           d == [f \in E |-> IF f = p THEN <<p>> \o c[G[p].next] ELSE c[f]]
<1>1. Structs(G) BY DEF Structs
<1>2. /\ c \in [DOMAIN F \cup {Nul} -> Seq(Nat)] /\ c[Nul] = <<>>
      /\ \A f \in DOMAIN F : c[f] = <<f>> \o c[F[f].next]
  BY OnIs
<1> HIDE DEF c
<1>3. p # Nul BY DEF Nul
<1>4. d \in [E -> Seq(Nat)]
  <2>1. <<p>> \o c[G[p].next] \in Seq(Nat) BY <1>2
  <2>2. \A f \in E : f # p => c[f] \in Seq(Nat) BY <1>2
  <2>3. QED BY <2>1, <2>2
<1>5. \A f \in DOMAIN F \cup {Nul} : f \in E /\ f # p /\ d[f] = c[f] BY <1>3
<1>6. d[p] = <<p>> \o d[G[p].next] BY <1>5
<1>7. \A f \in E : d[f] = IF f = Nul THEN <<>> ELSE <<f>> \o d[G[f].next]
  <2> SUFFICES ASSUME NEW f \in E PROVE d[f] = IF f = Nul THEN <<>> ELSE <<f>> \o d[G[f].next] OBVIOUS
  <2> HIDE DEF d
  <2>1. CASE f = Nul BY <1>2, <1>5, <2>1
  <2>2. CASE f = p BY <1>3, <1>6, <2>2
  <2>3. CASE f # Nul /\ f # p
    <3>1. f \in DOMAIN F /\ G[f].next = F[f].next /\ F[f].next \in DOMAIN F \cup {Nul} BY <2>3 DEF Structs
    <3>2. d[f] = c[f] /\ d[G[f].next] = c[F[f].next] BY <1>5, <3>1
    <3>3. c[f] = <<f>> \o c[F[f].next] BY <1>2, <3>1
    <3>4. QED BY <2>3, <3>2, <3>3, Zenon
  <2>4. QED BY <2>1, <2>2, <2>3
<1>8. Solves(G, d)
  <2>1. d = [f \in E |-> d[f]] OBVIOUS
  <2> HIDE DEF d
  <2>2. d = [f \in E |-> IF f = Nul THEN <<>> ELSE <<f>> \o d[G[f].next]] BY <1>7, <2>1, Zenon
  <2>3. QED BY <2>2 DEF Solves
<1>9. Lists(G, d) BY <1>4, <1>8 DEF Lists
<1>10. From(G) = d BY <1>1, <1>9, FromIs
<1> HIDE DEF d
<1>11. \A f \in DOMAIN F \cup {Nul} : From(G)[f] = From(F)[f] BY <1>5, <1>10 DEF c
<1>12. \A f \in DOMAIN F \cup {Nul} : On(G, f) = On(F, f) BY <1>11 DEF On
<1>13. Linked(G) BY <1>9 DEF Linked
<1>14. On(G, p) = {p} \cup On(G, G[p].next) BY <1>1, <1>13, OnIs
<1>15. QED BY <1>1, <1>11, <1>12, <1>13, <1>14

\* What is in a list before a structure of it.
LEMMA UpToIs ==
  ASSUME NEW F, Structs(F), Linked(F), NEW f \in DOMAIN F \cup {Nul}, NEW x \in On(F, f)
  PROVE Range(UpTo(From(F)[f], x)) = On(F, f) \ On(F, x)
<1> DEFINE c == From(F)
           D == DOMAIN F \cup {Nul}
           Tail1(e, i) == c[e][i] \in DOMAIN F /\ Len(c[c[e][i]]) = Len(c[e]) - i + 1
           Tail2(e, i) == i < Len(c[e]) => F[c[e][i]].next = c[e][i + 1]
           Tails(e) == \A i \in 1..Len(c[e]) : Tail1(e, i) /\ Tail2(e, i)
           S == {n \in Nat : \A e \in D : Len(c[e]) = n => Tails(e)}
<1>1. /\ c \in [D -> Seq(Nat)] /\ c[Nul] = <<>>
      /\ \A e \in DOMAIN F : c[e] = <<e>> \o c[F[e].next] /\ Len(c[e]) = Len(c[F[e].next]) + 1
  BY OnIs
<1>2. \A e \in DOMAIN F : e \in D /\ F[e].next \in D /\ e \in Nat BY DEF Structs
<1>3. \A e \in D : c[e] \in Seq(Nat) /\ Len(c[e]) \in Nat /\ DOMAIN c[e] = 1..Len(c[e]) BY <1>1
<1> HIDE DEF c
<1>4. 0 \in S
  <2> SUFFICES ASSUME NEW e \in D, Len(c[e]) = 0 PROVE Tails(e) OBVIOUS
  <2>1. QED OBVIOUS
<1>5. ASSUME NEW n \in Nat, n \in S PROVE n + 1 \in S
  <2> SUFFICES ASSUME NEW e \in D, Len(c[e]) = n + 1, NEW i \in 1..Len(c[e])
               PROVE Tail1(e, i) /\ Tail2(e, i)
    OBVIOUS
  <2>1. e \in DOMAIN F
    <3>1. Len(<<>>) = 0 OBVIOUS
    <3>2. e # Nul BY <1>1, <3>1
    <3>3. QED BY <3>2
  <2>2. F[e].next \in D /\ Len(c[F[e].next]) = n
    <3>1. F[e].next \in D /\ Len(c[e]) = Len(c[F[e].next]) + 1 BY <1>1, <1>2, <2>1
    <3>2. Len(c[F[e].next]) \in Nat BY <1>3, <3>1
    <3>3. QED BY <3>1, <3>2
  <2>3. Tails(F[e].next) BY <1>5, <2>2
  <2>4. /\ (<<e>> \o c[F[e].next])[1] = e
        /\ \A j \in 1..Len(c[F[e].next]) : (<<e>> \o c[F[e].next])[j + 1] = c[F[e].next][j]
    BY <1>2, <1>3, <2>1, <2>2, ConsIs
  <2>5. c[e][1] = e /\ \A j \in 1..n : c[e][j + 1] = c[F[e].next][j] BY <1>1, <2>1, <2>2, <2>4
  <2>6. CASE i = 1
    <3>1. ASSUME n > 0 PROVE c[e][2] = F[e].next
      <4> DEFINE g == F[e].next
      <4>1. g \in D /\ g # Nul
        <5>1. Len(<<>>) = 0 OBVIOUS
        <5>2. QED BY <1>1, <2>2, <3>1, <5>1
      <4>2. g \in DOMAIN F /\ g \in Nat /\ F[g].next \in D BY <1>2, <4>1
      <4> HIDE DEF g
      <4>3. c[g] = <<g>> \o c[F[g].next] /\ c[F[g].next] \in Seq(Nat) BY <1>1, <1>3, <4>2
      <4>4. c[g][1] = g BY <4>2, <4>3, ConsIs
      <4>5. c[e][1 + 1] = c[g][1] BY <2>5, <3>1 DEF g
      <4>6. QED BY <4>4, <4>5 DEF g
    <3>2. QED BY <2>1, <2>5, <2>6, <3>1
  <2>7. CASE i # 1
    <3>1. i - 1 \in 1..n /\ i - 1 + 1 = i BY <2>7
    <3>2. c[e][i] = c[F[e].next][i - 1] BY <2>5, <3>1
    <3>7. i - 1 \in 1..Len(c[F[e].next]) BY <2>2, <3>1
    <3>8. Tail1(F[e].next, i - 1) /\ Tail2(F[e].next, i - 1) BY <2>3, <3>7
    <3>3. /\ c[F[e].next][i - 1] \in DOMAIN F /\ Len(c[c[F[e].next][i - 1]]) = n - (i - 1) + 1
          /\ i - 1 < n => F[c[F[e].next][i - 1]].next = c[F[e].next][i - 1 + 1]
      BY <2>2, <3>8
    <3>4. n - (i - 1) + 1 = n + 1 - i + 1 BY <3>1
    <3>9. i < n + 1 => i - 1 < n /\ i \in 1..n BY <2>7
    <3>5. i < n + 1 => c[e][i + 1] = c[F[e].next][i] BY <2>5, <3>9
    <3>10. Tail1(e, i) BY <3>2, <3>3, <3>4
    <3>11. Tail2(e, i) BY <3>1, <3>2, <3>3, <3>5, <3>9
    <3>6. QED BY <3>10, <3>11
  <2>8. QED BY <2>6, <2>7
<1> HIDE DEF S
<1>6. Nat \subseteq S BY <1>4, <1>5, Induction
<1>7. ASSUME NEW e \in D PROVE Tails(e)
  <2>1. Len(c[e]) \in S BY <1>3, <1>6
  <2>2. QED BY <2>1 DEF S
<1> HIDE DEF Tails
<1>8. x \in Range(c[f]) BY DEF On, c
<1> DEFINE N == Len(c[f])
           I == {i \in 1..N : c[f][i] = x}
<1>9. N \in Nat /\ c[f] \in Seq(Nat) /\ DOMAIN c[f] = 1..N BY <1>3
<1>10. PICK k \in 1..N : c[f][k] = x BY <1>8, <1>9 DEF Range
<1>21. \A i \in 1..N : Tail1(f, i) /\ Tail2(f, i) BY <1>7 DEF Tails
<1>11. /\ \A i \in 1..N : c[f][i] \in DOMAIN F /\ Len(c[c[f][i]]) = N - i + 1
       /\ \A i \in 1..N : i < N => F[c[f][i]].next = c[f][i + 1]
  BY <1>21
<1> HIDE DEF N
<1>22. I = {i \in 1..Len(c[f]) : c[f][i] = x} BY DEF N
<1>12. I = {k}
  <2>1. \A i \in I : N - i + 1 = N - k + 1 BY <1>10, <1>11
  <2>2. QED BY <1>9, <1>10, <2>1
<1>13. SelectInSeq(c[f], LAMBDA y : y = x) = k
  <2>1. Min({k}) = k BY DEF Min
  <2>2. SelectInSeq(c[f], LAMBDA y : y = x) = IF I # {} THEN Min(I) ELSE 0 BY <1>22 DEF SelectInSeq
  <2>3. QED BY <1>12, <2>1, <2>2
<1>14. UpTo(c[f], x) = SubSeq(c[f], 1, k - 1) BY <1>8, <1>13 DEF UpTo
<1>15. Range(UpTo(c[f], x)) = {c[f][i] : i \in 1..k - 1}
  <2>1. SubSeq(c[f], 1, k - 1) = [i \in 1..k - 1 |-> c[f][i]]
    <3>1. k - 1 \in 0..N /\ 1 \in Int BY <1>9
    <3>2. QED BY <1>9, <3>1
  <2>2. QED BY <1>14, <2>1 DEF Range
<1>16. x \in DOMAIN F /\ x \in D /\ Len(c[x]) = N - k + 1 BY <1>10, <1>11
<1>17. ASSUME NEW i \in 1..k - 1 PROVE c[f][i] \in On(F, f) /\ c[f][i] \notin On(F, x)
  <2>5. k \in Nat /\ k <= N BY <1>9
  <2>6. i \in 1..N BY <1>9, <2>5
  <2>1. i \in 1..N /\ Len(c[c[f][i]]) = N - i + 1 BY <1>11, <2>6
  <2>2. c[f][i] \in On(F, f) BY <1>9, <2>1 DEF On, Range, c
  <2>3. c[f][i] \in On(F, x) => Len(c[c[f][i]]) <= Len(c[x]) BY <1>16, OnBehind DEF c
  <2>4. QED BY <1>9, <1>16, <2>1, <2>2, <2>3
<1>18. ASSUME NEW i \in k..N PROVE c[f][i] \in On(F, x)
  <2> DEFINE T == {n \in Nat : k + n <= N => c[f][k + n] \in On(F, x)}
  <2>1. 0 \in T
    <3>1. On(F, x) = {x} \cup On(F, F[x].next) BY <1>16, OnIs
    <3>2. QED BY <1>10, <3>1
  <2>2. ASSUME NEW n \in Nat, n \in T PROVE n + 1 \in T
    <3> SUFFICES ASSUME k + (n + 1) <= N PROVE c[f][k + (n + 1)] \in On(F, x) OBVIOUS
    <3>1. c[f][k + n] \in On(F, x) /\ k + n \in 1..N /\ k + n < N BY <1>9, <2>2
    <3> DEFINE g == c[f][k + n]
    <3>2. g \in DOMAIN F /\ F[g].next = c[f][k + n + 1] BY <1>11, <3>1
    <3>3. k + n + 1 \in 1..N /\ k + n + 1 = k + (n + 1) BY <1>9, <3>1
    <3>4. F[g].next \in DOMAIN F BY <1>11, <3>2, <3>3
    <3>12. F[g].next = c[f][k + (n + 1)] BY <3>2, <3>3
    <3> HIDE DEF g
    <3>5. On(F, g) \subseteq On(F, x) BY <1>16, <3>1, OnBehind DEF g
    <3> DEFINE e == F[g].next
    <3>8. g \in DOMAIN F BY <3>2 DEF g
    <3>9. On(F, g) = {g} \cup On(F, e) BY <3>8, OnIs
    <3>10. e \in DOMAIN F BY <3>4 DEF g
    <3> HIDE DEF e
    <3>11. On(F, e) = {e} \cup On(F, F[e].next) BY <3>10, OnIs
    <3>6. F[g].next \in On(F, F[g].next) /\ On(F, g) = {g} \cup On(F, F[g].next) BY <3>9, <3>11 DEF e
    <3>7. QED BY <3>5, <3>6, <3>12 DEF g
  <2> HIDE DEF T
  <2>3. Nat \subseteq T BY <2>1, <2>2, Induction
  <2>4. i - k \in Nat /\ k + (i - k) = i BY <1>9
  <2>6. k + (i - k) <= N BY <1>9, <2>4
  <2>7. c[f][k + (i - k)] \in On(F, x) BY <2>3, <2>4, <2>6 DEF T
  <2>5. QED BY <2>4, <2>7
<1>19. ASSUME NEW g \in On(F, f), g \notin On(F, x) PROVE g \in {c[f][i] : i \in 1..k - 1}
  <2>1. PICK i \in 1..N : g = c[f][i] BY <1>9, <1>19 DEF On, Range, c
  <2>2. i \notin k..N BY <1>18, <1>19, <2>1
  <2>3. i \in 1..k - 1 BY <1>9, <2>2
  <2>4. QED BY <2>1, <2>3
<1>20. QED BY <1>15, <1>17, <1>19 DEF c

------------------------------------------------------------------------------
\* The invariant, of file structures F, units U and streams S.  Structures in X
\* are in no list yet, while the unit they are for still has others.
Own(F, U, u) == On(F, U[u].curr) \cup On(F, U[u].head)

Sound(F, U, S) ==
  /\ Structs(F) /\ Linked(F) /\ IsFiniteSet(DOMAIN F) /\ IsFiniteSet(S) /\ StdStream \in S /\ S \subseteq Nat \ {0}
  /\ \A f \in DOMAIN F : F[f].iop \in S \cup {Nul} /\ F[f].inc \in BOOLEAN
  /\ \A u \in UnitNos : U[u].curr \in DOMAIN F \cup {Nul} /\ U[u].head \in DOMAIN F \cup {Nul}
\* Lists of two units have nothing in common.
Apart(F, U) == \A u, v \in UnitNos : u # v => Own(F, U, u) \cap Own(F, U, v) = {}
Loose(F, U, X) == /\ X \subseteq DOMAIN F
                  /\ \A f \in X : F[f].next = Nul /\ ~F[f].inc /\ \A u \in UnitNos : f \notin Own(F, U, u)
                  /\ \A f \in DOMAIN F \ X : \E u \in UnitNos : f \in Own(F, U, u)
\* The list of a unit has all of its files but those that were included, and
\* only what is still to be read can be open.
Placed(F, U) == \A u \in UnitNos : \A f \in Own(F, U, u) :
                  /\ f \in On(F, U[u].head) <=> ~F[f].inc
                  /\ F[f].inc => u = UNITI
                  /\ F[f].iop # Nul => f \in On(F, U[u].curr)
Held(F, S) == /\ \A s \in S \ {StdStream} : \E f \in DOMAIN F : F[f].iop = s
              /\ \A f, g \in DOMAIN F : F[f].iop = F[g].iop /\ F[f].iop \notin {Nul, StdStream} => f = g
Wired(F, U, S, X) == Sound(F, U, S) /\ Apart(F, U) /\ Loose(F, U, X) /\ Placed(F, U) /\ Held(F, S)

\* What one has is in the structures there are.
LEMMA OwnIn ==
  ASSUME NEW F, NEW U, NEW S, Sound(F, U, S), NEW u \in UnitNos
  PROVE /\ \A f \in Own(F, U, u) : f \in DOMAIN F /\ On(F, f) \subseteq Own(F, U, u)
        /\ On(F, Nul) = {} /\ On(F, U[u].curr) \subseteq Own(F, U, u) /\ On(F, U[u].head) \subseteq Own(F, U, u)
        /\ \A f \in DOMAIN F : On(F, f) = {f} \cup On(F, F[f].next)
        /\ (U[u].curr # Nul => U[u].curr \in Own(F, U, u)) /\ (U[u].head # Nul => U[u].head \in Own(F, U, u))
<1>1. Structs(F) /\ Linked(F) /\ U[u].curr \in DOMAIN F \cup {Nul} /\ U[u].head \in DOMAIN F \cup {Nul} BY DEF Sound
<1>2. On(F, Nul) = {} /\ \A f \in DOMAIN F : On(F, f) = {f} \cup On(F, F[f].next) BY <1>1, OnIs
<1>3. \A f \in Own(F, U, u) : f \in DOMAIN F /\ On(F, f) \subseteq Own(F, U, u) BY <1>1, OnBehind DEF Own
<1>4. U[u].curr # Nul => U[u].curr \in Own(F, U, u) BY <1>1, <1>2 DEF Own
<1>5. U[u].head # Nul => U[u].head \in Own(F, U, u) BY <1>1, <1>2 DEF Own
<1>6. QED BY <1>2, <1>3, <1>4, <1>5 DEF Own

\* A structure gets a stream: what cannot be opened leaves all as it was.
Opens(F, U, S, X, p, G, T) ==
  /\ p \in DOMAIN F /\ F[p].iop = Nul /\ DOMAIN G = DOMAIN F
  /\ p \in X \/ \E u \in UnitNos : p \in On(F, U[u].curr)
  /\ \A f \in DOMAIN F : G[f].next = F[f].next /\ G[f].inc = F[f].inc /\ (f # p => G[f].iop = F[f].iop)
  /\ \/ T = S /\ G[p].iop \in {Nul, StdStream}
     \/ G[p].iop \in Nat \ {0} /\ G[p].iop \notin S /\ T = S \cup {G[p].iop}

LEMMA OpenKeeps ==
  ASSUME NEW F, NEW U, NEW S, NEW X, Wired(F, U, S, X), NEW p, NEW G, NEW T, Opens(F, U, S, X, p, G, T)
  PROVE Wired(G, U, T, X)
<1> USE DEF Opens
<1>1. Sound(F, U, S) /\ Structs(F) /\ Linked(F) BY DEF Wired, Sound
<1>2. \A f \in DOMAIN G : G[f].next = F[f].next /\ G[f].next \in DOMAIN G \cup {Nul} BY <1>1 DEF Structs
<1>3. Structs(G) /\ Linked(G) /\ \A f \in DOMAIN F \cup {Nul} : On(G, f) = On(F, f) BY <1>1, <1>2, FewerLists
<1>4. \A u \in UnitNos : /\ On(G, U[u].curr) = On(F, U[u].curr) /\ On(G, U[u].head) = On(F, U[u].head)
                         /\ Own(G, U, u) = Own(F, U, u)
  BY <1>1, <1>3 DEF Sound, Own
<1>5. S \subseteq T /\ T \subseteq Nat \ {0} /\ IsFiniteSet(T) /\ G[p].iop \in T \cup {Nul}
  <2>1. IsFiniteSet(S) /\ S \subseteq Nat \ {0} /\ StdStream \in S BY <1>1 DEF Sound
  <2>2. \A x : IsFiniteSet(S \cup {x}) BY <2>1, FS_AddElement
  <2>3. QED BY <2>1, <2>2
<1>6. Sound(G, U, T)
  <2>1. \A f \in DOMAIN G : G[f].iop \in T \cup {Nul} /\ G[f].inc \in BOOLEAN
    <3>1. \A f \in DOMAIN F : F[f].iop \in S \cup {Nul} /\ F[f].inc \in BOOLEAN BY <1>1 DEF Sound
    <3>2. QED BY <1>5, <3>1
  <2>2. QED BY <1>1, <1>3, <1>5, <2>1 DEF Sound
<1>7. Apart(G, U) BY <1>4 DEF Wired, Apart
<1>8. Loose(G, U, X) BY <1>1, <1>4 DEF Wired, Loose
<1>9. Placed(G, U)
  <2> SUFFICES ASSUME NEW u \in UnitNos, NEW f \in Own(F, U, u)
               PROVE /\ f \in On(F, U[u].head) <=> ~G[f].inc
                     /\ G[f].inc => u = UNITI
                     /\ G[f].iop # Nul => f \in On(F, U[u].curr)
    BY <1>4 DEF Placed
  <2>1. f \in DOMAIN F BY <1>1, OwnIn
  <2>2. /\ f \in On(F, U[u].head) <=> ~F[f].inc
        /\ F[f].inc => u = UNITI
        /\ F[f].iop # Nul => f \in On(F, U[u].curr)
    BY DEF Wired, Placed
  <2>3. ASSUME f = p PROVE f \in On(F, U[u].curr)
    <3>1. p \notin X BY <2>3 DEF Wired, Loose
    <3>2. PICK v \in UnitNos : p \in On(F, U[v].curr) BY <3>1
    <3>3. p \in Own(F, U, v) BY <1>1, <3>2, OwnIn
    <3>4. u = v BY <2>3, <3>3 DEF Wired, Apart
    <3>5. QED BY <2>3, <3>2, <3>4
  <2>4. QED BY <2>1, <2>2, <2>3
<1>10. Held(G, T)
  <2>1. ASSUME NEW s \in T \ {StdStream} PROVE \E f \in DOMAIN G : G[f].iop = s
    <3>1. CASE s \in S
      <4>1. PICK f \in DOMAIN F : F[f].iop = s BY <3>1 DEF Wired, Held
      <4>2. f # p BY <1>1, <3>1, <4>1 DEF Sound, Nul
      <4>3. QED BY <4>1, <4>2
    <3>2. CASE s \notin S BY <3>2
    <3>3. QED BY <3>1, <3>2
  <2>2. ASSUME NEW f \in DOMAIN G, NEW g \in DOMAIN G, G[f].iop = G[g].iop, G[f].iop \notin {Nul, StdStream} PROVE f = g
    <3>1. \A e \in DOMAIN F : F[e].iop \in S \cup {Nul} BY <1>1 DEF Sound
    <3>2. CASE f # p /\ g # p
      <4>1. F[f].iop = F[g].iop /\ F[f].iop \notin {Nul, StdStream} BY <2>2, <3>2
      <4>2. QED BY <4>1 DEF Wired, Held
    <3>3. CASE f = p /\ g # p
      <4>1. F[g].iop = G[p].iop /\ G[p].iop \notin {Nul, StdStream} BY <2>2, <3>3
      <4>2. QED BY <3>1, <4>1
    <3>4. CASE f # p /\ g = p
      <4>1. F[f].iop = G[p].iop /\ G[p].iop \notin {Nul, StdStream} BY <2>2, <3>4
      <4>2. QED BY <3>1, <4>1
    <3>5. QED BY <3>2, <3>3, <3>4
  <2>3. QED BY <2>1, <2>2 DEF Held
<1>11. QED BY <1>6, <1>7, <1>8, <1>9, <1>10 DEF Wired

\* A unit closes structures C and frees structures R of its own.
Shrinks(F, U, S, u, R, C, G, T, V) ==
  /\ R \subseteq Own(F, U, u) /\ C \subseteq Own(F, U, u) /\ \A f \in R : f \in C \/ F[f].iop = Nul
  /\ DOMAIN G = DOMAIN F \ R
  /\ \A f \in DOMAIN G : G[f].next = F[f].next /\ G[f].inc = F[f].inc /\ G[f].iop = IF f \in C THEN Nul ELSE F[f].iop
  /\ \A s : s \in T <=> s \in S /\ (s \in {Nul, StdStream} \/ \A f \in C : F[f].iop # s)
  /\ \A v \in UnitNos \ {u} : V[v].curr = U[v].curr /\ V[v].head = U[v].head
  /\ V[u].curr \in DOMAIN G \cup {Nul} /\ V[u].head \in DOMAIN G \cup {Nul}
  /\ \A f \in Own(F, U, u) \ R : F[f].next \notin R
  /\ On(F, V[u].curr) \cup On(F, V[u].head) = Own(F, U, u) \ R
  /\ \A f \in Own(F, U, u) \ R : /\ f \in On(F, V[u].head) <=> ~F[f].inc
                                 /\ F[f].iop # Nul /\ f \notin C => f \in On(F, V[u].curr)

LEMMA ShrinkKeeps ==
  ASSUME NEW F, NEW U, NEW S, NEW X, Wired(F, U, S, X), NEW u \in UnitNos,
         NEW R, NEW C, NEW G, NEW T, NEW V, Shrinks(F, U, S, u, R, C, G, T, V)
  PROVE /\ Wired(G, V, T, X) /\ \A f \in DOMAIN G \cup {Nul} : From(G)[f] = From(F)[f] /\ On(G, f) = On(F, f)
        /\ Own(G, V, u) = Own(F, U, u) \ R
<1> USE DEF Shrinks
<1>1. Sound(F, U, S) /\ Structs(F) /\ Linked(F) BY DEF Wired, Sound
<1>2. ASSUME NEW f \in DOMAIN G PROVE G[f].next = F[f].next /\ G[f].next \in DOMAIN G \cup {Nul}
  <2>1. f \in DOMAIN F /\ F[f].next \in DOMAIN F \cup {Nul} BY <1>1 DEF Structs
  <2>2. ASSUME F[f].next \in R PROVE FALSE
    <3>1. f \notin Own(F, U, u) BY <2>2
    <3>2. F[f].next \in Own(F, U, u) BY <2>2
    <3>3. F[f].next \in DOMAIN F BY <1>1, <3>2, OwnIn
    <3>4. F[f].next # Nul BY <1>1, <3>3 DEF Structs, Nul
    <3>5. f \notin X BY <3>4 DEF Wired, Loose
    <3>6. PICK v \in UnitNos : f \in Own(F, U, v) BY <2>1, <3>5 DEF Wired, Loose
    <3>7. On(F, f) \subseteq Own(F, U, v) BY <1>1, <3>6, OwnIn
    <3>8. F[f].next \in On(F, F[f].next) /\ On(F, f) = {f} \cup On(F, F[f].next)
      <4>1. \A g \in DOMAIN F : On(F, g) = {g} \cup On(F, F[g].next) BY <1>1, OwnIn
      <4>2. QED BY <2>1, <3>3, <4>1
    <3>9. F[f].next \in Own(F, U, v) BY <3>7, <3>8
    <3>10. u = v BY <3>2, <3>9 DEF Wired, Apart
    <3>11. QED BY <3>1, <3>6, <3>10
  <2>3. QED BY <2>1, <2>2
<1>3. Structs(G) /\ Linked(G) /\ \A f \in DOMAIN G \cup {Nul} : From(G)[f] = From(F)[f] /\ On(G, f) = On(F, f)
  BY <1>1, <1>2, FewerLists
<1>4. ASSUME NEW v \in UnitNos
      PROVE /\ V[v].curr \in DOMAIN G \cup {Nul} /\ V[v].head \in DOMAIN G \cup {Nul}
            /\ On(G, V[v].curr) = On(F, V[v].curr) /\ On(G, V[v].head) = On(F, V[v].head)
            /\ Own(G, V, v) = IF v = u THEN Own(F, U, u) \ R ELSE Own(F, U, v)
  <2>1. CASE v = u BY <1>3, <2>1 DEF Own
  <2>2. CASE v # u
    <3>1. V[v].curr = U[v].curr /\ V[v].head = U[v].head BY <2>2
    <3>2. Own(F, U, v) \cap R = {} BY <2>2 DEF Wired, Apart
    <3>3. U[v].curr \notin R /\ U[v].head \notin R
      <4>1. /\ U[v].curr # Nul => U[v].curr \in Own(F, U, v)
            /\ U[v].head # Nul => U[v].head \in Own(F, U, v)
        BY <1>1, OwnIn
      <4>2. Nul \notin R
        <5>1. \A f \in Own(F, U, u) : f \in DOMAIN F BY <1>1, OwnIn
        <5>2. QED BY <1>1, <5>1 DEF Structs, Nul
      <4>3. QED BY <3>2, <4>1, <4>2
    <3>4. U[v].curr \in DOMAIN G \cup {Nul} /\ U[v].head \in DOMAIN G \cup {Nul} BY <1>1, <3>3 DEF Sound
    <3>5. QED BY <1>3, <2>2, <3>1, <3>4 DEF Own
  <2>3. QED BY <2>1, <2>2
<1>5. Sound(G, V, T)
  <2>1. IsFiniteSet(DOMAIN G) /\ IsFiniteSet(T)
    <3>1. IsFiniteSet(DOMAIN F) /\ IsFiniteSet(S) BY <1>1 DEF Sound
    <3>2. DOMAIN G \in SUBSET DOMAIN F /\ T \in SUBSET S OBVIOUS
    <3>3. QED BY <3>1, <3>2, FS_Subset
  <2>2. StdStream \in T /\ T \subseteq Nat \ {0} BY <1>1 DEF Sound
  <2>3. ASSUME NEW f \in DOMAIN G PROVE G[f].iop \in T \cup {Nul} /\ G[f].inc \in BOOLEAN
    <3>1. f \in DOMAIN F /\ F[f].iop \in S \cup {Nul} /\ F[f].inc \in BOOLEAN BY <1>1 DEF Sound
    <3>2. CASE f \in C BY <3>1, <3>2
    <3>3. CASE f \notin C
      <4>1. ASSUME F[f].iop \notin {Nul, StdStream} PROVE F[f].iop \notin {F[g].iop : g \in C}
        <5>1. \A g \in C : g \in DOMAIN F BY <1>1, OwnIn
        <5>2. \A g \in C : F[g].iop # F[f].iop BY <3>1, <3>3, <4>1, <5>1 DEF Wired, Held
        <5>3. QED BY <5>2
      <4>2. F[f].iop \in T \cup {Nul} BY <3>1, <4>1
      <4>3. QED BY <3>1, <3>3, <4>2
    <3>4. QED BY <3>2, <3>3
  <2>4. QED BY <1>3, <1>4, <2>1, <2>2, <2>3 DEF Sound
<1>6. Apart(G, V)
  <2>1. \A v \in UnitNos : Own(G, V, v) \subseteq Own(F, U, v) BY <1>4
  <2>2. QED BY <2>1 DEF Wired, Apart
<1>7. Loose(G, V, X)
  <2>1. Loose(F, U, X) BY DEF Wired
  <2>2. X \subseteq DOMAIN G BY <2>1 DEF Loose
  <2>3. \A f \in X : G[f].next = Nul /\ ~G[f].inc /\ \A v \in UnitNos : f \notin Own(G, V, v) BY <1>4, <2>1, <2>2 DEF Loose
  <2>4. ASSUME NEW f \in DOMAIN G \ X PROVE \E v \in UnitNos : f \in Own(G, V, v)
    <3>1. f \in DOMAIN F \ X /\ f \notin R OBVIOUS
    <3>2. PICK v \in UnitNos : f \in Own(F, U, v) BY <2>1, <3>1 DEF Loose
    <3>3. QED BY <1>4, <3>1, <3>2
  <2>5. QED BY <2>2, <2>3, <2>4 DEF Loose
<1>8. Placed(G, V)
  <2> SUFFICES ASSUME NEW v \in UnitNos, NEW f \in Own(G, V, v)
               PROVE /\ f \in On(F, V[v].head) <=> ~G[f].inc
                     /\ G[f].inc => v = UNITI
                     /\ G[f].iop # Nul => f \in On(F, V[v].curr)
    BY <1>4 DEF Placed
  <2>1. f \in DOMAIN G BY <1>5, OwnIn
  <2>2. f \in Own(F, U, v) BY <1>4
  <2>3. /\ f \in On(F, U[v].head) <=> ~F[f].inc
        /\ F[f].inc => v = UNITI
        /\ F[f].iop # Nul => f \in On(F, U[v].curr)
    BY <2>2 DEF Wired, Placed
  <2>4. CASE v = u
    <3>1. f \in Own(F, U, u) \ R BY <1>4, <2>4
    <3>2. /\ f \in On(F, V[u].head) <=> ~F[f].inc
          /\ F[f].iop # Nul /\ f \notin C => f \in On(F, V[u].curr)
      BY <3>1
    <3>3. QED BY <2>1, <2>3, <2>4, <3>2
  <2>5. CASE v # u
    <3>1. V[v].curr = U[v].curr /\ V[v].head = U[v].head BY <2>5
    <3>2. G[f].inc = F[f].inc /\ (G[f].iop # Nul => F[f].iop # Nul) BY <2>1
    <3>3. QED BY <2>3, <3>1, <3>2
  <2>6. QED BY <2>4, <2>5
<1>9. Held(G, T)
  <2>1. ASSUME NEW s \in T \ {StdStream} PROVE \E f \in DOMAIN G : G[f].iop = s
    <3>1. PICK f \in DOMAIN F : F[f].iop = s BY <2>1 DEF Wired, Held
    <3>2. s # Nul BY <1>5 DEF Sound, Nul
    <3>3. f \notin C BY <3>1, <3>2
    <3>4. f \notin R BY <3>1, <3>2, <3>3
    <3>5. QED BY <3>1, <3>3, <3>4
  <2>2. ASSUME NEW f \in DOMAIN G, NEW g \in DOMAIN G, G[f].iop = G[g].iop, G[f].iop \notin {Nul, StdStream} PROVE f = g
    <3>1. f \notin C /\ g \notin C BY <2>2
    <3>2. F[f].iop = F[g].iop /\ F[f].iop \notin {Nul, StdStream} BY <2>2, <3>1
    <3>3. QED BY <3>2 DEF Wired, Held
  <2>3. QED BY <2>1, <2>2 DEF Held
<1>10. QED BY <1>3, <1>4, <1>5, <1>6, <1>7, <1>8, <1>9 DEF Wired

\* io_close.
Closes(F, U, S, u, p, G, T, V) ==
  /\ p = U[u].curr /\ p # Nul /\ DOMAIN G = DOMAIN F \ (IF F[p].inc THEN {p} ELSE {})
  /\ \A f \in DOMAIN G : /\ G[f].next = F[f].next /\ G[f].inc = F[f].inc
                         /\ G[f].iop = IF f = p THEN Nul ELSE F[f].iop
  /\ T = S \ ({F[p].iop} \ {Nul, StdStream})
  /\ \A v \in UnitNos \ {u} : V[v].curr = U[v].curr /\ V[v].head = U[v].head
  /\ V[u].curr = F[p].next /\ V[u].head = U[u].head

LEMMA CloseKeeps ==
  ASSUME NEW F, NEW U, NEW S, NEW X, Wired(F, U, S, X), NEW u \in UnitNos,
         NEW p, NEW G, NEW T, NEW V, Closes(F, U, S, u, p, G, T, V)
  PROVE /\ Wired(G, V, T, X) /\ p \in DOMAIN F /\ F[p].next \in DOMAIN G \cup {Nul}
        /\ From(G)[V[u].curr] = From(F)[F[p].next]
<1> USE DEF Closes
<1> DEFINE R == IF F[p].inc THEN {p} ELSE {}
           C == {p}
<1>1. Sound(F, U, S) /\ Structs(F) /\ Linked(F) BY DEF Wired, Sound
<1>2. p \in Own(F, U, u) /\ p \in DOMAIN F BY <1>1, OwnIn
<1>3. On(F, p) = {p} \cup On(F, F[p].next) /\ p \notin On(F, F[p].next) /\ F[p].next \in DOMAIN F \cup {Nul}
  <2>1. On(F, p) = {p} \cup On(F, F[p].next) BY <1>1, <1>2, OwnIn
  <2>2. QED BY <1>1, <1>2, <2>1, OnlyOnce DEF Structs
<1>4. p \in On(F, U[u].head) <=> ~F[p].inc BY <1>2 DEF Wired, Placed
<1>5. Own(F, U, u) = On(F, p) \cup On(F, U[u].head) BY DEF Own
<1>6. R \subseteq Own(F, U, u) /\ C \subseteq Own(F, U, u) /\ R \ C = {} BY <1>2
<1>7. \A s : s \in T <=> s \in S /\ (s \in {Nul, StdStream} \/ \A f \in C : F[f].iop # s) OBVIOUS
<1>8. On(F, V[u].curr) \cup On(F, V[u].head) = Own(F, U, u) \ R BY <1>3, <1>4, <1>5
<1>9. ASSUME NEW f \in Own(F, U, u) \ R PROVE F[f].next \notin R
  <2> SUFFICES ASSUME F[p].inc, F[f].next = p PROVE FALSE OBVIOUS
  <2>1. f \in DOMAIN F /\ On(F, f) = {f} \cup On(F, p) BY <1>1, <1>9, OwnIn
  <2>2. p \in On(F, f) BY <1>3, <2>1
  <2>3. F[p].next \in DOMAIN F \cup {Nul} /\ U[u].head \in DOMAIN F \cup {Nul} BY <1>1, <1>3 DEF Sound
  <2>4. CASE f \in On(F, U[u].head)
    <3>1. On(F, f) \subseteq On(F, U[u].head) BY <1>1, <2>3, <2>4, OnBehind
    <3>2. QED BY <1>4, <2>2, <3>1
  <2>5. CASE f \in On(F, F[p].next)
    <3>1. On(F, f) \subseteq On(F, F[p].next) BY <1>1, <2>3, <2>5, OnBehind
    <3>2. QED BY <1>3, <2>2, <3>1
  <2>6. QED BY <1>3, <1>5, <1>9, <2>4, <2>5
<1>10. F[p].next \in DOMAIN G \cup {Nul}
  <2>1. p # Nul => F[p].next # p
    <3>1. ASSUME F[p].next = p PROVE FALSE
      <4>1. p \in On(F, p) BY <1>3
      <4>2. QED BY <1>3, <3>1, <4>1
    <3>2. QED BY <3>1
  <2>2. QED BY <1>3, <2>1
<1>11. V[u].head \in DOMAIN G \cup {Nul}
  <2>1. U[u].head \in DOMAIN F \cup {Nul} BY <1>1 DEF Sound
  <2>2. ASSUME U[u].head = p, F[p].inc PROVE FALSE
    <3>1. p \in On(F, U[u].head) BY <1>3, <2>2
    <3>2. QED BY <1>4, <2>2, <3>1
  <2>3. QED BY <2>1, <2>2
<1>12. ASSUME NEW f \in Own(F, U, u) \ R
       PROVE /\ f \in On(F, V[u].head) <=> ~F[f].inc
             /\ F[f].iop # Nul /\ f \notin C => f \in On(F, V[u].curr)
  <2>1. (f \in On(F, U[u].head) <=> ~F[f].inc) /\ (F[f].iop # Nul => f \in On(F, U[u].curr)) BY DEF Wired, Placed
  <2>2. QED BY <1>3, <2>1
<1>13. /\ DOMAIN G = DOMAIN F \ R /\ V[u].curr \in DOMAIN G \cup {Nul}
       /\ \A f \in DOMAIN G : /\ G[f].next = F[f].next /\ G[f].inc = F[f].inc
                              /\ G[f].iop = IF f \in C THEN Nul ELSE F[f].iop
  BY <1>10
<1>14. \A f \in R : f \in C \/ F[f].iop = Nul BY <1>6
<1> HIDE DEF R, C
<1>17. Shrinks(F, U, S, u, R, C, G, T, V)
  BY <1>6, <1>7, <1>8, <1>9, <1>11, <1>12, <1>13, <1>14 DEF Shrinks
<1>15. Wired(G, V, T, X) /\ \A f \in DOMAIN G \cup {Nul} : From(G)[f] = From(F)[f]
  BY <1>17, ShrinkKeeps
<1>16. QED BY <1>2, <1>10, <1>15

\* The end of io_closeall.
Drops(F, U, u, G, V) ==
  /\ U[u].curr = Nul /\ DOMAIN G = DOMAIN F \ On(F, U[u].head) /\ \A f \in DOMAIN G : G[f] = F[f]
  /\ \A v \in UnitNos \ {u} : V[v].curr = U[v].curr /\ V[v].head = U[v].head
  /\ V[u].curr = Nul /\ V[u].head = Nul

LEMMA DropKeeps ==
  ASSUME NEW F, NEW U, NEW S, NEW X, Wired(F, U, S, X), NEW u \in UnitNos, NEW G, NEW V, Drops(F, U, u, G, V)
  PROVE Wired(G, V, S, X) /\ Own(G, V, u) = {}
<1> USE DEF Drops
<1> DEFINE R == On(F, U[u].head)
<1>1. Sound(F, U, S) BY DEF Wired
<1>2. On(F, Nul) = {} BY <1>1, OwnIn
<1>3. Own(F, U, u) = R BY <1>2 DEF Own
<1>4. \A f \in R : F[f].iop = Nul BY <1>2, <1>3 DEF Wired, Placed
<1> HIDE DEF R
<1>5. R \subseteq Own(F, U, u) /\ {} \subseteq Own(F, U, u) /\ \A f \in R : F[f].iop = Nul BY <1>3, <1>4
<1>7. /\ DOMAIN G = DOMAIN F \ R
      /\ \A f \in DOMAIN G : /\ G[f].next = F[f].next /\ G[f].inc = F[f].inc
                             /\ G[f].iop = IF f \in {} THEN Nul ELSE F[f].iop
  BY DEF R
<1>8. On(F, V[u].curr) \cup On(F, V[u].head) = Own(F, U, u) \ R BY <1>2, <1>3
<1>9. \A f : f \notin Own(F, U, u) \ R BY <1>3
<1>10. Wired(G, V, S, X) /\ Own(G, V, u) = Own(F, U, u) \ R
  <2>1. V[u].curr \in DOMAIN G \cup {Nul} /\ V[u].head \in DOMAIN G \cup {Nul} OBVIOUS
  <2>2. Shrinks(F, U, S, u, R, {}, G, S, V) BY <1>5, <1>7, <1>8, <1>9, <2>1 DEF Shrinks
  <2>3. QED BY <2>2, ShrinkKeeps
<1>11. QED BY <1>3, <1>10

\* The end of compilation, with -r.
Skips(F, U, u, p, G, V) ==
  /\ p = U[u].curr /\ p # Nul /\ ~F[p].inc
  /\ DOMAIN G = DOMAIN F \ (On(F, U[u].head) \ On(F, p)) /\ \A f \in DOMAIN G : G[f] = F[f]
  /\ \A v \in UnitNos \ {u} : V[v].curr = U[v].curr /\ V[v].head = U[v].head
  /\ V[u].curr = p /\ V[u].head = p

LEMMA SkipKeeps ==
  ASSUME NEW F, NEW U, NEW S, NEW X, Wired(F, U, S, X), NEW u \in UnitNos, NEW p, NEW G, NEW V, Skips(F, U, u, p, G, V)
  PROVE Wired(G, V, S, X) /\ \A f \in Own(F, U, u) : ~F[f].inc
<1> USE DEF Skips
<1> DEFINE R == On(F, U[u].head) \ On(F, p)
<1>1. Sound(F, U, S) /\ Structs(F) /\ Linked(F) BY DEF Wired, Sound
<1>2. p \in Own(F, U, u) /\ p \in DOMAIN F /\ On(F, Nul) = {} BY <1>1, OwnIn
<1>3. p \in On(F, U[u].head) BY <1>2 DEF Wired, Placed
<1>4. On(F, p) \subseteq On(F, U[u].head)
  <2>1. U[u].head \in DOMAIN F \cup {Nul} BY <1>1 DEF Sound
  <2>2. QED BY <1>1, <1>3, <2>1, OnBehind
<1>5. Own(F, U, u) = On(F, U[u].head) BY <1>4 DEF Own
<1>6. \A f \in Own(F, U, u) : ~F[f].inc /\ (F[f].iop # Nul => f \in On(F, p)) BY <1>5 DEF Wired, Placed
<1>7. Own(F, U, u) \ R = On(F, p) BY <1>4, <1>5
<1>8. ASSUME NEW f \in On(F, p) PROVE F[f].next \notin R
  <2>1. f \in DOMAIN F /\ On(F, f) \subseteq On(F, p) BY <1>1, <1>2, <1>8, OnBehind
  <2>2. On(F, f) = {f} \cup On(F, F[f].next) BY <1>1, <2>1, OwnIn
  <2>3. F[f].next \in DOMAIN F \cup {Nul} BY <1>1, <2>1 DEF Structs
  <2>4. CASE F[f].next = Nul
    <3>1. Nul \notin DOMAIN F BY <1>1 DEF Structs, Nul
    <3>2. R \subseteq DOMAIN F BY <1>1, <1>5, OwnIn
    <3>3. QED BY <2>4, <3>1, <3>2
  <2>5. CASE F[f].next # Nul
    <3> DEFINE g == F[f].next
    <3>1. g \in DOMAIN F BY <2>3, <2>5
    <3> HIDE DEF g
    <3>2. g \in On(F, g) BY <1>1, <3>1, OwnIn
    <3>3. QED BY <2>1, <2>2, <3>2 DEF g
  <2>6. QED BY <2>4, <2>5
<1>9. p \in On(F, p) BY <1>1, <1>2, OwnIn
<1>10. p \in DOMAIN G BY <1>2, <1>9
<1>11. R \subseteq Own(F, U, u) /\ {} \subseteq Own(F, U, u) /\ \A f \in R : F[f].iop = Nul BY <1>5, <1>6
<1>13. /\ DOMAIN G = DOMAIN F \ R
       /\ \A f \in DOMAIN G : /\ G[f].next = F[f].next /\ G[f].inc = F[f].inc
                              /\ G[f].iop = IF f \in {} THEN Nul ELSE F[f].iop
  OBVIOUS
<1>14. On(F, V[u].curr) \cup On(F, V[u].head) = Own(F, U, u) \ R BY <1>7
<1> HIDE DEF R
<1>15. \A f \in Own(F, U, u) \ R : F[f].next \notin R BY <1>7, <1>8
<1>16. \A f \in Own(F, U, u) \ R : /\ f \in On(F, V[u].head) <=> ~F[f].inc
                                   /\ F[f].iop # Nul /\ f \notin {} => f \in On(F, V[u].curr)
  BY <1>6, <1>7
<1>17. Wired(G, V, S, X)
  <2>1. V[u].curr \in DOMAIN G \cup {Nul} /\ V[u].head \in DOMAIN G \cup {Nul} BY <1>10
  <2>2. Shrinks(F, U, S, u, R, {}, G, S, V) BY <1>11, <1>13, <1>14, <1>15, <1>16, <2>1 DEF Shrinks
  <2>3. QED BY <2>2, ShrinkKeeps
<1>18. QED BY <1>6, <1>17

\* A unit whose list and place in it are one structure.
SetTo(U, u, p, V) == /\ \A v \in UnitNos \ {u} : V[v].curr = U[v].curr /\ V[v].head = U[v].head
                     /\ V[u].curr = p /\ V[u].head = p

\* io_rewind, when no file was included: the unit is at its first file again.
LEMMA RewindKeeps ==
  ASSUME NEW F, NEW U, NEW S, NEW X, Wired(F, U, S, X), NEW u \in UnitNos, \A f \in Own(F, U, u) : ~F[f].inc,
         NEW V, SetTo(U, u, U[u].head, V)
  PROVE Wired(F, V, S, X)
<1> USE DEF SetTo
<1>1. Sound(F, U, S) BY DEF Wired
<1>2. \A f \in Own(F, U, u) : f \in On(F, U[u].head) BY DEF Wired, Placed
<1>3. Own(F, U, u) = On(F, U[u].head) BY <1>2 DEF Own
<1>4. U[u].head \in DOMAIN F \cup {Nul} BY <1>1 DEF Sound
<1>10. V[u].curr \in DOMAIN F \cup {Nul} /\ V[u].head \in DOMAIN F \cup {Nul} BY <1>4
<1>11. Shrinks(F, U, S, u, {}, {}, F, S, V) BY <1>3, <1>10, <1>2 DEF Shrinks
<1>12. QED BY <1>11, ShrinkKeeps

\* A structure that is not in a list yet.
Loosens(F, p, G) ==
  /\ p \in Nat \ {0} /\ p \notin DOMAIN F /\ DOMAIN G = DOMAIN F \cup {p} /\ \A f \in DOMAIN F : G[f] = F[f]
  /\ G[p].next = Nul /\ G[p].inc = FALSE /\ G[p].iop \in {Nul, StdStream}

LEMMA LooseKeeps ==
  ASSUME NEW F, NEW U, NEW S, Wired(F, U, S, {}), NEW p, NEW G, Loosens(F, p, G)
  PROVE Wired(G, U, S, {p})
<1> USE DEF Loosens
<1>1. Sound(F, U, S) /\ Structs(F) /\ Linked(F) BY DEF Wired, Sound
<1>2. /\ Structs(G) /\ Linked(G)
      /\ \A f \in DOMAIN F \cup {Nul} : From(G)[f] = From(F)[f] /\ On(G, f) = On(F, f)
  BY <1>1, MoreLists
<1>3. \A u \in UnitNos : /\ On(G, U[u].curr) = On(F, U[u].curr) /\ On(G, U[u].head) = On(F, U[u].head)
                         /\ Own(G, U, u) = Own(F, U, u) /\ Own(F, U, u) \subseteq DOMAIN F
  <2> SUFFICES ASSUME NEW u \in UnitNos
               PROVE /\ On(G, U[u].curr) = On(F, U[u].curr) /\ On(G, U[u].head) = On(F, U[u].head)
                     /\ Own(G, U, u) = Own(F, U, u) /\ Own(F, U, u) \subseteq DOMAIN F
    OBVIOUS
  <2>1. U[u].curr \in DOMAIN F \cup {Nul} /\ U[u].head \in DOMAIN F \cup {Nul} BY <1>1 DEF Sound
  <2>2. Own(F, U, u) \subseteq DOMAIN F BY <1>1, OwnIn
  <2>3. QED BY <1>2, <2>1, <2>2 DEF Own
<1>4. Sound(G, U, S)
  <2>1. IsFiniteSet(DOMAIN G)
    <3>1. IsFiniteSet(DOMAIN F) BY <1>1 DEF Sound
    <3>2. QED BY <3>1, FS_AddElement
  <2>2. QED BY <1>1, <1>2, <2>1 DEF Sound
<1>5. Apart(G, U) BY <1>3 DEF Wired, Apart
<1>6. Loose(G, U, {p})
  <2>1. \A f \in DOMAIN F : \E u \in UnitNos : f \in Own(F, U, u) BY DEF Wired, Loose
  <2>2. QED BY <1>3, <2>1 DEF Loose
<1>7. Placed(G, U)
  <2> SUFFICES ASSUME NEW u \in UnitNos, NEW f \in Own(F, U, u)
               PROVE /\ f \in On(F, U[u].head) <=> ~G[f].inc
                     /\ G[f].inc => u = UNITI
                     /\ G[f].iop # Nul => f \in On(F, U[u].curr)
    BY <1>3 DEF Placed
  <2>1. G[f] = F[f] BY <1>3
  <2>2. QED BY <2>1 DEF Wired, Placed
<1>8. Held(G, S)
  <2>1. Held(F, S) BY DEF Wired
  <2>2. QED BY <2>1 DEF Held
<1>9. QED BY <1>4, <1>5, <1>6, <1>7, <1>8 DEF Wired

\* It becomes the file of a unit that has none.
LEMMA AttachKeeps ==
  ASSUME NEW F, NEW U, NEW S, NEW p, Wired(F, U, S, {p}), NEW u \in UnitNos, Own(F, U, u) = {},
         NEW V, SetTo(U, u, p, V)
  PROVE Wired(F, V, S, {})
<1> USE DEF SetTo
<1>1. Sound(F, U, S) /\ Loose(F, U, {p}) /\ Apart(F, U) /\ Placed(F, U) /\ Held(F, S) BY DEF Wired
<1>2. p \in DOMAIN F /\ F[p].next = Nul /\ ~F[p].inc /\ \A v \in UnitNos : p \notin Own(F, U, v) BY <1>1 DEF Loose
<1>3. On(F, p) = {p}
  <2>1. On(F, p) = {p} \cup On(F, F[p].next) /\ On(F, Nul) = {} BY <1>1, <1>2, OwnIn
  <2>2. QED BY <1>2, <2>1
<1>4. \A v \in UnitNos : Own(F, V, v) = IF v = u THEN {p} ELSE Own(F, U, v) BY <1>3 DEF Own
<1>5. Sound(F, V, S)
  <2>1. \A v \in UnitNos : V[v].curr \in DOMAIN F \cup {Nul} /\ V[v].head \in DOMAIN F \cup {Nul} BY <1>1, <1>2 DEF Sound
  <2>2. QED BY <1>1, <2>1 DEF Sound
<1>6. Apart(F, V) BY <1>1, <1>2, <1>4 DEF Apart
<1>7. Loose(F, V, {})
  <2>1. ASSUME NEW f \in DOMAIN F PROVE \E v \in UnitNos : f \in Own(F, V, v)
    <3>1. CASE f = p BY <1>4, <3>1
    <3>2. CASE f # p
      <4>1. PICK v \in UnitNos : f \in Own(F, U, v) BY <1>1, <3>2 DEF Loose
      <4>2. v # u BY <4>1
      <4>3. QED BY <1>4, <4>1, <4>2
    <3>3. QED BY <3>1, <3>2
  <2>2. QED BY <2>1 DEF Loose
<1>8. Placed(F, V)
  <2> SUFFICES ASSUME NEW v \in UnitNos, NEW f \in Own(F, V, v)
               PROVE /\ f \in On(F, V[v].head) <=> ~F[f].inc
                     /\ F[f].inc => v = UNITI
                     /\ F[f].iop # Nul => f \in On(F, V[v].curr)
    BY DEF Placed
  <2>1. CASE v = u BY <1>2, <1>3, <1>4, <2>1
  <2>2. CASE v # u
    <3>1. f \in Own(F, U, v) /\ V[v].curr = U[v].curr /\ V[v].head = U[v].head BY <1>4, <2>2
    <3>2. QED BY <1>1, <3>1 DEF Placed
  <2>3. QED BY <2>1, <2>2
<1>9. QED BY <1>1, <1>5, <1>6, <1>7, <1>8 DEF Wired

\* An included file comes in front of the file that includes it.
Includes(F, U, p, G, V) ==
  /\ p \in Nat \ {0} /\ p \notin DOMAIN F /\ DOMAIN G = DOMAIN F \cup {p} /\ \A f \in DOMAIN F : G[f] = F[f]
  /\ G[p].next = U[UNITI].curr /\ G[p].inc = TRUE /\ G[p].iop = Nul
  /\ \A v \in UnitNos \ {UNITI} : V[v].curr = U[v].curr /\ V[v].head = U[v].head
  /\ V[UNITI].curr = p /\ V[UNITI].head = U[UNITI].head

LEMMA IncludeKeeps ==
  ASSUME UNITI \in UnitNos, NEW F, NEW U, NEW S, Wired(F, U, S, {}), NEW p, NEW G, NEW V, Includes(F, U, p, G, V)
  PROVE Wired(G, V, S, {})
<1> USE DEF Includes
<1>1. /\ Sound(F, U, S) /\ Structs(F) /\ Linked(F) /\ Loose(F, U, {}) /\ Apart(F, U) /\ Placed(F, U) /\ Held(F, S)
      /\ \A v \in UnitNos : U[v].curr \in DOMAIN F \cup {Nul} /\ U[v].head \in DOMAIN F \cup {Nul}
  BY DEF Wired, Sound
<1>2. /\ Structs(G) /\ Linked(G) /\ On(G, p) = {p} \cup On(F, U[UNITI].curr)
      /\ \A f \in DOMAIN F \cup {Nul} : On(G, f) = On(F, f)
  <2>1. \A f \in DOMAIN F : G[f].next = F[f].next OBVIOUS
  <2>2. G[p].next \in DOMAIN F \cup {Nul} BY <1>1
  <2>3. QED BY <1>1, <2>1, <2>2, MoreLists
<1>3. \A v \in UnitNos : Own(F, U, v) \subseteq DOMAIN F BY <1>1, OwnIn
<1>4. ASSUME NEW v \in UnitNos
      PROVE /\ On(G, V[v].head) = On(F, U[v].head)
            /\ On(G, V[v].curr) = IF v = UNITI THEN {p} \cup On(F, U[v].curr) ELSE On(F, U[v].curr)
            /\ Own(G, V, v) = IF v = UNITI THEN {p} \cup Own(F, U, v) ELSE Own(F, U, v)
  <2>1. CASE v = UNITI BY <1>1, <1>2, <2>1 DEF Own
  <2>2. CASE v # UNITI BY <1>1, <1>2, <2>2 DEF Own
  <2>3. QED BY <2>1, <2>2
<1>5. Sound(G, V, S)
  <2>1. IsFiniteSet(DOMAIN G)
    <3>1. IsFiniteSet(DOMAIN F) BY <1>1 DEF Sound
    <3>2. QED BY <3>1, FS_AddElement
  <2>2. \A v \in UnitNos : V[v].curr \in DOMAIN G \cup {Nul} /\ V[v].head \in DOMAIN G \cup {Nul} BY <1>1
  <2>3. QED BY <1>1, <1>2, <2>1, <2>2 DEF Sound
<1>6. Apart(G, V) BY <1>1, <1>3, <1>4 DEF Apart
<1>7. Loose(G, V, {})
  <2>1. ASSUME NEW f \in DOMAIN G PROVE \E v \in UnitNos : f \in Own(G, V, v)
    <3>1. CASE f = p BY <1>4, <3>1
    <3>2. CASE f # p
      <4>1. f \in DOMAIN F BY <3>2
      <4>2. PICK v \in UnitNos : f \in Own(F, U, v) BY <1>1, <4>1 DEF Loose
      <4>3. QED BY <1>4, <4>2
    <3>3. QED BY <3>1, <3>2
  <2>2. QED BY <2>1 DEF Loose
<1>8. Placed(G, V)
  <2> SUFFICES ASSUME NEW v \in UnitNos, NEW f \in Own(G, V, v)
               PROVE /\ f \in On(G, V[v].head) <=> ~G[f].inc
                     /\ G[f].inc => v = UNITI
                     /\ G[f].iop # Nul => f \in On(G, V[v].curr)
    BY DEF Placed
  <2>1. CASE f = p
    <3>1. v = UNITI BY <1>3, <1>4, <2>1
    <3>2. On(F, U[v].head) \subseteq DOMAIN F BY <1>3 DEF Own
    <3>3. QED BY <1>4, <2>1, <3>1, <3>2
  <2>2. CASE f # p
    <3>1. f \in Own(F, U, v) BY <1>4, <2>2
    <3>2. G[f] = F[f] BY <1>3, <3>1
    <3>3. /\ f \in On(F, U[v].head) <=> ~F[f].inc
          /\ F[f].inc => v = UNITI
          /\ F[f].iop # Nul => f \in On(F, U[v].curr)
      BY <1>1, <3>1 DEF Placed
    <3>4. QED BY <1>4, <3>2, <3>3
  <2>3. QED BY <2>1, <2>2
<1>9. Held(G, S)
  <2>1. Nul \notin S BY <1>1 DEF Sound, Nul
  <2>2. QED BY <1>1, <2>1 DEF Held
<1>10. QED BY <1>5, <1>6, <1>7, <1>8, <1>9 DEF Wired

------------------------------------------------------------------------------
\* What has files, units and streams as above.
Shaped(h) ==
  /\ h = [disk |-> h.disk, streams |-> h.streams, files |-> h.files, units |-> h.units]
  /\ DOMAIN h.units = UnitNos
  /\ \A u \in UnitNos : LET x == h.units[u] IN x = [curr |-> x.curr, head |-> x.head, offset |-> x.offset]
  /\ \A f \in DOMAIN h.files : LET x == h.files[f] IN x = [path |-> x.path, next |-> x.next, inc |-> x.inc, iop |-> x.iop]
Good(h, X) == Shaped(h) /\ Wired(h.files, h.units, DOMAIN h.streams, X)
\* g has no structure h has not, and none was included since.
Within(g, h) == /\ DOMAIN g.files \subseteq DOMAIN h.files
                /\ \A f \in DOMAIN g.files : g.files[f].inc = h.files[f].inc
NoInc(h) == \A f \in DOMAIN h.files : ~h.files[f].inc

LEMMA FreshIs ==
  ASSUME NEW f, IsFiniteSet(DOMAIN f)
  PROVE Unused(f) \in Nat \ {0} /\ Unused(f) \notin DOMAIN f
<1> DEFINE n == Cardinality(DOMAIN f)
<1>1. n \in Nat BY FS_CardinalityType
<1> HIDE DEF n
<1>2. \E i \in 1..n + 1 : i \notin DOMAIN f
  <2> SUFFICES ASSUME 1..n + 1 \subseteq DOMAIN f PROVE FALSE OBVIOUS
  <2>1. Cardinality(1..n + 1) = n + 1
    <3>1. 1 \in Int /\ n + 1 \in Int /\ ~(1 > n + 1) /\ n + 1 - 1 + 1 = n + 1 BY <1>1
    <3>2. QED BY <3>1, FS_Interval
  <2>2. 1..n + 1 \in SUBSET DOMAIN f OBVIOUS
  <2>3. n + 1 <= n BY <2>1, <2>2, FS_Subset DEF n
  <2>4. QED BY <1>1, <2>3
<1>3. Unused(f) = CHOOSE i \in 1..n + 1 : i \notin DOMAIN f BY DEF Unused, n
<1>4. Unused(f) \in 1..n + 1 /\ Unused(f) \notin DOMAIN f BY <1>2, <1>3
<1>5. QED BY <1>1, <1>4

\* stdio leaves structures and units alone.
LEMMA FlushedIs ==
  ASSUME NEW h, Shaped(h), NEW s
  PROVE LET g == Flushed(h, s)
        IN Shaped(g) /\ g.files = h.files /\ g.units = h.units /\ DOMAIN g.streams = DOMAIN h.streams
BY DEF Shaped, Flushed

LEMMA ShutIs ==
  ASSUME NEW h, Shaped(h), NEW s
  PROVE LET g == Shut(h, s)
        IN /\ Shaped(g) /\ g.files = h.files /\ g.units = h.units
           /\ DOMAIN g.streams = DOMAIN h.streams \ ({s} \ {Nul, StdStream})
<1> DEFINE g == Shut(h, s)
           t == Flushed(h, s)
<1>1. CASE s \in {Nul, StdStream} BY <1>1 DEF Shut
<1>2. CASE s \notin {Nul, StdStream}
  <2>1. Shaped(t) /\ t.files = h.files /\ t.units = h.units /\ DOMAIN t.streams = DOMAIN h.streams BY FlushedIs
  <2>2. g = [t EXCEPT !.streams = Minus(t.streams, {s})] BY <1>2 DEF Shut
  <2> HIDE DEF g, t
  <2>3. t = [disk |-> t.disk, streams |-> t.streams, files |-> t.files, units |-> t.units] BY <2>1 DEF Shaped
  <2>4. g = [disk |-> t.disk, streams |-> Minus(t.streams, {s}), files |-> t.files, units |-> t.units] BY <2>2, <2>3
  <2>5. DOMAIN Minus(t.streams, {s}) = DOMAIN t.streams \ {s} BY DEF Minus
  <2>6. g.disk = t.disk /\ g.streams = Minus(t.streams, {s}) /\ g.files = t.files /\ g.units = t.units BY <2>4
  <2>7. Shaped(g) BY <2>1, <2>4, <2>6 DEF Shaped
  <2>8. QED BY <1>2, <2>1, <2>5, <2>6, <2>7 DEF g
<1>3. QED BY <1>1, <1>2

\* io_fopen.
OpensAs(h, p, g) ==
  /\ Shaped(g) /\ g.units = h.units /\ DOMAIN g.files = DOMAIN h.files
  /\ \A f \in DOMAIN h.files : /\ g.files[f].next = h.files[f].next /\ g.files[f].inc = h.files[f].inc
                               /\ f # p => g.files[f].iop = h.files[f].iop
  /\ LET i == g.files[p].iop IN
       \/ DOMAIN g.streams = DOMAIN h.streams /\ i \in {Nul, StdStream}
       \/ i \in Nat \ {0} /\ i \notin DOMAIN h.streams /\ DOMAIN g.streams = DOMAIN h.streams \cup {i}

LEMMA OpenedIs ==
  ASSUME NEW h, Shaped(h), IsFiniteSet(DOMAIN h.streams), NEW p \in DOMAIN h.files, h.files[p].iop = Nul, NEW mode
  PROVE OpensAs(h, p, FileOpened(h, p, mode))
<1> DEFINE g == FileOpened(h, p, mode)
           path == h.files[p].path
           s == Unused(h.streams)
           F == h.files
<1>2. h = [disk |-> h.disk, streams |-> h.streams, files |-> h.files, units |-> h.units] BY DEF Shaped
<1>3. F[p] = [path |-> F[p].path, next |-> F[p].next, inc |-> F[p].inc, iop |-> F[p].iop] BY DEF Shaped
<1>4. s \in Nat \ {0} /\ s \notin DOMAIN h.streams BY FreshIs
<1> DEFINE Gets(i, T) == /\ g.files = [F EXCEPT ![p].iop = i] /\ g.units = h.units /\ DOMAIN g.streams = T
                         /\ g = [disk |-> g.disk, streams |-> g.streams, files |-> g.files, units |-> g.units]
<1>5. ASSUME NEW i, NEW T, Gets(i, T), (T = DOMAIN h.streams /\ i \in {Nul, StdStream}) \/ (i = s /\ T = DOMAIN h.streams \cup {s})
      PROVE OpensAs(h, p, g)
  <2>1. /\ g.files = [F EXCEPT ![p].iop = i] /\ g.units = h.units /\ DOMAIN g.streams = T
        /\ g = [disk |-> g.disk, streams |-> g.streams, files |-> g.files, units |-> g.units]
    BY <1>5
  <2> HIDE DEF g
  <2>2. /\ DOMAIN g.files = DOMAIN F /\ g.files[p] = [F[p] EXCEPT !.iop = i]
        /\ \A f \in DOMAIN F : f # p => g.files[f] = F[f]
    BY <2>1
  <2>3. g.files[p] = [path |-> F[p].path, next |-> F[p].next, inc |-> F[p].inc, iop |-> i] BY <1>3, <2>2
  <2>4. \A f \in DOMAIN F : /\ g.files[f].next = F[f].next /\ g.files[f].inc = F[f].inc
                            /\ f # p => g.files[f].iop = F[f].iop
    BY <2>2, <2>3
  <2>5. g.files[p].iop = i BY <2>3
  <2>6. \/ DOMAIN g.streams = DOMAIN h.streams /\ g.files[p].iop \in {Nul, StdStream}
        \/ /\ g.files[p].iop \in Nat \ {0} /\ g.files[p].iop \notin DOMAIN h.streams
           /\ DOMAIN g.streams = DOMAIN h.streams \cup {g.files[p].iop}
    <3> HIDE DEF s, F
    <3>1. QED BY <1>4, <1>5, <2>1, <2>5
  <2>7. Shaped(g)
    <3>1. \A f \in DOMAIN g.files : LET x == g.files[f] IN x = [path |-> x.path, next |-> x.next, inc |-> x.inc, iop |-> x.iop]
      <4> SUFFICES ASSUME NEW f \in DOMAIN F
                   PROVE LET x == g.files[f] IN x = [path |-> x.path, next |-> x.next, inc |-> x.inc, iop |-> x.iop]
        BY <2>2
      <4>1. CASE f = p BY <2>3, <4>1
      <4>2. CASE f # p BY <2>2, <4>2 DEF Shaped
      <4>3. QED BY <4>1, <4>2
    <3>2. QED BY <2>1, <3>1 DEF Shaped
  <2>8. QED BY <2>1, <2>2, <2>4, <2>6, <2>7 DEF OpensAs
<1>6. CASE path = Std
  <2>1. g = [h EXCEPT !.files[p].iop = StdStream] BY <1>6 DEF FileOpened
  <2>2. g = [disk |-> h.disk, streams |-> h.streams, files |-> [F EXCEPT ![p].iop = StdStream], units |-> h.units] BY <1>2, <2>1
  <2>3. Gets(StdStream, DOMAIN h.streams) BY <2>2
  <2>4. QED BY <1>5, <2>3
<1>7. CASE path # Std /\ mode = "r" /\ path \notin DOMAIN h.disk
  <2>1. g = h BY <1>7 DEF FileOpened
  <2>2. QED BY <2>1 DEF OpensAs
<1>8. CASE path # Std /\ ~(mode = "r" /\ path \notin DOMAIN h.disk)
  <2> DEFINE k == IF mode = "w" THEN With(h.disk, path, <<>>) ELSE h.disk
             r == With(h.streams, s, [path |-> path, pos |-> 0, buf |-> <<>>, mode |-> mode])
  <2>1. g = [h EXCEPT !.disk = k, !.streams = r, !.files[p].iop = s] BY <1>8 DEF FileOpened
  <2> HIDE DEF k, s
  <2>2. DOMAIN r = DOMAIN h.streams \cup {s} BY DEF With
  <2> HIDE DEF r
  <2>3. g = [disk |-> k, streams |-> r, files |-> [F EXCEPT ![p].iop = s], units |-> h.units] BY <1>2, <2>1
  <2>4. Gets(s, DOMAIN h.streams \cup {s}) BY <2>2, <2>3
  <2>5. QED BY <1>5, <2>4 DEF s
<1>9. QED BY <1>6, <1>7, <1>8

LEMMA OpenedKeeps ==
  ASSUME NEW h, NEW X, Good(h, X), NEW p \in DOMAIN h.files, h.files[p].iop = Nul,
         p \in X \/ \E u \in UnitNos : p \in On(h.files, h.units[u].curr), NEW mode
  PROVE LET g == FileOpened(h, p, mode)
        IN Good(g, X) /\ Within(g, h) /\ DOMAIN g.files = DOMAIN h.files /\ g.units = h.units
<1> DEFINE g == FileOpened(h, p, mode)
<1>1. Shaped(h) /\ Wired(h.files, h.units, DOMAIN h.streams, X) /\ IsFiniteSet(DOMAIN h.streams) BY DEF Good, Wired, Sound
<1>2. OpensAs(h, p, g) BY <1>1, OpenedIs
<1> HIDE DEF g
<1>3. Opens(h.files, h.units, DOMAIN h.streams, X, p, g.files, DOMAIN g.streams) BY <1>2 DEF Opens, OpensAs
<1>4. Wired(g.files, h.units, DOMAIN g.streams, X) BY <1>1, <1>3, OpenKeeps
<1>5. QED BY <1>2, <1>4 DEF OpensAs, Good, Within, g

LEMMA GoodIs ==
  ASSUME NEW h, NEW X, Good(h, X), NEW u \in UnitNos
  PROVE /\ Shaped(h) /\ Wired(h.files, h.units, DOMAIN h.streams, X) /\ Sound(h.files, h.units, DOMAIN h.streams)
        /\ h = [disk |-> h.disk, streams |-> h.streams, files |-> h.files, units |-> h.units]
        /\ Curr(h, u) = h.units[u].curr /\ Curr(h, u) \in DOMAIN h.files \cup {Nul}
        /\ Nul \notin DOMAIN h.files /\ (Curr(h, u) # Nul => Curr(h, u) \in On(h.files, h.units[u].curr))
<1>1. Shaped(h) /\ Wired(h.files, h.units, DOMAIN h.streams, X) BY DEF Good
<1>2. Sound(h.files, h.units, DOMAIN h.streams) BY <1>1 DEF Wired
<1>3. h = [disk |-> h.disk, streams |-> h.streams, files |-> h.files, units |-> h.units] BY <1>1 DEF Shaped
<1>4. Curr(h, u) = h.units[u].curr /\ Curr(h, u) \in DOMAIN h.files \cup {Nul} /\ Nul \notin DOMAIN h.files
  BY <1>2 DEF Curr, Sound, Structs, Nul
<1>5. Curr(h, u) # Nul => Curr(h, u) \in On(h.files, h.units[u].curr) BY <1>2, <1>4, OwnIn
<1>6. QED BY <1>1, <1>2, <1>3, <1>4, <1>5

LEMMA NoIncWithin ==
  ASSUME NEW h, NEW g, Within(g, h), NoInc(h)
  PROVE NoInc(g)
BY DEF Within, NoInc

\* io_read opens the file of a unit that is not open.
LEMMA ReadyKeeps ==
  ASSUME NEW h, NEW X, Good(h, X), NEW u \in UnitNos
  PROVE Good(Ready(h, u), X) /\ Within(Ready(h, u), h) /\ Ready(h, u).units = h.units
<1>1. CASE Curr(h, u) # Nul /\ Iop(h, u) = Nul
  <2>1. Ready(h, u) = FileOpened(h, Curr(h, u), "r") BY <1>1 DEF Ready
  <2>2. Curr(h, u) \in DOMAIN h.files /\ Curr(h, u) \in On(h.files, h.units[u].curr) BY <1>1, GoodIs
  <2>3. h.files[Curr(h, u)].iop = Nul BY <1>1 DEF Iop
  <2>4. Good(FileOpened(h, Curr(h, u), "r"), X) /\ Within(FileOpened(h, Curr(h, u), "r"), h) /\ FileOpened(h, Curr(h, u), "r").units = h.units
    BY <2>2, <2>3, OpenedKeeps
  <2>5. QED BY <2>1, <2>4
<1>2. CASE ~(Curr(h, u) # Nul /\ Iop(h, u) = Nul)
  <2>1. Ready(h, u) = h BY <1>2 DEF Ready
  <2>2. QED BY <2>1 DEF Within
<1>3. QED BY <1>1, <1>2

\* io_close: of the files still to be read there is one less.
LEMMA ClosedKeeps ==
  ASSUME NEW h, NEW X, Good(h, X), NEW u \in UnitNos
  PROVE LET g == FileClosed(h, u)
        IN /\ Good(g, X) /\ Within(g, h) /\ g.units[u].head = h.units[u].head
           /\ Curr(h, u) = Nul => g = h
           /\ Curr(h, u) # Nul => Len(From(h.files)[Curr(h, u)]) = Len(From(g.files)[Curr(g, u)]) + 1
<1> DEFINE g == FileClosed(h, u)
           p == Curr(h, u)
           F == h.files
           t == Shut(h, F[p].iop)
<1>1. CASE p = Nul
  <2>1. g = h BY <1>1 DEF FileClosed, Curr
  <2>2. QED BY <1>1, <2>1 DEF Within
<1>2. CASE p # Nul
  <2>1. /\ Shaped(h) /\ Wired(F, h.units, DOMAIN h.streams, X) /\ Sound(F, h.units, DOMAIN h.streams)
        /\ p = h.units[u].curr /\ p \in DOMAIN F
    BY <1>2, GoodIs
  <2>2. /\ Shaped(t) /\ t.files = F /\ t.units = h.units
        /\ DOMAIN t.streams = DOMAIN h.streams \ ({F[p].iop} \ {Nul, StdStream})
    BY <2>1, ShutIs
  <2>3. g = [t EXCEPT !.units[u].curr = F[p].next, !.files = Freed(h, p)] BY <1>2 DEF FileClosed, Curr
  <2>4. t = [disk |-> t.disk, streams |-> t.streams, files |-> F, units |-> h.units] BY <2>2 DEF Shaped
  <2> HIDE DEF t, g
  <2> DEFINE V == [h.units EXCEPT ![u].curr = F[p].next]
             G == Freed(h, p)
  <2>5. g = [disk |-> t.disk, streams |-> t.streams, files |-> G, units |-> V]
    <3> HIDE DEF G, p, F
    <3>1. g = [t EXCEPT !.units[u].curr = F[p].next, !.files = G] BY <2>3 DEF G
    <3>2. t = [disk |-> t.disk, streams |-> t.streams, files |-> t.files, units |-> t.units] BY <2>2 DEF Shaped
    <3>3. g = [disk |-> t.disk, streams |-> t.streams, files |-> G, units |-> [t.units EXCEPT ![u].curr = F[p].next]]
      BY <3>1, <3>2
    <3>4. QED BY <2>2, <3>3
  <2>6. /\ F[p] = [path |-> F[p].path, next |-> F[p].next, inc |-> F[p].inc, iop |-> F[p].iop]
        /\ h.units[u] = [curr |-> h.units[u].curr, head |-> h.units[u].head, offset |-> h.units[u].offset]
        /\ DOMAIN h.units = UnitNos
    BY <2>1 DEF Shaped
  <2>7. /\ DOMAIN V = UnitNos /\ \A v \in UnitNos \ {u} : V[v] = h.units[v]
        /\ V[u] = [curr |-> F[p].next, head |-> h.units[u].head, offset |-> h.units[u].offset]
    <3> HIDE DEF p, F
    <3>1. QED BY <2>6
  <2>8. /\ DOMAIN G = DOMAIN F \ (IF F[p].inc THEN {p} ELSE {})
        /\ \A f \in DOMAIN G : f # p => G[f] = F[f]
        /\ p \in DOMAIN G => G[p] = [path |-> F[p].path, next |-> F[p].next, inc |-> F[p].inc, iop |-> Nul]
    <3>1. CASE F[p].inc
      <4>1. G = [f \in DOMAIN F \ {p} |-> F[f]] BY <3>1 DEF Freed, Minus
      <4> HIDE DEF G, p, F
      <4>2. QED BY <3>1, <4>1
    <3>2. CASE ~F[p].inc
      <4>1. G = [F EXCEPT ![p].iop = Nul] BY <3>2 DEF Freed
      <4> HIDE DEF G, p, F
      <4>2. QED BY <2>1, <2>6, <3>2, <4>1
    <3>3. QED BY <3>1, <3>2
  <2> HIDE DEF G, V, p, F
  <2>9. \A f \in DOMAIN G : /\ f \in DOMAIN F /\ G[f].next = F[f].next /\ G[f].inc = F[f].inc
                            /\ G[f].iop = IF f = p THEN Nul ELSE F[f].iop
    <3> SUFFICES ASSUME NEW f \in DOMAIN G
                 PROVE /\ f \in DOMAIN F /\ G[f].next = F[f].next /\ G[f].inc = F[f].inc
                       /\ G[f].iop = IF f = p THEN Nul ELSE F[f].iop
      OBVIOUS
    <3>1. f \in DOMAIN F BY <2>8
    <3>2. CASE f = p BY <2>8, <3>1, <3>2
    <3>3. CASE f # p BY <2>8, <3>1, <3>3
    <3>4. QED BY <3>2, <3>3
  <2>10. /\ \A v \in UnitNos \ {u} : V[v].curr = h.units[v].curr /\ V[v].head = h.units[v].head
         /\ V[u].curr = F[p].next /\ V[u].head = h.units[u].head
    BY <2>7
  <2>11. /\ Wired(G, V, DOMAIN t.streams, X) /\ From(G)[V[u].curr] = From(F)[F[p].next]
    <3> DEFINE T == DOMAIN t.streams
               S == DOMAIN h.streams
               U == h.units
    <3>1. T = S \ ({F[p].iop} \ {Nul, StdStream}) /\ Wired(F, U, S, X) BY <2>1, <2>2 DEF F
    <3>2. p = U[u].curr BY <2>1
    <3>3. /\ \A v \in UnitNos \ {u} : V[v].curr = U[v].curr /\ V[v].head = U[v].head
          /\ V[u].curr = F[p].next /\ V[u].head = U[u].head
      BY <2>10
    <3> HIDE DEF T, S, U
    <3>4. Closes(F, U, S, u, p, G, T, V) BY <1>2, <2>8, <2>9, <3>1, <3>2, <3>3 DEF Closes
    <3>6. Wired(G, V, T, X) /\ From(G)[V[u].curr] = From(F)[F[p].next] BY <3>1, <3>4, CloseKeeps
    <3>5. QED BY <3>6 DEF T
  <2>12. g.files = G /\ g.units = V /\ g.streams = t.streams /\ g.disk = t.disk BY <2>5
  <2>13. Shaped(g)
    <3>1. \A v \in UnitNos : LET x == V[v] IN x = [curr |-> x.curr, head |-> x.head, offset |-> x.offset]
      <4> SUFFICES ASSUME NEW v \in UnitNos PROVE LET x == V[v] IN x = [curr |-> x.curr, head |-> x.head, offset |-> x.offset]
        OBVIOUS
      <4>1. CASE v = u BY <2>7, <4>1
      <4>2. CASE v # u BY <2>1, <2>7, <4>2 DEF Shaped
      <4>3. QED BY <4>1, <4>2
    <3>2. \A f \in DOMAIN G : LET x == G[f] IN x = [path |-> x.path, next |-> x.next, inc |-> x.inc, iop |-> x.iop]
      <4> SUFFICES ASSUME NEW f \in DOMAIN G
                   PROVE LET x == G[f] IN x = [path |-> x.path, next |-> x.next, inc |-> x.inc, iop |-> x.iop]
        OBVIOUS
      <4>1. CASE f = p BY <2>8, <4>1
      <4>2. CASE f # p
        <5>1. G[f] = F[f] /\ f \in DOMAIN F BY <2>8, <2>9, <4>2
        <5>2. \A e \in DOMAIN F : LET x == F[e] IN x = [path |-> x.path, next |-> x.next, inc |-> x.inc, iop |-> x.iop]
          BY <2>1 DEF Shaped, F
        <5>3. QED BY <5>1, <5>2
      <4>3. QED BY <4>1, <4>2
    <3>3. QED BY <2>5, <2>7, <2>12, <3>1, <3>2 DEF Shaped
  <2>14. Good(g, X) BY <2>11, <2>12, <2>13 DEF Good
  <2>15. Within(g, h) BY <2>9, <2>12 DEF Within, F
  <2>16. Curr(g, u) = V[u].curr BY <2>12 DEF Curr
  <2>17. Len(From(F)[p]) = Len(From(F)[F[p].next]) + 1
    <3>1. Structs(F) /\ Linked(F) BY <2>1 DEF Sound, F
    <3>2. QED BY <2>1, <3>1, OnIs
  <2>18. Len(From(F)[p]) = Len(From(g.files)[Curr(g, u)]) + 1 BY <2>11, <2>12, <2>16, <2>17
  <2>19. QED BY <1>2, <2>7, <2>12, <2>14, <2>15, <2>18 DEF g, p, F
<1>3. QED BY <1>1, <1>2

\* io_closeall closes files until there is none left.
Steps(h, u, n, c) == c = [i \in 0..n |-> IF i = 0 THEN h ELSE FileClosed(c[i - 1], u)]

LEMMA StepsExist ==
  ASSUME NEW h, NEW u, NEW n \in Nat
  PROVE \E c : Steps(h, u, n, c)
<1> DEFINE A == {k \in Nat : \E c : Steps(h, u, k, c)}
<1>1. 0 \in A
  <2> DEFINE c == [i \in 0..0 |-> h]
  <2>1. c = [i \in 0..0 |-> IF i = 0 THEN h ELSE FileClosed(c[i - 1], u)] OBVIOUS
  <2>2. Steps(h, u, 0, c) BY <2>1, Zenon DEF Steps
  <2>3. QED BY <2>2
<1>2. ASSUME NEW k \in Nat, k \in A PROVE k + 1 \in A
  <2>1. PICK c : Steps(h, u, k, c) BY <1>2
  <2> DEFINE d == [i \in 0..k + 1 |-> IF i = k + 1 THEN FileClosed(c[k], u) ELSE c[i]]
  <2>2. \A i \in 0..k : c[i] = IF i = 0 THEN h ELSE FileClosed(c[i - 1], u) BY <2>1, Zenon DEF Steps
  <2>3. ASSUME NEW i \in 0..k + 1 PROVE d[i] = IF i = 0 THEN h ELSE FileClosed(d[i - 1], u)
    <3>1. CASE i = k + 1
      <4>1. i # 0 /\ i - 1 = k /\ k \in 0..k + 1 /\ k # k + 1 BY <3>1
      <4>2. d[i] = FileClosed(c[k], u) /\ d[i - 1] = c[k] BY <3>1, <4>1
      <4>3. QED BY <4>1, <4>2
    <3>2. CASE i # k + 1
      <4>1. i \in 0..k /\ d[i] = c[i] BY <3>2
      <4>2. i # 0 => i - 1 \in 0..k + 1 /\ i - 1 # k + 1 BY <4>1
      <4>3. i # 0 => d[i - 1] = c[i - 1] BY <4>2
      <4> HIDE DEF d
      <4>4. QED BY <2>2, <4>1, <4>3
    <3>3. QED BY <3>1, <3>2
  <2>4. d = [i \in 0..k + 1 |-> d[i]] OBVIOUS
  <2> HIDE DEF d
  <2>5. d = [i \in 0..k + 1 |-> IF i = 0 THEN h ELSE FileClosed(d[i - 1], u)] BY <2>3, <2>4, Zenon
  <2>6. Steps(h, u, k + 1, d) BY <2>5, Zenon DEF Steps
  <2>7. QED BY <2>6
<1> HIDE DEF A
<1>3. n \in A BY <1>1, <1>2, Induction
<1>4. QED BY <1>3 DEF A

LEMMA ClosedEachKeeps ==
  ASSUME NEW h, NEW X, Good(h, X), NEW u \in UnitNos
  PROVE LET g == ClosedEach(h, u)
        IN Good(g, X) /\ Within(g, h) /\ Curr(g, u) = Nul
<1> DEFINE n == Len(From(h.files)[Curr(h, u)])
           c == CHOOSE c : Steps(h, u, n, c)
           Left(g) == Len(From(g.files)[Curr(g, u)])
           A == {i \in Nat : i <= n => Good(c[i], X) /\ Within(c[i], h) /\ Left(c[i]) = n - i}
<1>1. ASSUME NEW g, Good(g, X) PROVE Left(g) \in Nat /\ (Left(g) = 0 <=> Curr(g, u) = Nul)
  <2>1. Structs(g.files) /\ Linked(g.files) /\ Curr(g, u) \in DOMAIN g.files \cup {Nul} BY <1>1, GoodIs DEF Sound
  <2>2. /\ From(g.files) \in [DOMAIN g.files \cup {Nul} -> Seq(Nat)] /\ From(g.files)[Nul] = <<>>
        /\ \A f \in DOMAIN g.files : Len(From(g.files)[f]) = Len(From(g.files)[g.files[f].next]) + 1
    BY <2>1, OnIs
  <2>3. \A f \in DOMAIN g.files : g.files[f].next \in DOMAIN g.files \cup {Nul} BY <2>1 DEF Structs
  <2>4. \A f \in DOMAIN g.files \cup {Nul} : Len(From(g.files)[f]) \in Nat BY <2>2
  <2>5. \A f \in DOMAIN g.files : Len(From(g.files)[f]) # 0 BY <2>2, <2>3, <2>4
  <2>6. Len(<<>>) = 0 OBVIOUS
  <2>7. QED BY <2>1, <2>2, <2>4, <2>5, <2>6
<1>2. n \in Nat BY <1>1
<1>3. ClosedEach(h, u) = c[n]
  <2>1. FileChain(h, h.units[u].curr) = From(h.files)[Curr(h, u)] BY ChainIs DEF Curr
  <2>2. QED BY <2>1 DEF ClosedEach, Steps
<1>4. Steps(h, u, n, c) BY <1>2, StepsExist
<1> HIDE DEF n, c
<1>5. \A i \in 0..n : c[i] = IF i = 0 THEN h ELSE FileClosed(c[i - 1], u) BY <1>4, Zenon DEF Steps
<1>6. 0 \in A
  <2>1. c[0] = h BY <1>2, <1>5
  <2>2. QED BY <1>2, <2>1 DEF Within, n
<1>7. ASSUME NEW i \in Nat, i \in A PROVE i + 1 \in A
  <2> SUFFICES ASSUME i + 1 <= n PROVE Good(c[i + 1], X) /\ Within(c[i + 1], h) /\ Left(c[i + 1]) = n - (i + 1) OBVIOUS
  <2>1. Good(c[i], X) /\ Within(c[i], h) /\ Left(c[i]) = n - i /\ n - i # 0 BY <1>2, <1>7
  <2>2. c[i + 1] = FileClosed(c[i], u)
    <3>1. i + 1 \in 0..n /\ i + 1 # 0 /\ i + 1 - 1 = i BY <1>2
    <3>2. QED BY <1>5, <3>1
  <2>3. Curr(c[i], u) # Nul BY <1>1, <2>1
  <2> DEFINE g == FileClosed(c[i], u)
  <2>4. Good(g, X) /\ Within(g, c[i]) /\ Left(c[i]) = Left(g) + 1 BY <2>1, <2>3, ClosedKeeps
  <2>5. Left(g) \in Nat BY <1>1, <2>4
  <2> HIDE DEF g, Left
  <2>6. Left(g) = n - (i + 1) BY <1>2, <2>1, <2>4, <2>5
  <2>7. Within(g, h) BY <2>1, <2>4 DEF Within
  <2>8. QED BY <2>2, <2>4, <2>6, <2>7 DEF g
<1> HIDE DEF A
<1>8. n \in A BY <1>2, <1>6, <1>7, Induction
<1>9. Good(c[n], X) /\ Within(c[n], h) /\ Left(c[n]) = 0 BY <1>2, <1>8 DEF A
<1>10. QED BY <1>1, <1>3, <1>9

LEMMA ClosedAllKeeps ==
  ASSUME NEW h, NEW X, Good(h, X), NEW u \in UnitNos
  PROVE LET g == ClosedAll(h, u)
        IN Good(g, X) /\ Within(g, h) /\ Own(g.files, g.units, u) = {}
<1> DEFINE t == ClosedEach(h, u)
           g == ClosedAll(h, u)
           U == t.units
           F == t.files
           G == Minus(F, On(F, U[u].head))
           V == [U EXCEPT ![u].head = Nul]
<1>1. Good(t, X) /\ Within(t, h) /\ Curr(t, u) = Nul BY ClosedEachKeeps
<1>2. g = [t EXCEPT !.files = G, !.units[u].head = Nul]
  <2>1. Range(FileChain(t, t.units[u].head)) = On(F, U[u].head) BY ChainIs DEF On
  <2>2. QED BY <2>1 DEF ClosedAll
<1> HIDE DEF t, g
<1>3. /\ Shaped(t) /\ Wired(F, U, DOMAIN t.streams, X) /\ U[u].curr = Nul
      /\ t = [disk |-> t.disk, streams |-> t.streams, files |-> t.files, units |-> t.units]
  BY <1>1, GoodIs DEF Curr
<1>4. /\ DOMAIN U = UnitNos /\ U[u] = [curr |-> U[u].curr, head |-> U[u].head, offset |-> U[u].offset]
      /\ \A v \in UnitNos : LET x == U[v] IN x = [curr |-> x.curr, head |-> x.head, offset |-> x.offset]
      /\ \A f \in DOMAIN F : LET x == F[f] IN x = [path |-> x.path, next |-> x.next, inc |-> x.inc, iop |-> x.iop]
  BY <1>3 DEF Shaped
<1>5. DOMAIN G = DOMAIN F \ On(F, U[u].head) /\ \A f \in DOMAIN G : f \in DOMAIN F /\ G[f] = F[f] BY DEF Minus
<1> HIDE DEF G
<1>6. g = [disk |-> t.disk, streams |-> t.streams, files |-> G, units |-> V] BY <1>2, <1>3
<1> HIDE DEF U, F
<1>7. /\ DOMAIN V = UnitNos /\ \A v \in UnitNos \ {u} : V[v] = U[v]
      /\ V[u] = [curr |-> Nul, head |-> Nul, offset |-> U[u].offset]
  BY <1>3, <1>4
<1> HIDE DEF V
<1>8. Drops(F, U, u, G, V) BY <1>3, <1>5, <1>7 DEF Drops
<1>9. Wired(G, V, DOMAIN t.streams, X) /\ Own(G, V, u) = {} BY <1>3, <1>8, DropKeeps
<1>10. g.disk = t.disk /\ g.streams = t.streams /\ g.files = G /\ g.units = V BY <1>6
<1>11. Shaped(g)
  <2>1. \A v \in UnitNos : LET x == V[v] IN x = [curr |-> x.curr, head |-> x.head, offset |-> x.offset]
    <3> SUFFICES ASSUME NEW v \in UnitNos PROVE LET x == V[v] IN x = [curr |-> x.curr, head |-> x.head, offset |-> x.offset]
      OBVIOUS
    <3>1. CASE v = u BY <1>7, <3>1
    <3>2. CASE v # u BY <1>4, <1>7, <3>2
    <3>3. QED BY <3>1, <3>2
  <2>2. QED BY <1>4, <1>5, <1>6, <1>7, <1>10, <2>1 DEF Shaped
<1>12. Good(g, X) BY <1>9, <1>10, <1>11 DEF Good
<1>13. Within(g, h)
  <2>1. DOMAIN G \subseteq DOMAIN h.files BY <1>1, <1>5 DEF Within, F
  <2>2. \A f \in DOMAIN G : G[f].inc = h.files[f].inc BY <1>1, <1>5 DEF Within, F
  <2>3. QED BY <1>10, <2>1, <2>2 DEF Within
<1>14. QED BY <1>9, <1>10, <1>12, <1>13 DEF g

\* io_next.
LEMMA IoNextKeeps ==
  ASSUME NEW h, NEW X, Good(h, X), NEW u \in UnitNos
  PROVE Good(IoNext(h, u), X) /\ Within(IoNext(h, u), h)
<1> DEFINE t == IF Iop(h, u) = Nul THEN h ELSE FileClosed(h, u)
<1>1. Good(t, X) /\ Within(t, h)
  <2>1. CASE Iop(h, u) = Nul BY <2>1 DEF Within
  <2>2. CASE Iop(h, u) # Nul
    <3>1. Good(FileClosed(h, u), X) /\ Within(FileClosed(h, u), h) BY ClosedKeeps
    <3>2. QED BY <2>2, <3>1
  <2>3. QED BY <2>1, <2>2
<1>2. IoNext(h, u) = Ready(t, u) BY DEF IoNext
<1> HIDE DEF t
<1>3. Good(Ready(t, u), X) /\ Within(Ready(t, u), t) BY <1>1, ReadyKeeps
<1>4. QED BY <1>1, <1>2, <1>3 DEF Within

\* What an operation on a stream leaves as it was.
LEMMA StreamKeeps ==
  ASSUME NEW h, NEW X, Good(h, X), NEW g, Shaped(g), g.files = h.files, g.units = h.units, DOMAIN g.streams = DOMAIN h.streams
  PROVE Good(g, X) /\ Within(g, h)
BY DEF Good, Within

LEMMA FlushedKeeps ==
  ASSUME NEW h, NEW X, Good(h, X), NEW s
  PROVE Good(Flushed(h, s), X) /\ Within(Flushed(h, s), h)
<1>1. Shaped(h) BY DEF Good
<1> DEFINE g == Flushed(h, s)
<1>2. Shaped(g) /\ g.files = h.files /\ g.units = h.units /\ DOMAIN g.streams = DOMAIN h.streams BY <1>1, FlushedIs
<1> HIDE DEF g
<1>3. Good(g, X) /\ Within(g, h) BY <1>2, StreamKeeps
<1>4. QED BY <1>3 DEF g

LEMMA SoughtKeeps ==
  ASSUME NEW h, NEW X, Good(h, X), NEW s, NEW n
  PROVE Good(Sought(h, s, n), X) /\ Within(Sought(h, s, n), h)
<1> DEFINE t == Flushed(h, s)
           g == Sought(h, s, n)
<1>1. Good(t, X) /\ Within(t, h) /\ Shaped(t) BY FlushedKeeps DEF Good
<1>2. g = [t EXCEPT !.streams[s].pos = n] BY DEF Sought
<1> HIDE DEF t, g
<1>3. t = [disk |-> t.disk, streams |-> t.streams, files |-> t.files, units |-> t.units] BY <1>1 DEF Shaped
<1>4. g = [disk |-> t.disk, streams |-> [t.streams EXCEPT ![s].pos = n], files |-> t.files, units |-> t.units] BY <1>2, <1>3
<1>5. Shaped(g) /\ g.files = t.files /\ g.units = t.units /\ DOMAIN g.streams = DOMAIN t.streams BY <1>1, <1>4 DEF Shaped
<1>6. Good(g, X) /\ Within(g, t) BY <1>1, <1>5, StreamKeeps
<1>7. QED BY <1>1, <1>6 DEF Within, g

\* Included files are those of the unit the compiler reads.
LEMMA NoIncIf ==
  ASSUME NEW h, Good(h, {}), \A f \in Own(h.files, h.units, UNITI) : ~h.files[f].inc
  PROVE NoInc(h)
<1> SUFFICES ASSUME NEW f \in DOMAIN h.files, h.files[f].inc PROVE FALSE BY DEF NoInc
<1>1. PICK u \in UnitNos : f \in Own(h.files, h.units, u) BY DEF Good, Wired, Loose
<1>2. u = UNITI BY <1>1 DEF Good, Wired, Placed
<1>3. QED BY <1>1, <1>2

\* Another place of a unit in its files.
Moved(t, u, V, g) ==
  /\ g = [disk |-> t.disk, streams |-> t.streams, files |-> t.files, units |-> V]
  /\ DOMAIN V = UnitNos /\ \A v \in UnitNos \ {u} : V[v] = t.units[v]
  /\ V[u] = [curr |-> V[u].curr, head |-> V[u].head, offset |-> V[u].offset]

LEMMA MovedIs ==
  ASSUME NEW t, Shaped(t), NEW u \in UnitNos, NEW V, NEW g, Moved(t, u, V, g)
  PROVE Shaped(g) /\ g.files = t.files /\ g.streams = t.streams /\ g.units = V
<1>1. g.disk = t.disk /\ g.files = t.files /\ g.streams = t.streams /\ g.units = V BY DEF Moved
<1>2. \A v \in UnitNos : LET x == V[v] IN x = [curr |-> x.curr, head |-> x.head, offset |-> x.offset]
  <2> SUFFICES ASSUME NEW v \in UnitNos PROVE LET x == V[v] IN x = [curr |-> x.curr, head |-> x.head, offset |-> x.offset]
    OBVIOUS
  <2>1. CASE v = u BY <2>1 DEF Moved
  <2>2. CASE v # u BY <2>2 DEF Moved, Shaped
  <2>3. QED BY <2>1, <2>2
<1>3. QED BY <1>1, <1>2 DEF Moved, Shaped

\* A new structure, and the unit it is for.
Added(h, p, f) == [h EXCEPT !.files = With(@, p, f)]

LEMMA AddedIs ==
  ASSUME NEW h, Shaped(h), NEW f, f = [path |-> f.path, next |-> f.next, inc |-> f.inc, iop |-> f.iop],
         NEW p, p \notin DOMAIN h.files
  PROVE LET g == Added(h, p, f)
        IN /\ Shaped(g) /\ g.disk = h.disk /\ g.streams = h.streams /\ g.units = h.units
           /\ DOMAIN g.files = DOMAIN h.files \cup {p} /\ g.files[p] = f /\ \A e \in DOMAIN h.files : g.files[e] = h.files[e]
<1> DEFINE G == With(h.files, p, f)
           g == Added(h, p, f)
<1>1. DOMAIN G = DOMAIN h.files \cup {p} /\ G[p] = f /\ \A e \in DOMAIN h.files : G[e] = h.files[e] BY DEF With
<1>2. g = [h EXCEPT !.files = G] BY DEF Added
<1> HIDE DEF G, g
<1>3. h = [disk |-> h.disk, streams |-> h.streams, files |-> h.files, units |-> h.units] BY DEF Shaped
<1>4. g = [disk |-> h.disk, streams |-> h.streams, files |-> G, units |-> h.units] BY <1>2, <1>3
<1>5. g.disk = h.disk /\ g.streams = h.streams /\ g.files = G /\ g.units = h.units BY <1>4
<1>6. \A e \in DOMAIN G : LET x == G[e] IN x = [path |-> x.path, next |-> x.next, inc |-> x.inc, iop |-> x.iop]
  <2> SUFFICES ASSUME NEW e \in DOMAIN G PROVE LET x == G[e] IN x = [path |-> x.path, next |-> x.next, inc |-> x.inc, iop |-> x.iop]
    OBVIOUS
  <2>1. CASE e = p BY <1>1, <2>1
  <2>2. CASE e # p BY <1>1, <2>2 DEF Shaped
  <2>3. QED BY <2>1, <2>2
<1>7. Shaped(g) BY <1>4, <1>5, <1>6 DEF Shaped
<1>8. QED BY <1>1, <1>5, <1>7 DEF g

Single(f) == /\ f = [path |-> f.path, next |-> f.next, inc |-> f.inc, iop |-> f.iop]
             /\ f.next = Nul /\ f.inc = FALSE /\ f.iop \in {Nul, StdStream}

LEMMA AddedKeeps ==
  ASSUME NEW h, Good(h, {}), NEW f, Single(f), NEW p, p \in Nat \ {0}, p \notin DOMAIN h.files
  PROVE LET g == Added(h, p, f)
        IN /\ Good(g, {p}) /\ g.units = h.units /\ p \in DOMAIN g.files /\ g.files[p] = f
           /\ \A e \in DOMAIN h.files : g.files[e] = h.files[e]
           /\ NoInc(h) => NoInc(g)
<1> USE DEF Single
<1> DEFINE g == Added(h, p, f)
<1>1. Shaped(h) /\ Wired(h.files, h.units, DOMAIN h.streams, {}) BY DEF Good
<1>2. /\ Shaped(g) /\ g.disk = h.disk /\ g.streams = h.streams /\ g.units = h.units
      /\ DOMAIN g.files = DOMAIN h.files \cup {p} /\ g.files[p] = f /\ \A e \in DOMAIN h.files : g.files[e] = h.files[e]
  BY <1>1, AddedIs
<1> HIDE DEF g
<1>3. Loosens(h.files, p, g.files) BY <1>2 DEF Loosens
<1>4. Wired(g.files, h.units, DOMAIN h.streams, {p}) BY <1>1, <1>3, LooseKeeps
<1>5. NoInc(h) => NoInc(g) BY <1>2 DEF NoInc
<1>6. QED BY <1>2, <1>4, <1>5 DEF Good, g

LEMMA AttachedKeeps ==
  ASSUME NEW t, NEW p, Good(t, {p}), NEW u \in UnitNos, Own(t.files, t.units, u) = {},
         NEW V, NEW g, Moved(t, u, V, g), V[u].curr = p, V[u].head = p
  PROVE Good(g, {}) /\ Within(g, t)
<1>1. Shaped(t) /\ Wired(t.files, t.units, DOMAIN t.streams, {p}) BY DEF Good
<1>2. Shaped(g) /\ g.files = t.files /\ g.streams = t.streams /\ g.units = V BY <1>1, MovedIs
<1>3. SetTo(t.units, u, p, V) BY DEF SetTo, Moved
<1>4. Wired(t.files, V, DOMAIN t.streams, {}) BY <1>1, <1>3, AttachKeeps
<1>5. QED BY <1>2, <1>4 DEF Good, Within

LEMMA NoneOwn ==
  ASSUME NEW h, NEW X, Good(h, X), NEW u \in UnitNos, Own(h.files, h.units, u) = {}
  PROVE h.units[u].curr = Nul /\ h.units[u].head = Nul
<1>1. Sound(h.files, h.units, DOMAIN h.streams) BY GoodIs
<1>2. /\ h.units[u].curr # Nul => h.units[u].curr \in Own(h.files, h.units, u)
      /\ h.units[u].head # Nul => h.units[u].head \in Own(h.files, h.units, u)
  BY <1>1, OwnIn
<1>3. QED BY <1>2

LEMMA OwnNone ==
  ASSUME NEW h, NEW X, Good(h, X), NEW u \in UnitNos, h.units[u].curr = Nul, h.units[u].head = Nul
  PROVE Own(h.files, h.units, u) = {}
<1>1. Sound(h.files, h.units, DOMAIN h.streams) BY GoodIs
<1>2. On(h.files, Nul) = {} BY <1>1, OwnIn
<1>3. QED BY <1>2 DEF Own

LEMMA FreshFile ==
  ASSUME NEW h, NEW X, Good(h, X)
  PROVE Unused(h.files) \in Nat \ {0} /\ Unused(h.files) \notin DOMAIN h.files
<1>1. IsFiniteSet(DOMAIN h.files) BY DEF Good, Wired, Sound
<1>2. QED BY <1>1, FreshIs

\* io_setfile.
LEMMA SetFileKeeps ==
  ASSUME NEW h, Good(h, {}), NEW f, Single(f), NEW u \in UnitNos
  PROVE Good(SetFile(h, u, f), {}) /\ (u = UNITI => NoInc(SetFile(h, u, f)))
<1> DEFINE g == ClosedAll(h, u)
           p == Unused(g.files)
           r == [curr |-> p, head |-> p, offset |-> 0]
           t == Added(g, p, f)
           V == [g.units EXCEPT ![u] = r]
           k == SetFile(h, u, f)
<1>1. Good(g, {}) /\ Own(g.files, g.units, u) = {} BY ClosedAllKeeps
<1>2. k = [g EXCEPT !.files = With(@, p, f), !.units[u] = r] BY DEF SetFile
<1> HIDE DEF g, k
<1>3. p \in Nat \ {0} /\ p \notin DOMAIN g.files BY <1>1, FreshFile
<1>12. t = [g EXCEPT !.files = With(@, p, f)] BY DEF Added
<1> HIDE DEF p
<1>4. Good(t, {p}) /\ t.units = g.units /\ (NoInc(g) => NoInc(t)) BY <1>1, <1>3, AddedKeeps
<1> HIDE DEF t
<1>5. Shaped(g) /\ DOMAIN g.units = UnitNos BY <1>1 DEF Good, Shaped
<1>6. k = [disk |-> t.disk, streams |-> t.streams, files |-> t.files, units |-> V]
  <2>1. g = [disk |-> g.disk, streams |-> g.streams, files |-> g.files, units |-> g.units] BY <1>5 DEF Shaped
  <2> DEFINE G == With(g.files, p, f)
  <2>2. k = [g EXCEPT !.files = G, !.units[u] = r] /\ t = [g EXCEPT !.files = G] BY <1>2, <1>12
  <2> HIDE DEF G, r
  <2>3. t = [disk |-> g.disk, streams |-> g.streams, files |-> G, units |-> g.units] BY <2>1, <2>2
  <2>4. k = [disk |-> g.disk, streams |-> g.streams, files |-> G, units |-> [g.units EXCEPT ![u] = r]] BY <2>1, <2>2
  <2>5. t.disk = g.disk /\ t.streams = g.streams /\ t.files = G BY <2>3
  <2>6. QED BY <2>4, <2>5
<1>7. V[u] = r /\ DOMAIN V = UnitNos /\ \A v \in UnitNos \ {u} : V[v] = t.units[v] BY <1>4, <1>5
<1> HIDE DEF V
<1>8. Moved(t, u, V, k) /\ V[u].curr = p /\ V[u].head = p BY <1>6, <1>7 DEF Moved
<1>9. Own(t.files, t.units, u) = {}
  <2>1. g.units[u].curr = Nul /\ g.units[u].head = Nul BY <1>1, NoneOwn
  <2>2. QED BY <1>4, <2>1, OwnNone
<1>10. Good(k, {}) /\ Within(k, t) BY <1>4, <1>8, <1>9, AttachedKeeps
<1>11. ASSUME u = UNITI PROVE NoInc(k)
  <2>1. NoInc(g) BY <1>1, <1>11, NoIncIf
  <2>2. QED BY <1>4, <1>10, <2>1, NoIncWithin
<1>13. QED BY <1>10, <1>11 DEF k

\* io_openi and io_openo, for a file that can be opened.
OpenOf(h, fp, path, mode) == FileOpened([h EXCEPT !.files = With(@, fp, NewFile(path, Nul))], fp, mode)

LEMMA OpenOfKeeps ==
  ASSUME NEW h, Good(h, {}), NoInc(h), NEW u \in UnitNos, NEW path, NEW mode
  PROVE LET fp == Unused(h.files)
            t  == OpenOf(h, fp, path, mode)
            g  == [ClosedAll(t, u) EXCEPT !.units[u].curr = fp, !.units[u].head = fp]
        IN Good(g, {}) /\ NoInc(g)
<1> DEFINE fp == Unused(h.files)
           f == NewFile(path, Nul)
           a == Added(h, fp, f)
           t == OpenOf(h, fp, path, mode)
           k == ClosedAll(t, u)
           g == [k EXCEPT !.units[u].curr = fp, !.units[u].head = fp]
<1>1. fp \in Nat \ {0} /\ fp \notin DOMAIN h.files BY FreshFile
<1>2. Single(f) /\ f.iop = Nul BY DEF NewFile, Single
<1>3. t = FileOpened(a, fp, mode) BY DEF OpenOf, Added
<1> HIDE DEF fp, f, t
<1>4. Good(a, {fp}) /\ fp \in DOMAIN a.files /\ a.files[fp] = f /\ NoInc(a) BY <1>1, <1>2, AddedKeeps
<1> HIDE DEF a
<1>5. Good(t, {fp}) /\ Within(t, a) BY <1>2, <1>3, <1>4, OpenedKeeps
<1>6. Good(k, {fp}) /\ Within(k, t) /\ Own(k.files, k.units, u) = {} BY <1>5, ClosedAllKeeps
<1> HIDE DEF k
<1> DEFINE V == [k.units EXCEPT ![u].curr = fp, ![u].head = fp]
<1>7. Shaped(k) /\ DOMAIN k.units = UnitNos /\ k.units[u] = [curr |-> k.units[u].curr, head |-> k.units[u].head, offset |-> k.units[u].offset]
  BY <1>6 DEF Good, Shaped
<1>8. k = [disk |-> k.disk, streams |-> k.streams, files |-> k.files, units |-> k.units] BY <1>7 DEF Shaped
<1>13. g = [k EXCEPT !.units[u].curr = fp, !.units[u].head = fp] OBVIOUS
<1> HIDE DEF g
<1>9. g = [disk |-> k.disk, streams |-> k.streams, files |-> k.files, units |-> V] BY <1>8, <1>13
<1>10. DOMAIN V = UnitNos /\ V[u] = [curr |-> fp, head |-> fp, offset |-> k.units[u].offset] /\ \A v \in UnitNos \ {u} : V[v] = k.units[v]
  BY <1>7
<1> HIDE DEF V
<1>11. Moved(k, u, V, g) /\ V[u].curr = fp /\ V[u].head = fp BY <1>9, <1>10 DEF Moved
<1>12. Good(g, {}) /\ Within(g, k) BY <1>6, <1>11, AttachedKeeps
<1>14. NoInc(t) /\ NoInc(k) /\ NoInc(g)
  <2>1. NoInc(t) BY <1>4, <1>5, NoIncWithin
  <2>2. NoInc(k) BY <1>6, <2>1, NoIncWithin
  <2>3. QED BY <1>12, <2>1, <2>2, NoIncWithin
<1>15. QED BY <1>12, <1>14 DEF g, k, t, fp

\* io_include, and io_fopen for the file.
Included(name, next) == [NewFile(name, next) EXCEPT !.inc = TRUE]

LEMMA IncludedKeeps ==
  ASSUME UNITI \in UnitNos, NEW h, Good(h, {}), NEW name
  PROVE LET fp == Unused(h.files)
            a  == [h EXCEPT !.files = With(@, fp, Included(name, Curr(h, UNITI)))]
        IN Good([FileOpened(a, fp, "r") EXCEPT !.units[UNITI].curr = fp], {})
<1> DEFINE fp == Unused(h.files)
           f == Included(name, Curr(h, UNITI))
           a == Added(h, fp, f)
           t == FileOpened(a, fp, "r")
           g == [t EXCEPT !.units[UNITI].curr = fp]
           V == [h.units EXCEPT ![UNITI].curr = fp]
<1>1. fp \in Nat \ {0} /\ fp \notin DOMAIN h.files BY FreshFile
<1>2. /\ f = [path |-> name, next |-> h.units[UNITI].curr, inc |-> TRUE, iop |-> Nul]
      /\ f = [path |-> f.path, next |-> f.next, inc |-> f.inc, iop |-> f.iop]
  <2>1. f = [[path |-> name, next |-> Curr(h, UNITI), inc |-> FALSE, iop |-> Nul] EXCEPT !.inc = TRUE] BY DEF Included, NewFile
  <2>2. f = [path |-> name, next |-> Curr(h, UNITI), inc |-> TRUE, iop |-> Nul] BY <2>1
  <2> HIDE DEF f
  <2>3. QED BY <2>2 DEF Curr
<1>3. Shaped(h) /\ Wired(h.files, h.units, DOMAIN h.streams, {}) /\ IsFiniteSet(DOMAIN h.streams) BY DEF Good, Wired, Sound
<1>4. h.units[UNITI] = [curr |-> h.units[UNITI].curr, head |-> h.units[UNITI].head, offset |-> h.units[UNITI].offset]
      /\ DOMAIN h.units = UnitNos
  BY <1>3 DEF Shaped
<1>5. a = [h EXCEPT !.files = With(@, fp, f)] BY DEF Added
<1> HIDE DEF fp, f, a
<1>6. /\ Shaped(a) /\ a.disk = h.disk /\ a.streams = h.streams /\ a.units = h.units
      /\ DOMAIN a.files = DOMAIN h.files \cup {fp} /\ a.files[fp] = f /\ \A e \in DOMAIN h.files : a.files[e] = h.files[e]
  BY <1>1, <1>2, <1>3, AddedIs DEF a
<1>7. /\ DOMAIN V = UnitNos /\ \A v \in UnitNos \ {UNITI} : V[v] = h.units[v]
      /\ V[UNITI] = [curr |-> fp, head |-> h.units[UNITI].head, offset |-> h.units[UNITI].offset]
  BY <1>4
<1> HIDE DEF V
<1>8. Includes(h.files, h.units, fp, a.files, V) BY <1>1, <1>2, <1>6, <1>7 DEF Includes
<1>9. Wired(a.files, V, DOMAIN a.streams, {}) BY <1>3, <1>6, <1>8, IncludeKeeps
<1>10. fp \in On(a.files, V[UNITI].curr)
  <2>1. Sound(a.files, V, DOMAIN a.streams) BY <1>9 DEF Wired
  <2>2. \A e \in DOMAIN a.files : On(a.files, e) = {e} \cup On(a.files, a.files[e].next) BY <2>1, OwnIn
  <2>3. QED BY <1>6, <1>7, <2>2
<1>11. OpensAs(a, fp, t) BY <1>2, <1>3, <1>6, OpenedIs
<1>16. g = [t EXCEPT !.units[UNITI].curr = fp] OBVIOUS
<1> HIDE DEF t, g
<1>12. Opens(a.files, V, DOMAIN a.streams, {}, fp, t.files, DOMAIN t.streams) BY <1>2, <1>6, <1>10, <1>11 DEF Opens, OpensAs
<1>13. Wired(t.files, V, DOMAIN t.streams, {}) BY <1>9, <1>12, OpenKeeps
<1>14. Moved(t, UNITI, V, g)
  <2>1. t = [disk |-> t.disk, streams |-> t.streams, files |-> t.files, units |-> t.units] /\ t.units = h.units
    BY <1>6, <1>11 DEF OpensAs, Shaped
  <2>2. g = [disk |-> t.disk, streams |-> t.streams, files |-> t.files, units |-> [t.units EXCEPT ![UNITI].curr = fp]]
    BY <1>16, <2>1
  <2>3. QED BY <1>7, <2>1, <2>2 DEF Moved, V
<1>15. Shaped(t) BY <1>11 DEF OpensAs
<1>17. Shaped(g) /\ g.files = t.files /\ g.streams = t.streams /\ g.units = V BY <1>14, <1>15, MovedIs
<1>18. Good(g, {}) BY <1>13, <1>17 DEF Good
<1>19. QED BY <1>5, <1>18 DEF g, t, fp, f

\* io_rewind, when the unit is not at its first file.
LEMMA RewoundKeeps ==
  ASSUME NEW h, Good(h, {}), NoInc(h), NEW u \in UnitNos
  PROVE LET g == Ready([FileClosed(h, u) EXCEPT !.units[u].curr = h.units[u].head], u)
        IN Good(g, {}) /\ NoInc(g)
<1> DEFINE k == FileClosed(h, u)
           t == [k EXCEPT !.units[u].curr = h.units[u].head]
           V == [k.units EXCEPT ![u].curr = h.units[u].head]
<1>1. Good(k, {}) /\ Within(k, h) /\ k.units[u].head = h.units[u].head BY ClosedKeeps
<1>10. t = [k EXCEPT !.units[u].curr = h.units[u].head] OBVIOUS
<1> HIDE DEF k, t
<1>2. NoInc(k) BY <1>1, NoIncWithin
<1>3. /\ Shaped(k) /\ Wired(k.files, k.units, DOMAIN k.streams, {}) /\ DOMAIN k.units = UnitNos
      /\ k.units[u] = [curr |-> k.units[u].curr, head |-> k.units[u].head, offset |-> k.units[u].offset]
      /\ k = [disk |-> k.disk, streams |-> k.streams, files |-> k.files, units |-> k.units]
  BY <1>1 DEF Good, Shaped
<1>4. t = [disk |-> k.disk, streams |-> k.streams, files |-> k.files, units |-> V] BY <1>3, <1>10
<1>5. /\ DOMAIN V = UnitNos /\ \A v \in UnitNos \ {u} : V[v] = k.units[v]
      /\ V[u] = [curr |-> k.units[u].head, head |-> k.units[u].head, offset |-> k.units[u].offset]
  BY <1>1, <1>3
<1> HIDE DEF V
<1>6. Moved(k, u, V, t) /\ SetTo(k.units, u, k.units[u].head, V) BY <1>4, <1>5 DEF Moved, SetTo
<1>7. \A f \in Own(k.files, k.units, u) : ~k.files[f].inc
  <2>1. Sound(k.files, k.units, DOMAIN k.streams) BY <1>3 DEF Wired
  <2>2. \A f \in Own(k.files, k.units, u) : f \in DOMAIN k.files BY <2>1, OwnIn
  <2>3. QED BY <1>2, <2>2 DEF NoInc
<1>8. Wired(k.files, V, DOMAIN k.streams, {}) BY <1>3, <1>6, <1>7, RewindKeeps
<1>9. Shaped(t) /\ t.files = k.files /\ t.streams = k.streams /\ t.units = V BY <1>3, <1>6, MovedIs
<1>11. Good(t, {}) /\ NoInc(t) BY <1>2, <1>8, <1>9 DEF Good, NoInc
<1>12. Good(Ready(t, u), {}) /\ Within(Ready(t, u), t) BY <1>11, ReadyKeeps
<1>13. NoInc(Ready(t, u)) BY <1>11, <1>12, NoIncWithin
<1>14. QED BY <1>12, <1>13 DEF t, k

\* io_ecomp, with -r: the structures before the file that is read are freed.
LEMMA SkippedKeeps ==
  ASSUME UNITI \in UnitNos, NEW h, Good(h, {}), Curr(h, UNITI) # Nul, ~h.files[Curr(h, UNITI)].inc, NEW n
  PROVE LET curr == Curr(h, UNITI)
            g    == [h EXCEPT !.files = Minus(@, Range(UpTo(FileChain(h, h.units[UNITI].head), curr))),
                              !.units[UNITI] = [curr |-> curr, head |-> curr, offset |-> n]]
        IN Good(g, {}) /\ NoInc(g)
<1> DEFINE p == Curr(h, UNITI)
           F == h.files
           U == h.units
           R == On(F, U[UNITI].head) \ On(F, p)
           G == Minus(F, R)
           r == [curr |-> p, head |-> p, offset |-> n]
           V == [U EXCEPT ![UNITI] = r]
           g == [h EXCEPT !.files = Minus(@, Range(UpTo(FileChain(h, h.units[UNITI].head), p))), !.units[UNITI] = r]
<1>1. /\ Shaped(h) /\ Wired(F, U, DOMAIN h.streams, {}) /\ Sound(F, U, DOMAIN h.streams) /\ Structs(F) /\ Linked(F)
      /\ h = [disk |-> h.disk, streams |-> h.streams, files |-> h.files, units |-> h.units]
      /\ DOMAIN U = UnitNos /\ p = U[UNITI].curr
  BY GoodIs DEF Good, Wired, Sound, Shaped, Curr
<1>2. p \in Own(F, U, UNITI) BY <1>1, OwnIn
<1>3. p \in On(F, U[UNITI].head) /\ U[UNITI].head \in DOMAIN F \cup {Nul} BY <1>1, <1>2 DEF Wired, Placed, Sound
<1>4. Range(UpTo(FileChain(h, h.units[UNITI].head), p)) = R
  <2>1. FileChain(h, h.units[UNITI].head) = From(F)[U[UNITI].head] BY ChainIs
  <2> HIDE DEF p, F, U
  <2>2. Range(UpTo(From(F)[U[UNITI].head], p)) = R BY <1>1, <1>3, UpToIs
  <2>3. QED BY <2>1, <2>2 DEF U
<1>5. g = [h EXCEPT !.files = G, !.units[UNITI] = r] BY <1>4
<1>6. DOMAIN G = DOMAIN F \ R /\ \A f \in DOMAIN G : f \in DOMAIN F /\ G[f] = F[f] BY DEF Minus
<1> HIDE DEF g, G, r
<1>7. g = [disk |-> h.disk, streams |-> h.streams, files |-> G, units |-> V] BY <1>1, <1>5
<1>8. DOMAIN V = UnitNos /\ V[UNITI] = [curr |-> p, head |-> p, offset |-> n] /\ \A v \in UnitNos \ {UNITI} : V[v] = U[v]
  BY <1>1 DEF r
<1>15. ~F[p].inc /\ p # Nul OBVIOUS
<1> HIDE DEF V, p, F, U
<1>9. Skips(F, U, UNITI, p, G, V) BY <1>1, <1>6, <1>8, <1>15 DEF Skips
<1>10. Wired(G, V, DOMAIN h.streams, {}) /\ \A f \in Own(F, U, UNITI) : ~F[f].inc BY <1>1, <1>9, SkipKeeps
<1>11. NoInc(h) BY <1>10, NoIncIf DEF F, U
<1>12. g.disk = h.disk /\ g.streams = h.streams /\ g.files = G /\ g.units = V BY <1>7
<1>13. Shaped(g)
  <2>1. \A v \in UnitNos : LET x == V[v] IN x = [curr |-> x.curr, head |-> x.head, offset |-> x.offset]
    <3> SUFFICES ASSUME NEW v \in UnitNos PROVE LET x == V[v] IN x = [curr |-> x.curr, head |-> x.head, offset |-> x.offset]
      OBVIOUS
    <3>1. CASE v = UNITI BY <1>8, <3>1
    <3>2. CASE v # UNITI BY <1>1, <1>8, <3>2 DEF Shaped, U
    <3>3. QED BY <3>1, <3>2
  <2>2. \A f \in DOMAIN G : LET x == G[f] IN x = [path |-> x.path, next |-> x.next, inc |-> x.inc, iop |-> x.iop]
    BY <1>1, <1>6 DEF Shaped, F
  <2>3. QED BY <1>7, <1>8, <1>12, <2>1, <2>2 DEF Shaped
<1>14. QED BY <1>6, <1>10, <1>11, <1>12, <1>13 DEF Good, NoInc, g, F, p, r

\* io_finish closes the units in turn.
Ends(h, n, c) == c = [u \in 0..n |-> IF u = 0 THEN h ELSE IF u \in UnitNos THEN ClosedAll(c[u - 1], u) ELSE c[u - 1]]

LEMMA EndsExist ==
  ASSUME NEW h, NEW n \in Nat
  PROVE \E c : Ends(h, n, c)
<1> DEFINE A == {k \in Nat : \E c : Ends(h, k, c)}
           One(g, u) == IF u \in UnitNos THEN ClosedAll(g, u) ELSE g
<1>1. 0 \in A
  <2> DEFINE c == [u \in 0..0 |-> h]
  <2>1. c = [u \in 0..0 |-> IF u = 0 THEN h ELSE IF u \in UnitNos THEN ClosedAll(c[u - 1], u) ELSE c[u - 1]] OBVIOUS
  <2>2. Ends(h, 0, c) BY <2>1, Zenon DEF Ends
  <2>3. QED BY <2>2
<1>2. ASSUME NEW k \in Nat, k \in A PROVE k + 1 \in A
  <2>1. PICK c : Ends(h, k, c) BY <1>2
  <2> DEFINE d == [u \in 0..k + 1 |-> IF u = k + 1 THEN One(c[k], u) ELSE c[u]]
  <2>2. \A u \in 0..k : c[u] = IF u = 0 THEN h ELSE One(c[u - 1], u) BY <2>1, Zenon DEF Ends
  <2> HIDE DEF One
  <2>3. ASSUME NEW u \in 0..k + 1 PROVE d[u] = IF u = 0 THEN h ELSE One(d[u - 1], u)
    <3>1. CASE u = k + 1
      <4>1. u # 0 /\ u - 1 = k /\ k \in 0..k + 1 /\ k # k + 1 BY <3>1
      <4>2. d[u] = One(c[k], u) /\ d[u - 1] = c[k] BY <3>1, <4>1
      <4>3. QED BY <4>1, <4>2
    <3>2. CASE u # k + 1
      <4>1. u \in 0..k /\ d[u] = c[u] BY <3>2
      <4>2. u # 0 => u - 1 \in 0..k + 1 /\ u - 1 # k + 1 BY <4>1
      <4>3. u # 0 => d[u - 1] = c[u - 1] BY <4>2
      <4> HIDE DEF d
      <4>4. QED BY <2>2, <4>1, <4>3
    <3>3. QED BY <3>1, <3>2
  <2>4. d = [u \in 0..k + 1 |-> d[u]] OBVIOUS
  <2> HIDE DEF d
  <2>5. d = [u \in 0..k + 1 |-> IF u = 0 THEN h ELSE One(d[u - 1], u)] BY <2>3, <2>4, Zenon
  <2>6. Ends(h, k + 1, d) BY <2>5, Zenon DEF Ends, One
  <2>7. QED BY <2>6
<1> HIDE DEF A
<1>3. n \in A BY <1>1, <1>2, Induction
<1>4. QED BY <1>3 DEF A

LEMMA EndsKeep ==
  ASSUME NEW h, Good(h, {}), NEW n \in Nat, NEW c, Ends(h, n, c)
  PROVE Good(c[n], {})
<1> DEFINE A == {i \in Nat : i <= n => Good(c[i], {})}
<1>1. \A u \in 0..n : c[u] = IF u = 0 THEN h ELSE IF u \in UnitNos THEN ClosedAll(c[u - 1], u) ELSE c[u - 1] BY Zenon DEF Ends
<1>2. 0 \in A
  <2>1. c[0] = h BY <1>1
  <2>2. QED BY <2>1
<1>3. ASSUME NEW i \in Nat, i \in A PROVE i + 1 \in A
  <2> SUFFICES ASSUME i + 1 <= n PROVE Good(c[i + 1], {}) OBVIOUS
  <2>1. i + 1 \in 0..n /\ i + 1 # 0 /\ i + 1 - 1 = i /\ Good(c[i], {}) BY <1>3
  <2>2. CASE i + 1 \in UnitNos
    <3>1. c[i + 1] = ClosedAll(c[i], i + 1) BY <1>1, <2>1, <2>2
    <3>2. Good(ClosedAll(c[i], i + 1), {}) BY <2>1, <2>2, ClosedAllKeeps
    <3>3. QED BY <3>1, <3>2
  <2>3. CASE i + 1 \notin UnitNos
    <3>1. c[i + 1] = c[i] BY <1>1, <2>1, <2>3
    <3>2. QED BY <2>1, <3>1
  <2>4. QED BY <2>2, <2>3
<1> HIDE DEF A
<1>4. n \in A BY <1>2, <1>3, Induction
<1>5. QED BY <1>4 DEF A

------------------------------------------------------------------------------
\* The files of the command line, in a list.
LEMMA FirstList ==
  ASSUME NEW n \in Nat \ {0}, NEW F, DOMAIN F = 1..n,
         \A i \in 1..n : F[i].next = IF i < n THEN i + 1 ELSE Nul
  PROVE Structs(F) /\ Linked(F) /\ On(F, 1) = 1..n
<1> DEFINE seq(f) == [k \in 1..n - f + 1 |-> f + k - 1]
           c == [f \in DOMAIN F \cup {Nul} |-> IF f = Nul THEN <<>> ELSE seq(f)]
<1>1. Structs(F) BY DEF Structs, Nul
<1>2. \A f \in 1..n : seq(f) \in Seq(Nat) /\ Len(seq(f)) = n - f + 1 /\ f # Nul /\ f \in Nat BY DEF Nul
<1>3. c \in [DOMAIN F \cup {Nul} -> Seq(Nat)]
  <2>1. <<>> \in Seq(Nat) OBVIOUS
  <2>2. QED BY <1>2, <2>1
<1>4. ASSUME NEW f \in DOMAIN F PROVE c[f] = <<f>> \o c[F[f].next]
  <2>1. f \in 1..n /\ c[f] = seq(f) BY <1>2
  <2>2. CASE f < n
    <3>1. f + 1 \in 1..n /\ F[f].next = f + 1 /\ c[f + 1] = seq(f + 1) BY <1>2, <2>1, <2>2
    <3>2. seq(f + 1) \in Seq(Nat) /\ Len(seq(f + 1)) = n - f /\ \A k \in 1..n - f : seq(f + 1)[k] = f + k
      <4>1. n - (f + 1) + 1 = n - f BY <2>1
      <4>2. \A k \in 1..n - f : f + 1 + k - 1 = f + k BY <2>1
      <4>3. QED BY <1>2, <3>1, <4>1, <4>2
    <3>3. /\ <<f>> \o seq(f + 1) \in Seq(Nat) /\ Len(<<f>> \o seq(f + 1)) = n - f + 1 /\ (<<f>> \o seq(f + 1))[1] = f
          /\ \A k \in 1..n - f : (<<f>> \o seq(f + 1))[k + 1] = f + k
      <4> DEFINE s == seq(f + 1)
      <4>1. s \in Seq(Nat) /\ Len(s) = n - f /\ f \in Nat /\ \A k \in 1..n - f : s[k] = f + k BY <2>1, <3>2
      <4> HIDE DEF s
      <4>2. LET t == <<f>> \o s IN t \in Seq(Nat) /\ Len(t) = Len(s) + 1 /\ t[1] = f /\ \A i \in 1..Len(s) : t[i + 1] = s[i]
        BY <4>1, ConsIs
      <4>3. QED BY <4>1, <4>2 DEF s
    <3>4. \A k \in 1..n - f + 1 : (<<f>> \o seq(f + 1))[k] = f + k - 1
      <4> DEFINE t == <<f>> \o seq(f + 1)
      <4>1. t[1] = f /\ \A k \in 1..n - f : t[k + 1] = f + k BY <3>3
      <4> HIDE DEF t
      <4>2. ASSUME NEW k \in 1..n - f + 1 PROVE t[k] = f + k - 1
        <5>1. CASE k = 1 BY <2>1, <4>1, <5>1
        <5>2. CASE k # 1
          <6>1. k - 1 \in 1..n - f /\ k - 1 + 1 = k /\ f + (k - 1) = f + k - 1 BY <2>1, <5>2
          <6>2. t[k - 1 + 1] = f + (k - 1) BY <4>1, <6>1
          <6>3. QED BY <6>1, <6>2
        <5>3. QED BY <5>1, <5>2
      <4>3. QED BY <4>2 DEF t
    <3>5. <<f>> \o seq(f + 1) = seq(f)
      <4> DEFINE t == <<f>> \o seq(f + 1)
      <4>1. t = [k \in 1..Len(t) |-> t[k]] /\ Len(t) = n - f + 1 /\ \A k \in 1..n - f + 1 : t[k] = f + k - 1
        <5>1. t \in Seq(Nat) BY <3>3
        <5> HIDE DEF t
        <5>2. t = [k \in 1..Len(t) |-> t[k]] BY <5>1
        <5>3. QED BY <3>3, <3>4, <5>2 DEF t
      <4> HIDE DEF t
      <4>2. t = [k \in 1..n - f + 1 |-> f + k - 1] BY <4>1
      <4>3. QED BY <4>2 DEF t
    <3>6. QED BY <2>1, <3>1, <3>5
  <2>3. CASE f = n
    <3>1. F[f].next = Nul /\ c[Nul] = <<>> BY <2>1, <2>3
    <3>2. seq(f) = <<f>>
      <4>1. n - f + 1 = 1 BY <2>3
      <4>2. seq(f) = [k \in 1..1 |-> f + k - 1] BY <4>1
      <4>3. \A k \in 1..1 : f + k - 1 = f BY <2>1
      <4>4. seq(f) = [k \in 1..1 |-> f] BY <4>2, <4>3
      <4> HIDE DEF seq
      <4>5. <<f>> = [k \in 1..1 |-> f] OBVIOUS
      <4>6. QED BY <4>4, <4>5
    <3>3. <<f>> \o <<>> = <<f>> BY <2>1
    <3>4. QED BY <2>1, <3>1, <3>2, <3>3
  <2>4. QED BY <2>1, <2>2, <2>3
<1>5. c[Nul] = <<>> /\ c = [f \in DOMAIN F \cup {Nul} |-> c[f]] OBVIOUS
<1>6. c[1] = seq(1) BY DEF Nul
<1> HIDE DEF c
<1>7. \A f \in DOMAIN F \cup {Nul} : c[f] = IF f = Nul THEN <<>> ELSE <<f>> \o c[F[f].next] BY <1>4, <1>5
<1>8. Solves(F, c)
  <2>1. c = [f \in DOMAIN F \cup {Nul} |-> IF f = Nul THEN <<>> ELSE <<f>> \o c[F[f].next]] BY <1>5, <1>7, Zenon
  <2>2. QED BY <2>1, Zenon DEF Solves
<1>9. Lists(F, c) BY <1>3, <1>8 DEF Lists
<1>10. From(F) = c BY <1>1, <1>9, FromIs
<1>11. Range(seq(1)) = 1..n
  <2>1. DOMAIN seq(1) = 1..n /\ \A k \in 1..n : seq(1)[k] = k
    <3>1. n - 1 + 1 = n /\ \A k \in 1..n : 1 + k - 1 = k OBVIOUS
    <3>2. QED BY <3>1
  <2> HIDE DEF seq
  <2>2. QED BY <2>1 DEF Range
<1>12. QED BY <1>1, <1>6, <1>9, <1>10, <1>11 DEF Linked, On

\* The units at first.
LEMMA FirstUnits ==
  ASSUME UNITI \in UnitNos, NEW s \in Seq(STRING), s # <<>>
  PROVE Good([disk |-> Lines,
              streams |-> [i \in {StdStream} |-> [path |-> Std, pos |-> 0, buf |-> <<>>, mode |-> "r"]],
              files |-> [i \in DOMAIN s |-> NewFile(s[i], IF i < Len(s) THEN i + 1 ELSE Nul)],
              units |-> [u \in UnitNos |-> IF u = UNITI THEN [curr |-> 1, head |-> 1, offset |-> 0] ELSE NoUnit]], {})
<1> DEFINE n == Len(s)
           F == [i \in DOMAIN s |-> NewFile(s[i], IF i < Len(s) THEN i + 1 ELSE Nul)]
           U == [u \in UnitNos |-> IF u = UNITI THEN [curr |-> 1, head |-> 1, offset |-> 0] ELSE NoUnit]
           S == [i \in {StdStream} |-> [path |-> Std, pos |-> 0, buf |-> <<>>, mode |-> "r"]]
           h == [disk |-> Lines, streams |-> S, files |-> F, units |-> U]
<1>1. n \in Nat \ {0} /\ DOMAIN s = 1..n OBVIOUS
<1>2. /\ DOMAIN F = 1..n
      /\ \A i \in 1..n : /\ F[i] = [path |-> F[i].path, next |-> F[i].next, inc |-> F[i].inc, iop |-> F[i].iop]
                         /\ F[i].next = (IF i < n THEN i + 1 ELSE Nul) /\ F[i].inc = FALSE /\ F[i].iop = Nul
  BY <1>1 DEF NewFile
<1>3. /\ DOMAIN U = UnitNos
      /\ \A u \in UnitNos : /\ U[u] = [curr |-> U[u].curr, head |-> U[u].head, offset |-> U[u].offset]
                            /\ U[u].curr = (IF u = UNITI THEN 1 ELSE Nul) /\ U[u].head = (IF u = UNITI THEN 1 ELSE Nul)
  BY DEF NoUnit
<1>4. DOMAIN S = {StdStream} OBVIOUS
<1> HIDE DEF n, F, U, S
<1>5. h.disk = Lines /\ h.files = F /\ h.units = U /\ h.streams = S
      /\ h = [disk |-> h.disk, streams |-> h.streams, files |-> h.files, units |-> h.units]
  OBVIOUS
<1> HIDE DEF h
<1>6. Shaped(h) BY <1>2, <1>3, <1>5 DEF Shaped
<1>7. Structs(F) /\ Linked(F) /\ On(F, 1) = 1..n BY <1>1, <1>2, FirstList
<1>8. On(F, Nul) = {} BY <1>7, OnIs
<1>9. \A u \in UnitNos : /\ On(F, U[u].curr) = IF u = UNITI THEN 1..n ELSE {}
                         /\ On(F, U[u].head) = IF u = UNITI THEN 1..n ELSE {}
                         /\ Own(F, U, u) = IF u = UNITI THEN 1..n ELSE {}
  BY <1>3, <1>7, <1>8 DEF Own
<1>10. Sound(F, U, {StdStream})
  <2>1. IsFiniteSet(1..n) BY <1>1, FS_Interval
  <2>2. IsFiniteSet({StdStream}) BY FS_Singleton
  <2>3. 1 \in 1..n BY <1>1
  <2>4. \A u \in UnitNos : U[u].curr \in 1..n \cup {Nul} /\ U[u].head \in 1..n \cup {Nul} BY <1>3, <2>3
  <2>5. StdStream \in Nat \ {0} BY DEF StdStream
  <2>6. QED BY <1>2, <1>7, <2>1, <2>2, <2>4, <2>5 DEF Sound
<1>11. Apart(F, U) BY <1>9 DEF Apart
<1>12. Loose(F, U, {}) BY <1>2, <1>9 DEF Loose
<1>13. Placed(F, U) BY <1>2, <1>9 DEF Placed
<1>14. Held(F, {StdStream}) BY <1>2 DEF Held
<1>15. Wired(F, U, {StdStream}, {}) BY <1>10, <1>11, <1>12, <1>13, <1>14 DEF Wired
<1>16. QED BY <1>4, <1>5, <1>6, <1>15 DEF Good, h, F, U, S

------------------------------------------------------------------------------
\* While the program runs no file is one that was included.
UnitsInv ==
  /\ Good(io, {}) /\ at \in UnitNos
  /\ does \in {"run", "input"} => NoInc(io)
  /\ does \in {"source", "card"} => at = UNITI
  /\ does = "card" /\ ended = "fine" => Curr(io, UNITI) # Nul

LEMMA UnitsOwn == UnitsInv => FilesOwned
<1> SUFFICES ASSUME Good(io, {}) PROVE FilesOwned BY DEF UnitsInv
<1> DEFINE F == io.files
           U == io.units
           S == DOMAIN io.streams
           owner(u) == Range(FileChain(io, io.units[u].curr)) \cup Range(FileChain(io, io.units[u].head))
<1>1. Sound(F, U, S) /\ Apart(F, U) /\ Loose(F, U, {}) /\ Held(F, S) BY DEF Good, Wired
<1>2. \A u \in UnitNos : owner(u) = Own(F, U, u) BY ChainIs DEF Own, On
<1> HIDE DEF F, U, S, owner
<1>3. ASSUME NEW fp \in DOMAIN F PROVE Cardinality({u \in UnitNos : fp \in owner(u)}) = 1
  <2>1. PICK u \in UnitNos : fp \in Own(F, U, u) BY <1>1 DEF Loose
  <2>2. \A v \in UnitNos : fp \in Own(F, U, v) => v = u BY <1>1, <2>1 DEF Apart
  <2>3. {v \in UnitNos : fp \in owner(v)} = {u} BY <1>2, <2>1, <2>2
  <2>4. QED BY <2>3, FS_Singleton
<1>4. ASSUME NEW s \in S \ {StdStream} PROVE Cardinality({fp \in DOMAIN F : F[fp].iop = s}) = 1
  <2>1. s # Nul BY <1>1 DEF Sound, Nul
  <2>2. PICK f \in DOMAIN F : F[f].iop = s BY <1>1 DEF Held
  <2>3. \A g \in DOMAIN F : F[g].iop = s => g = f BY <1>1, <2>1, <2>2 DEF Held
  <2>4. {fp \in DOMAIN F : F[fp].iop = s} = {f} BY <2>2, <2>3
  <2>5. QED BY <2>4, FS_Singleton
<1>5. /\ \A fp \in DOMAIN F : F[fp].next \in DOMAIN F \cup {Nul} /\ F[fp].iop \in S \cup {Nul}
      /\ \A u \in UnitNos : {U[u].curr, U[u].head} \subseteq DOMAIN F \cup {Nul}
  BY <1>1 DEF Sound, Structs
<1>6. QED BY <1>3, <1>4, <1>5 DEF FilesOwned, F, U, S, owner

LEMMA UnitsInit == ASSUME UniInit PROVE UnitsInv
<1> USE UnitsAssumption
<1>1. cmd.files \in Seq(STRING) /\ cmd.files # <<>> /\ at = UNITI BY DEF UniInit
<1> DEFINE h == [disk |-> Lines,
                 streams |-> [s \in {StdStream} |-> [path |-> Std, pos |-> 0, buf |-> <<>>, mode |-> "r"]],
                 files |-> [i \in DOMAIN cmd.files |->
                              NewFile(cmd.files[i], IF i < Len(cmd.files) THEN i + 1 ELSE Nul)],
                 units |-> [u \in UnitNos |-> IF u = UNITI THEN [curr |-> 1, head |-> 1, offset |-> 0] ELSE NoUnit]]
<1>2. Good(h, {}) BY <1>1, FirstUnits
<1>3. io = Ready(h, UNITI) /\ does \in {"stopped", "source"} BY DEF UniInit
<1> HIDE DEF h
<1>4. Good(Ready(h, UNITI), {}) BY <1>2, ReadyKeeps
<1>5. QED BY <1>1, <1>3, <1>4 DEF UnitsInv

\* io_read.
LEMMA ReadKeeps ==
  ASSUME UnitsInv, ReadFails \/ ReadLine \/ ReadNext
  PROVE UnitsInv'
<1>1. Good(io, {}) /\ at \in UnitNos /\ UNITI \in UnitNos BY UnitsAssumption DEF UnitsInv
<1>2. Good(Here, {}) /\ Within(Here, io) BY <1>1, ReadyKeeps DEF Here
<1>3. NoInc(io) => NoInc(Here) BY <1>2, NoIncWithin
<1>4. Reading /\ (does = "source" => at = UNITI) /\ (does = "input" => NoInc(io))
  BY DEF ReadFails, ReadLine, ReadNext, UnitsInv
<1> HIDE DEF Here
<1>5. ASSUME NEW h, Good(h, {}), Within(h, Here), NEW what, ReadAnswer(h, what), what = "fine" => Curr(h, at) # Nul
      PROVE UnitsInv'
  <2>1. io' = h /\ ended' = what /\ at' = at /\ does' = (IF does = "source" THEN "card" ELSE "run") BY <1>5 DEF ReadAnswer
  <2>2. NoInc(Here) => NoInc(h) BY <1>5, NoIncWithin
  <2>3. Good(io, {})' /\ (NoInc(Here) => NoInc(io)') BY <1>5, <2>1, <2>2
  <2>4. at' \in UnitNos BY <1>1, <2>1
  <2>5. does' \in {"run", "input"} => NoInc(io)' BY <1>3, <1>4, <2>1, <2>3 DEF Reading
  <2>6. does' \in {"source", "card"} => at' = UNITI BY <1>4, <2>1
  <2>7. does' = "card" /\ ended' = "fine" => Curr(io', UNITI) # Nul BY <1>4, <1>5, <2>1
  <2>8. QED BY <2>3, <2>4, <2>5, <2>6, <2>7 DEF UnitsInv
<1>6. CASE ReadFails
  <2>1. PICK what \in {"eof", "err"} : ReadAnswer(Here, what) BY <1>6 DEF ReadFails
  <2>2. Within(Here, Here) BY DEF Within
  <2>3. QED BY <1>2, <1>5, <2>1, <2>2
<1>7. CASE ReadLine
  <2> DEFINE s == Iop(Here, at)
             h == [Here EXCEPT !.streams[s].pos = @ + 1]
  <2>1. ReadAnswer(h, "fine") /\ s # Nul BY <1>7 DEF ReadLine, CanRead
  <2>2. Shaped(Here) /\ Here = [disk |-> Here.disk, streams |-> Here.streams, files |-> Here.files, units |-> Here.units]
    BY <1>2 DEF Good, Shaped
  <2>8. h = [Here EXCEPT !.streams[s].pos = @ + 1] OBVIOUS
  <2>9. Curr(Here, at) # Nul BY <2>1 DEF Iop
  <2> HIDE DEF h, s
  <2>3. h = [disk |-> Here.disk, streams |-> [Here.streams EXCEPT ![s].pos = @ + 1], files |-> Here.files, units |-> Here.units]
    BY <2>2, <2>8
  <2>4. Shaped(h) /\ h.files = Here.files /\ h.units = Here.units /\ DOMAIN h.streams = DOMAIN Here.streams
    BY <2>2, <2>3 DEF Shaped
  <2>5. Good(h, {}) /\ Within(h, Here) BY <1>2, <2>4, StreamKeeps
  <2>6. Curr(h, at) # Nul BY <2>4, <2>9 DEF Curr
  <2>7. QED BY <1>5, <2>1, <2>5, <2>6
<1>8. CASE ReadNext
  <2> DEFINE h == IoNext(Here, at)
  <2>1. Good(h, {}) /\ Within(h, Here) BY <1>1, <1>2, IoNextKeeps
  <2>2. \/ ReadAnswer(h, "eof")
        \/ does # "source" /\ io' = h /\ UNCHANGED <<includes, cards, seen, cmd, does, at, ended, ops>>
    BY <1>8 DEF ReadNext
  <2> HIDE DEF h
  <2>3. CASE ReadAnswer(h, "eof") BY <1>5, <2>1, <2>3
  <2>4. CASE does # "source" /\ io' = h /\ UNCHANGED <<includes, cards, seen, cmd, does, at, ended, ops>>
    <3>1. does = "input" /\ does' = "input" /\ at' = at BY <1>4, <2>4 DEF Reading
    <3>2. NoInc(h) BY <1>3, <1>4, <2>1, <3>1, NoIncWithin
    <3>3. Good(io, {})' /\ NoInc(io)' BY <2>1, <2>4, <3>2
    <3>4. QED BY <1>1, <3>1, <3>3 DEF UnitsInv
  <2>5. QED BY <2>2, <2>3, <2>4
<1>9. QED BY <1>6, <1>7, <1>8

\* The compiler.
LEMMA CardKeeps ==
  ASSUME ~Misused, UnitsInv, COMP1 \/ FILCHK \/ Statement \/ INCLUDE \/ XECOMP
  PROVE UnitsInv'
<1>1. /\ Good(io, {}) /\ at \in UnitNos /\ UNITI \in UnitNos /\ does = "card" /\ at = UNITI /\ at' = at
      /\ ended = "fine" => Curr(io, UNITI) # Nul
  BY UnitsAssumption DEF UnitsInv, COMP1, FILCHK, Statement, INCLUDE, XECOMP, Card, See, Unread
<1>2. ASSUME io' = io, does' \in {"stopped", "source"} PROVE UnitsInv'
  <2>1. Good(io, {})' BY <1>1, <1>2
  <2>2. QED BY <1>1, <1>2, <2>1 DEF UnitsInv
<1>3. ASSUME Good(io, {})', does' = "source" PROVE UnitsInv' BY <1>1, <1>3 DEF UnitsInv
<1>4. CASE COMP1 \/ FILCHK \/ Statement BY <1>2, <1>4 DEF COMP1, FILCHK, Statement, Stop
<1>5. CASE INCLUDE
  <2> DEFINE name == IncludeOf[got]
             fp == Unused(io.files)
             h == [io EXCEPT !.files = With(@, fp, [NewFile(name, Curr(io, UNITI)) EXCEPT !.inc = TRUE])]
             g == [FileOpened(h, fp, "r") EXCEPT !.units[UNITI].curr = fp]
  <2>1. Good(g, {}) BY <1>1, IncludedKeeps DEF Included
  <2>2. \/ io' = io /\ does' \in {"stopped", "source"}
        \/ io' = g /\ does' = "source"
    BY <1>5 DEF INCLUDE, Stop
  <2> HIDE DEF g
  <2>3. QED BY <1>2, <1>3, <2>1, <2>2
<1>6. CASE XECOMP
  <2>1. does' = "run" /\ Curr(io, UNITI) # Nul BY <1>1, <1>6 DEF XECOMP, Card
  <2>2. ASSUME Good(io, {})', NoInc(io)' PROVE UnitsInv' BY <1>1, <2>1, <2>2 DEF UnitsInv
  <2>3. CASE ~cmd.r
    <3> DEFINE f == [NewFile(StdName, Nul) EXCEPT !.iop = StdStream]
    <3>1. io' = SetFile(io, UNITI, f) BY <1>6, <2>3 DEF XECOMP
    <3>2. Single(f)
      <4>1. f = [[path |-> StdName, next |-> Nul, inc |-> FALSE, iop |-> Nul] EXCEPT !.iop = StdStream] BY DEF NewFile
      <4> HIDE DEF f
      <4>2. f = [path |-> StdName, next |-> Nul, inc |-> FALSE, iop |-> StdStream] BY <4>1
      <4>3. QED BY <4>2 DEF Single
    <3> HIDE DEF f
    <3>3. Good(SetFile(io, UNITI, f), {}) /\ NoInc(SetFile(io, UNITI, f)) BY <1>1, <3>2, SetFileKeeps
    <3>4. QED BY <2>2, <3>1, <3>3
  <2>4. CASE cmd.r
    <3> DEFINE curr == Curr(io, UNITI)
               g == [io EXCEPT !.files = Minus(@, Range(UpTo(FileChain(io, io.units[UNITI].head), curr))),
                               !.units[UNITI] = [curr |-> curr, head |-> curr, offset |-> Stream.pos]]
    <3>1. io' = g /\ ~io.files[curr].inc BY <1>6, <2>4 DEF XECOMP
    <3>2. Good(g, {}) /\ NoInc(g) BY <1>1, <2>1, <3>1, SkippedKeeps
    <3> HIDE DEF g
    <3>3. QED BY <2>2, <3>1, <3>2
  <2>5. QED BY <2>3, <2>4
<1>7. QED BY <1>4, <1>5, <1>6

\* The program, while it runs.
LEMMA RunKeeps ==
  ASSUME ~Misused, UnitsInv,
         PUTIN \/ PUTOUT \/ Flush \/ READ \/ PRINT \/ Options \/ ENDFIL \/ REWIND \/ SET \/ END
  PROVE UnitsInv'
<1>1. Good(io, {}) /\ NoInc(io) /\ at \in UnitNos
  BY DEF UnitsInv, PUTIN, PUTOUT, Flush, READ, PRINT, Options, ENDFIL, REWIND, SET, END, Open, Op
<1>2. ASSUME NEW h, Good(h, {}), NoInc(h), io' = h, does' = "run", at' = at PROVE UnitsInv'
  <2>1. Good(io, {})' /\ NoInc(io)' BY <1>2
  <2>2. QED BY <1>1, <1>2, <2>1 DEF UnitsInv
<1>3. ASSUME NEW h, Good(h, {}), Within(h, io), io' = h, does' = "run", at' = at PROVE UnitsInv'
  <2>1. NoInc(h) BY <1>1, <1>3, NoIncWithin
  <2>2. QED BY <1>2, <1>3, <2>1
<1>4. ASSUME NEW h, NEW what, Op, Does(h, what) PROVE io' = h /\ does' = "run" /\ at' = at BY <1>4 DEF Op, Does
<1>5. Within(io, io) BY DEF Within
<1>6. ASSUME NEW what, Op, Does(io, what) PROVE UnitsInv' BY <1>1, <1>2, <1>4, <1>6
<1>7. CASE PUTIN
  <2>1. io' = io /\ does' = "input" /\ at' \in UnitNos BY <1>7 DEF PUTIN
  <2>2. Good(io, {})' /\ NoInc(io)' BY <1>1, <2>1
  <2>3. QED BY <2>1, <2>2 DEF UnitsInv
<1>8. CASE PUTOUT
  <2>1. PICK u \in UnitNos :
          LET s == Iop(io, u)
          IN Op /\ IF s = Nul \/ io.streams[s].mode = "r" THEN Does(io, "err")
                   ELSE Does([io EXCEPT !.streams[s].buf = Append(@, got)], "fine")
    BY <1>8 DEF PUTOUT
  <2> DEFINE s == Iop(io, u)
             h == [io EXCEPT !.streams[s].buf = Append(@, got)]
  <2>2. Op /\ (Does(io, "err") \/ Does(h, "fine")) BY <2>1
  <2>3. Shaped(io) /\ io = [disk |-> io.disk, streams |-> io.streams, files |-> io.files, units |-> io.units]
    BY <1>1 DEF Good, Shaped
  <2>4. h = [io EXCEPT !.streams[s].buf = Append(@, got)] OBVIOUS
  <2> HIDE DEF h, s
  <2>5. h = [disk |-> io.disk, streams |-> [io.streams EXCEPT ![s].buf = Append(@, got)], files |-> io.files, units |-> io.units]
    BY <2>3, <2>4
  <2>6. Shaped(h) /\ h.files = io.files /\ h.units = io.units /\ DOMAIN h.streams = DOMAIN io.streams
    BY <2>3, <2>5 DEF Shaped
  <2>7. Good(h, {}) /\ Within(h, io) BY <1>1, <2>6, StreamKeeps
  <2>8. QED BY <1>3, <1>4, <1>6, <2>2, <2>7
<1>9. CASE Flush
  <2>1. PICK s \in DOMAIN io.streams : does = "run" /\ io' = Flushed(io, s) /\ does' = does /\ at' = at BY <1>9 DEF Flush
  <2>2. Good(Flushed(io, s), {}) /\ Within(Flushed(io, s), io) BY <1>1, FlushedKeeps
  <2>3. QED BY <1>3, <2>1, <2>2
<1>10. CASE READ \/ PRINT
  <2>0. PICK u \in UnitNos : \E path, mode : Open(u, path, mode) BY <1>10 DEF READ, PRINT
  <2>1. PICK path, mode : Open(u, path, mode) BY <2>0
  <2> DEFINE fp == Unused(io.files)
             h == OpenOf(io, fp, path, mode)
             g == [ClosedAll(h, u) EXCEPT !.units[u].curr = fp, !.units[u].head = fp]
  <2>2. Op /\ (Does(io, "failed") \/ Does(g, "fine")) BY <2>1 DEF Open, OpenOf
  <2>3. Good(g, {}) /\ NoInc(g) BY <1>1, OpenOfKeeps
  <2> HIDE DEF g
  <2>4. QED BY <1>2, <1>4, <1>6, <2>2, <2>3
<1>11. CASE Options
  <2>1. Op /\ \E what : Does(io, what) BY <1>11 DEF Options, Crash
  <2>2. QED BY <1>6, <2>1
<1>12. CASE ENDFIL
  <2>1. PICK u \in UnitNos : Op /\ Does(ClosedAll(io, u), "fine") BY <1>12 DEF ENDFIL
  <2>2. Good(ClosedAll(io, u), {}) /\ Within(ClosedAll(io, u), io) BY <1>1, ClosedAllKeeps
  <2>3. QED BY <1>3, <1>4, <2>1, <2>2
<1>13. CASE REWIND
  <2>1. PICK u \in UnitNos :
          LET head == io.units[u].head
              h    == IF Curr(io, u) = head THEN io ELSE Ready([FileClosed(io, u) EXCEPT !.units[u].curr = head], u)
          IN Op /\ IF head = Nul THEN Does(io, "fine")
                   ELSE IF Iop(h, u) = Nul THEN Crash(h)
                   ELSE Does(Sought(h, Iop(h, u), Home(u)), "fine")
    BY <1>13 DEF REWIND
  <2> DEFINE r == Ready([FileClosed(io, u) EXCEPT !.units[u].curr = io.units[u].head], u)
             h == IF Curr(io, u) = io.units[u].head THEN io ELSE r
  <2>2. Op /\ (Does(io, "fine") \/ Does(Sought(h, Iop(h, u), Home(u)), "fine")) BY <2>1 DEF Crash
  <2>3. Good(r, {}) /\ NoInc(r) BY <1>1, RewoundKeeps
  <2> HIDE DEF r
  <2>4. Good(h, {}) /\ NoInc(h) BY <1>1, <2>3
  <2> HIDE DEF h
  <2> DEFINE g == Sought(h, Iop(h, u), Home(u))
  <2>5. Good(g, {}) /\ Within(g, h) BY <2>4, SoughtKeeps
  <2>6. NoInc(g) BY <2>4, <2>5, NoIncWithin
  <2> HIDE DEF g
  <2>7. QED BY <1>2, <1>4, <1>6, <2>2, <2>5, <2>6 DEF g
<1>14. CASE SET
  <2>1. PICK u \in UnitNos, n \in -1..1 :
          LET s == Iop(io, u)
          IN Op /\ IF Curr(io, u) = Nul THEN Does(io, "failed")
                   ELSE IF s = Nul THEN Crash(io)
                   ELSE IF n < 0 THEN Does(Flushed(io, s), "fine")
                   ELSE n <= Len(io.disk[io.streams[s].path]) /\ Does(Sought(io, s, n), "failed")
    BY <1>14 DEF SET
  <2> DEFINE s == Iop(io, u)
  <2>2. Op /\ (Does(io, "failed") \/ Does(Flushed(io, s), "fine") \/ Does(Sought(io, s, n), "failed")) BY <2>1 DEF Crash
  <2> HIDE DEF s
  <2>3. Good(Flushed(io, s), {}) /\ Within(Flushed(io, s), io) BY <1>1, FlushedKeeps
  <2>4. Good(Sought(io, s, n), {}) /\ Within(Sought(io, s, n), io) BY <1>1, SoughtKeeps
  <2>5. QED BY <1>3, <1>4, <1>6, <2>2, <2>3, <2>4
<1>15. CASE END
  <2> DEFINE c == CHOOSE c : Ends(io, NUNITS, c)
  <2>1. NUNITS \in Nat BY UnitsAssumption
  <2>2. Ends(io, NUNITS, c) BY <2>1, EndsExist
  <2>3. io' = c[NUNITS] /\ does' = "stopped" /\ at' = at BY <1>15 DEF END, Ends
  <2> HIDE DEF c
  <2>4. Good(c[NUNITS], {}) BY <1>1, <2>1, <2>2, EndsKeep
  <2>5. Good(io, {})' BY <2>3, <2>4
  <2>6. QED BY <1>1, <2>3, <2>5 DEF UnitsInv
<1>16. QED BY <1>7, <1>8, <1>9, <1>10, <1>11, <1>12, <1>13, <1>14, <1>15

LEMMA UnitsStep == ASSUME ~Misused, UnitsInv, [UniNext]_univars PROVE UnitsInv'
<1>1. CASE UNCHANGED univars
  <2>1. io' = io /\ at' = at /\ does' = does /\ ended' = ended BY <1>1 DEF univars
  <2>2. QED BY <2>1 DEF UnitsInv
<1>2. CASE UniNext BY <1>2, ReadKeeps, CardKeeps, RunKeeps DEF UniNext
<1>3. QED BY <1>1, <1>2

\* A file structure is in the lists of one unit and an open stream is that of one
\* structure, whatever a program does that is fit for its units: what io_close
\* and io_closeall free, nothing else has (struct file in lib/io.c).
THEOREM FilesHaveOwners == ASSUME ~Misused PROVE UniSpec => []FilesOwned
<1>1. UniInit => UnitsInv BY UnitsInit
<1>2. UnitsInv /\ [UniNext]_univars => UnitsInv' BY UnitsStep
<1>3. UnitsInv => FilesOwned BY UnitsOwn
<1>4. QED BY <1>1, <1>2, <1>3, PTL DEF UniSpec
=============================================================================
