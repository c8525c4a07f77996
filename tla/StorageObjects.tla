---------------------------- MODULE StorageObjects ----------------------------
(***************************************************************************)
(* Storage implements Objects: what a program sees of its storage stays    *)
(* where it is, through every regeneration, and what it can reach is never *)
(* lost; and when an allocation fails, there is no room for it.            *)
(***************************************************************************)
EXTENDS StorageProofs

\* reach finds from some what F finds from what is found: F grows, sees D only, and
\* takes as many steps as there are members of D.
Steps(U, D, some, F, reach) ==
  /\ IsFiniteSet(D) /\ some \in SUBSET U /\ F \in [SUBSET U -> SUBSET U] /\ F[{}] = {}
  /\ \A Q, R \in SUBSET U : Q \subseteq R => F[Q] \subseteq F[R]
  /\ \A Q, R \in SUBSET U : Q \cap D = R \cap D => F[Q] = F[R]
  /\ \A n \in 0..Cardinality(D) : reach[n] = some \cup IF n = 0 THEN {} ELSE F[reach[n - 1]]
Least(U, some, F, R) ==
  /\ some \subseteq R /\ F[R] \subseteq R /\ R \in SUBSET U
  /\ \A S \in SUBSET U : some \subseteq S /\ F[S] \subseteq S => R \subseteq S

\* The last of them is closed, and is the least closed set.
LEMMA Closure ==
  ASSUME NEW U, NEW D, NEW some, NEW F, NEW reach, Steps(U, D, some, F, reach)
  PROVE Least(U, some, F, reach[Cardinality(D)])
<1> DEFINE N == Cardinality(D)
<1> USE DEF Steps
<1>0. N \in Nat BY FS_CardinalityType
<1> HIDE DEF N
<1>20. \A n \in 0..N : reach[n] = some \cup IF n = 0 THEN {} ELSE F[reach[n - 1]] BY DEF N
<1>1. reach[0] = some
  <2>1. 0 \in 0..N BY <1>0
  <2>2. reach[0] = some \cup {} BY <1>20, <2>1
  <2>3. QED BY <2>2
<1>2. \A n \in 1..N : n \in 0..N /\ n - 1 \in 0..N /\ reach[n] = some \cup F[reach[n - 1]]
  <2>1. \A n \in 1..N : n \in 0..N /\ n - 1 \in 0..N /\ n # 0 BY <1>0
  <2>2. QED BY <1>20, <2>1
<1> DEFINE T == {n \in Nat : n \in 0..N => reach[n] \in SUBSET U}
<1>3. \A n \in 0..N : reach[n] \in SUBSET U /\ some \subseteq reach[n]
  <2>1. 0 \in T BY <1>1
  <2>2. ASSUME NEW n \in Nat, n \in T PROVE n + 1 \in T
    <3> SUFFICES ASSUME n + 1 \in 0..N PROVE reach[n + 1] \in SUBSET U BY <1>0
    <3>1. n \in 0..N /\ n + 1 \in 1..N /\ n + 1 - 1 = n BY <1>0
    <3>2. reach[n] \in SUBSET U BY <2>2, <3>1
    <3>3. reach[n + 1] = some \cup F[reach[n]] BY <1>2, <3>1
    <3>4. F[reach[n]] \in SUBSET U BY <3>2
    <3>5. QED BY <3>3, <3>4
  <2> HIDE DEF T
  <2>3. Nat \subseteq T BY <2>1, <2>2, Induction
  <2>4. \A n \in 0..N : reach[n] \in SUBSET U BY <1>0, <2>3 DEF T
  <2>5. \A n \in 0..N : n = 0 \/ n \in 1..N BY <1>0
  <2>6. QED BY <1>1, <1>2, <2>4, <2>5
\* Each step finds a new object until there is nothing left to be found.
<1> DEFINE Got(n) == reach[n] \cap D
           Ends(n) == F[reach[n]] \subseteq reach[n]
           S == {n \in Nat : n \in 0..N => ((n > 0 => reach[n - 1] \subseteq reach[n])
                                            /\ (Ends(n) \/ Cardinality(Got(n)) >= n + 1))}
<1>4. \A n \in 0..N : IsFiniteSet(Got(n)) /\ Cardinality(Got(n)) \in Nat /\ Cardinality(Got(n)) <= N
  <2>1. \A n : Got(n) \subseteq D OBVIOUS
  <2> HIDE DEF Got
  <2>2. QED BY <2>1, FS_Subset, FS_CardinalityType DEF N
<1>5. 0 \in S
  <2>1. CASE Got(0) = {}
    <3>1. {} \in SUBSET U /\ {} \cap D = reach[0] \cap D /\ reach[0] \in SUBSET U BY <1>1, <2>1
    <3>2. F[reach[0]] = {} BY <3>1
    <3>3. Ends(0) BY <3>2
    <3>4. QED BY <3>3
  <2>2. CASE Got(0) # {}
    <3>1. 0 \in 0..N BY <1>0
    <3>2. IsFiniteSet(Got(0)) /\ Cardinality(Got(0)) \in Nat BY <1>4, <3>1
    <3> HIDE DEF Got
    <3>3. Cardinality(Got(0)) # 0 BY <2>2, <3>2, FS_EmptySet
    <3>4. QED BY <3>2, <3>3
  <2>3. QED BY <2>1, <2>2
<1>6. ASSUME NEW n \in Nat, n \in S PROVE n + 1 \in S
  <2> SUFFICES ASSUME n + 1 \in 0..N
               PROVE reach[n] \subseteq reach[n + 1] /\ (Ends(n + 1) \/ Cardinality(Got(n + 1)) >= n + 1 + 1)
    BY <1>0
  <2>1. n \in 0..N /\ n + 1 \in 1..N /\ n + 1 - 1 = n BY <1>0
  <2>2. reach[n + 1] = some \cup F[reach[n]] BY <1>2, <2>1
  <2>3. reach[n] \in SUBSET U /\ reach[n + 1] \in SUBSET U /\ some \subseteq reach[n] BY <1>3, <2>1
  <2>4. reach[n] \subseteq reach[n + 1]
    <3>1. CASE n = 0 BY <1>1, <2>2, <3>1
    <3>2. CASE n # 0
      <4>1. n \in 1..N /\ n > 0 BY <2>1, <3>2
      <4>2. reach[n] = some \cup F[reach[n - 1]] /\ reach[n - 1] \in SUBSET U BY <1>2, <1>3, <4>1
      <4>3. reach[n - 1] \subseteq reach[n] BY <1>6, <2>1, <4>1
      <4>4. F[reach[n - 1]] \subseteq F[reach[n]] BY <2>3, <4>2, <4>3
      <4>5. QED BY <2>2, <4>2, <4>4
    <3>3. QED BY <3>1, <3>2
  <2>5. CASE Ends(n)
    <3>1. reach[n + 1] = reach[n] BY <2>2, <2>3, <2>4, <2>5
    <3>2. QED BY <2>4, <2>5, <3>1
  <2>6. CASE ~Ends(n)
    <3>1. Cardinality(Got(n)) >= n + 1 BY <1>6, <2>1, <2>6
    <3>2. CASE Got(n) = Got(n + 1)
      <4>1. F[reach[n]] = F[reach[n + 1]] BY <2>3, <3>2
      <4>2. Ends(n + 1) BY <2>2, <4>1
      <4>3. QED BY <2>4, <4>2
    <3>3. CASE Got(n) # Got(n + 1)
      <4>1. Got(n) \subseteq Got(n + 1) BY <2>4
      <4>2. IsFiniteSet(Got(n + 1)) /\ Cardinality(Got(n + 1)) \in Nat /\ Cardinality(Got(n)) \in Nat BY <1>4, <2>1
      <4> HIDE DEF Got
      <4>3. Cardinality(Got(n)) <= Cardinality(Got(n + 1)) /\ Cardinality(Got(n)) # Cardinality(Got(n + 1))
        BY <3>3, <4>1, <4>2, FS_Subset
      <4>4. Cardinality(Got(n + 1)) >= n + 1 + 1 BY <3>1, <4>2, <4>3
      <4>5. QED BY <2>4, <4>4
    <3>4. QED BY <3>2, <3>3
  <2>7. QED BY <2>5, <2>6
<1>7. Nat \subseteq S
  <2> HIDE DEF S
  <2>1. QED BY <1>5, <1>6, Induction
<1>8. N \in 0..N BY <1>0
<1>9. Ends(N) \/ Cardinality(Got(N)) >= N + 1 BY <1>0, <1>7, <1>8
<1>10. Ends(N)
  <2>1. Cardinality(Got(N)) \in Nat /\ Cardinality(Got(N)) <= N BY <1>4, <1>8
  <2>2. QED BY <1>0, <1>9, <2>1
<1>11. ASSUME NEW Q \in SUBSET U, some \subseteq Q, F[Q] \subseteq Q PROVE reach[N] \subseteq Q
  <2> DEFINE W == {n \in Nat : n \in 0..N => reach[n] \subseteq Q}
  <2>1. 0 \in W BY <1>1, <1>11
  <2>2. ASSUME NEW n \in Nat, n \in W PROVE n + 1 \in W
    <3> SUFFICES ASSUME n + 1 \in 0..N PROVE reach[n + 1] \subseteq Q BY <1>0
    <3>1. n \in 0..N /\ n + 1 \in 1..N /\ n + 1 - 1 = n BY <1>0
    <3>2. reach[n] \in SUBSET U /\ reach[n] \subseteq Q BY <1>3, <2>2, <3>1
    <3>3. reach[n + 1] = some \cup F[reach[n]] BY <1>2, <3>1
    <3>4. F[reach[n]] \subseteq F[Q] BY <3>2
    <3>5. QED BY <1>11, <3>3, <3>4
  <2> HIDE DEF W
  <2>3. Nat \subseteq W BY <2>1, <2>2, Induction
  <2>4. QED BY <1>0, <1>8, <2>3 DEF W
<1>12. QED BY <1>3, <1>8, <1>10, <1>11 DEF Least, N
\* The objects some cells name, the strings that are reached by their texts, and
\* a set of objects that holds whatever can be reached in it.
Refs(cs)  == {c.o : c \in {c \in cs : All!Of(c)}}
Full(os)  == {t \in Strings \cap DOMAIN os : Range(os[t]) # {All!Zero}}
Named(os, R) == Refs(UNION {Range(os[o]) : o \in R \cap DOMAIN os})
Closed(os, cs, S) == Refs(cs) \cup Full(os) \subseteq S /\ Named(os, S) \subseteq S

LEMMA SizeSame ==
  ASSUME NEW S
  PROVE All!Cardinality(S) = Cardinality(S)
BY DEF All!Cardinality, Cardinality

LEMMA RefsGrow ==
  ASSUME NEW Q, NEW R, Q \subseteq R
  PROVE Refs(Q) \subseteq Refs(R)
BY DEF Refs

LEMMA ReachedIs ==
  ASSUME NEW os, IsFiniteSet(DOMAIN os), NEW cs
  PROVE Closed(os, cs, All!Reached(os, cs)) /\ \A S : Closed(os, cs, S) => All!Reached(os, cs) \subseteq S
<1> DEFINE D == DOMAIN os
           N == Cardinality(D)
           some == Refs(cs) \cup Full(os)
           U == some \cup Named(os, D)
           G(w) == [n \in 0..N |-> Refs(cs) \cup Full(os) \cup IF n = 0 THEN {} ELSE Named(os, w[n - 1])]
           reach == CHOOSE w : w = G(w)
           F == [A \in SUBSET U |-> Named(os, A)]
           st == [p \in (1..N) \X SUBSET U |-> some \cup Named(os, p[2])]
<1>0. N \in Nat BY FS_CardinalityType
<1>1. All!Reached(os, cs) = reach[N] 
  <2>1. All!Cardinality(DOMAIN os) = N BY SizeSame
  <2>2. QED BY <2>1 DEF All!Reached, Refs, Full, Named, All!Zero, All!Range, Range
<1>2. \A A : Named(os, A) \subseteq U
  <2>1. \A A : UNION {Range(os[o]) : o \in A \cap D} \subseteq UNION {Range(os[o]) : o \in D \cap D} OBVIOUS
  <2>2. \A A : Named(os, A) \subseteq Named(os, D) BY <2>1, RefsGrow DEF Named
  <2>3. QED BY <2>2
<1>3. st \in [(1..N) \X SUBSET U -> SUBSET U] BY <1>2
<1>4. PICK f \in [0..N -> SUBSET U] : f[0] = some /\ \A j \in 1..N : f[j] = st[<<j, f[j - 1]>>]
  <2> DEFINE W == SUBSET U
  <2>1. some \in W OBVIOUS
  <2>2. st \in [(1..N) \X W -> W] BY <1>3
  <2> HIDE DEF st, N, D, W, G, reach, F, some
  <2>3. Recursive(W, some, N, st) BY <1>0, <2>1, <2>2, Recursion
  <2>4. QED BY <2>3 DEF W, Recursive
<1>5. \A j \in 1..N : f[j] = some \cup Named(os, f[j - 1])
  <2> SUFFICES ASSUME NEW j \in 1..N PROVE f[j] = some \cup Named(os, f[j - 1]) OBVIOUS
  <2>1. j - 1 \in 0..N BY <1>0
  <2>2. f[j - 1] \in SUBSET U BY <2>1
  <2>3. <<j, f[j - 1]>> \in (1..N) \X SUBSET U BY <2>2
  <2> HIDE DEF U, some
  <2>4. st[<<j, f[j - 1]>>] = some \cup Named(os, <<j, f[j - 1]>>[2]) BY <2>3
  <2>5. QED BY <1>4, <2>4
<1>6. f = G(f)
  <2>1. \A n \in 0..N : n = 0 \/ n \in 1..N BY <1>0
  <2>2. \A n \in 0..N : f[n] = Refs(cs) \cup Full(os) \cup IF n = 0 THEN {} ELSE Named(os, f[n - 1]) BY <1>4, <1>5, <2>1
  <2>3. QED BY <2>2
<1>7. reach = G(reach) BY <1>6
<1> HIDE DEF reach, D, N
<1>8. \A n \in 0..N : reach[n] = some \cup IF n = 0 THEN {} ELSE Named(os, reach[n - 1])
  <2>1. \A n \in 0..N : G(reach)[n] = some \cup IF n = 0 THEN {} ELSE Named(os, reach[n - 1]) OBVIOUS
  <2>2. QED BY <1>7, <2>1
<1> HIDE DEF G
<1>9. IsFiniteSet(D) /\ N = Cardinality(D) BY DEF D, N
<1>10. F \in [SUBSET U -> SUBSET U] /\ some \in SUBSET U BY <1>2
<1>11. F[{}] = {}
  <2>1. {} \in SUBSET U /\ F[{}] = Named(os, {}) BY <1>10
  <2>2. Named(os, {}) = {} BY DEF Named, Refs
  <2>3. QED BY <2>1, <2>2
<1>12. \A Q, R \in SUBSET U : Q \subseteq R => F[Q] \subseteq F[R]
  <2> SUFFICES ASSUME NEW Q \in SUBSET U, NEW R \in SUBSET U, Q \subseteq R PROVE Named(os, Q) \subseteq Named(os, R) BY <1>10
  <2>1. UNION {Range(os[o]) : o \in Q \cap DOMAIN os} \subseteq UNION {Range(os[o]) : o \in R \cap DOMAIN os} OBVIOUS
  <2>2. QED BY <2>1, RefsGrow DEF Named
<1>13. \A Q, R \in SUBSET U : Q \cap D = R \cap D => F[Q] = F[R] BY <1>10 DEF Named, D
<1>14. \A A \in SUBSET U : F[A] = Named(os, A) OBVIOUS
<1> HIDE DEF F, U
<1>15. \A n \in 0..N : reach[n] = some \cup IF n = 0 THEN {} ELSE F[reach[n - 1]]
  <2> DEFINE T == {n \in Nat : n \in 0..N => reach[n] \in SUBSET U}
  <2>1. \A n \in 0..N : reach[n] \in SUBSET U
    <3> SUFFICES ASSUME NEW n \in 0..N PROVE reach[n] \in SUBSET U OBVIOUS
    <3>1. reach[n] = some \cup IF n = 0 THEN {} ELSE Named(os, reach[n - 1]) BY <1>8
    <3>2. Named(os, reach[n - 1]) \subseteq U BY <1>2
    <3>3. QED BY <1>10, <3>1, <3>2
  <2>2. \A n \in 0..N : n # 0 => n - 1 \in 0..N BY <1>0
  <2>3. QED BY <1>8, <1>14, <2>1, <2>2
<1> HIDE DEF some
<1>16. Least(U, some, F, reach[N])
  <2>1. Steps(U, D, some, F, reach) BY <1>9, <1>10, <1>11, <1>12, <1>13, <1>15 DEF Steps
  <2>2. QED BY <1>9, <2>1, Closure
<1>17. Closed(os, cs, reach[N]) BY <1>14, <1>16 DEF Closed, some, Least
<1>18. ASSUME NEW S, Closed(os, cs, S) PROVE reach[N] \subseteq S
  <2>1. some \subseteq S \cap U /\ S \cap U \in SUBSET U BY <1>10, <1>18 DEF Closed, some
  <2>2. Named(os, S \cap U) \subseteq S \cap U
    <3>1. UNION {Range(os[o]) : o \in (S \cap U) \cap DOMAIN os} \subseteq UNION {Range(os[o]) : o \in S \cap DOMAIN os} OBVIOUS
    <3>2. Named(os, S \cap U) \subseteq Named(os, S) BY <3>1, RefsGrow DEF Named
    <3>3. QED BY <1>2, <1>18, <3>2 DEF Closed
  <2>3. QED BY <1>14, <1>16, <2>1, <2>2 DEF Least
<1>19. QED BY <1>1, <1>17, <1>18

\* What can be reached is the same in a part of the objects that holds all of it.
LEMMA SameLive ==
  ASSUME NEW f, IsFiniteSet(DOMAIN f), NEW D, D \subseteq DOMAIN f, NEW g, g = [o \in D |-> f[o]],
         NEW cs, NEW S, Closed(f, cs, S), S \cap DOMAIN f \subseteq D
  PROVE All!Live(f, cs) = All!Live(g, cs) /\ All!Reached(f, cs) = All!Reached(g, cs)
<1> DEFINE R == All!Reached(f, cs)
           Q == All!Reached(g, cs)
<1>0. DOMAIN g = D /\ IsFiniteSet(D) BY FS_Subset
<1>1. Closed(f, cs, R) /\ \A T : Closed(f, cs, T) => R \subseteq T BY ReachedIs
<1>2. Closed(g, cs, Q) /\ \A T : Closed(g, cs, T) => Q \subseteq T BY <1>0, ReachedIs
<1> HIDE DEF R, Q
<1>3. R \subseteq S BY <1>1
<1>4. R \cap DOMAIN f \subseteq D BY <1>3
<1>5. \A T : Named(g, T) \subseteq Named(f, T)
  <2> SUFFICES ASSUME NEW T PROVE Named(g, T) \subseteq Named(f, T) OBVIOUS
  <2>1. UNION {Range(g[o]) : o \in T \cap DOMAIN g} \subseteq UNION {Range(f[o]) : o \in T \cap DOMAIN f} BY <1>0
  <2>2. QED BY <2>1, RefsGrow DEF Named
<1>6. Full(g) \subseteq Full(f) BY <1>0 DEF Full
<1>7. Closed(g, cs, R)
  <2>1. Named(g, R) \subseteq R BY <1>1, <1>5 DEF Closed
  <2>2. QED BY <1>1, <1>6, <2>1 DEF Closed
<1>8. Q \subseteq R BY <1>2, <1>7
<1>9. Closed(f, cs, Q)
  <2>1. Full(f) \subseteq Full(g)
    <3> SUFFICES ASSUME NEW t \in Full(f) PROVE t \in Full(g) OBVIOUS
    <3>1. t \in R /\ t \in DOMAIN f BY <1>1 DEF Closed, Full
    <3>2. t \in D /\ g[t] = f[t] BY <1>4, <3>1
    <3>3. QED BY <1>0, <3>2 DEF Full
  <2>2. \A o \in Q \cap DOMAIN f : o \in DOMAIN g /\ g[o] = f[o] BY <1>0, <1>4, <1>8
  <2>3. UNION {Range(f[o]) : o \in Q \cap DOMAIN f} \subseteq UNION {Range(g[o]) : o \in Q \cap DOMAIN g} BY <2>2
  <2>4. Named(f, Q) \subseteq Named(g, Q) BY <2>3, RefsGrow DEF Named
  <2>5. QED BY <1>2, <2>1, <2>4 DEF Closed
<1>10. R = Q BY <1>1, <1>8, <1>9
<1>11. R \cap DOMAIN f = Q \cap DOMAIN g BY <1>0, <1>4, <1>10
<1>12. [o \in R \cap DOMAIN f |-> f[o]] = [o \in Q \cap DOMAIN g |-> g[o]] BY <1>0, <1>11
<1>13. QED BY <1>10, <1>12 DEF All!Live, R, Q

------------------------------------------------------------------------------
\* What the program sees of a state s with the saved code x: Ref, AllObjs, SeenRegs,
\* SeenStack and SeenObjs for any state.
RefOf(h, c) == IF ~In(c) THEN [n |-> c.a]
               ELSE IF Top(h, c.a) \notin DOMAIN h THEN [n |-> -1]
               ELSE [o |-> h[Top(h, c.a)].id, i |-> c.a - h[Top(h, c.a)].a]
ObjOf(h, k) == [i \in DOMAIN h[k].cells |-> RefOf(h, h[k].cells[i])]
IdOf(h)     == {h[k].id : k \in DOMAIN h}
ObjsOf(h)   == [o \in IdOf(h) |-> LET k == CHOOSE k \in DOMAIN h : h[k].id = o
                                  IN [i \in DOMAIN h[k].cells |-> RefOf(h, h[k].cells[i])]]
Sighted     == (Regs \ {"LSTPTR", "BUKPTR"}) \cup {"XOCBSC"}
SeesRegs(s, x) == [z \in Sighted |-> RefOf(s.heap, IF z = "XOCBSC" THEN x.c ELSE s.reg[z])]
SeesStack(s)   == [i \in DOMAIN s.stack |-> RefOf(s.heap, s.stack[i])]
Sight(s, x)    == Range(SeesRegs(s, x)) \cup Range(SeesStack(s))
Hold(s, x)     == All!Reached(ObjsOf(s.heap), Sight(s, x))
Objs(s, x)     == All!Live(ObjsOf(s.heap), Sight(s, x))

LEMMA SameProgram ==
  ASSUME NEW os, NEW cs
  PROVE Program!Live(os, cs) = All!Live(os, cs)
<1>1. Program!Cardinality(DOMAIN os) = All!Cardinality(DOMAIN os) BY DEF Program!Cardinality, All!Cardinality
<1>2. Program!Reached(os, cs) = All!Reached(os, cs)
  BY <1>1 DEF Program!Reached, All!Reached, Program!Of, All!Of, Program!Zero, All!Zero, Program!Range, All!Range
<1>3. QED BY <1>2 DEF Program!Live, All!Live

LEMMA SeesNow ==
  ASSUME Inv
  PROVE SeenRegs = SeesRegs(m, xocbsc) /\ SeenStack = SeesStack(m) /\ AllObjs = ObjsOf(heap) /\ SeenObjs = Objs(m, xocbsc)
<1>1. m.heap = heap /\ m.reg = reg /\ m.stack = stack BY InvIs
<1>2. \A c : Ref(c) = RefOf(heap, c) BY DEF Ref, RefOf, Obj, Off
<1>3. SeenRegs = SeesRegs(m, xocbsc) BY <1>1, <1>2 DEF SeenRegs, SeesRegs, Sighted
<1>4. SeenStack = SeesStack(m) BY <1>1, <1>2 DEF SeenStack, SeesStack
<1>5. AllObjs = ObjsOf(heap) BY <1>2 DEF AllObjs, ObjsOf, IdOf
<1>6. QED BY <1>1, <1>3, <1>4, <1>5 DEF SeenObjs, Objs, Sight, Range, All!Range

LEMMA SeesNext ==
  ASSUME NEW t, Become(t)
  PROVE /\ SeenRegs' = SeesRegs(t, xocbsc') /\ SeenStack' = SeesStack(t) /\ AllObjs' = ObjsOf(t.heap)
        /\ SeenObjs' = Objs(t, xocbsc')
<1>1. heap' = t.heap /\ reg' = t.reg /\ stack' = t.stack BY DEF Become
<1>2. SeenRegs' = SeesRegs(t, xocbsc') BY <1>1 DEF SeenRegs, SeesRegs, Sighted, Ref, RefOf, Obj, Off
<1>3. SeenStack' = SeesStack(t) BY <1>1 DEF SeenStack, SeesStack, Ref, RefOf, Obj, Off
<1>4. AllObjs' = ObjsOf(t.heap) BY <1>1 DEF AllObjs, ObjsOf, IdOf, Ref, RefOf, Obj, Off
<1>5. SeenObjs' = All!Live(AllObjs', Range(SeenRegs') \cup Range(SeenStack')) BY DEF SeenObjs
<1>6. QED BY <1>2, <1>3, <1>4, <1>5 DEF Objs, Sight

\* What a cell means, for one that is in a block that is there.
LEMMA RefIs ==
  ASSUME StorageAssumption, NEW h, Laid(h), NEW c, Held(h, c)
  PROVE /\ ~In(c) => RefOf(h, c) = [n |-> c.a] /\ ~All!Of(RefOf(h, c))
        /\ In(c) => /\ Top(h, c.a) \in DOMAIN h /\ All!Of(RefOf(h, c))
                    /\ RefOf(h, c) = [o |-> h[Top(h, c.a)].id, i |-> c.a - h[Top(h, c.a)].a]
<1>1. In(c) => Top(h, c.a) \in DOMAIN h BY HeldIn
<1>2. \A v : ~All!Of([n |-> v]) BY DEF All!Of
<1>3. \A v, w : All!Of([o |-> v, i |-> w]) BY DEF All!Of
<1>4. QED BY <1>1, <1>2, <1>3 DEF RefOf

LEMMA ObjsIs ==
  ASSUME NEW h, h \in Seq(BlockOf), IdsOf(h)
  PROVE /\ DOMAIN ObjsOf(h) = IdOf(h) /\ IsFiniteSet(IdOf(h))
        /\ \A k \in DOMAIN h : h[k].id \in IdOf(h) /\ ObjsOf(h)[h[k].id] = ObjOf(h, k)
<1>1. DOMAIN ObjsOf(h) = IdOf(h) BY DEF ObjsOf
<1>2. IsFiniteSet(IdOf(h))
  <2> DEFINE f == [k \in DOMAIN h |-> h[k].id]
  <2>1. IsFiniteSet(DOMAIN h)
    <3>1. DOMAIN h = 1..Len(h) /\ Len(h) \in Nat OBVIOUS
    <3>2. QED BY <3>1, FS_Interval
  <2>2. f \in Surjection(DOMAIN h, IdOf(h)) BY DEF Surjection, IdOf
  <2>3. QED BY <2>1, <2>2, FS_Surjection
<1>3. ASSUME NEW k \in DOMAIN h PROVE h[k].id \in IdOf(h) /\ ObjsOf(h)[h[k].id] = ObjOf(h, k)
  <2>1. h[k].id \in IdOf(h) BY DEF IdOf
  <2> DEFINE j == CHOOSE j \in DOMAIN h : h[j].id = h[k].id
  <2>2. j \in DOMAIN h /\ h[j].id = h[k].id OBVIOUS
  <2>3. j = k BY <2>2 DEF IdsOf
  <2>4. ObjsOf(h)[h[k].id] = [i \in DOMAIN h[j].cells |-> RefOf(h, h[j].cells[i])] BY <2>1 DEF ObjsOf
  <2>5. QED BY <2>1, <2>3, <2>4 DEF ObjOf
<1>4. QED BY <1>1, <1>2, <1>3

\* Cells that are held name objects that are there.
LEMMA RefsThere ==
  ASSUME StorageAssumption, NEW h, Laid(h), NEW cs, \A r \in cs : \E c : Held(h, c) /\ r = RefOf(h, c)
  PROVE Refs(cs) \subseteq IdOf(h)
<1> SUFFICES ASSUME NEW o \in Refs(cs) PROVE o \in IdOf(h) OBVIOUS
<1>1. PICK r \in cs : All!Of(r) /\ o = r.o BY DEF Refs
<1>2. PICK c : Held(h, c) /\ r = RefOf(h, c) BY <1>1
<1>3. In(c) /\ Top(h, c.a) \in DOMAIN h /\ r.o = h[Top(h, c.a)].id BY <1>1, <1>2, RefIs
<1>4. QED BY <1>1, <1>3 DEF IdOf

LEMMA SightHeld ==
  ASSUME NEW s, Good(s), NEW x, Held(s.heap, x.c)
  PROVE \A r \in Sight(s, x) : \E c : Held(s.heap, c) /\ r = RefOf(s.heap, c)
<1> SUFFICES ASSUME NEW r \in Sight(s, x) PROVE \E c : Held(s.heap, c) /\ r = RefOf(s.heap, c) OBVIOUS
<1>1. CASE r \in Range(SeesRegs(s, x))
  <2>1. PICK z \in Sighted : r = RefOf(s.heap, IF z = "XOCBSC" THEN x.c ELSE s.reg[z]) BY <1>1 DEF Range, SeesRegs
  <2>2. z = "XOCBSC" \/ z \in Regs BY DEF Sighted
  <2>3. z \in Regs => Held(s.heap, s.reg[z]) BY DEF Good
  <2>4. QED BY <2>1, <2>2, <2>3
<1>2. CASE r \in Range(SeesStack(s))
  <2>1. PICK i \in DOMAIN s.stack : r = RefOf(s.heap, s.stack[i]) BY <1>2 DEF Range, SeesStack
  <2>2. Held(s.heap, s.stack[i]) BY DEF Good
  <2>3. QED BY <2>1, <2>2
<1>3. QED BY <1>1, <1>2 DEF Sight

\* What the program holds: objects that are there, and all that they lead to.
LEMMA HoldIs ==
  ASSUME StorageAssumption, NEW s, Good(s), NEW x, Held(s.heap, x.c)
  PROVE /\ Closed(ObjsOf(s.heap), Sight(s, x), Hold(s, x)) /\ Hold(s, x) \subseteq IdOf(s.heap)
        /\ Objs(s, x) = [o \in Hold(s, x) |-> ObjsOf(s.heap)[o]]
        /\ \A S : Closed(ObjsOf(s.heap), Sight(s, x), S) => Hold(s, x) \subseteq S
<1> DEFINE f == ObjsOf(s.heap)
           cs == Sight(s, x)
<1>1. Laid(s.heap) /\ s.heap \in Seq(BlockOf) /\ IdsOf(s.heap) /\ CellsOf(s.heap) BY DEF Good, Laid
<1>2. DOMAIN f = IdOf(s.heap) /\ IsFiniteSet(DOMAIN f) BY <1>1, ObjsIs
<1>3. Closed(f, cs, Hold(s, x)) /\ \A S : Closed(f, cs, S) => Hold(s, x) \subseteq S BY <1>2, ReachedIs DEF Hold
<1>4. Closed(f, cs, IdOf(s.heap))
  <2>1. Refs(cs) \subseteq IdOf(s.heap) BY <1>1, SightHeld, RefsThere
  <2>2. Full(f) \subseteq IdOf(s.heap) BY <1>2 DEF Full
  <2>3. Named(f, IdOf(s.heap)) \subseteq IdOf(s.heap)
    <3> DEFINE all == UNION {Range(f[o]) : o \in IdOf(s.heap) \cap DOMAIN f}
    <3>1. ASSUME NEW r \in all PROVE \E c : Held(s.heap, c) /\ r = RefOf(s.heap, c)
      <4>1. PICK o \in IdOf(s.heap) : r \in Range(f[o]) OBVIOUS
      <4>2. PICK k \in DOMAIN s.heap : s.heap[k].id = o BY DEF IdOf
      <4>3. f[o] = ObjOf(s.heap, k) BY <1>1, <4>2, ObjsIs
      <4>4. PICK i \in DOMAIN s.heap[k].cells : r = RefOf(s.heap, s.heap[k].cells[i]) BY <4>1, <4>3 DEF Range, ObjOf
      <4>5. Held(s.heap, s.heap[k].cells[i]) BY <1>1 DEF CellsOf
      <4>6. QED BY <4>4, <4>5
    <3> HIDE DEF all
    <3>2. Refs(all) \subseteq IdOf(s.heap) BY <1>1, <3>1, RefsThere
    <3>3. QED BY <3>2 DEF Named, all
  <2>4. QED BY <2>1, <2>2, <2>3 DEF Closed
<1>5. Hold(s, x) \subseteq IdOf(s.heap) BY <1>3, <1>4
<1>6. Hold(s, x) \cap DOMAIN f = Hold(s, x) BY <1>2, <1>5
<1>7. Objs(s, x) = [o \in Hold(s, x) \cap DOMAIN f |-> f[o]] BY DEF Objs, Hold, All!Live
<1>8. QED BY <1>3, <1>5, <1>6, <1>7

------------------------------------------------------------------------------
\* s looks like the present state.
Looks(s) == SeenRegs = SeesRegs(s, xocbsc) /\ SeenStack = SeesStack(s) /\ SeenObjs = Objs(s, xocbsc)
\* g are the objects of the heap h that are in D, and D holds all that is reached.
Covers(h, cs, g, D) ==
  /\ D \subseteq IdOf(h) /\ g = [o \in D |-> ObjsOf(h)[o]]
  /\ \E S : Closed(ObjsOf(h), cs, S) /\ S \cap IdOf(h) \subseteq D

LEMMA LooksNow ==
  ASSUME Inv
  PROVE Looks(m) /\ Good(m) /\ Held(heap, xocbsc.c) /\ xocbsc.c \in Cell
<1>1. Good(m) /\ Saved(heap, xocbsc) BY InvIs
<1>2. Held(heap, xocbsc.c) BY <1>1 DEF Saved, Held, In
<1>3. QED BY <1>1, <1>2, SeesNow DEF Looks, Saved

\* The next state is the one the program makes of the objects g.
LEMMA Becoming ==
  ASSUME NEW t, Become(t), IdsOf(t.heap), t.heap \in Seq(BlockOf), full' = full,
         NEW g, NEW D, Covers(t.heap, Sight(t, xocbsc'), g, D)
  PROVE Program!Become(g, SeesRegs(t, xocbsc'), SeesStack(t))
<1> DEFINE cs == Sight(t, xocbsc')
           f == ObjsOf(t.heap)
<1>1. DOMAIN f = IdOf(t.heap) /\ IsFiniteSet(DOMAIN f) BY ObjsIs
<1>2. PICK S : Closed(f, cs, S) /\ S \cap IdOf(t.heap) \subseteq D BY DEF Covers
<1>3. D \subseteq DOMAIN f /\ g = [o \in D |-> f[o]] BY <1>1 DEF Covers
<1> HIDE DEF f
<1>4. All!Live(f, cs) = All!Live(g, cs) BY <1>1, <1>2, <1>3, SameLive
<1>5. SeenObjs' = All!Live(g, cs) BY <1>4, SeesNext DEF Objs, f
<1>6. SeenObjs' = Program!Live(g, cs) BY <1>5, SameProgram
<1>7. QED BY <1>6, SeesNext DEF Program!Become, Sight, Program!Range, Range

\* A step that leaves storage alone.
LEMMA SameHeapStep ==
  ASSUME StorageAssumption, NEW s, Good(s), Looks(s), Held(s.heap, xocbsc.c),
         NEW t, t.heap = s.heap, Become(t), full' = full, Refs(Sight(t, xocbsc')) \subseteq Hold(s, xocbsc)
  PROVE Program!Become(SeenObjs, SeesRegs(t, xocbsc'), SeesStack(t))
<1> DEFINE D == Hold(s, xocbsc)
<1>1. s.heap \in Seq(BlockOf) /\ IdsOf(s.heap) BY DEF Good, Laid
<1>2. Closed(ObjsOf(s.heap), Sight(s, xocbsc), D) /\ D \subseteq IdOf(s.heap)
      /\ Objs(s, xocbsc) = [o \in D |-> ObjsOf(s.heap)[o]]
  BY HoldIs
<1> HIDE DEF D
<1>3. Closed(ObjsOf(t.heap), Sight(t, xocbsc'), D) BY <1>2 DEF Closed, D
<1>4. Covers(t.heap, Sight(t, xocbsc'), SeenObjs, D) BY <1>2, <1>3 DEF Covers, Looks
<1>5. QED BY <1>1, <1>4, Becoming

LEMMA MoveStep ==
  ASSUME StorageAssumption, Inv, NEW t, t.heap = heap, t.stack = stack, Become(t), full' = full,
         \A z \in Sighted : SeesRegs(t, xocbsc')[z] \in Range(SeenRegs) \cup {All!Zero},
         NEW a, NEW b, \A z \in Sighted : z \in {a, b} \/ SeesRegs(t, xocbsc')[z] = SeenRegs[z]
  PROVE Program!Move
<1>1. Looks(m) /\ Good(m) /\ Held(m.heap, xocbsc.c) /\ m.heap = heap /\ m.stack = stack BY LooksNow, InvIs
<1>2. DOMAIN SeenRegs = Sighted /\ DOMAIN SeesRegs(t, xocbsc') = Sighted BY DEF SeenRegs, SeesRegs, Sighted
<1>3. SeesStack(t) = SeenStack /\ SeenRegs' = SeesRegs(t, xocbsc') BY <1>1, SeesNext DEF Looks, SeesStack
<1>4. Refs(Sight(t, xocbsc')) \subseteq Hold(m, xocbsc)
  <2>1. ~All!Of(All!Zero) BY DEF All!Of, All!Zero
  <2>2. Sight(t, xocbsc') \subseteq Sight(m, xocbsc) \cup {All!Zero} BY <1>1, <1>2, <1>3 DEF Sight, Looks, Range
  <2>3. Refs(Sight(t, xocbsc')) \subseteq Refs(Sight(m, xocbsc)) BY <2>1, <2>2 DEF Refs
  <2>4. Closed(ObjsOf(m.heap), Sight(m, xocbsc), Hold(m, xocbsc)) BY <1>1, HoldIs
  <2>5. QED BY <2>3, <2>4 DEF Closed
<1>5. Program!Become(SeenObjs, SeenRegs', SeenStack) BY <1>1, <1>3, <1>4, SameHeapStep
<1>6. Program!Cardinality(Program!Changed) <= 2
  <2> DEFINE C == {z \in Sighted : SeesRegs(t, xocbsc')[z] # SeenRegs[z]}
  <2>1. C \subseteq {a} \cup {b} OBVIOUS
  <2>2. IsFiniteSet({a}) /\ IsFiniteSet({b}) /\ Cardinality({a}) = 1 /\ Cardinality({b}) = 1 BY FS_Singleton
  <2> HIDE DEF C
  <2>3. IsFiniteSet({a} \cup {b}) /\ Cardinality({a} \cup {b}) <= 2
    <3>1. IsFiniteSet({a} \cup {b}) /\ Cardinality({a} \cup {b}) = 1 + 1 - Cardinality({a} \cap {b}) BY <2>2, FS_Union
    <3>2. IsFiniteSet({a} \cap {b}) BY <2>2, FS_Subset
    <3>3. Cardinality({a} \cap {b}) \in Nat BY <3>2, FS_CardinalityType
    <3>4. QED BY <3>1, <3>3
  <2>4. IsFiniteSet(C) /\ Cardinality(C) <= Cardinality({a} \cup {b}) BY <2>1, <2>3, FS_Subset
  <2>5. Cardinality(C) \in Nat /\ Cardinality({a} \cup {b}) \in Nat BY <2>3, <2>4, FS_CardinalityType
  <2>6. Cardinality(C) <= 2 BY <2>3, <2>4, <2>5
  <2>7. Program!Changed = C BY <1>2, <1>3 DEF Program!Changed, C
  <2>8. Program!Cardinality(C) = Cardinality(C) BY DEF Program!Cardinality, Cardinality
  <2>9. QED BY <2>6, <2>7, <2>8
<1>7. \A z \in DOMAIN SeenRegs : SeenRegs'[z] \in Program!Range(SeenRegs) \cup {Program!Zero}
  BY <1>2, <1>3 DEF Program!Range, Range, Program!Zero, All!Zero
<1>8. QED BY <1>5, <1>6, <1>7 DEF Program!Move

------------------------------------------------------------------------------
\* A regeneration is not seen.
LEMMA FollowsRef ==
  ASSUME NEW s, NEW K, K \subseteq DOMAIN s.heap, NEW h, NEW c, NEW d, Follows(s, K, c, h, d)
  PROVE RefOf(h, d) = RefOf(s.heap, c)
<1>1. CASE ~In(c)
  <2>1. d = c /\ ~In(d) BY <1>1 DEF Follows
  <2>2. QED BY <2>1 DEF RefOf
<1>2. CASE In(c)
  <2>1. In(d) /\ Top(s.heap, c.a) \in DOMAIN s.heap /\ Top(h, d.a) \in DOMAIN h BY <1>2 DEF Follows
  <2>2. h[Top(h, d.a)].id = s.heap[Top(s.heap, c.a)].id /\ d.a - h[Top(h, d.a)].a = c.a - s.heap[Top(s.heap, c.a)].a
    BY <1>2 DEF Follows
  <2>3. RefOf(h, d) = [o |-> h[Top(h, d.a)].id, i |-> d.a - h[Top(h, d.a)].a] BY <2>1 DEF RefOf
  <2>4. RefOf(s.heap, c) = [o |-> s.heap[Top(s.heap, c.a)].id, i |-> c.a - s.heap[Top(s.heap, c.a)].a] BY <1>2, <2>1 DEF RefOf
  <2>5. QED BY <2>2, <2>3, <2>4
<1>3. QED BY <1>1, <1>2

\* A marked block holds the same after it has been moved.
LEMMA KeptObject ==
  ASSUME StorageAssumption, NEW s, Good(s), NEW k \in Marked(s)
  PROVE LET g == Moved(s, Marked(s))
            j == NewPlace(Marked(s), k)
        IN j \in DOMAIN g /\ g[j].id = s.heap[k].id /\ ObjOf(g, j) = ObjOf(s.heap, k)
<1> DEFINE K == Marked(s)
           g == Moved(s, K)
           j == NewPlace(K, k)
           old == s.heap[k].cells
           new == g[j].cells
<1>1. Keeps(s, K) /\ K \subseteq DOMAIN s.heap BY MarkedKeeps DEF Keeps
<1>2. Laid(s.heap) /\ CellsOf(s.heap) /\ BinsOf(s) BY DEF Good
<1> HIDE DEF K
<1>3. k \in K BY DEF K
<1>4. j \in DOMAIN g /\ g[j] = Kept(s, K, k) BY <1>1, <1>2, <1>3, NewPlaceIs
<1>5. KeptAs(s, K, k) BY <1>1, <1>2, <1>3, KeptIs
<1> HIDE DEF g, j
<1>6. g[j].id = s.heap[k].id /\ DOMAIN new = DOMAIN old /\ \A i \in DOMAIN old : new[i] = Relocated(s, K, old[i])
  BY <1>4, <1>5 DEF KeptAs
<1>7. ASSUME NEW i \in DOMAIN old PROVE RefOf(g, new[i]) = RefOf(s.heap, old[i])
  <2>1. k \in DOMAIN s.heap BY <1>1, <1>3
  <2>2. Held(s.heap, old[i]) BY <1>2, <2>1 DEF CellsOf
  <2>3. Rooted(s, K, old[i]) BY <1>1, <1>3 DEF Keeps
  <2> HIDE DEF old, new
  <2>4. Follows(s, K, old[i], g, Relocated(s, K, old[i])) BY <1>1, <1>2, <2>2, <2>3, RelocatedFollows DEF g
  <2>5. new[i] = Relocated(s, K, old[i]) BY <1>6
  <2>6. Follows(s, K, old[i], g, new[i]) BY <2>4, <2>5
  <2>7. QED BY <1>1, <2>6, FollowsRef
<1>8. ObjOf(g, j) = ObjOf(s.heap, k) BY <1>6, <1>7 DEF ObjOf
<1>9. QED BY <1>4, <1>6, <1>8 DEF g, j, K

\* A string with a value or an attribute is marked.
LEMMA ValuedMarked ==
  ASSUME StorageAssumption, NEW s, Good(s), NEW k \in DOMAIN s.heap, s.heap[k].id \in Strings, s.heap[k].id \in Full(ObjsOf(s.heap))
  PROVE k \in Marked(s)
<1> DEFINE b == Hash[s.heap[k].id].bin
           cells == {Ptr(a) : a \in InBins(s)}
           c == Ptr(s.heap[k].a)
<1>1. Laid(s.heap) /\ s.heap \in Seq(BlockOf) /\ IdsOf(s.heap) /\ CellsOf(s.heap) /\ BinsOf(s) BY DEF Good, Laid
<1>2. b \in Bins /\ k \in OfBin(s, b) BY HashType DEF OfBin
<1>3. PICK q : Strung(s, b, q) BY <1>1, <1>2 DEF BinsOf
<1>4. PICK i \in DOMAIN q : q[i] = k BY <1>2, <1>3 DEF Strung
<1>5. Len(q) \in Nat /\ DOMAIN q = 1..Len(q) /\ \A n \in DOMAIN q : q[n] \in DOMAIN s.heap BY <1>1, <1>3, StrungShort
<1>6. Chain(s, b) = Along(s, b, q) BY <1>1, <1>2, <1>3, ChainOf
<1>7. s.heap[k].a \in Range(Tail(Chain(s, b)))
  <2> DEFINE a == Along(s, b, q)
             N == Len(q)
  <2>1. a = [n \in 1..N + 1 |-> IF n = 1 THEN -b ELSE s.heap[q[n - 1]].a] BY DEF Along
  <2>2. \A n \in 1..N : n + 1 \in 1..N + 1 /\ n + 1 # 1 /\ (n + 1) - 1 = n BY <1>5
  <2>3. a[i + 1] = s.heap[k].a BY <1>4, <1>5, <2>1, <2>2
  <2>4. \A n \in DOMAIN s.heap : s.heap[n].a \in Int BY <1>1, TopOwn
  <2>5. -b \in Int BY <1>2, BinType
  <2>6. \A n \in 1..N + 1 : (IF n = 1 THEN -b ELSE s.heap[q[n - 1]].a) \in Int
    <3> TAKE n \in 1..N + 1
    <3>1. CASE n = 1 BY <2>5, <3>1
    <3>2. CASE n # 1
      <4>1. n - 1 \in 1..N BY <1>5, <3>2
      <4>2. q[n - 1] \in DOMAIN s.heap BY <1>5, <4>1
      <4>3. QED BY <2>4, <3>2, <4>2
    <3>3. QED BY <3>1, <3>2
  <2>7. a \in [1..N + 1 -> Int] BY <2>1, <2>6
  <2> HIDE DEF a, N, b
  <2>8. N \in Nat /\ N + 1 \in Nat BY <1>5 DEF N
  <2>9. a \in Seq(Int) /\ Len(a) = N + 1 BY <2>7, <2>8
  <2>10. a # <<>> /\ i \in 1..N BY <1>5, <2>8, <2>9 DEF N
  <2>11. Tail(a) \in Seq(Int) /\ Len(Tail(a)) = N /\ Tail(a)[i] = a[i + 1] BY <2>8, <2>9, <2>10
  <2>12. i \in DOMAIN Tail(a) BY <2>10, <2>11
  <2>13. Tail(a)[i] \in Range(Tail(a)) BY <2>12 DEF Range
  <2>14. QED BY <1>6, <2>3, <2>11, <2>13 DEF a
<1>8. c \in cells
  <2>1. s.heap[k].a \in InBins(s) BY <1>2, <1>7 DEF InBins
  <2>2. QED BY <2>1
<1>9. Top(s.heap, c.a) = k /\ c.a \in Int /\ In(c) /\ Held(s.heap, c)
  <2>1. c.a = s.heap[k].a /\ c.p /\ c \in [p : BOOLEAN, a : {s.heap[k].a}] BY DEF Ptr
  <2>2. Top(s.heap, s.heap[k].a) = k /\ s.heap[k].a \in Int /\ s.heap[k].a >= HDSGPT BY <1>1, TopOwn
  <2>3. s.heap[k].a + Size(s.heap[k]) <= FRSGPT(s.heap) /\ FRSGPT(s.heap) \in Int BY <1>1, LaidEnds
  <2>4. Size(s.heap[k]) \in Nat /\ Size(s.heap[k]) >= 1 BY <1>1, LaidType
  <2>5. s.heap[k].a < FRSGPT(s.heap) BY <2>2, <2>3, <2>4
  <2> HIDE DEF c
  <2>6. QED BY <2>1, <2>2, <2>5 DEF Held, Cell, In
<1>10. k \in Targets(s, cells)
  <2> HIDE DEF c, cells
  <2>1. QED BY <1>1, <1>8, <1>9, TargetOf
<1>11. Range(s.heap[k].cells) # {Zero}
  <2> SUFFICES ASSUME Range(s.heap[k].cells) = {Zero} PROVE FALSE OBVIOUS
  <2>1. ObjsOf(s.heap)[s.heap[k].id] = ObjOf(s.heap, k) BY <1>1, ObjsIs
  <2>2. Range(ObjOf(s.heap, k)) # {All!Zero} BY <2>1 DEF Full
  <2>3. \A n \in DOMAIN s.heap[k].cells : s.heap[k].cells[n] = Zero BY DEF Range
  <2>4. RefOf(s.heap, Zero) = All!Zero BY DEF RefOf, In, Zero, All!Zero
  <2>5. DOMAIN s.heap[k].cells = 1..2
    <3>1. Len(s.heap[k].cells) = 2 BY <1>1 DEF CellsOf
    <3>2. s.heap[k] \in BlockOf BY <1>1, LaidType
    <3>3. s.heap[k].cells \in Seq(Cell) BY <3>2 DEF BlockOf
    <3>4. QED BY <3>1, <3>3
  <2>6. DOMAIN ObjOf(s.heap, k) = 1..2 /\ \A j \in 1..2 : ObjOf(s.heap, k)[j] = All!Zero BY <2>3, <2>4, <2>5 DEF ObjOf
  <2>7. 1 \in 1..2 OBVIOUS
  <2>8. Range(ObjOf(s.heap, k)) = {All!Zero} BY <2>6, <2>7 DEF Range
  <2>9. QED BY <2>2, <2>8
<1>12. k \in Valued(s) BY <1>10, <1>11 DEF Valued
<1>13. Valued(s) \subseteq Roots(s) \cup Valued(s) OBVIOUS
<1>14. Roots(s) \cup Valued(s) \subseteq DOMAIN s.heap BY <1>1, TargetsType DEF Roots, Valued
<1>15. Roots(s) \cup Valued(s) \subseteq Marked(s) BY <1>1, <1>14, MarkClosed DEF Marked
<1>16. QED BY <1>12, <1>15

\* What the program sees before a regeneration is what it sees after it.
LEMMA GCSeen ==
  ASSUME StorageAssumption, NEW s, Good(s), NEW x, x.c \in Cell, ~x.c.p
  PROVE LET t == GC(s)
        IN SeesRegs(t, x) = SeesRegs(s, x) /\ SeesStack(t) = SeesStack(s) /\ Objs(t, x) = Objs(s, x)
<1> DEFINE t == GC(s)
           K == Marked(s)
           f == ObjsOf(s.heap)
           g == ObjsOf(t.heap)
           D == IdOf(t.heap)
           cs == Sight(s, x)
<1>1. Good(t) /\ Regenerated(s, t) BY GCGood, GCRegenerates
<1>2. Keeps(s, K) /\ K \subseteq DOMAIN s.heap /\ t.heap = Moved(s, K) BY <1>1 DEF Regenerated, Keeps
<1>3. Laid(s.heap) /\ IdsOf(s.heap) /\ CellsOf(s.heap) /\ BinsOf(s) /\ s.heap \in Seq(BlockOf) BY DEF Good, Laid
<1>4. Laid(t.heap) /\ IdsOf(t.heap) /\ t.heap \in Seq(BlockOf) BY <1>1 DEF Good, Laid
<1>5. /\ \A z \in Regs : Follows(s, K, s.reg[z], t.heap, t.reg[z])
      /\ \A i \in DOMAIN s.stack : Follows(s, K, s.stack[i], t.heap, t.stack[i])
      /\ Len(t.stack) = Len(s.stack) /\ t.stack \in Seq(Cell) /\ s.stack \in Seq(Cell)
  BY <1>1 DEF Regenerated, Good
<1> HIDE DEF t, K
<1>6. \A z \in Regs : RefOf(t.heap, t.reg[z]) = RefOf(s.heap, s.reg[z]) BY <1>2, <1>5, FollowsRef
<1>7. \A i \in DOMAIN s.stack : RefOf(t.heap, t.stack[i]) = RefOf(s.heap, s.stack[i]) BY <1>2, <1>5, FollowsRef
<1>8. ~In(x.c) BY DEF In
<1>9. \A h : RefOf(h, x.c) = [n |-> x.c.a] BY <1>8 DEF RefOf
<1>10. SeesRegs(t, x) = SeesRegs(s, x)
  <2>1. \A z \in Sighted : z # "XOCBSC" => z \in Regs BY DEF Sighted
  <2>2. \A z \in Sighted : RefOf(t.heap, IF z = "XOCBSC" THEN x.c ELSE t.reg[z])
                           = RefOf(s.heap, IF z = "XOCBSC" THEN x.c ELSE s.reg[z])
    BY <1>6, <1>9, <2>1
  <2>3. QED BY <2>2 DEF SeesRegs
<1>11. SeesStack(t) = SeesStack(s)
  <2>1. DOMAIN t.stack = DOMAIN s.stack BY <1>5
  <2>2. QED BY <1>7, <2>1 DEF SeesStack
<1>12. \A j \in DOMAIN t.heap : \E k \in K : j = NewPlace(K, k) BY <1>2, <1>3, NewPlaceIs
<1>13. \A k \in K : /\ NewPlace(K, k) \in DOMAIN t.heap /\ t.heap[NewPlace(K, k)].id = s.heap[k].id
                    /\ ObjOf(t.heap, NewPlace(K, k)) = ObjOf(s.heap, k)
  BY <1>2, KeptObject DEF K
<1>14. DOMAIN f = IdOf(s.heap) /\ IsFiniteSet(DOMAIN f)
       /\ \A k \in DOMAIN s.heap : s.heap[k].id \in IdOf(s.heap) /\ f[s.heap[k].id] = ObjOf(s.heap, k)
  BY <1>3, ObjsIs
<1>15. DOMAIN g = D /\ \A j \in DOMAIN t.heap : t.heap[j].id \in D /\ g[t.heap[j].id] = ObjOf(t.heap, j)
  BY <1>4, ObjsIs
<1>16. D = {s.heap[k].id : k \in K}
  <2>1. \A o \in D : \E k \in K : o = s.heap[k].id
    <3> TAKE o \in D
    <3>1. PICK j \in DOMAIN t.heap : o = t.heap[j].id BY DEF IdOf
    <3>2. PICK k \in K : j = NewPlace(K, k) BY <1>12, <3>1
    <3>3. QED BY <1>13, <3>1, <3>2
  <2>2. \A k \in K : s.heap[k].id \in D BY <1>13, <1>15
  <2>3. QED BY <2>1, <2>2
<1> HIDE DEF D, f, g
<1>17. \A o \in D : o \in DOMAIN f /\ g[o] = f[o]
  <2> TAKE o \in D
  <2>1. PICK k \in K : o = s.heap[k].id BY <1>16
  <2>2. k \in DOMAIN s.heap BY <1>2
  <2>3. f[o] = ObjOf(s.heap, k) /\ o \in DOMAIN f BY <1>14, <2>1, <2>2
  <2>4. g[o] = ObjOf(t.heap, NewPlace(K, k)) BY <1>13, <1>15, <2>1
  <2>5. QED BY <1>13, <2>3, <2>4
<1>18. g = [o \in D |-> f[o]] /\ D \subseteq DOMAIN f
  <2>1. g = [o \in DOMAIN g |-> g[o]] BY DEF g, ObjsOf
  <2>2. QED BY <1>15, <1>17, <2>1
\* What a cell names that a marked block, a register or the stack holds is marked.
<1>19. \A c : Held(s.heap, c) /\ Rooted(s, K, c) /\ All!Of(RefOf(s.heap, c)) => RefOf(s.heap, c).o \in D
  <2> SUFFICES ASSUME NEW c, Held(s.heap, c), Rooted(s, K, c), All!Of(RefOf(s.heap, c)) PROVE RefOf(s.heap, c).o \in D OBVIOUS
  <2>1. In(c) /\ RefOf(s.heap, c) = [o |-> s.heap[Top(s.heap, c.a)].id, i |-> c.a - s.heap[Top(s.heap, c.a)].a] BY <1>3, RefIs
  <2>2. Top(s.heap, c.a) \in K BY <2>1 DEF Rooted
  <2>3. QED BY <1>16, <2>1, <2>2
<1>20. \A r \in cs : All!Of(r) => r.o \in D
  <2> SUFFICES ASSUME NEW r \in cs, All!Of(r) PROVE r.o \in D OBVIOUS
  <2>1. CASE r \in Range(SeesRegs(s, x))
    <3>1. PICK z \in Sighted : r = RefOf(s.heap, IF z = "XOCBSC" THEN x.c ELSE s.reg[z]) BY <2>1 DEF Range, SeesRegs
    <3>2. z # "XOCBSC"
      <4>1. ~All!Of([n |-> x.c.a]) BY DEF All!Of
      <4>2. QED BY <1>9, <3>1, <4>1
    <3>3. z \in Regs /\ r = RefOf(s.heap, s.reg[z]) BY <3>1, <3>2 DEF Sighted
    <3>4. Held(s.heap, s.reg[z]) /\ Rooted(s, K, s.reg[z]) BY <3>3, MarkedKeeps DEF Good, K
    <3>5. QED BY <1>19, <3>3, <3>4
  <2>2. CASE r \in Range(SeesStack(s))
    <3>1. PICK i \in DOMAIN s.stack : r = RefOf(s.heap, s.stack[i]) BY <2>2 DEF Range, SeesStack
    <3>2. Held(s.heap, s.stack[i]) /\ Rooted(s, K, s.stack[i]) BY <3>1, MarkedKeeps DEF Good, K
    <3>3. QED BY <1>19, <3>1, <3>2
  <2>3. QED BY <2>1, <2>2 DEF Sight
<1>21. Closed(f, cs, D)
  <2>1. Refs(cs) \subseteq D BY <1>20 DEF Refs
  <2>2. Full(f) \subseteq D
    <3> SUFFICES ASSUME NEW o \in Full(f) PROVE o \in D OBVIOUS
    <3>1. o \in Strings /\ o \in DOMAIN f BY DEF Full
    <3>2. PICK k \in DOMAIN s.heap : s.heap[k].id = o BY <1>14, <3>1 DEF IdOf
    <3>3. k \in K BY <3>1, <3>2, ValuedMarked DEF f, K
    <3>4. QED BY <1>16, <3>2, <3>3
  <2>3. Named(f, D) \subseteq D
    <3> DEFINE all == UNION {Range(f[o]) : o \in D \cap DOMAIN f}
    <3>1. ASSUME NEW r \in all, All!Of(r) PROVE r.o \in D
      <4>1. PICK o \in D : r \in Range(f[o]) OBVIOUS
      <4>2. PICK k \in K : o = s.heap[k].id BY <1>16
      <4>3. k \in DOMAIN s.heap /\ f[o] = ObjOf(s.heap, k) BY <1>2, <1>14, <4>2
      <4>4. PICK i \in DOMAIN s.heap[k].cells : r = RefOf(s.heap, s.heap[k].cells[i]) BY <4>1, <4>3 DEF Range, ObjOf
      <4>5. Held(s.heap, s.heap[k].cells[i]) /\ Rooted(s, K, s.heap[k].cells[i]) BY <1>2, <1>3, <4>3 DEF CellsOf, Keeps
      <4>6. QED BY <1>19, <3>1, <4>4, <4>5
    <3> HIDE DEF all
    <3>2. QED BY <3>1 DEF Named, Refs, all
  <2>4. QED BY <2>1, <2>2, <2>3 DEF Closed
<1>22. All!Live(f, cs) = All!Live(g, cs) BY <1>14, <1>18, <1>21, SameLive
<1>23. Sight(t, x) = cs BY <1>10, <1>11 DEF Sight
<1>24. Objs(t, x) = Objs(s, x) BY <1>22, <1>23 DEF Objs, f, g
<1>25. QED BY <1>10, <1>11, <1>24 DEF t

\* A sound state that looks like the present one.
Near(s) == Sound(s, brktb, xocbsc) /\ Looks(s)

LEMMA NearIs ==
  ASSUME NEW s, Near(s)
  PROVE /\ Good(s) /\ Looks(s) /\ Sound(s, brktb, xocbsc) /\ Held(s.heap, xocbsc.c) /\ xocbsc.c \in Cell
        /\ IsState(s) /\ Laid(s.heap) /\ s.heap \in Seq(BlockOf) /\ IdsOf(s.heap) /\ CellsOf(s.heap)
        /\ FRSGPT(s.heap) <= TLSGP1
        /\ s.reg \in [Regs -> Cell] /\ \A z \in Regs : Held(s.heap, s.reg[z])
        /\ s.stack \in Seq(Cell) /\ \A i \in DOMAIN s.stack : Held(s.heap, s.stack[i])
<1>1. Good(s) /\ Saved(s.heap, xocbsc) BY DEF Near, Sound
<1>2. Held(s.heap, xocbsc.c) /\ xocbsc.c \in Cell BY <1>1 DEF Saved, Held, In
<1>3. QED BY <1>1, <1>2 DEF Near, Good, Laid

LEMMA NearNow ==
  ASSUME Inv
  PROVE Near(m)
BY LooksNow DEF Near, Inv

LEMMA NearGC ==
  ASSUME StorageAssumption, NEW s, Near(s), ~xocbsc.c.p
  PROVE Near(GC(s))
<1>1. Sound(GC(s), brktb, xocbsc) BY GCSound DEF Near
<1>2. Looks(GC(s)) BY NearIs, GCSeen DEF Looks
<1>3. QED BY <1>1, <1>2 DEF Near

LEMMA NearProvided ==
  ASSUME StorageAssumption, ~Stale, NEW s, Near(s), NEW n, n <= Room(s) \/ Stale \/ ~xocbsc.c.p
  PROVE Near(Provided(s, n))
<1>1. CASE n <= Room(s) BY <1>1 DEF Provided
<1>2. CASE ~(n <= Room(s)) BY <1>2, NearGC DEF Provided
<1>3. QED BY <1>1, <1>2

\* LSTPTR and BUKPTR are not seen.
LEMMA NearLocated ==
  ASSUME StorageAssumption, NEW s, Near(s), NEW t \in Strings
  PROVE Near(Located(s, t))
<1> DEFINE l == Located(s, t)
<1>1. Sound(l, brktb, xocbsc) BY LocatedSound DEF Near
<1>2. l.heap = s.heap /\ l.stack = s.stack /\ \A x \in Regs \ {"LSTPTR", "BUKPTR"} : l.reg[x] = s.reg[x] BY NearIs, LocatedIs
<1> HIDE DEF l
<1>3. SeesRegs(l, xocbsc) = SeesRegs(s, xocbsc)
  <2>1. \A z \in Sighted : z # "XOCBSC" => l.reg[z] = s.reg[z] BY <1>2 DEF Sighted
  <2>2. QED BY <1>2, <2>1 DEF SeesRegs
<1>4. SeesStack(l) = SeesStack(s) BY <1>2 DEF SeesStack
<1>5. Objs(l, xocbsc) = Objs(s, xocbsc) BY <1>2, <1>3, <1>4 DEF Objs, Sight
<1>6. QED BY <1>1, <1>3, <1>4, <1>5 DEF Near, Looks, l

\* A step after which the program sees the same.
LEMMA SameSeen ==
  ASSUME StorageAssumption, NEW t, Near(t), Become(t), xocbsc' = xocbsc
  PROVE SeenObjs' = SeenObjs /\ SeenRegs' = SeenRegs /\ SeenStack' = SeenStack
BY SeesNext DEF Near, Looks

LEMMA SameAgain ==
  ASSUME StorageAssumption, NEW s, Near(s), Program!Become(SeenObjs, SeenRegs, SeenStack)
  PROVE UNCHANGED Program!vars
<1> DEFINE f == ObjsOf(s.heap)
           cs == Sight(s, xocbsc)
           D == Hold(s, xocbsc)
<1>1. Good(s) /\ Looks(s) /\ Held(s.heap, xocbsc.c) /\ IdsOf(s.heap) /\ s.heap \in Seq(BlockOf) BY NearIs
<1>2. DOMAIN f = IdOf(s.heap) /\ IsFiniteSet(DOMAIN f) BY <1>1, ObjsIs
<1>3. Closed(f, cs, D) /\ D \subseteq IdOf(s.heap) /\ Objs(s, xocbsc) = [o \in D |-> f[o]] BY <1>1, HoldIs
<1> HIDE DEF f, D
<1>4. SeenObjs = [o \in D |-> f[o]] BY <1>1, <1>3 DEF Looks
<1>5. All!Live(f, cs) = All!Live(SeenObjs, cs) BY <1>2, <1>3, <1>4, SameLive
<1>6. SeenObjs = All!Live(f, cs) BY <1>1 DEF Looks, Objs, f
<1>7. cs = Program!Range(SeenRegs) \cup Program!Range(SeenStack) BY <1>1 DEF Looks, Sight, Range, Program!Range
<1>8. Program!Live(SeenObjs, cs) = SeenObjs BY <1>5, <1>6, SameProgram
<1>9. QED BY <1>7, <1>8 DEF Program!Become, Program!vars

------------------------------------------------------------------------------
\* g is h with one block more.
Grown(h, g) ==
  /\ Laid(g) /\ IdsOf(g) /\ Len(g) = Len(h) + 1 /\ g[Len(h) + 1].a = FRSGPT(h)
  /\ \A k \in DOMAIN h : g[k].a = h[k].a /\ g[k].id = h[k].id /\ g[k].cells = h[k].cells

LEMMA GrownSees ==
  ASSUME StorageAssumption, NEW h, Laid(h), CellsOf(h), IdsOf(h), NEW g, Grown(h, g), NEW o, o = g[Len(h) + 1].id
  PROVE /\ \A c : Held(h, c) => RefOf(g, c) = RefOf(h, c)
        /\ RefOf(g, Ptr(FRSGPT(h))) = Program!At(o)
        /\ o \notin IdOf(h) /\ IdOf(g) = IdOf(h) \cup {o}
        /\ \A p \in IdOf(h) : ObjsOf(g)[p] = ObjsOf(h)[p]
        /\ ObjsOf(g)[o] = ObjOf(g, Len(h) + 1)
<1> DEFINE F == Len(h) + 1
<1>1. Laid(g) /\ IdsOf(g) /\ Len(g) = F /\ g \in Seq(BlockOf) /\ h \in Seq(BlockOf) BY DEF Grown, Laid
<1>2. F \in DOMAIN g /\ \A k \in DOMAIN h : k \in DOMAIN g /\ k # F BY <1>1
<1>3. \A k \in DOMAIN g : k \in DOMAIN h \/ k = F BY <1>1
<1>4. \A k \in DOMAIN h : g[k].a = h[k].a /\ g[k].id = h[k].id /\ g[k].cells = h[k].cells /\ Size(g[k]) = Size(h[k])
  BY DEF Grown, Size
<1>5. ASSUME NEW c, Held(h, c) PROVE RefOf(g, c) = RefOf(h, c)
  <2>1. CASE ~In(c) BY <2>1 DEF RefOf
  <2>2. CASE In(c)
    <3> DEFINE k == Top(h, c.a)
    <3>1. c.a \in Int /\ k \in DOMAIN h /\ h[k].a <= c.a /\ c.a < h[k].a + Size(h[k]) BY <1>5, <2>2, HeldIn
    <3> HIDE DEF k
    <3>2. k \in DOMAIN g /\ g[k].a <= c.a /\ c.a < g[k].a + Size(g[k]) BY <1>2, <1>4, <3>1
    <3>3. Top(g, c.a) = k BY <1>1, <3>1, <3>2, TopIs
    <3>4. RefOf(g, c) = [o |-> g[k].id, i |-> c.a - g[k].a] BY <2>2, <3>2, <3>3 DEF RefOf
    <3>5. RefOf(h, c) = [o |-> h[k].id, i |-> c.a - h[k].a] BY <2>2, <3>1 DEF RefOf, k
    <3>6. QED BY <1>4, <3>1, <3>4, <3>5
  <2>3. QED BY <2>1, <2>2
<1>6. RefOf(g, Ptr(FRSGPT(h))) = Program!At(o)
  <2> DEFINE a == FRSGPT(h)
  <2>1. g[F].a = a BY DEF Grown
  <2> HIDE DEF F
  <2>2. Top(g, a) = F /\ a \in Int /\ a >= HDSGPT BY <1>1, <1>2, <2>1, TopOwn
  <2> HIDE DEF a
  <2>3. In(Ptr(a)) /\ Ptr(a).a = a BY <2>2 DEF In, Ptr
  <2>4. RefOf(g, Ptr(a)) = [o |-> g[F].id, i |-> a - g[F].a] BY <1>2, <2>2, <2>3 DEF RefOf
  <2>5. a - g[F].a = 0 BY <2>1, <2>2
  <2>6. QED BY <2>4, <2>5 DEF Program!At, F, a
<1> HIDE DEF F
<1>7. o = g[F].id BY DEF F
<1>8. o \notin IdOf(h)
  <2> SUFFICES ASSUME NEW k \in DOMAIN h, h[k].id = o PROVE FALSE BY DEF IdOf
  <2>1. g[k].id = g[F].id /\ k \in DOMAIN g /\ k # F BY <1>2, <1>4, <1>7
  <2>2. QED BY <1>1, <1>2, <2>1 DEF IdsOf
<1>9. IdOf(g) = IdOf(h) \cup {o}
  <2>1. \A p \in IdOf(g) : p \in IdOf(h) \cup {o} BY <1>3, <1>4, <1>7 DEF IdOf
  <2>2. \A p \in IdOf(h) : p \in IdOf(g)
    <3> TAKE p \in IdOf(h)
    <3>1. PICK k \in DOMAIN h : h[k].id = p BY DEF IdOf
    <3>2. k \in DOMAIN g /\ g[k].id = p BY <1>2, <1>4, <3>1
    <3>3. QED BY <3>2 DEF IdOf
  <2>3. o \in IdOf(g) BY <1>2, <1>7 DEF IdOf
  <2>4. QED BY <2>1, <2>2, <2>3
<1>10. \A k \in DOMAIN h : ObjOf(g, k) = ObjOf(h, k)
  <2> TAKE k \in DOMAIN h
  <2>1. g[k].cells = h[k].cells BY <1>4
  <2>2. \A i \in DOMAIN h[k].cells : RefOf(g, g[k].cells[i]) = RefOf(h, h[k].cells[i]) BY <1>5, <2>1 DEF CellsOf
  <2>3. QED BY <2>1, <2>2 DEF ObjOf
<1>11. \A p \in IdOf(h) : ObjsOf(g)[p] = ObjsOf(h)[p]
  <2> TAKE p \in IdOf(h)
  <2>1. PICK k \in DOMAIN h : h[k].id = p BY DEF IdOf
  <2>2. ObjsOf(h)[p] = ObjOf(h, k) BY <1>1, <2>1, ObjsIs
  <2>3. k \in DOMAIN g /\ g[k].id = p BY <1>2, <1>4, <2>1
  <2>4. ObjsOf(g)[p] = ObjOf(g, k) BY <1>1, <2>3, ObjsIs
  <2>5. QED BY <1>10, <2>2, <2>4
<1>12. ObjsOf(g)[o] = ObjOf(g, F) BY <1>1, <1>2, <1>7, ObjsIs
<1>13. QED BY <1>5, <1>6, <1>8, <1>9, <1>11, <1>12 DEF F

\* A step that makes an object of the cells val, which a register then names.
LEMMA GrownStep ==
  ASSUME StorageAssumption, NEW s, Near(s), NEW t, Grown(s.heap, t.heap), t.stack = s.stack,
         NEW r \in Work, t.reg = [s.reg EXCEPT ![r] = Free(s)],
         Become(t), full' = full, xocbsc' = xocbsc,
         NEW o, o = t.heap[Len(s.heap) + 1].id, NEW val, val = ObjOf(t.heap, Len(s.heap) + 1),
         o \in Strings => Range(val) = {All!Zero},
         \A i \in DOMAIN val : All!Of(val[i]) => val[i].o \in Hold(s, xocbsc)
  PROVE /\ Program!Become(Program!And(o, val), [SeenRegs EXCEPT ![r] = Program!At(o)], SeenStack)
        /\ r \in Program!Changed /\ o \notin DOMAIN SeenObjs
<1> DEFINE f == ObjsOf(s.heap)
           g == ObjsOf(t.heap)
           H == Hold(s, xocbsc)
           D == H \cup {o}
           cs == Sight(t, xocbsc')
<1>1. /\ Good(s) /\ Looks(s) /\ Held(s.heap, xocbsc.c) /\ Laid(s.heap) /\ CellsOf(s.heap) /\ IdsOf(s.heap)
      /\ s.reg \in [Regs -> Cell] /\ (\A z \in Regs : Held(s.heap, s.reg[z]))
      /\ s.stack \in Seq(Cell) /\ \A i \in DOMAIN s.stack : Held(s.heap, s.stack[i])
  BY NearIs
<1>2. Laid(t.heap) /\ IdsOf(t.heap) /\ t.heap \in Seq(BlockOf) BY DEF Grown, Laid
<1>3. /\ \A c : Held(s.heap, c) => RefOf(t.heap, c) = RefOf(s.heap, c)
      /\ RefOf(t.heap, Ptr(FRSGPT(s.heap))) = Program!At(o)
      /\ o \notin IdOf(s.heap) /\ IdOf(t.heap) = IdOf(s.heap) \cup {o}
      /\ \A p \in IdOf(s.heap) : g[p] = f[p]
      /\ g[o] = val
  BY <1>1, GrownSees
<1>4. DOMAIN g = IdOf(t.heap) /\ DOMAIN f = IdOf(s.heap) BY <1>1, <1>2, ObjsIs DEF Laid
<1>5. Closed(f, Sight(s, xocbsc), H) /\ H \subseteq IdOf(s.heap) /\ Objs(s, xocbsc) = [p \in H |-> f[p]] BY <1>1, HoldIs
<1> HIDE DEF f, g, H
<1>6. o \notin H /\ H \subseteq DOMAIN f BY <1>3, <1>4, <1>5
<1>7. SeenObjs = [p \in H |-> f[p]] BY <1>1, <1>5 DEF Looks
<1>8. Program!And(o, val) = [p \in D |-> g[p]]
  <2>1. DOMAIN SeenObjs = H BY <1>7
  <2>2. Program!And(o, val) = [a \in D |-> IF a = o THEN val ELSE SeenObjs[a]] BY <2>1 DEF Program!And
  <2>3. \A a \in D : g[a] = IF a = o THEN val ELSE SeenObjs[a] BY <1>3, <1>5, <1>7
  <2> HIDE DEF D
  <2>4. QED BY <2>2, <2>3
<1>9. SeesRegs(t, xocbsc') = [SeenRegs EXCEPT ![r] = Program!At(o)]
  <2>1. r \in Sighted /\ r # "XOCBSC" /\ r \in Regs BY DEF Work, Sighted, Regs
  <2>2. t.reg[r] = Free(s) /\ \A z \in Regs : z # r => t.reg[z] = s.reg[z] BY <1>1, <2>1
  <2>3. SeenRegs = [z \in Sighted |-> RefOf(s.heap, IF z = "XOCBSC" THEN xocbsc.c ELSE s.reg[z])] BY <1>1 DEF Looks, SeesRegs
  <2>4. \A z \in Sighted : RefOf(t.heap, IF z = "XOCBSC" THEN xocbsc.c ELSE t.reg[z])
                             = IF z = r THEN Program!At(o) ELSE SeenRegs[z]
    <3> TAKE z \in Sighted
    <3>1. CASE z = r BY <1>3, <2>1, <2>2, <3>1 DEF Free
    <3>2. CASE z = "XOCBSC" BY <1>1, <1>3, <2>1, <2>3, <3>2
    <3>3. CASE z # r /\ z # "XOCBSC"
      <4>1. z \in Regs BY <3>3 DEF Sighted
      <4>2. t.reg[z] = s.reg[z] /\ Held(s.heap, s.reg[z]) BY <1>1, <2>2, <3>3, <4>1
      <4>3. QED BY <1>3, <2>3, <3>3, <4>2
    <3>4. QED BY <3>1, <3>2, <3>3
  <2>5. SeesRegs(t, xocbsc') = [z \in Sighted |-> IF z = r THEN Program!At(o) ELSE SeenRegs[z]] BY <2>4 DEF SeesRegs
  <2>6. QED BY <2>1, <2>3, <2>5
<1>10. SeesStack(t) = SeenStack
  <2>1. \A i \in DOMAIN s.stack : RefOf(t.heap, t.stack[i]) = RefOf(s.heap, s.stack[i]) BY <1>1, <1>3
  <2>2. SeesStack(t) = SeesStack(s) BY <2>1 DEF SeesStack
  <2>3. QED BY <1>1, <2>2 DEF Looks
<1>11. \A c \in Sight(s, xocbsc) : All!Of(c) => c.o \in H BY <1>5 DEF Closed, Refs
<1>12. \A c \in cs : All!Of(c) => c.o \in D
  <2> SUFFICES ASSUME NEW c \in cs, All!Of(c) PROVE c.o \in D OBVIOUS
  <2>1. CASE c \in Range(SeesStack(t)) BY <1>1, <1>10, <1>11, <2>1 DEF Sight, Looks
  <2>2. CASE c \in Range(SeesRegs(t, xocbsc'))
    <3>1. DOMAIN SeenRegs = Sighted BY DEF SeenRegs, Sighted
    <3>2. PICK z \in Sighted : c = IF z = r THEN Program!At(o) ELSE SeenRegs[z] BY <1>9, <2>2, <3>1 DEF Range
    <3>3. CASE z = r BY <3>2, <3>3 DEF Program!At
    <3>4. CASE z # r
      <4>1. c \in Range(SeenRegs) BY <3>1, <3>2, <3>4 DEF Range
      <4>2. QED BY <1>1, <1>11, <4>1 DEF Sight, Looks
    <3>5. QED BY <3>3, <3>4
  <2>3. QED BY <2>1, <2>2 DEF Sight
<1>13. Closed(g, cs, D)
  <2>1. Refs(cs) \subseteq D BY <1>12 DEF Refs
  <2>2. Full(g) \subseteq D
    <3> SUFFICES ASSUME NEW p \in Full(g), p # o PROVE p \in H OBVIOUS
    <3>1. p \in IdOf(s.heap) /\ p \in Strings /\ Range(g[p]) # {All!Zero} BY <1>3, <1>4 DEF Full
    <3>2. p \in Full(f) BY <1>3, <1>4, <3>1 DEF Full
    <3>3. QED BY <1>5, <3>2 DEF Closed
  <2>3. Named(g, D) \subseteq D
    <3> SUFFICES ASSUME NEW p \in D, p \in DOMAIN g, NEW c \in Range(g[p]), All!Of(c) PROVE c.o \in D BY DEF Named, Refs
    <3>1. CASE p = o
      <4>1. PICK i \in DOMAIN val : c = val[i] BY <1>3, <3>1 DEF Range
      <4>2. QED BY <4>1 DEF H
    <3>2. CASE p # o
      <4>1. p \in H /\ g[p] = f[p] /\ p \in DOMAIN f BY <1>3, <1>5, <1>6, <3>2
      <4>2. c.o \in Named(f, H) BY <4>1 DEF Named, Refs
      <4>3. QED BY <1>5, <4>2 DEF Closed
    <3>3. QED BY <3>1, <3>2
  <2>4. QED BY <2>1, <2>2, <2>3 DEF Closed
<1>14. Covers(t.heap, cs, Program!And(o, val), D) BY <1>3, <1>5, <1>8, <1>13 DEF Covers, g
<1>15. Program!Become(Program!And(o, val), SeesRegs(t, xocbsc'), SeesStack(t))
  <2> HIDE DEF D
  <2>1. QED BY <1>2, <1>14, Becoming
<1>16. r \in Program!Changed
  <2>1. r \in Sighted BY DEF Work, Sighted, Regs
  <2>2. DOMAIN SeenRegs = Sighted BY DEF SeenRegs, Sighted
  <2>3. SeenRegs' = SeesRegs(t, xocbsc') BY SeesNext
  <2>4. SeenRegs'[r] = Program!At(o) BY <1>9, <2>1, <2>2, <2>3
  <2>5. All!Of(Program!At(o)) /\ Program!At(o).o = o BY DEF All!Of, Program!At
  <2>6. SeenRegs[r] \in Sight(s, xocbsc) BY <1>1, <2>1, <2>2 DEF Looks, Sight, Range
  <2>7. SeenRegs[r] # Program!At(o) BY <1>6, <1>11, <2>5, <2>6
  <2>8. QED BY <2>1, <2>2, <2>4, <2>7 DEF Program!Changed
<1>17. DOMAIN SeenObjs = H BY <1>7
<1>18. QED BY <1>6, <1>9, <1>10, <1>15, <1>16, <1>17

------------------------------------------------------------------------------
\* The object a register names, which is in block k.
Naming(s, z, k) ==
  /\ k \in DOMAIN s.heap /\ SeenRegs[z] = [o |-> s.heap[k].id, i |-> s.reg[z].a - s.heap[k].a]
  /\ s.heap[k].id \in Hold(s, xocbsc) /\ s.heap[k].id \in DOMAIN SeenObjs
  /\ SeenObjs[s.heap[k].id] = ObjOf(s.heap, k)

LEMMA NearObject ==
  ASSUME StorageAssumption, NEW s, Near(s), NEW z \in Regs \ {"LSTPTR", "BUKPTR"}
  PROVE /\ SeenRegs[z] = RefOf(s.heap, s.reg[z]) /\ All!Of(SeenRegs[z]) = In(s.reg[z])
        /\ In(s.reg[z]) => Naming(s, z, Top(s.heap, s.reg[z].a))
<1>1. Good(s) /\ Looks(s) /\ Held(s.heap, xocbsc.c) /\ Laid(s.heap) /\ s.heap \in Seq(BlockOf) /\ IdsOf(s.heap) BY NearIs
<1>2. z \in Sighted /\ z # "XOCBSC" BY DEF Sighted, Regs
<1>3. SeenRegs[z] = RefOf(s.heap, s.reg[z]) BY <1>1, <1>2 DEF Looks, SeesRegs
<1>4. Held(s.heap, s.reg[z]) BY NearIs
<1>5. All!Of(SeenRegs[z]) \in BOOLEAN BY DEF All!Of
<1>6. All!Of(SeenRegs[z]) <=> In(s.reg[z]) BY <1>1, <1>3, <1>4, RefIs
<1>7. In(s.reg[z]) \in BOOLEAN
  <2>1. s.reg[z].p \in BOOLEAN /\ s.reg[z].a \in Int BY <1>4 DEF Held, Cell
  <2>2. QED BY <2>1 DEF In
<1>8. ASSUME In(s.reg[z]), NEW k, k = Top(s.heap, s.reg[z].a)
      PROVE /\ k \in DOMAIN s.heap /\ SeenRegs[z] = [o |-> s.heap[k].id, i |-> s.reg[z].a - s.heap[k].a]
            /\ s.heap[k].id \in Hold(s, xocbsc) /\ s.heap[k].id \in DOMAIN SeenObjs
            /\ SeenObjs[s.heap[k].id] = ObjOf(s.heap, k)
  <2>1. k \in DOMAIN s.heap /\ SeenRegs[z] = [o |-> s.heap[k].id, i |-> s.reg[z].a - s.heap[k].a]
    BY <1>1, <1>3, <1>4, <1>8, RefIs
  <2>2. /\ Closed(ObjsOf(s.heap), Sight(s, xocbsc), Hold(s, xocbsc))
        /\ Objs(s, xocbsc) = [p \in Hold(s, xocbsc) |-> ObjsOf(s.heap)[p]]
    BY <1>1, HoldIs
  <2>3. SeenRegs[z] \in Sight(s, xocbsc)
    <3>1. DOMAIN SeenRegs = Sighted BY DEF SeenRegs, Sighted
    <3>2. SeenRegs[z] \in Range(SeenRegs) BY <1>2, <3>1 DEF Range
    <3>3. QED BY <1>1, <3>2 DEF Sight, Looks
  <2>4. SeenRegs[z].o \in Refs(Sight(s, xocbsc)) BY <1>6, <1>8, <2>3 DEF Refs
  <2>5. s.heap[k].id \in Hold(s, xocbsc) BY <2>1, <2>2, <2>4 DEF Closed
  <2>6. SeenObjs = [p \in Hold(s, xocbsc) |-> ObjsOf(s.heap)[p]] BY <1>1, <2>2 DEF Looks
  <2>7. ObjsOf(s.heap)[s.heap[k].id] = ObjOf(s.heap, k) BY <1>1, <2>1, ObjsIs
  <2>8. QED BY <2>1, <2>5, <2>6, <2>7
<1>9. In(s.reg[z]) => Naming(s, z, Top(s.heap, s.reg[z].a)) BY <1>8 DEF Naming
<1>10. QED BY <1>3, <1>5, <1>6, <1>7, <1>9

\* What a reachable object names is reachable.
LEMMA NearNames ==
  ASSUME StorageAssumption, NEW s, Near(s), NEW k \in DOMAIN s.heap, s.heap[k].id \in Hold(s, xocbsc),
         NEW i \in DOMAIN s.heap[k].cells, All!Of(RefOf(s.heap, s.heap[k].cells[i]))
  PROVE RefOf(s.heap, s.heap[k].cells[i]).o \in Hold(s, xocbsc)
<1> DEFINE f == ObjsOf(s.heap)
           H == Hold(s, xocbsc)
           r == RefOf(s.heap, s.heap[k].cells[i])
           p == s.heap[k].id
<1>1. Good(s) /\ Held(s.heap, xocbsc.c) /\ s.heap \in Seq(BlockOf) /\ IdsOf(s.heap) BY NearIs
<1>2. Closed(f, Sight(s, xocbsc), H) BY <1>1, HoldIs
<1>3. p \in DOMAIN f /\ f[p] = ObjOf(s.heap, k) BY <1>1, ObjsIs
<1>4. r \in Range(f[p]) BY <1>3 DEF ObjOf, Range
<1> HIDE DEF f, H, r, p
<1>5. All!Of(r) /\ p \in H BY DEF r, p, H
<1>6. r \in UNION {Range(f[q]) : q \in H \cap DOMAIN f} BY <1>3, <1>4, <1>5
<1>7. r.o \in Named(f, H) BY <1>5, <1>6 DEF Named, Refs
<1>8. QED BY <1>2, <1>7 DEF Closed, H, r

\* A block of these cells, which a register then names.
Makes(s, t, cells, r) ==
  /\ cells \in Seq(Cell) /\ Len(cells) <= Room(s)
  /\ \A i \in DOMAIN cells : /\ Held(s.heap, cells[i])
                             /\ All!Of(RefOf(s.heap, cells[i])) => RefOf(s.heap, cells[i]).o \in Hold(s, xocbsc)
  /\ IsState(t) /\ t.heap = Block(s, cells) /\ t.bins = s.bins /\ t.stack = s.stack /\ t.reg = [s.reg EXCEPT ![r] = Free(s)]
Made(r, val) ==
  \E o \in Ids \ DOMAIN SeenObjs :
    /\ Program!Become(Program!And(o, val), [SeenRegs EXCEPT ![r] = Program!At(o)], SeenStack)
    /\ r \in Program!Changed

LEMMA BlockStep ==
  ASSUME StorageAssumption, NEW s, Near(s), NEW t, NEW cells, NEW r \in Work, Makes(s, t, cells, r),
         Become(t), full' = full, xocbsc' = xocbsc,
         NEW val, val = [i \in DOMAIN cells |-> RefOf(s.heap, cells[i])]
  PROVE Made(r, val)
<1> USE DEF Makes
<1> DEFINE h == s.heap
           g == t.heap
           o == Fresh(s)
           d == [a |-> FRSGPT(h), id |-> o, cells |-> cells, link |-> 0]
<1>1. Laid(h) /\ FRSGPT(h) <= TLSGP1 /\ CellsOf(h) /\ IdsOf(h) BY NearIs
<1>2. o \in Ids BY <1>1, FreshIs
<1>3. r \in {"XPTR", "YPTR"} BY DEF Work
<1>4. Sound(t, brktb, xocbsc) BY <1>3, NewSound DEF Near
<1>5. Laid(g) /\ IdsOf(g) BY <1>4 DEF Sound, Good
<1>6. g = Append(h, d) BY DEF Block
<1>7. FRSGPT(h) \in Int BY <1>1, LaidEnds
<1>8. d \in BlockOf /\ d.a = FRSGPT(h) /\ d.id = o /\ d.cells = cells BY <1>2, <1>7 DEF BlockOf
<1> HIDE DEF o, d, h, g
<1>9. Len(g) = Len(h) + 1 /\ g[Len(h) + 1] = d /\ \A k \in DOMAIN h : g[k] = h[k] BY <1>1, <1>6, <1>8, AppendLaid
<1>10. Grown(h, g) BY <1>5, <1>8, <1>9 DEF Grown
<1>11. g[Len(h) + 1].id = o /\ g[Len(h) + 1].cells = cells BY <1>8, <1>9
<1>12. \A c : Held(h, c) => RefOf(g, c) = RefOf(h, c) BY <1>1, <1>10, GrownSees
<1>13. val = ObjOf(g, Len(h) + 1)
  <2>1. \A i \in DOMAIN cells : RefOf(g, cells[i]) = RefOf(h, cells[i]) BY <1>12 DEF h
  <2>2. QED BY <1>11, <2>1 DEF ObjOf, h
<1>14. o \notin Strings BY <1>2 DEF StorageAssumption
<1>15. \A i \in DOMAIN val : All!Of(val[i]) => val[i].o \in Hold(s, xocbsc) OBVIOUS
<1>16. Grown(s.heap, t.heap) /\ o = t.heap[Len(s.heap) + 1].id /\ val = ObjOf(t.heap, Len(s.heap) + 1)
  BY <1>10, <1>11, <1>13 DEF h, g
<1>17. /\ Program!Become(Program!And(o, val), [SeenRegs EXCEPT ![r] = Program!At(o)], SeenStack)
       /\ r \in Program!Changed /\ o \notin DOMAIN SeenObjs
  BY <1>14, <1>15, <1>16, GrownStep
<1>18. QED BY <1>2, <1>17 DEF Made

\* An allocation makes a step of the program, or stops it.
Moves == [Program!Next]_(Program!vars)

Fits(s, n, new) ==
  Near(Provided(s, n)) /\ n <= Room(Provided(s, n)) /\ Become(new) /\ full' = full /\ xocbsc' = xocbsc

LEMMA AllocateMoves ==
  ASSUME StorageAssumption, ~Stale, NEW s, Near(s), NEW n, n # 0, NEW new, Allocate(s, n, new), Fits(s, n, new) => Moves
  PROVE Moves
<1> DEFINE t == Provided(s, n)
<1>1. /\ xocbsc' = xocbsc /\ brktb' = brktb /\ full = 0 /\ (n <= Room(s) \/ Stale \/ ~xocbsc.c.p)
      /\ (n <= Room(t) => Become(new) /\ full' = full) /\ (~(n <= Room(t)) => Become(t) /\ full' = n)
  BY DEF Allocate, Step
<1>2. Near(t) BY <1>1, NearProvided
<1> HIDE DEF t
<1>3. CASE n <= Room(t) BY <1>1, <1>2, <1>3 DEF Fits, t
<1>4. CASE ~(n <= Room(t))
  <2>1. Become(t) /\ full' # 0 BY <1>1, <1>4
  <2>2. SeenObjs' = SeenObjs /\ SeenRegs' = SeenRegs /\ SeenStack' = SeenStack BY <1>1, <1>2, <2>1, SameSeen
  <2>3. Program!Stop BY <1>1, <2>1, <2>2 DEF Program!Stop
  <2>4. QED BY <2>3 DEF Moves, Program!Next
<1>5. QED BY <1>3, <1>4

LEMMA BlockedMoves ==
  ASSUME StorageAssumption, NEW s, Near(s), NEW n \in 1..2, n <= Room(s), NEW t, t = Blocked(s, n),
         Become(t), full' = full, xocbsc' = xocbsc
  PROVE Moves
<1> DEFINE cells == [i \in 1..n |-> Zero]
           val == [i \in DOMAIN cells |-> RefOf(s.heap, cells[i])]
<1>1. t = [s EXCEPT !.heap = Block(s, cells), !.reg["XPTR"] = Free(s)] BY DEF Blocked
<1>2. cells \in Seq(Cell) /\ Len(cells) = n /\ \A i \in DOMAIN cells : cells[i] = Zero BY DEF Zero, Cell
<1>3. \A c : c = Zero => Held(s.heap, c) BY DEF Zero, Cell, Held, In
<1>4. \A i \in DOMAIN cells : RefOf(s.heap, cells[i]) = Program!Zero BY DEF RefOf, In, Zero, Program!Zero
<1>5. val = [i \in 1..n |-> Program!Zero] BY <1>4
<1> HIDE DEF cells, val
<1>6. \A i \in DOMAIN cells : Held(s.heap, cells[i]) BY <1>2, <1>3
<1>7. s = [heap |-> s.heap, bins |-> s.bins, reg |-> s.reg, stack |-> s.stack] BY NearIs DEF IsState
<1>8. IsState(t) /\ t.heap = Block(s, cells) /\ t.bins = s.bins /\ t.stack = s.stack /\ t.reg = [s.reg EXCEPT !["XPTR"] = Free(s)]
  BY <1>1, <1>7 DEF IsState
<1>9. ~All!Of(Program!Zero) BY DEF All!Of, Program!Zero
<1>10. "XPTR" \in Work BY DEF Work
<1>11. \A i \in DOMAIN cells : All!Of(RefOf(s.heap, cells[i])) => RefOf(s.heap, cells[i]).o \in Hold(s, xocbsc)
  BY <1>4, <1>9
<1>12. Makes(s, t, cells, "XPTR") BY <1>2, <1>6, <1>8, <1>11 DEF Makes
<1>13. val = [i \in DOMAIN cells |-> RefOf(s.heap, cells[i])] BY DEF val
<1>14. Made("XPTR", val) BY <1>10, <1>12, <1>13, BlockStep
<1>15. Program!New("XPTR", n) /\ "XPTR" \in Program!Changed \cap Work BY <1>5, <1>10, <1>14 DEF Program!New, Made
<1>16. QED BY <1>15 DEF Moves, Program!Next

LEMMA BLOCKMoves ==
  ASSUME StorageAssumption, ~Stale, Inv, BLOCK
  PROVE Moves
<1>1. PICK n \in 1..2 : Allocate(m, n, Blocked(Provided(m, n), n)) BY DEF BLOCK
<1>2. n # 0 /\ Near(m) BY NearNow
<1> DEFINE t == Blocked(Provided(m, n), n)
<1>3. ASSUME Fits(m, n, t) PROVE Moves BY <1>3, BlockedMoves DEF Fits
<1>4. Allocate(m, n, t) BY <1>1
<1> HIDE DEF t
<1>5. QED BY <1>2, <1>3, <1>4, AllocateMoves

\* AUGATL without a free pair: a longer copy.
Lengthened(s) ==
  With(s, Block(s, s.heap[Top(s.heap, s.reg["YPTR"].a)].cells \o <<s.reg["XPTR"], s.reg["XPTR"]>>), "YPTR", Free(s))

LEMMA LongerStep ==
  ASSUME StorageAssumption, NEW s, Near(s), NEW k \in DOMAIN s.heap, k = Top(s.heap, s.reg["YPTR"].a), In(s.reg["YPTR"]),
         s.heap[k].id \in Ids, Len(s.heap[k].cells) + 2 <= Room(s),
         NEW t, t = Lengthened(s),
         Become(t), full' = full, xocbsc' = xocbsc
  PROVE Program!Longer("XPTR", "YPTR") /\ "YPTR" \in Program!Changed
<1> DEFINE old == s.heap[k].cells
           c == s.reg["XPTR"]
           cells == old \o <<c, c>>
           N == Len(old)
           x == SeenRegs["XPTR"]
           seen == ObjOf(s.heap, k)
           val == [i \in DOMAIN cells |-> RefOf(s.heap, cells[i])]
           long == seen \o <<x, x>>
<1>1. /\ Laid(s.heap) /\ CellsOf(s.heap) /\ IsState(s) /\ \A y \in Regs : Held(s.heap, s.reg[y]) BY NearIs
<1>2. s.heap[k] \in BlockOf BY <1>1, LaidType
<1>3. old \in Seq(Cell) BY <1>2 DEF BlockOf
<1>4. \A i \in DOMAIN old : Held(s.heap, old[i]) BY <1>1 DEF CellsOf
<1>5. Held(s.heap, c) /\ c \in Cell BY <1>1, RegsAre DEF Held
<1>6. t = With(s, Block(s, cells), "YPTR", Free(s)) BY DEF Lengthened
<1>7. "XPTR" \in Regs \ {"LSTPTR", "BUKPTR"} /\ "YPTR" \in Regs \ {"LSTPTR", "BUKPTR"} BY DEF Regs
<1>8. /\ x = RefOf(s.heap, c) /\ (All!Of(x) => x.o \in Hold(s, xocbsc))
  <2>1. x = RefOf(s.heap, c) /\ All!Of(x) = In(c) BY <1>7, NearObject
  <2>2. In(c) => x.o \in Hold(s, xocbsc)
    <3> SUFFICES ASSUME In(c) PROVE x.o \in Hold(s, xocbsc) OBVIOUS
    <3>0. Naming(s, "XPTR", Top(s.heap, c.a)) BY <1>7, NearObject
    <3>1. /\ x = [o |-> s.heap[Top(s.heap, c.a)].id, i |-> c.a - s.heap[Top(s.heap, c.a)].a]
          /\ s.heap[Top(s.heap, c.a)].id \in Hold(s, xocbsc)
      BY <3>0 DEF Naming
    <3>2. QED BY <3>1
  <2>3. QED BY <2>1, <2>2
<1>9. /\ All!Of(SeenRegs["YPTR"]) /\ SeenRegs["YPTR"].o = s.heap[k].id /\ s.heap[k].id \in Hold(s, xocbsc)
      /\ SeenObjs[s.heap[k].id] = seen
  <2>1. Naming(s, "YPTR", k) /\ All!Of(SeenRegs["YPTR"]) BY <1>7, NearObject
  <2>2. QED BY <2>1 DEF Naming
<1> HIDE DEF cells
<1> DEFINE h == Block(s, cells)
<1>10. IsState(t) /\ t.heap = h /\ t.bins = s.bins /\ t.stack = s.stack /\ t.reg = [s.reg EXCEPT !["YPTR"] = Free(s)]
  <2>1. t = With(s, h, "YPTR", Free(s)) BY <1>6
  <2> HIDE DEF h
  <2>2. Differ(s, t, h, "YPTR", Free(s)) BY <1>1, <2>1, WithIs
  <2>3. QED BY <2>2 DEF Differ
<1>11. DOMAIN seen = DOMAIN old /\ \A i \in DOMAIN old : seen[i] = RefOf(s.heap, old[i]) BY DEF ObjOf
<1>12. \A i \in DOMAIN old : All!Of(RefOf(s.heap, old[i])) => RefOf(s.heap, old[i]).o \in Hold(s, xocbsc) BY <1>9, NearNames
<1> HIDE DEF old, c, x, seen, N
<1>13. cells \in Seq(Cell) /\ Len(cells) = N + 2 /\ N \in Nat /\ DOMAIN old = 1..N
       /\ (\A i \in 1..N : cells[i] = old[i]) /\ cells[N + 1] = c /\ cells[N + 2] = c
  <2> DEFINE two == <<c, c>>
  <2>1. two \in Seq(Cell) /\ Len(two) = 2 /\ two[1] = c /\ two[2] = c BY <1>5
  <2>2. cells = old \o two BY DEF cells
  <2>3. N \in Nat /\ DOMAIN old = 1..N /\ Len(old) = N BY <1>3 DEF N
  <2> HIDE DEF two
  <2>4. Joined(Cell, cells, old, two, N, 2) BY <1>3, <2>1, <2>2, <2>3, ConcatIs
  <2>5. cells \in Seq(Cell) /\ Len(cells) = N + 2 /\ (\A j \in 1..N : cells[j] = old[j]) /\ \A j \in 1..2 : cells[N + j] = two[j]
    BY <2>4 DEF Joined
  <2>6. 1 \in 1..2 /\ 2 \in 1..2 OBVIOUS
  <2>7. QED BY <2>1, <2>3, <2>5, <2>6
<1>14. DOMAIN cells = 1..N + 2 /\ \A i \in 1..N + 2 : i \in 1..N \/ i = N + 1 \/ i = N + 2 BY <1>13
<1>15. \A i \in DOMAIN cells : cells[i] = c \/ \E j \in DOMAIN old : cells[i] = old[j] BY <1>13, <1>14
<1>16. \A i \in DOMAIN cells : Held(s.heap, cells[i]) BY <1>4, <1>5, <1>15
<1>17. \A i \in DOMAIN cells : All!Of(RefOf(s.heap, cells[i])) => RefOf(s.heap, cells[i]).o \in Hold(s, xocbsc)
  BY <1>8, <1>12, <1>15
<1>18. Len(cells) <= Room(s) BY <1>13 DEF old, N
<1>19. val = long
  <2> DEFINE X == {seen[i] : i \in 1..N} \cup {x}
             two == <<x, x>>
  <2>1. seen \in Seq(X) /\ Len(seen) = N
    <3>1. seen = [i \in 1..N |-> seen[i]] BY <1>11, <1>13 DEF ObjOf, seen
    <3>2. seen \in [1..N -> X] BY <3>1
    <3> HIDE DEF X
    <3>3. QED BY <1>13, <3>2
  <2>2. two \in Seq(X) /\ Len(two) = 2 /\ two[1] = x /\ two[2] = x OBVIOUS
  <2>3. long = seen \o two OBVIOUS
  <2> HIDE DEF X, two, long
  <2>4. Joined(X, long, seen, two, N, 2) BY <1>13, <2>1, <2>2, <2>3, ConcatIs
  <2>5. long \in Seq(X) /\ Len(long) = N + 2 /\ (\A j \in 1..N : long[j] = seen[j]) /\ \A j \in 1..2 : long[N + j] = two[j]
    BY <2>4 DEF Joined
  <2>6. 1 \in 1..2 /\ 2 \in 1..2 OBVIOUS
  <2>7. long[N + 1] = x /\ long[N + 2] = x BY <2>2, <2>5, <2>6
  <2>8. \A i \in 1..N : RefOf(s.heap, cells[i]) = long[i] BY <1>11, <1>13, <2>5
  <2>9. RefOf(s.heap, cells[N + 1]) = long[N + 1] /\ RefOf(s.heap, cells[N + 2]) = long[N + 2] BY <1>8, <1>13, <2>7
  <2>10. \A i \in 1..N + 2 : RefOf(s.heap, cells[i]) = long[i] BY <1>14, <2>8, <2>9
  <2>11. val = [i \in 1..N + 2 |-> long[i]] BY <1>14, <2>10
  <2> HIDE DEF val
  <2>12. DOMAIN long = 1..N + 2 /\ long = [i \in DOMAIN long |-> long[i]] BY <1>13, <2>5
  <2>13. QED BY <2>11, <2>12
<1>20. "YPTR" \in Work BY DEF Work
<1> HIDE DEF h, val, long
<1>21. val = [i \in DOMAIN cells |-> RefOf(s.heap, cells[i])] BY DEF val
<1>22. t.heap = Block(s, cells) BY <1>10 DEF h
<1>23. Made("YPTR", val)
  <2>1. Makes(s, t, cells, "YPTR") BY <1>10, <1>13, <1>16, <1>17, <1>18, <1>22 DEF Makes
  <2>2. QED BY <1>20, <1>21, <2>1, BlockStep
<1>24. Program!IsBlock("YPTR") /\ Program!Cells("YPTR") = seen
  <2>1. Program!Of(SeenRegs["YPTR"]) BY <1>9 DEF Program!Of, All!Of
  <2>2. QED BY <1>9, <2>1 DEF Program!IsBlock, Program!Cells
<1>25. Program!Cells("YPTR") \o <<SeenRegs["XPTR"], SeenRegs["XPTR"]>> = val BY <1>19, <1>24 DEF long, x
<1>26. QED BY <1>23, <1>24, <1>25 DEF Program!Longer, Made

LEMMA LongerMoves ==
  ASSUME StorageAssumption, ~Stale, Inv, NEW l, l = Top(heap, reg["YPTR"].a), In(reg["YPTR"]), heap[l].id \in Ids,
         NEW n, n = Len(heap[l].cells) + 2, NEW t, t = Lengthened(Provided(m, n)), Allocate(m, n, t)
  PROVE Moves
<1> DEFINE s == Provided(m, n)
           k == Top(s.heap, s.reg["YPTR"].a)
<1>1. Near(m) /\ m.heap = heap /\ m.reg = reg BY NearNow, InvIs
<1>2. "YPTR" \in Regs \ {"LSTPTR", "BUKPTR"} BY DEF Regs
<1>3. /\ l \in DOMAIN heap /\ SeenRegs["YPTR"].o = heap[l].id /\ SeenObjs[heap[l].id] = ObjOf(heap, l)
      /\ All!Of(SeenRegs["YPTR"])
  <2>1. Naming(m, "YPTR", l) /\ All!Of(SeenRegs["YPTR"]) BY <1>1, <1>2, NearObject
  <2>2. QED BY <1>1, <2>1 DEF Naming
<1>4. heap[l].cells \in Seq(Cell) /\ Len(heap[l].cells) \in Nat
  <2>1. Laid(heap) BY InvIs
  <2>2. heap[l] \in BlockOf BY <1>3, <2>1, LaidType
  <2>3. QED BY <2>2 DEF BlockOf
<1>5. n # 0 BY <1>4
<1> HIDE DEF s, k
<1>6. ASSUME Fits(m, n, t) PROVE Moves
  <2>1. Near(s) /\ n <= Room(s) /\ Become(t) /\ full' = full /\ xocbsc' = xocbsc BY <1>6 DEF Fits, s
  <2>2. In(s.reg["YPTR"]) BY <1>2, <1>3, <2>1, NearObject
  <2>3. Naming(s, "YPTR", k) BY <1>2, <2>1, <2>2, NearObject DEF k
  <2>4. k \in DOMAIN s.heap /\ SeenRegs["YPTR"].o = s.heap[k].id /\ SeenObjs[s.heap[k].id] = ObjOf(s.heap, k)
    BY <2>3 DEF Naming
  <2>5. s.heap[k].id \in Ids /\ ObjOf(s.heap, k) = ObjOf(heap, l) BY <1>3, <2>4
  <2>6. Len(s.heap[k].cells) = Len(heap[l].cells)
    <3>1. Laid(s.heap) BY <2>1, NearIs
    <3>2. s.heap[k] \in BlockOf BY <2>4, <3>1, LaidType
    <3>3. s.heap[k].cells \in Seq(Cell) BY <3>2 DEF BlockOf
    <3>4. DOMAIN s.heap[k].cells = DOMAIN heap[l].cells BY <2>5 DEF ObjOf
    <3>5. QED BY <1>4, <3>3, <3>4
  <2>7. Program!Longer("XPTR", "YPTR") /\ "YPTR" \in Program!Changed
    <3>1. t = Lengthened(s) BY DEF s
    <3>2. k = Top(s.heap, s.reg["YPTR"].a) /\ Len(s.heap[k].cells) + 2 <= Room(s) BY <2>1, <2>6 DEF k
    <3>3. QED BY <2>1, <2>2, <2>4, <2>5, <3>1, <3>2, LongerStep
  <2>8. "XPTR" \in Work /\ "YPTR" \in Program!Changed \cap Work BY <2>7 DEF Work
  <2>9. QED BY <2>7, <2>8 DEF Moves, Program!Next
<1>7. QED BY <1>1, <1>5, <1>6, AllocateMoves

------------------------------------------------------------------------------
\* A register takes another value.
LEMMA OneSeen ==
  ASSUME NEW s, Near(s), NEW t, t.heap = s.heap, NEW r \in Work, NEW c, t.reg = [s.reg EXCEPT ![r] = c], xocbsc' = xocbsc
  PROVE /\ SeesRegs(t, xocbsc') = [SeenRegs EXCEPT ![r] = RefOf(s.heap, c)] /\ DOMAIN SeenRegs = Sighted /\ r \in Sighted
        /\ (t.stack = s.stack => SeesStack(t) = SeenStack)
<1>1. r \in Sighted /\ r # "XOCBSC" /\ r \in Regs BY DEF Work, Sighted, Regs
<1>2. s.reg \in [Regs -> Cell] /\ Looks(s) BY NearIs
<1>3. t.reg[r] = c /\ \A z \in Regs : z # r => t.reg[z] = s.reg[z] BY <1>1, <1>2
<1>4. SeenRegs = [z \in Sighted |-> RefOf(s.heap, IF z = "XOCBSC" THEN xocbsc.c ELSE s.reg[z])] BY <1>2 DEF Looks, SeesRegs
<1>5. \A z \in Sighted : RefOf(t.heap, IF z = "XOCBSC" THEN xocbsc.c ELSE t.reg[z]) = IF z = r THEN RefOf(s.heap, c) ELSE SeenRegs[z]
  <2> TAKE z \in Sighted
  <2>1. CASE z = r BY <1>1, <1>3, <2>1
  <2>2. CASE z = "XOCBSC" BY <1>1, <1>4, <2>2
  <2>3. CASE z # r /\ z # "XOCBSC"
    <3>1. z \in Regs BY <2>3 DEF Sighted
    <3>2. QED BY <1>3, <1>4, <2>3, <3>1
  <2>4. QED BY <2>1, <2>2, <2>3
<1>6. SeesRegs(t, xocbsc') = [z \in Sighted |-> IF z = r THEN RefOf(s.heap, c) ELSE SeenRegs[z]] BY <1>5 DEF SeesRegs
<1>7. SeesRegs(t, xocbsc') = [SeenRegs EXCEPT ![r] = RefOf(s.heap, c)] BY <1>1, <1>4, <1>6
<1>8. t.stack = s.stack => SeesStack(t) = SeenStack BY <1>2 DEF Looks, SeesStack
<1>9. QED BY <1>1, <1>4, <1>7, <1>8

\* A register takes a value that names nothing new.
LEMMA OneStep ==
  ASSUME StorageAssumption, NEW s, Near(s), NEW t, t.heap = s.heap, t.stack = s.stack,
         NEW r \in Work, NEW c, t.reg = [s.reg EXCEPT ![r] = c], Become(t), full' = full, xocbsc' = xocbsc,
         All!Of(RefOf(s.heap, c)) => RefOf(s.heap, c).o \in Hold(s, xocbsc)
  PROVE /\ Program!Become(SeenObjs, [SeenRegs EXCEPT ![r] = RefOf(s.heap, c)], SeenStack)
        /\ SeenRegs' = [SeenRegs EXCEPT ![r] = RefOf(s.heap, c)]
        /\ (RefOf(s.heap, c) = SeenRegs[r] => Moves) /\ (RefOf(s.heap, c) # SeenRegs[r] => r \in Program!Changed \cap Work)
<1> DEFINE v == RefOf(s.heap, c)
           H == Hold(s, xocbsc)
<1>1. Good(s) /\ Looks(s) /\ Held(s.heap, xocbsc.c) BY NearIs
<1>2. /\ SeesRegs(t, xocbsc') = [SeenRegs EXCEPT ![r] = v] /\ DOMAIN SeenRegs = Sighted /\ r \in Sighted
      /\ SeesStack(t) = SeenStack
  BY OneSeen
<1>3. Closed(ObjsOf(s.heap), Sight(s, xocbsc), H) BY <1>1, HoldIs
<1> HIDE DEF v, H
<1>4. \A d \in Sight(s, xocbsc) : All!Of(d) => d.o \in H BY <1>3 DEF Closed, Refs
<1>5. \A d \in Sight(t, xocbsc') : d = v \/ d \in Sight(s, xocbsc)
  <2> TAKE d \in Sight(t, xocbsc')
  <2>1. CASE d \in Range(SeesStack(t)) BY <1>1, <1>2, <2>1 DEF Looks, Sight
  <2>2. CASE d \in Range(SeesRegs(t, xocbsc'))
    <3>1. PICK z \in Sighted : d = [SeenRegs EXCEPT ![r] = v][z] BY <1>2, <2>2 DEF Range
    <3>2. CASE z = r BY <1>2, <3>1, <3>2
    <3>3. CASE z # r
      <4>1. d = SeenRegs[z] BY <1>2, <3>1, <3>3
      <4>2. d \in Range(SeenRegs) BY <1>2, <4>1 DEF Range
      <4>3. QED BY <1>1, <4>2 DEF Looks, Sight
    <3>4. QED BY <3>2, <3>3
  <2>3. QED BY <2>1, <2>2 DEF Sight
<1>6. \A d \in Sight(t, xocbsc') : All!Of(d) => d.o \in H BY <1>4, <1>5 DEF v, H
<1>7. Refs(Sight(t, xocbsc')) \subseteq H BY <1>6 DEF Refs
<1>8. Program!Become(SeenObjs, SeesRegs(t, xocbsc'), SeesStack(t)) BY <1>1, <1>7, SameHeapStep DEF H
<1>9. SeenRegs' = SeesRegs(t, xocbsc') BY SeesNext
<1>10. v = SeenRegs[r] => Moves
  <2> SUFFICES ASSUME v = SeenRegs[r] PROVE Moves OBVIOUS
  <2>1. [SeenRegs EXCEPT ![r] = v] = SeenRegs
    <3>1. SeenRegs = [z \in Sighted |-> SeenRegs[z]] BY <1>2 DEF SeenRegs, Sighted
    <3>2. [SeenRegs EXCEPT ![r] = v] = [z \in Sighted |-> IF z = r THEN v ELSE SeenRegs[z]] BY <1>2
    <3>3. \A z \in Sighted : (IF z = r THEN v ELSE SeenRegs[z]) = SeenRegs[z] OBVIOUS
    <3>4. QED BY <3>1, <3>2, <3>3
  <2>2. Program!Become(SeenObjs, SeenRegs, SeenStack) BY <1>2, <1>8, <2>1
  <2>3. UNCHANGED Program!vars BY <2>2, SameAgain
  <2>4. QED BY <2>3 DEF Moves
<1>11. v # SeenRegs[r] => r \in Program!Changed \cap Work
  <2> SUFFICES ASSUME v # SeenRegs[r] PROVE r \in Program!Changed \cap Work OBVIOUS
  <2>1. SeenRegs'[r] = v BY <1>2, <1>9
  <2>2. QED BY <1>2, <2>1 DEF Program!Changed
<1>12. QED BY <1>2, <1>8, <1>9, <1>10, <1>11 DEF v

\* The cell that names a block.
LEMMA StartIs ==
  ASSUME StorageAssumption, NEW h, Laid(h), NEW k \in DOMAIN h
  PROVE RefOf(h, Ptr(h[k].a)) = Program!At(h[k].id)
<1> DEFINE a == h[k].a
<1>1. Top(h, a) = k /\ a \in Int /\ a >= HDSGPT BY TopOwn
<1> HIDE DEF a
<1>2. In(Ptr(a)) /\ Ptr(a).a = a BY <1>1 DEF In, Ptr
<1>3. RefOf(h, Ptr(a)) = [o |-> h[k].id, i |-> a - h[k].a] BY <1>1, <1>2 DEF RefOf
<1>4. a - h[k].a = 0 BY <1>1 DEF a
<1>5. QED BY <1>3, <1>4 DEF Program!At, a

\* A string LOCA1 found: when nothing could reach it, it has no value and no attribute.
LEMMA FoundMoves ==
  ASSUME StorageAssumption, NEW s, Near(s), NEW t \in Strings, Present(s, t), NEW e, e = Found(s, t),
         Become(e), full' = full, xocbsc' = xocbsc
  PROVE Moves
<1> DEFINE H == Hold(s, xocbsc)
           f == ObjsOf(s.heap)
           c == s.reg["BUKPTR"]
           regs == [SeenRegs EXCEPT !["XPTR"] = Program!At(t)]
<1>1. /\ Good(s) /\ Looks(s) /\ Held(s.heap, xocbsc.c) /\ Laid(s.heap) /\ CellsOf(s.heap) /\ IdsOf(s.heap)
      /\ s.heap \in Seq(BlockOf)
  BY NearIs
<1>2. PICK k \in DOMAIN s.heap : s.heap[k].id = t /\ c = Ptr(s.heap[k].a) BY DEF Present
<1>3. RefOf(s.heap, c) = Program!At(t) BY <1>1, <1>2, StartIs
<1>4. e.heap = s.heap /\ e.stack = s.stack /\ e.reg = [s.reg EXCEPT !["XPTR"] = c]
  <2>1. s = [heap |-> s.heap, bins |-> s.bins, reg |-> s.reg, stack |-> s.stack] BY NearIs DEF IsState
  <2> HIDE DEF c
  <2>2. e = [s EXCEPT !.reg["XPTR"] = c] BY DEF Found, c
  <2>3. QED BY <2>1, <2>2
<1> HIDE DEF c
<1>5. "XPTR" \in Work BY DEF Work
<1>6. Program!At(t).o = t /\ All!Of(Program!At(t)) BY DEF Program!At, All!Of
<1>7. Closed(f, Sight(s, xocbsc), H) /\ H \subseteq IdOf(s.heap) /\ Objs(s, xocbsc) = [p \in H |-> f[p]] BY <1>1, HoldIs
<1>8. DOMAIN f = IdOf(s.heap) /\ t \in DOMAIN f /\ f[t] = ObjOf(s.heap, k) BY <1>1, <1>2, ObjsIs
<1> HIDE DEF f, H
<1>9. SeenObjs = [p \in H |-> f[p]] /\ DOMAIN SeenObjs = H BY <1>1, <1>7 DEF Looks
<1>10. CASE t \in H
  <2>1. /\ Program!Become(SeenObjs, regs, SeenStack) /\ (Program!At(t) = SeenRegs["XPTR"] => Moves)
        /\ (Program!At(t) # SeenRegs["XPTR"] => "XPTR" \in Program!Changed \cap Work)
    BY <1>3, <1>4, <1>5, <1>6, <1>10, OneStep DEF H
  <2>2. Program!Name("XPTR") BY <1>9, <1>10, <2>1 DEF Program!Name
  <2>3. CASE Program!At(t) = SeenRegs["XPTR"] BY <2>1, <2>3
  <2>4. CASE Program!At(t) # SeenRegs["XPTR"] BY <2>1, <2>2, <2>4 DEF Moves, Program!Next
  <2>5. QED BY <2>3, <2>4
<1>11. CASE t \notin H
  <2> DEFINE D == H \cup {t}
             val == <<Program!Zero, Program!Zero>>
             cs == Sight(e, xocbsc')
  <2>1. f[t] = val /\ Range(f[t]) = {All!Zero}
    <3>1. t \notin Full(f) BY <1>7, <1>11 DEF Closed
    <3>2. Range(f[t]) = {All!Zero} BY <1>8, <3>1 DEF Full
    <3>3. DOMAIN s.heap[k].cells = 1..2
      <4>1. Len(s.heap[k].cells) = 2 BY <1>1, <1>2 DEF CellsOf
      <4>2. s.heap[k] \in BlockOf BY <1>1, LaidType
      <4>3. s.heap[k].cells \in Seq(Cell) BY <4>2 DEF BlockOf
      <4>4. QED BY <4>1, <4>3
    <3>4. DOMAIN f[t] = 1..2 /\ f[t] = [i \in 1..2 |-> f[t][i]] BY <1>8, <3>3 DEF ObjOf
    <3>5. \A i \in 1..2 : f[t][i] = Program!Zero BY <3>2, <3>4 DEF Range, All!Zero, Program!Zero
    <3>6. f[t] = [i \in 1..2 |-> Program!Zero] BY <3>4, <3>5
    <3>7. val = [i \in 1..2 |-> Program!Zero]
      <4> DEFINE Z == Program!Zero
      <4> HIDE DEF Z
      <4>1. <<Z, Z>> = [i \in 1..2 |-> Z] OBVIOUS
      <4>2. QED BY <4>1 DEF Z
    <3>8. QED BY <3>2, <3>6, <3>7
  <2>2. Program!And(t, val) = [p \in D |-> f[p]]
    <3>1. Program!And(t, val) = [a \in D |-> IF a = t THEN val ELSE SeenObjs[a]] BY <1>9 DEF Program!And
    <3>2. \A a \in D : f[a] = IF a = t THEN val ELSE SeenObjs[a] BY <1>9, <2>1
    <3> HIDE DEF D, val
    <3>3. QED BY <3>1, <3>2
  <2>3. SeesRegs(e, xocbsc') = regs /\ DOMAIN SeenRegs = Sighted /\ "XPTR" \in Sighted /\ SeesStack(e) = SeenStack
    BY <1>3, <1>4, <1>5, OneSeen
  <2>4. \A d \in Sight(s, xocbsc) : All!Of(d) => d.o \in H BY <1>7 DEF Closed, Refs
  <2>5. \A d \in cs : All!Of(d) => d.o \in D
    <3> SUFFICES ASSUME NEW d \in cs, All!Of(d) PROVE d.o \in D OBVIOUS
    <3>1. CASE d \in Range(SeesStack(e)) BY <1>1, <2>3, <2>4, <3>1 DEF Looks, Sight
    <3>2. CASE d \in Range(SeesRegs(e, xocbsc'))
      <4>1. PICK z \in Sighted : d = regs[z] BY <2>3, <3>2 DEF Range
      <4>2. CASE z = "XPTR" BY <1>6, <2>3, <4>1, <4>2
      <4>3. CASE z # "XPTR"
        <5>1. d = SeenRegs[z] BY <2>3, <4>1, <4>3
        <5>2. d \in Range(SeenRegs) BY <2>3, <5>1 DEF Range
        <5>3. QED BY <1>1, <2>4, <5>2 DEF Looks, Sight
      <4>4. QED BY <4>2, <4>3
    <3>3. QED BY <3>1, <3>2 DEF Sight
  <2>6. ~All!Of(All!Zero) BY DEF All!Of, All!Zero
  <2>7. Closed(f, cs, D)
    <3>1. Refs(cs) \subseteq D BY <2>5 DEF Refs
    <3>2. Full(f) \subseteq D BY <1>7 DEF Closed
    <3>3. Named(f, D) \subseteq D
      <4> SUFFICES ASSUME NEW p \in D, p \in DOMAIN f, NEW d \in Range(f[p]), All!Of(d) PROVE d.o \in D BY DEF Named, Refs
      <4>1. p # t BY <2>1, <2>6
      <4>2. d.o \in Named(f, H) BY <4>1 DEF Named, Refs
      <4>3. QED BY <1>7, <4>2 DEF Closed
    <3>4. QED BY <3>1, <3>2, <3>3 DEF Closed
  <2>8. D \subseteq IdOf(s.heap) BY <1>7, <1>8
  <2> HIDE DEF D, val
  <2>9. Covers(e.heap, cs, Program!And(t, val), D)
    <3>1. D \cap IdOf(s.heap) \subseteq D OBVIOUS
    <3>2. QED BY <1>4, <2>2, <2>7, <2>8, <3>1 DEF Covers, f
  <2>10. Program!Become(Program!And(t, val), regs, SeenStack)
    <3> DEFINE g == Program!And(t, val)
    <3>1. IdsOf(e.heap) /\ e.heap \in Seq(BlockOf) BY <1>1, <1>4
    <3>2. Covers(e.heap, Sight(e, xocbsc'), g, D) BY <2>9
    <3>3. SeesRegs(e, xocbsc') = regs /\ SeesStack(e) = SeenStack BY <2>3
    <3> HIDE DEF g, regs, cs
    <3>4. Program!Become(g, SeesRegs(e, xocbsc'), SeesStack(e)) BY <3>1, <3>2, Becoming
    <3>5. QED BY <3>3, <3>4 DEF g
  <2>11. "XPTR" \in Program!Changed
    <3>1. SeenRegs' = regs BY <2>3, SeesNext
    <3>2. SeenRegs'["XPTR"] = Program!At(t) BY <2>3, <3>1
    <3>3. SeenRegs["XPTR"] \in Sight(s, xocbsc) BY <1>1, <2>3 DEF Looks, Sight, Range
    <3>4. SeenRegs["XPTR"] # Program!At(t) BY <1>6, <1>11, <2>4, <3>3
    <3>5. QED BY <2>3, <3>2, <3>4 DEF Program!Changed
  <2>12. Program!Name("XPTR") BY <1>9, <1>11, <2>10 DEF Program!Name, val
  <2>13. QED BY <1>5, <2>11, <2>12 DEF Moves, Program!Next
<1>12. QED BY <1>10, <1>11

\* A string that was not there.
LEMMA EnteredMoves ==
  ASSUME StorageAssumption, NEW s, Near(s), NEW t \in Strings, Absent(s, t), 3 + Words[t] <= Room(s), NEW e, e = Entered(s, t),
         Become(e), full' = full, xocbsc' = xocbsc
  PROVE Moves
<1> DEFINE val == <<Program!Zero, Program!Zero>>
           F == Len(s.heap) + 1
<1>1. Good(s) /\ Laid(s.heap) BY NearIs
<1>2. FRSGPT(s.heap) + 4 + Words[t] <= TLSGP1
  <2>1. FRSGPT(s.heap) \in Int BY <1>1, LaidEnds
  <2>2. Words[t] \in Nat /\ TLSGP1 \in Nat BY DEF StorageAssumption
  <2>3. QED BY <2>1, <2>2 DEF Room
<1>3. Good(e) /\ Entering(s, t, e) BY <1>1, <1>2, EnteredGood
<1>4. /\ e.stack = s.stack /\ e.reg = [s.reg EXCEPT !["XPTR"] = Free(s)]
      /\ Laid(e.heap) /\ IdsOf(e.heap) /\ Len(e.heap) = F
      /\ (\A k \in DOMAIN s.heap : e.heap[k].a = s.heap[k].a /\ e.heap[k].id = s.heap[k].id /\ e.heap[k].cells = s.heap[k].cells)
      /\ e.heap[F].id = t /\ e.heap[F].a = FRSGPT(s.heap) /\ e.heap[F].cells = <<Zero, Zero>>
  BY <1>3 DEF Entering, Good
<1>5. Grown(s.heap, e.heap) BY <1>4 DEF Grown
<1>6. ObjOf(e.heap, F) = val
  <2> DEFINE Z == Program!Zero
             two == <<Zero, Zero>>
  <2>1. RefOf(e.heap, Zero) = Z BY DEF RefOf, In, Zero, Program!Zero
  <2>2. DOMAIN two = 1..2 /\ \A i \in 1..2 : two[i] = Zero OBVIOUS
  <2> HIDE DEF two, F
  <2>3. e.heap[F].cells = two BY <1>4 DEF two
  <2> HIDE DEF Z
  <2>4. ObjOf(e.heap, F) = [i \in 1..2 |-> Z] BY <2>1, <2>2, <2>3 DEF ObjOf
  <2>5. <<Z, Z>> = [i \in 1..2 |-> Z] OBVIOUS
  <2>6. QED BY <2>4, <2>5 DEF Z
<1>7. Range(val) = {All!Zero} /\ \A i \in DOMAIN val : ~All!Of(val[i])
  <2> DEFINE Z == Program!Zero
  <2>1. Z = All!Zero /\ ~All!Of(Z) BY DEF Program!Zero, All!Zero, All!Of
  <2> HIDE DEF Z
  <2>2. DOMAIN <<Z, Z>> = {1, 2} /\ \A i \in {1, 2} : <<Z, Z>>[i] = Z OBVIOUS
  <2>3. val = <<Z, Z>> BY DEF Z
  <2> HIDE DEF val
  <2>4. QED BY <2>1, <2>2, <2>3 DEF Range
<1>8. "XPTR" \in Work BY DEF Work
<1>9. ObjOf(e.heap, Len(s.heap) + 1) = val /\ t = e.heap[Len(s.heap) + 1].id BY <1>4, <1>6
<1>13. e.reg = [s.reg EXCEPT !["XPTR"] = Free(s)] /\ e.stack = s.stack BY <1>4
<1>14. t \in Strings => Range(val) = {All!Zero} BY <1>7
<1>15. \A i \in DOMAIN val : All!Of(val[i]) => val[i].o \in Hold(s, xocbsc) BY <1>7
<1> HIDE DEF val, F
<1>10. /\ Program!Become(Program!And(t, val), [SeenRegs EXCEPT !["XPTR"] = Program!At(t)], SeenStack)
       /\ "XPTR" \in Program!Changed /\ t \notin DOMAIN SeenObjs
  <2> DEFINE o == e.heap[Len(s.heap) + 1].id
             v == ObjOf(e.heap, Len(s.heap) + 1)
  <2>1. o = t /\ v = val BY <1>9
  <2>2. o \in Strings => Range(v) = {All!Zero} BY <1>14, <2>1
  <2>3. \A i \in DOMAIN v : All!Of(v[i]) => v[i].o \in Hold(s, xocbsc) BY <1>15, <2>1
  <2> HIDE DEF o, v
  <2>4. o = e.heap[Len(s.heap) + 1].id /\ v = ObjOf(e.heap, Len(s.heap) + 1) BY DEF o, v
  <2>5. /\ Program!Become(Program!And(o, v), [SeenRegs EXCEPT !["XPTR"] = Program!At(o)], SeenStack)
        /\ "XPTR" \in Program!Changed /\ o \notin DOMAIN SeenObjs
    BY <1>5, <1>8, <1>13, <2>2, <2>3, <2>4, GrownStep
  <2>6. QED BY <2>1, <2>5
<1>11. Program!Name("XPTR") BY <1>10 DEF Program!Name, val
<1>12. QED BY <1>8, <1>10, <1>11 DEF Moves, Program!Next

LEMMA GENVARMoves ==
  ASSUME StorageAssumption, ~Stale, Inv, GENVAR
  PROVE Moves
<1>1. PICK t \in Strings :
        LET l == Located(m, t)
            n == 3 + Words[t]
        IN IF IsThere(l, t) THEN Step /\ Become(Found(l, t)) /\ Still ELSE Allocate(l, n, Entered(Provided(l, n), t))
  BY DEF GENVAR
<1> DEFINE l == Located(m, t)
           n == 3 + Words[t]
           s == Provided(l, n)
<1>2. Near(m) BY NearNow
<1>3. Near(l) /\ IF IsThere(l, t) THEN Present(l, t) ELSE Absent(l, t) BY <1>2, NearLocated, LocatedSound DEF Near
<1>4. IF IsThere(l, t) THEN Become(Found(l, t)) /\ Still ELSE Allocate(l, n, Entered(s, t)) BY <1>1
<1>5. n # 0 BY DEF StorageAssumption
<1> HIDE DEF l
<1>6. CASE IsThere(l, t) BY <1>3, <1>4, <1>6, FoundMoves DEF Still
<1>7. CASE ~IsThere(l, t)
  <2>1. Absent(s, t)
    <3>1. CASE n <= Room(l) BY <1>3, <1>7, <3>1 DEF Provided
    <3>2. CASE ~(n <= Room(l))
      <4>1. s = GC(l) BY <3>2 DEF Provided
      <4>2. Good(l) /\ Absent(l, t) BY <1>3, <1>7, NearIs
      <4>3. QED BY <4>1, <4>2, AbsentKept
    <3>3. QED BY <3>1, <3>2
  <2>2. ASSUME Fits(l, n, Entered(s, t)) PROVE Moves
    <3>1. Near(s) /\ n <= Room(s) /\ Become(Entered(s, t)) /\ full' = full /\ xocbsc' = xocbsc BY <2>2 DEF Fits
    <3> HIDE DEF s
    <3>2. QED BY <2>1, <3>1, EnteredMoves
  <2>3. Allocate(l, n, Entered(s, t)) BY <1>4, <1>7
  <2> HIDE DEF n
  <2>4. QED BY <1>3, <1>5, <2>2, <2>3, AllocateMoves
<1>8. QED BY <1>6, <1>7

LEMMA CONVARMoves ==
  ASSUME StorageAssumption, ~Stale, Inv, CONVAR
  PROVE Moves
<1>1. PICK t \in Strings : \E n \in Words[t]..Words[t] + 1 : Allocate(m, 3 + n, Loca1(Provided(m, 3 + n), t)) BY DEF CONVAR
<1>2. PICK n \in Words[t]..Words[t] + 1 : Allocate(m, 3 + n, Loca1(Provided(m, 3 + n), t)) BY <1>1
<1> DEFINE k == 3 + n
           s == Provided(m, k)
           l == Located(s, t)
<1>3. Near(m) BY NearNow
<1>4. ASSUME Fits(m, k, Loca1(s, t)) PROVE Moves
  <2>0. Near(s) /\ k <= Room(s) /\ Become(Loca1(s, t)) /\ full' = full /\ xocbsc' = xocbsc BY <1>4 DEF Fits
  <2>1. Near(l) /\ IF IsThere(l, t) THEN Present(l, t) ELSE Absent(l, t)
    <3> HIDE DEF s
    <3>1. QED BY <2>0, NearLocated, LocatedSound DEF Near
  <2>2. Room(l) = Room(s) /\ Room(l) \in Int
    <3>1. Good(s) BY <2>0, NearIs
    <3> HIDE DEF s
    <3>2. l.heap = s.heap BY <3>1, LocatedIs
    <3>3. FRSGPT(s.heap) \in Int /\ TLSGP1 \in Nat BY <3>1, LaidEnds DEF Good, StorageAssumption
    <3>4. QED BY <3>2, <3>3 DEF Room
  <2>3. 3 + Words[t] <= Room(l)
    <3>1. Words[t] \in Nat /\ n \in Int /\ Words[t] <= n BY DEF StorageAssumption
    <3> HIDE DEF s, l
    <3>2. QED BY <2>0, <2>2, <3>1
  <2>4. Loca1(s, t) = IF IsThere(l, t) THEN Found(l, t) ELSE Entered(l, t) BY DEF Loca1
  <2> HIDE DEF l, s
  <2>5. CASE IsThere(l, t) BY <2>0, <2>1, <2>4, <2>5, FoundMoves
  <2>6. CASE ~IsThere(l, t) BY <2>0, <2>1, <2>3, <2>4, <2>6, EnteredMoves
  <2>7. QED BY <2>5, <2>6
<1>5. Allocate(m, k, Loca1(s, t)) BY <1>2
<1>6. k # 0
  <2>1. Words[t] \in Nat BY DEF StorageAssumption
  <2>2. QED BY <2>1
<1> HIDE DEF k
<1>7. QED BY <1>3, <1>4, <1>5, <1>6, AllocateMoves

------------------------------------------------------------------------------
\* Registers that take the places of others.
Given(s, x, z) == IF z = "XOCBSC" THEN x.c ELSE s.reg[z]

LEMMA GivenMoves ==
  ASSUME StorageAssumption, Inv, NEW t, t.heap = heap, t.stack = stack, Become(t), full' = full,
         \A z \in Sighted : Given(t, xocbsc', z) = Zero \/ \E y \in Sighted : Given(t, xocbsc', z) = Given(m, xocbsc, y),
         NEW a, NEW b, \A z \in Sighted : z \in {a, b} \/ Given(t, xocbsc', z) = Given(m, xocbsc, z)
  PROVE Moves
<1>1. Looks(m) /\ m.heap = heap BY LooksNow, InvIs
<1>2. \A z \in Sighted : SeesRegs(t, xocbsc')[z] = RefOf(heap, Given(t, xocbsc', z)) BY DEF SeesRegs, Given
<1>3. \A z \in Sighted : SeenRegs[z] = RefOf(heap, Given(m, xocbsc, z)) BY <1>1 DEF Looks, SeesRegs, Given
<1>4. DOMAIN SeenRegs = Sighted BY DEF SeenRegs, Sighted
<1>5. RefOf(heap, Zero) = All!Zero BY DEF RefOf, In, Zero, All!Zero
<1>6. \A z \in Sighted : SeesRegs(t, xocbsc')[z] \in Range(SeenRegs) \cup {All!Zero}
  <2> TAKE z \in Sighted
  <2>1. CASE Given(t, xocbsc', z) = Zero BY <1>2, <1>5, <2>1
  <2>2. CASE Given(t, xocbsc', z) # Zero
    <3>1. PICK y \in Sighted : Given(t, xocbsc', z) = Given(m, xocbsc, y) BY <2>2
    <3>2. SeesRegs(t, xocbsc')[z] = SeenRegs[y] BY <1>2, <1>3, <3>1
    <3>3. QED BY <1>4, <3>2 DEF Range
  <2>3. QED BY <2>1, <2>2
<1>7. \A z \in Sighted : z \in {a, b} \/ SeesRegs(t, xocbsc')[z] = SeenRegs[z] BY <1>2, <1>3
<1>8. Program!Move BY <1>6, <1>7, MoveStep
<1>9. QED BY <1>8 DEF Moves, Program!Next

LEMMA SightedAre ==
  /\ Sighted = {"XPTR", "YPTR", "OCBSCL", "TBLBCS", "XOCBSC"} /\ Sighted \ {"XOCBSC"} \subseteq Regs
  /\ \A s, x, z : z # "XOCBSC" => Given(s, x, z) = s.reg[z]
  /\ \A s, x : Given(s, x, "XOCBSC") = x.c
BY DEF Sighted, Regs, Given

\* A register takes what another one holds.
LEMMA TakesMoves ==
  ASSUME StorageAssumption, Inv, NEW r \in Sighted \ {"XOCBSC"}, NEW y \in Sighted, NEW c, c = Given(m, xocbsc, y),
         Become([m EXCEPT !.reg[r] = c]), full' = full,
         xocbsc'.c = xocbsc.c \/ xocbsc'.c = Zero \/ xocbsc'.c = reg["OCBSCL"]
  PROVE Moves
<1> DEFINE t == [m EXCEPT !.reg[r] = c]
<1>1. r \in Regs /\ r # "XOCBSC" BY SightedAre
<1>2. t.heap = heap /\ t.stack = stack /\ t.reg = [reg EXCEPT ![r] = c] /\ m.reg = reg BY DEF m
<1> HIDE DEF t
<1>3. reg \in [Regs -> Cell] BY InvIs
<1>4. t.reg[r] = c /\ \A z \in Regs : z # r => t.reg[z] = reg[z] BY <1>1, <1>2, <1>3
<1>5. Given(t, xocbsc', r) = Given(m, xocbsc, y) BY <1>1, <1>4, SightedAre
<1>6. \A z \in Sighted \ {r, "XOCBSC"} : Given(t, xocbsc', z) = Given(m, xocbsc, z)
  <2> SUFFICES ASSUME NEW z \in Sighted, z # r, z # "XOCBSC" PROVE Given(t, xocbsc', z) = Given(m, xocbsc, z) OBVIOUS
  <2>1. z \in Regs BY SightedAre
  <2>2. t.reg[z] = m.reg[z] BY <1>2, <1>4, <2>1
  <2>3. QED BY <2>2 DEF Given
<1>7. Given(t, xocbsc', "XOCBSC") = Zero \/ \E z \in Sighted : Given(t, xocbsc', "XOCBSC") = Given(m, xocbsc, z)
  BY <1>2, SightedAre
<1>8. \A z \in Sighted : Given(t, xocbsc', z) = Zero \/ \E v \in Sighted : Given(t, xocbsc', z) = Given(m, xocbsc, v)
  BY <1>5, <1>6, <1>7
<1>9. \A z \in Sighted : z \in {r, "XOCBSC"} \/ Given(t, xocbsc', z) = Given(m, xocbsc, z) BY <1>6
<1>10. Become(t) BY DEF t
<1>11. QED BY <1>2, <1>8, <1>9, <1>10, GivenMoves

LEMMA PlaceMoves ==
  ASSUME StorageAssumption, Inv, Goto \/ Xithnd \/ Continue \/ Break
  PROVE Moves
<1>1. m.reg = reg BY DEF m
<1>2. Given(m, xocbsc, "XPTR") = reg["XPTR"] /\ Given(m, xocbsc, "YPTR") = reg["YPTR"] /\ Given(m, xocbsc, "XOCBSC") = xocbsc.c
  BY <1>1, SightedAre
<1>3. /\ "OCBSCL" \in Sighted \ {"XOCBSC"} /\ "TBLBCS" \in Sighted \ {"XOCBSC"}
      /\ "XPTR" \in Sighted /\ "YPTR" \in Sighted /\ "XOCBSC" \in Sighted
  BY SightedAre
<1>4. CASE Goto
  <2>1. Become([m EXCEPT !.reg["OCBSCL"] = reg["XPTR"]]) /\ full' = full /\ xocbsc' = xocbsc BY <1>4 DEF Goto, Do, Still
  <2>2. QED BY <1>2, <1>3, <2>1, TakesMoves
<1>5. CASE Xithnd
  <2>1. Become([m EXCEPT !.reg["OCBSCL"] = reg["YPTR"]]) /\ full' = full /\ xocbsc'.c = reg["OCBSCL"] BY <1>5 DEF Xithnd
  <2>2. QED BY <1>2, <1>3, <2>1, TakesMoves
<1>6. CASE Continue
  <2>1. Become([m EXCEPT !.reg["OCBSCL"] = xocbsc.c]) /\ full' = full /\ xocbsc' = [xocbsc EXCEPT !.c = Zero] BY <1>6 DEF Continue
  <2>2. xocbsc = [c |-> xocbsc.c, of |-> xocbsc.of] BY InvIs DEF Saved
  <2>3. xocbsc'.c = Zero BY <2>1, <2>2
  <2>4. QED BY <1>2, <1>3, <2>1, <2>3, TakesMoves
<1>7. CASE Break
  <2>1. Become([m EXCEPT !.reg["TBLBCS"] = reg["XPTR"]]) /\ full' = full /\ xocbsc' = xocbsc BY <1>7 DEF Break
  <2>2. QED BY <1>2, <1>3, <2>1, TakesMoves
<1>8. QED BY <1>4, <1>5, <1>6, <1>7

LEMMA ExchangeMoves ==
  ASSUME StorageAssumption, Inv, Exchange
  PROVE Moves
<1> DEFINE t == [m EXCEPT !.reg["XPTR"] = reg["YPTR"], !.reg["YPTR"] = reg["XPTR"]]
<1>1. t.heap = heap /\ t.stack = stack /\ t.reg = [reg EXCEPT !["XPTR"] = reg["YPTR"], !["YPTR"] = reg["XPTR"]]
  <2> DEFINE r == [reg EXCEPT !["XPTR"] = reg["YPTR"], !["YPTR"] = reg["XPTR"]]
             r1 == [reg EXCEPT !["XPTR"] = reg["YPTR"]]
             t1 == [m EXCEPT !.reg["XPTR"] = reg["YPTR"]]
  <2>1. t1 = [heap |-> heap, bins |-> bins, reg |-> r1, stack |-> stack] /\ t = [t1 EXCEPT !.reg["YPTR"] = reg["XPTR"]] BY DEF m
  <2>2. r = [r1 EXCEPT !["YPTR"] = reg["XPTR"]] OBVIOUS
  <2> HIDE DEF r1, t1, r
  <2>3. t = [heap |-> heap, bins |-> bins, reg |-> r, stack |-> stack] BY <2>1, <2>2
  <2>4. t.heap = heap /\ t.reg = r /\ t.stack = stack BY <2>3
  <2>5. QED BY <2>4 DEF r
<1>2. Become(t) /\ xocbsc' = xocbsc /\ full' = full BY DEF Exchange, Do, Still
<1> HIDE DEF t
<1>3. reg \in [Regs -> Cell] /\ m.reg = reg BY InvIs
<1>4. "XPTR" \in Regs /\ "YPTR" \in Regs BY RegsAre
<1>5. t.reg["XPTR"] = reg["YPTR"] /\ t.reg["YPTR"] = reg["XPTR"] /\ \A z \in Regs \ {"XPTR", "YPTR"} : t.reg[z] = reg[z]
  BY <1>1, <1>3, <1>4
<1>6. Given(t, xocbsc', "XPTR") = Given(m, xocbsc, "YPTR") /\ Given(t, xocbsc', "YPTR") = Given(m, xocbsc, "XPTR")
  BY <1>3, <1>5, SightedAre
<1>7. \A z \in Sighted \ {"XPTR", "YPTR"} : Given(t, xocbsc', z) = Given(m, xocbsc, z) BY <1>2, <1>3, <1>5, SightedAre
<1>8. "XPTR" \in Sighted /\ "YPTR" \in Sighted BY SightedAre
<1>9. \A z \in Sighted : Given(t, xocbsc', z) = Zero \/ \E y \in Sighted : Given(t, xocbsc', z) = Given(m, xocbsc, y)
  BY <1>6, <1>7, <1>8
<1>10. \A z \in Sighted : z \in {"XPTR", "YPTR"} \/ Given(t, xocbsc', z) = Given(m, xocbsc, z) BY <1>7
<1>11. QED BY <1>1, <1>2, <1>9, <1>10, GivenMoves

------------------------------------------------------------------------------
\* XPTR takes a value.
LEMMA XptrStep ==
  ASSUME StorageAssumption, Inv, NEW c, Do([m EXCEPT !.reg["XPTR"] = c]),
         All!Of(RefOf(heap, c)) => RefOf(heap, c).o \in Hold(m, xocbsc)
  PROVE /\ Program!Become(SeenObjs, [SeenRegs EXCEPT !["XPTR"] = RefOf(heap, c)], SeenStack)
        /\ SeenRegs' = [SeenRegs EXCEPT !["XPTR"] = RefOf(heap, c)] /\ "XPTR" \in DOMAIN SeenRegs
        /\ "XPTR" \in Program!Changed \cap Work \/ Moves
<1> DEFINE t == [m EXCEPT !.reg["XPTR"] = c]
<1>1. Near(m) /\ m.heap = heap /\ m.reg = reg BY NearNow, InvIs
<1>2. t.heap = m.heap /\ t.stack = m.stack /\ t.reg = [m.reg EXCEPT !["XPTR"] = c] BY DEF m
<1>3. Become(t) /\ full' = full /\ xocbsc' = xocbsc BY DEF Do, Still
<1> HIDE DEF t
<1>4. "XPTR" \in Work BY DEF Work
<1>5. "XPTR" \in DOMAIN SeenRegs BY DEF SeenRegs, Regs
<1>6. QED BY <1>1, <1>2, <1>3, <1>4, <1>5, OneStep

LEMMA GetDMoves ==
  ASSUME StorageAssumption, Inv, GetD
  PROVE Moves
<1>1. PICK i \in 1..2 : /\ In(reg["XPTR"]) /\ Off(reg["XPTR"]) + i \in DOMAIN heap[Obj(reg["XPTR"])].cells
                        /\ Do([m EXCEPT !.reg["XPTR"] = heap[Obj(reg["XPTR"])].cells[Off(reg["XPTR"]) + i]])
  BY DEF GetD
<1> DEFINE k == Obj(reg["XPTR"])
           j == Off(reg["XPTR"]) + i
           c == heap[k].cells[j]
           x == SeenRegs["XPTR"]
<1>2. "XPTR" \in Regs \ {"LSTPTR", "BUKPTR"} BY DEF Regs
<1>3. Near(m) /\ m.heap = heap /\ m.reg = reg BY NearNow, InvIs
<1>4. /\ k \in DOMAIN heap /\ x = [o |-> heap[k].id, i |-> Off(reg["XPTR"])] /\ All!Of(x)
      /\ heap[k].id \in Hold(m, xocbsc) /\ SeenObjs[heap[k].id] = ObjOf(heap, k)
  <2>1. Naming(m, "XPTR", k) /\ All!Of(x) BY <1>1, <1>2, <1>3, NearObject DEF Obj
  <2>2. QED BY <1>3, <2>1 DEF Naming, Off, Obj
<1>5. All!Of(RefOf(heap, c)) => RefOf(heap, c).o \in Hold(m, xocbsc) BY <1>1, <1>3, <1>4, NearNames
<1>6. Program!Cells("XPTR") = ObjOf(heap, k) /\ Program!Of(x) /\ x.i + i = j
  <2>1. Program!Of(x) BY <1>4 DEF Program!Of, All!Of
  <2>2. QED BY <1>4, <2>1 DEF Program!Cells
<1>7. i \in Program!Room("XPTR") /\ Program!Cells("XPTR")[x.i + i] = RefOf(heap, c)
  <2>1. j \in DOMAIN heap[k].cells BY <1>1
  <2>2. j \in DOMAIN ObjOf(heap, k) /\ ObjOf(heap, k)[j] = RefOf(heap, c) BY <2>1 DEF ObjOf
  <2> HIDE DEF j, c, k, x
  <2>3. QED BY <1>6, <2>2 DEF Program!Room, x
<1> HIDE DEF j, k
<1>8. Do([m EXCEPT !.reg["XPTR"] = c]) BY <1>1 DEF j, k
<1> HIDE DEF c
<1>9. /\ Program!Become(SeenObjs, [SeenRegs EXCEPT !["XPTR"] = RefOf(heap, c)], SeenStack)
      /\ "XPTR" \in Program!Changed \cap Work \/ Moves
  BY <1>5, <1>8, XptrStep
<1>10. Program!Load("XPTR") BY <1>7, <1>9 DEF Program!Load
<1>11. QED BY <1>9, <1>10 DEF Moves, Program!Next

LEMMA NumberMoves ==
  ASSUME StorageAssumption, Inv, Number
  PROVE Moves
<1>1. PICK n \in Numbers : Do([m EXCEPT !.reg["XPTR"] = Num(n)]) BY DEF Number
<1> DEFINE v == RefOf(heap, Num(n))
<1>2. ~All!Of(v) BY DEF RefOf, In, Num, All!Of
<1>3. /\ Program!Become(SeenObjs, [SeenRegs EXCEPT !["XPTR"] = v], SeenStack)
      /\ SeenRegs' = [SeenRegs EXCEPT !["XPTR"] = v] /\ "XPTR" \in DOMAIN SeenRegs
      /\ "XPTR" \in Program!Changed \cap Work \/ Moves
  BY <1>1, <1>2, XptrStep
<1> HIDE DEF v
<1>4. SeenRegs'["XPTR"] = v BY <1>3
<1>5. Program!Number("XPTR") BY <1>2, <1>3, <1>4 DEF Program!Number, Program!Of, All!Of
<1>6. QED BY <1>3, <1>5 DEF Moves, Program!Next

LEMMA SumMoves ==
  ASSUME StorageAssumption, Inv, Sum
  PROVE Moves
<1> DEFINE d == reg["XPTR"]
           k == Obj(d)
           c == [p |-> d.p, a |-> d.a + 1]
           x == SeenRegs["XPTR"]
<1>1. In(d) /\ Off(d) + 1 < Len(heap[k].cells) /\ Do([m EXCEPT !.reg["XPTR"].a = @ + 1]) BY DEF Sum
<1>2. Laid(heap) /\ CellsOf(heap) /\ heap \in Seq(BlockOf) /\ reg \in [Regs -> Cell] BY InvIs
<1>3. "XPTR" \in Regs \ {"LSTPTR", "BUKPTR"} BY DEF Regs
<1>4. Held(heap, d) BY <1>3, InvIs
<1>5. d \in Cell /\ d.a \in Int /\ d = [p |-> d.p, a |-> d.a] BY <1>4 DEF Held, Cell
<1>6. k \in DOMAIN heap /\ heap[k].a <= d.a BY <1>1, <1>2, <1>4, HeldIn DEF Obj
<1>7. heap[k] \in BlockOf /\ heap[k].a \in Int /\ Size(heap[k]) \in Nat BY <1>2, <1>6, LaidType
<1>8. Len(heap[k].cells) <= Size(heap[k]) /\ Len(heap[k].cells) \in Nat
  <2>1. Len(heap[k].cells) \in Nat BY <1>7 DEF BlockOf
  <2>2. CASE heap[k].id \in Strings
    <3>1. Words[heap[k].id] \in Nat BY <2>2 DEF StorageAssumption
    <3>2. Len(heap[k].cells) = 2 BY <1>2, <1>6, <2>2 DEF CellsOf
    <3>3. QED BY <2>2, <3>1, <3>2 DEF Size
  <2>3. CASE heap[k].id \notin Strings BY <2>1, <2>3 DEF Size
  <2>4. QED BY <2>1, <2>2, <2>3
<1>9. Off(d) = d.a - heap[k].a BY DEF Off
<1>10. [m EXCEPT !.reg["XPTR"].a = @ + 1] = [m EXCEPT !.reg["XPTR"] = c]
  <2>1. [d EXCEPT !.a = @ + 1] = c BY <1>5
  <2> HIDE DEF c
  <2>2. [m EXCEPT !.reg["XPTR"].a = @ + 1] = [m EXCEPT !.reg["XPTR"] = [d EXCEPT !.a = @ + 1]] BY <1>2, <1>3 DEF m
  <2>3. QED BY <2>1, <2>2
<1>11. In(c) /\ c.a = d.a + 1 BY <1>1, <1>5 DEF In, StorageAssumption
<1>12. Near(m) /\ m.heap = heap /\ m.reg = reg BY NearNow, InvIs
<1>13. x = [o |-> heap[k].id, i |-> Off(d)] /\ heap[k].id \in Hold(m, xocbsc) /\ All!Of(x)
  <2>1. Naming(m, "XPTR", k) /\ All!Of(x) BY <1>1, <1>3, <1>12, NearObject DEF Obj
  <2>2. QED BY <1>12, <2>1 DEF Naming, Off, Obj
<1> HIDE DEF c, k, d, x
<1>14. heap[k].a <= c.a /\ c.a < heap[k].a + Size(heap[k]) /\ c.a \in Int BY <1>1, <1>5, <1>6, <1>7, <1>8, <1>9, <1>11
<1>15. Top(heap, c.a) = k BY <1>2, <1>6, <1>14, TopIs
<1>16. RefOf(heap, c) = [o |-> heap[k].id, i |-> c.a - heap[k].a] BY <1>6, <1>11, <1>15 DEF RefOf
<1>17. c.a - heap[k].a = Off(d) + 1 BY <1>5, <1>7, <1>9, <1>11
<1>18. RefOf(heap, c) = [x EXCEPT !.i = @ + 1] BY <1>13, <1>16, <1>17
<1>19. RefOf(heap, c).o \in Hold(m, xocbsc) BY <1>13, <1>16
<1>20. Do([m EXCEPT !.reg["XPTR"] = c]) BY <1>1, <1>10
<1>21. /\ Program!Become(SeenObjs, [SeenRegs EXCEPT !["XPTR"] = RefOf(heap, c)], SeenStack)
       /\ "XPTR" \in DOMAIN SeenRegs
       /\ "XPTR" \in Program!Changed \cap Work \/ Moves
  BY <1>19, <1>20, XptrStep
<1>22. [SeenRegs EXCEPT !["XPTR"].i = @ + 1] = [SeenRegs EXCEPT !["XPTR"] = RefOf(heap, c)] BY <1>18, <1>21 DEF x
<1>23. Program!Inner("XPTR") BY <1>13, <1>21, <1>22 DEF Program!Inner, Program!Of, All!Of, x
<1>24. QED BY <1>21, <1>23 DEF Moves, Program!Next

------------------------------------------------------------------------------
\* The stack.
LEMMA SeqSeen ==
  ASSUME NEW h, NEW q \in Seq(Cell), NEW X, X = {RefOf(h, c) : c \in Cell},
         NEW g, g = [i \in DOMAIN q |-> RefOf(h, q[i])]
  PROVE g \in Seq(X) /\ Len(g) = Len(q) /\ DOMAIN g = DOMAIN q /\ \A i \in DOMAIN q : g[i] = RefOf(h, q[i])
<1>1. Len(q) \in Nat /\ DOMAIN q = 1..Len(q) OBVIOUS
<1>2. \A i \in DOMAIN q : q[i] \in Cell OBVIOUS
<1>3. g \in [1..Len(q) -> X] BY <1>1, <1>2
<1>4. DOMAIN g = DOMAIN q /\ \A i \in DOMAIN q : g[i] = RefOf(h, q[i]) OBVIOUS
<1>5. g \in Seq(X) /\ Len(g) = Len(q) BY <1>1, <1>3
<1>6. QED BY <1>4, <1>5

SeenIn(h, q) == [i \in DOMAIN q |-> RefOf(h, q[i])]

LEMMA AppendSeen ==
  ASSUME NEW h, NEW q \in Seq(Cell), NEW c \in Cell
  PROVE /\ SeenIn(h, Append(q, c)) = Append(SeenIn(h, q), RefOf(h, c))
        /\ Range(SeenIn(h, Append(q, c))) \subseteq Range(SeenIn(h, q)) \cup {RefOf(h, c)}
<1> DEFINE p == Append(q, c)
           f == [i \in DOMAIN q |-> RefOf(h, q[i])]
           g == [i \in DOMAIN p |-> RefOf(h, p[i])]
           X == {RefOf(h, d) : d \in Cell}
           v == RefOf(h, c)
           N == Len(q)
           a == Append(f, v)
<1>1. p \in Seq(Cell) /\ N \in Nat /\ Len(p) = N + 1 /\ p[N + 1] = c /\ \A i \in 1..N : p[i] = q[i] OBVIOUS
<1>2. f \in Seq(X) /\ Len(f) = N /\ DOMAIN f = DOMAIN q /\ \A i \in DOMAIN q : f[i] = RefOf(h, q[i]) BY SeqSeen
<1>3. g \in Seq(X) /\ Len(g) = Len(p) /\ \A i \in DOMAIN p : g[i] = RefOf(h, p[i]) BY <1>1, SeqSeen
<1>4. v \in X OBVIOUS
<1> HIDE DEF g, X, v
<1>5. a \in Seq(X) /\ Len(a) = N + 1 /\ a[N + 1] = v /\ \A i \in 1..N : a[i] = f[i] BY <1>1, <1>2, <1>4
<1>6. DOMAIN q = 1..N /\ DOMAIN p = 1..N + 1 BY <1>1
<1> HIDE DEF N, a
<1>7. \A i \in 1..N + 1 : i = N + 1 \/ i \in 1..N BY <1>1
<1>8. \A i \in 1..N + 1 : g[i] = a[i] BY <1>1, <1>2, <1>3, <1>5, <1>6, <1>7 DEF v
<1>9. g = a BY <1>1, <1>3, <1>5, <1>8, SameSeq
<1>10. Range(a) \subseteq Range(f) \cup {v}
  <2>1. DOMAIN a = 1..N + 1 /\ DOMAIN f = 1..N BY <1>1, <1>2, <1>5, <1>6
  <2>2. QED BY <1>5, <1>7, <2>1 DEF Range
<1>11. SeenIn(h, p) = g /\ SeenIn(h, q) = f BY DEF SeenIn, g
<1>12. QED BY <1>9, <1>10, <1>11 DEF a, v

LEMMA FrontSeen ==
  ASSUME NEW h, NEW q \in Seq(Cell), q # <<>>, NEW p, p = Front(q),
         NEW f, f = [i \in DOMAIN q |-> RefOf(h, q[i])]
  PROVE /\ [i \in DOMAIN p |-> RefOf(h, p[i])] = Program!Front(f) /\ RefOf(h, Last(q)) = Program!Last(f) /\ f # <<>>
        /\ Range(Program!Front(f)) \cup {Program!Last(f)} \subseteq Range(f)
<1> DEFINE g == [i \in DOMAIN p |-> RefOf(h, p[i])]
           X == {RefOf(h, d) : d \in Cell}
           N == Len(q)
           a == SubSeq(f, 1, N - 1)
<1>1. N \in Nat /\ N # 0 /\ DOMAIN q = 1..N OBVIOUS
<1>2. f \in Seq(X) /\ Len(f) = N /\ DOMAIN f = DOMAIN q /\ \A i \in DOMAIN q : f[i] = RefOf(h, q[i]) BY SeqSeen
<1>3. p = SubSeq(q, 1, N - 1) BY DEF Front
<1>4. p \in Seq(Cell) /\ Len(p) = N - 1 /\ \A i \in 1..N - 1 : p[i] = q[i] BY <1>1, <1>3
<1>5. g \in Seq(X) /\ Len(g) = Len(p) /\ \A i \in DOMAIN p : g[i] = RefOf(h, p[i]) BY <1>4, SeqSeen
<1> HIDE DEF g, X, N
<1>6. a \in Seq(X) /\ Len(a) = N - 1 /\ \A i \in 1..N - 1 : a[i] = f[i] BY <1>1, <1>2
<1>7. DOMAIN p = 1..N - 1 /\ DOMAIN a = 1..N - 1 /\ \A i \in 1..N - 1 : i \in 1..N BY <1>1, <1>4, <1>6
<1>8. Program!Front(f) = a /\ Program!Last(f) = f[N] BY <1>2 DEF Program!Front, Program!Last
<1>9. Last(q) = q[N] /\ N \in 1..N BY <1>1 DEF Last, N
<1> HIDE DEF a
<1>10. \A i \in 1..N - 1 : g[i] = a[i]
  <2> TAKE i \in 1..N - 1
  <2>1. i \in DOMAIN p /\ i \in DOMAIN q BY <1>1, <1>7
  <2>2. g[i] = RefOf(h, p[i]) /\ p[i] = q[i] BY <1>4, <1>5, <2>1
  <2>3. a[i] = f[i] /\ f[i] = RefOf(h, q[i]) BY <1>2, <1>6, <2>1
  <2>4. QED BY <2>2, <2>3
<1>11. g = a BY <1>1, <1>4, <1>5, <1>6, <1>10, SameSeq
<1>12. RefOf(h, Last(q)) = f[N] BY <1>1, <1>2, <1>9
<1>13. f # <<>> BY <1>1, <1>2
<1>14. Range(a) \cup {f[N]} \subseteq Range(f)
  <2>1. DOMAIN f = 1..N BY <1>1, <1>2
  <2>2. ASSUME NEW i \in DOMAIN a PROVE a[i] \in Range(f)
    <3>1. i \in 1..N - 1 /\ i \in 1..N BY <1>7, <2>2
    <3>2. a[i] = f[i] BY <1>6, <3>1
    <3>3. QED BY <2>1, <3>1, <3>2 DEF Range
  <2>3. f[N] \in Range(f) BY <1>9, <2>1 DEF Range
  <2>4. QED BY <2>2, <2>3 DEF Range
<1>15. QED BY <1>8, <1>11, <1>12, <1>13, <1>14 DEF g

\* What the program sees of no more cells than before is reached.
LEMMA SeenReached ==
  ASSUME StorageAssumption, NEW s, Near(s), NEW cs, cs \subseteq Range(SeenRegs) \cup Range(SeenStack)
  PROVE Refs(cs) \subseteq Hold(s, xocbsc)
<1>1. Good(s) /\ Looks(s) /\ Held(s.heap, xocbsc.c) BY NearIs
<1>2. cs \subseteq Sight(s, xocbsc) BY <1>1 DEF Looks, Sight
<1>3. Refs(Sight(s, xocbsc)) \subseteq Hold(s, xocbsc) BY <1>1, HoldIs DEF Closed
<1>4. QED BY <1>2, <1>3, RefsGrow

LEMMA PushMoves ==
  ASSUME StorageAssumption, Inv, Push
  PROVE Moves
<1> DEFINE t == [m EXCEPT !.stack = Append(@, reg["XPTR"])]
           v == SeenRegs["XPTR"]
<1>1. t.heap = heap /\ t.stack = Append(stack, reg["XPTR"]) /\ t.reg = reg BY DEF m
<1>2. Become(t) /\ xocbsc' = xocbsc /\ full' = full BY DEF Push, Do, Still
<1> HIDE DEF t
<1>3. Near(m) /\ Good(m) /\ Looks(m) /\ Held(m.heap, xocbsc.c) /\ m.heap = heap /\ m.reg = reg /\ m.stack = stack
  BY NearNow, NearIs, InvIs
<1>4. "XPTR" \in Regs \ {"LSTPTR", "BUKPTR"} /\ "XPTR" \in Work BY DEF Regs, Work
<1>5. stack \in Seq(Cell) /\ reg["XPTR"] \in Cell BY <1>4, InvIs
<1>6. v = RefOf(heap, reg["XPTR"]) BY <1>3, <1>4, NearObject
<1>7. SeesRegs(t, xocbsc') = SeenRegs BY <1>1, <1>2, <1>3 DEF Looks, SeesRegs
<1>8. SeenStack = [i \in DOMAIN stack |-> RefOf(heap, stack[i])] BY <1>3 DEF Looks, SeesStack
<1>9. v \in Range(SeenRegs)
  <2>1. "XPTR" \in DOMAIN SeenRegs BY DEF SeenRegs, Regs
  <2>2. QED BY <2>1 DEF Range
<1>10. /\ SeesStack(t) = Append(SeenStack, v)
       /\ Range(Append(SeenStack, v)) \subseteq Range(SeenStack) \cup {v}
  <2> DEFINE c == reg["XPTR"]
             p == t.stack
             f == SeenStack
  <2>1. stack \in Seq(Cell) /\ c \in Cell /\ p = Append(stack, c) /\ f = [i \in DOMAIN stack |-> RefOf(heap, stack[i])] /\ v = RefOf(heap, c)
    BY <1>1, <1>5, <1>6, <1>8
  <2>2. SeesStack(t) = SeenIn(heap, Append(stack, c)) /\ f = SeenIn(heap, stack) BY <1>1, <1>8 DEF SeesStack, SeenIn
  <2> HIDE DEF c, p, f, v
  <2>3. /\ SeenIn(heap, Append(stack, c)) = Append(SeenIn(heap, stack), RefOf(heap, c))
        /\ Range(SeenIn(heap, Append(stack, c))) \subseteq Range(SeenIn(heap, stack)) \cup {RefOf(heap, c)}
    BY <2>1, AppendSeen
  <2>4. SeesStack(t) = Append(f, v) /\ Range(Append(f, v)) \subseteq Range(f) \cup {v} BY <2>1, <2>2, <2>3
  <2>5. QED BY <2>4 DEF f
<1> HIDE DEF v
<1>11. Sight(t, xocbsc') \subseteq Range(SeenRegs) \cup Range(SeenStack) BY <1>7, <1>9, <1>10 DEF Sight
<1>12. Refs(Sight(t, xocbsc')) \subseteq Hold(m, xocbsc) BY <1>3, <1>11, SeenReached
<1>13. Program!Become(SeenObjs, SeesRegs(t, xocbsc'), SeesStack(t)) BY <1>1, <1>2, <1>3, <1>12, SameHeapStep
<1>14. Program!Push("XPTR") BY <1>7, <1>10, <1>13 DEF Program!Push, v
<1>15. Program!Changed = {} BY <1>7, <1>13 DEF Program!Changed, Program!Become
<1>16. QED BY <1>4, <1>14, <1>15 DEF Moves, Program!Next

LEMMA PopMoves ==
  ASSUME StorageAssumption, Inv, Pop
  PROVE Moves
<1> DEFINE t == [m EXCEPT !.stack = Front(@), !.reg["XPTR"] = Last(stack)]
           v == Program!Last(SeenStack)
<1>1. t.heap = heap /\ t.stack = Front(stack) /\ t.reg = [reg EXCEPT !["XPTR"] = Last(stack)]
  <2> DEFINE r == [reg EXCEPT !["XPTR"] = Last(stack)]
             f == Front(stack)
             t1 == [m EXCEPT !.stack = Front(@)]
  <2>0. t1 = [heap |-> heap, bins |-> bins, reg |-> reg, stack |-> f] /\ t = [t1 EXCEPT !.reg["XPTR"] = Last(stack)] BY DEF m
  <2> HIDE DEF f, t1
  <2>1. t = [heap |-> heap, bins |-> bins, reg |-> r, stack |-> f] BY <2>0
  <2> HIDE DEF r
  <2>2. t.heap = heap /\ t.reg = r /\ t.stack = f BY <2>1
  <2>3. QED BY <2>2 DEF r, f
<1>2. Become(t) /\ xocbsc' = xocbsc /\ full' = full /\ stack # <<>> BY DEF Pop, Do, Still
<1> HIDE DEF t
<1>3. Near(m) /\ Good(m) /\ Looks(m) /\ Held(m.heap, xocbsc.c) /\ m.heap = heap /\ m.reg = reg /\ m.stack = stack
  BY NearNow, NearIs, InvIs
<1>4. "XPTR" \in Work BY DEF Work
<1>5. stack \in Seq(Cell) BY InvIs
<1>6. SeenStack = [i \in DOMAIN stack |-> RefOf(heap, stack[i])] BY <1>3 DEF Looks, SeesStack
<1>7. /\ SeesStack(t) = Program!Front(SeenStack) /\ RefOf(heap, Last(stack)) = v /\ SeenStack # <<>>
      /\ Range(Program!Front(SeenStack)) \cup {v} \subseteq Range(SeenStack)
  <2>1. /\ [i \in DOMAIN t.stack |-> RefOf(heap, t.stack[i])] = Program!Front(SeenStack)
        /\ RefOf(heap, Last(stack)) = v /\ SeenStack # <<>>
        /\ Range(Program!Front(SeenStack)) \cup {v} \subseteq Range(SeenStack)
    BY <1>1, <1>2, <1>5, <1>6, FrontSeen
  <2>2. QED BY <1>1, <2>1 DEF SeesStack
<1>8. SeesRegs(t, xocbsc') = [SeenRegs EXCEPT !["XPTR"] = v] /\ DOMAIN SeenRegs = Sighted /\ "XPTR" \in Sighted
  <2> DEFINE c == Last(stack)
  <2>1. t.heap = m.heap /\ t.reg = [m.reg EXCEPT !["XPTR"] = c] /\ Near(m) /\ xocbsc' = xocbsc BY <1>1, <1>2, <1>3
  <2>2. RefOf(m.heap, c) = v BY <1>3, <1>7
  <2> HIDE DEF c, v
  <2>3. SeesRegs(t, xocbsc') = [SeenRegs EXCEPT !["XPTR"] = RefOf(m.heap, c)] /\ DOMAIN SeenRegs = Sighted /\ "XPTR" \in Sighted
    BY <1>4, <2>1, OneSeen
  <2>4. QED BY <2>2, <2>3
<1> HIDE DEF v
<1>9. Sight(t, xocbsc') \subseteq Range(SeenRegs) \cup Range(SeenStack)
  <2>1. ASSUME NEW d \in Range(SeesRegs(t, xocbsc')) PROVE d \in Range(SeenRegs) \cup {v}
    <3>1. PICK z \in Sighted : d = [SeenRegs EXCEPT !["XPTR"] = v][z] BY <1>8, <2>1 DEF Range
    <3>2. CASE z = "XPTR" BY <1>8, <3>1, <3>2
    <3>3. CASE z # "XPTR"
      <4>1. d = SeenRegs[z] BY <1>8, <3>1, <3>3
      <4>2. QED BY <1>8, <4>1 DEF Range
    <3>4. QED BY <3>2, <3>3
  <2>2. QED BY <1>7, <2>1 DEF Sight
<1>10. Refs(Sight(t, xocbsc')) \subseteq Hold(m, xocbsc) BY <1>3, <1>9, SeenReached
<1>11. Program!Become(SeenObjs, SeesRegs(t, xocbsc'), SeesStack(t)) BY <1>1, <1>2, <1>3, <1>10, SameHeapStep
<1>12. Program!Pop("XPTR") BY <1>7, <1>8, <1>11 DEF Program!Pop, v
<1>13. SeenRegs' = [SeenRegs EXCEPT !["XPTR"] = v] BY <1>8, <1>11 DEF Program!Become
<1>14. CASE v = SeenRegs["XPTR"]
  <2>1. \A z \in DOMAIN SeenRegs : SeenRegs'[z] = SeenRegs[z] BY <1>8, <1>13, <1>14
  <2>2. Program!Changed = {} BY <2>1 DEF Program!Changed
  <2>3. QED BY <1>4, <1>12, <2>2 DEF Moves, Program!Next
<1>15. CASE v # SeenRegs["XPTR"]
  <2>1. SeenRegs'["XPTR"] = v BY <1>8, <1>13
  <2>2. "XPTR" \in Program!Changed BY <1>8, <1>15, <2>1 DEF Program!Changed
  <2>3. QED BY <1>4, <1>12, <2>2 DEF Moves, Program!Next
<1>16. QED BY <1>14, <1>15

LEMMA COLECTMoves ==
  ASSUME StorageAssumption, ~Stale, Inv, COLECT
  PROVE Moves
<1> DEFINE t == GC(m)
<1>1. Become(t) /\ xocbsc' = xocbsc /\ full' = full /\ ~xocbsc.c.p BY DEF COLECT, Still
<1>2. Near(t) BY <1>1, NearNow, NearGC
<1> HIDE DEF t
<1>3. SeenObjs' = SeenObjs /\ SeenRegs' = SeenRegs /\ SeenStack' = SeenStack BY <1>1, <1>2, SameSeen
<1>4. QED BY <1>1, <1>3 DEF Moves, Program!vars

------------------------------------------------------------------------------
\* The object o has other cells, and blocks there were not before are not strings.
Replaced(t, o, new) ==
  /\ IdsOf(t.heap) /\ t.heap \in Seq(BlockOf) /\ SeesRegs(t, xocbsc) = SeenRegs /\ SeesStack(t) = SeenStack
  /\ o \in Hold(m, xocbsc) /\ o \in IdOf(t.heap) /\ ObjsOf(t.heap)[o] = new
  /\ \A p \in IdOf(heap) \ {o} : p \in IdOf(t.heap) /\ ObjsOf(t.heap)[p] = ObjsOf(heap)[p]
  /\ \A p \in IdOf(t.heap) \ IdOf(heap) : p \notin Strings
  /\ \A d \in Range(new) : All!Of(d) => d.o \in Hold(m, xocbsc)

LEMMA ReplacedStep ==
  ASSUME StorageAssumption, Inv, NEW t, NEW o, NEW new, Replaced(t, o, new), Become(t), full' = full, xocbsc' = xocbsc
  PROVE Program!Become([SeenObjs EXCEPT ![o] = new], SeenRegs, SeenStack) /\ Program!Changed = {}
<1> DEFINE f == ObjsOf(heap)
           g == ObjsOf(t.heap)
           H == Hold(m, xocbsc)
           cs == Sight(t, xocbsc')
           os == [SeenObjs EXCEPT ![o] = new]
<1>1. Good(m) /\ Looks(m) /\ Held(heap, xocbsc.c) /\ m.heap = heap /\ IdsOf(heap) /\ heap \in Seq(BlockOf) BY LooksNow, InvIs
<1>2. Closed(f, Sight(m, xocbsc), H) /\ H \subseteq IdOf(heap) /\ Objs(m, xocbsc) = [p \in H |-> f[p]]
  BY <1>1, HoldIs
<1>3. SeenObjs = [p \in H |-> f[p]] BY <1>1, <1>2 DEF Looks
<1>4. SeesRegs(t, xocbsc') = SeenRegs /\ SeesStack(t) = SeenStack BY DEF Replaced
<1>5. cs = Sight(m, xocbsc) BY <1>1, <1>4 DEF Sight, Looks
<1>6. IdsOf(t.heap) /\ t.heap \in Seq(BlockOf) BY DEF Replaced
<1>7. DOMAIN f = IdOf(heap) /\ DOMAIN g = IdOf(t.heap) BY <1>1, <1>6, ObjsIs
<1>8. /\ o \in H /\ o \in IdOf(t.heap) /\ g[o] = new
      /\ (\A p \in IdOf(heap) \ {o} : p \in IdOf(t.heap) /\ g[p] = f[p])
      /\ (\A p \in IdOf(t.heap) \ IdOf(heap) : p \notin Strings)
      /\ \A d \in Range(new) : All!Of(d) => d.o \in H
  BY DEF Replaced
<1> HIDE DEF f, g, H, cs
<1>9. os = [p \in H |-> g[p]]
  <2>1. os = [p \in H |-> IF p = o THEN new ELSE f[p]] BY <1>3, <1>8
  <2>2. \A p \in H : (IF p = o THEN new ELSE f[p]) = g[p] BY <1>2, <1>8
  <2> HIDE DEF os
  <2>3. QED BY <2>1, <2>2
<1>10. H \subseteq IdOf(t.heap) BY <1>2, <1>8
<1>11. Closed(g, cs, H)
  <2>1. Refs(cs) \subseteq H BY <1>2, <1>5 DEF Closed
  <2>2. Full(g) \subseteq H
    <3> SUFFICES ASSUME NEW p \in Full(g), p # o PROVE p \in H BY <1>8
    <3>1. p \in Strings /\ p \in IdOf(t.heap) /\ Range(g[p]) # {All!Zero} BY <1>7 DEF Full
    <3>2. p \in IdOf(heap) BY <1>8, <3>1
    <3>3. g[p] = f[p] BY <1>8, <3>2
    <3>4. p \in Full(f) BY <1>7, <3>1, <3>2, <3>3 DEF Full
    <3>5. QED BY <1>2, <3>4 DEF Closed
  <2>3. Named(g, H) \subseteq H
    <3> SUFFICES ASSUME NEW p \in H, NEW d \in Range(g[p]), All!Of(d) PROVE d.o \in H BY DEF Named, Refs
    <3>1. CASE p = o BY <1>8, <3>1
    <3>2. CASE p # o
      <4>1. p \in DOMAIN f /\ d \in Range(f[p]) BY <1>2, <1>7, <1>8, <3>2
      <4>2. d.o \in Named(f, H) BY <4>1 DEF Named, Refs
      <4>3. QED BY <1>2, <4>2 DEF Closed
    <3>3. QED BY <3>1, <3>2
  <2>4. QED BY <2>1, <2>2, <2>3 DEF Closed
<1>12. Covers(t.heap, Sight(t, xocbsc'), os, H)
  <2> HIDE DEF os
  <2>1. os = [p \in H |-> ObjsOf(t.heap)[p]] BY <1>9 DEF g
  <2>2. Closed(ObjsOf(t.heap), Sight(t, xocbsc'), H) BY <1>11 DEF g, cs
  <2>3. H \cap IdOf(t.heap) \subseteq H OBVIOUS
  <2>4. QED BY <1>10, <2>1, <2>2, <2>3 DEF Covers
<1> HIDE DEF os
<1>13. Program!Become(os, SeesRegs(t, xocbsc'), SeesStack(t)) BY <1>6, <1>12, Becoming
<1>14. Program!Become(os, SeenRegs, SeenStack) BY <1>4, <1>13
<1>15. Program!Changed = {} BY <1>14 DEF Program!Changed, Program!Become
<1>16. QED BY <1>14, <1>15 DEF os

\* A cell is written, or two.
Written(l, i, j, cells, t) ==
  /\ l \in DOMAIN heap /\ cells \in Seq(Cell) /\ i \in DOMAIN cells /\ j \in DOMAIN cells /\ Len(cells) = Len(heap[l].cells)
  /\ \A n \in DOMAIN cells : cells[n] = IF n \in {i, j} THEN reg["XPTR"] ELSE heap[l].cells[n]
  /\ t.heap = [heap EXCEPT ![l].cells = cells] /\ t.reg = reg /\ t.stack = stack

LEMMA WriteMoves ==
  ASSUME StorageAssumption, Inv, In(reg["YPTR"]), NEW l, l = Top(heap, reg["YPTR"].a),
         NEW i, NEW j, NEW cells, NEW t, Written(l, i, j, cells, t), Become(t), full' = full, xocbsc' = xocbsc
  PROVE Moves
<1> DEFINE h == heap
           g == t.heap
           old == heap[l].cells
           o == heap[l].id
           x == SeenRegs["XPTR"]
           new == ObjOf(g, l)
<1>1. /\ l \in DOMAIN h /\ cells \in Seq(Cell) /\ i \in DOMAIN cells /\ j \in DOMAIN cells /\ Len(cells) = Len(old)
      /\ (\A n \in DOMAIN cells : cells[n] = IF n \in {i, j} THEN reg["XPTR"] ELSE old[n])
      /\ g = [h EXCEPT ![l].cells = cells] /\ t.reg = reg /\ t.stack = stack
  BY DEF Written
<1>2. Near(m) /\ Looks(m) /\ m.heap = h /\ m.reg = reg /\ m.stack = stack BY NearNow, NearIs, InvIs
<1>3. Laid(h) /\ h \in Seq(BlockOf) /\ IdsOf(h) BY InvIs
<1>4. h[l] \in BlockOf /\ old \in Seq(Cell) /\ DOMAIN cells = DOMAIN old
  <2>1. h[l] \in BlockOf BY <1>1, <1>3, LaidType
  <2>2. old \in Seq(Cell) BY <2>1 DEF BlockOf
  <2> HIDE DEF old
  <2>3. DOMAIN cells = DOMAIN old BY <1>1, <2>2
  <2>4. QED BY <2>1, <2>2, <2>3
<1> DEFINE d == [h[l] EXCEPT !.cells = cells]
<1>5. d \in BlockOf /\ d.cells = cells /\ d.a = h[l].a /\ d.id = o BY <1>1, <1>4 DEF BlockOf
<1>6. g = [h EXCEPT ![l] = d] BY <1>1
<1> HIDE DEF d, g, old, h
<1>7. g \in Seq(BlockOf) /\ Len(g) = Len(h) /\ DOMAIN g = DOMAIN h BY <1>1, <1>3, <1>5, <1>6
<1>8. \A k \in DOMAIN h : IF k = l THEN g[k] = d ELSE g[k] = h[k] BY <1>6
<1>9. \A k \in DOMAIN h : g[k].a = h[k].a /\ g[k].id = h[k].id /\ DOMAIN g[k].cells = DOMAIN h[k].cells
  BY <1>4, <1>5, <1>8 DEF h, old
<1>10. Alike(h, g) BY <1>1, <1>5, <1>7, <1>8 DEF Alike, h, old
<1>11. \A a : Top(g, a) = Top(h, a) BY <1>3, <1>10, AlikeLaid
<1>12. \A c : RefOf(g, c) = RefOf(h, c) BY <1>7, <1>9, <1>11 DEF RefOf
<1>13. IdsOf(g) BY <1>3, <1>7, <1>9 DEF IdsOf
<1>14. IdOf(g) = IdOf(h) BY <1>7, <1>9 DEF IdOf
<1>15. /\ \A k \in DOMAIN h : h[k].id \in IdOf(h) /\ ObjsOf(h)[h[k].id] = ObjOf(h, k)
       /\ \A k \in DOMAIN g : g[k].id \in IdOf(g) /\ ObjsOf(g)[g[k].id] = ObjOf(g, k)
  BY <1>3, <1>7, <1>13, ObjsIs
<1>16. \A k \in DOMAIN h : k # l => ObjOf(g, k) = ObjOf(h, k) BY <1>8, <1>12 DEF ObjOf
<1>17. "XPTR" \in Regs \ {"LSTPTR", "BUKPTR"} /\ "YPTR" \in Regs \ {"LSTPTR", "BUKPTR"} BY DEF Regs
<1>18. x = RefOf(h, reg["XPTR"]) /\ x \in Range(SeenRegs)
  <2>1. "XPTR" \in DOMAIN SeenRegs BY DEF SeenRegs, Regs
  <2>2. QED BY <1>2, <1>17, <2>1, NearObject DEF Range
<1>19. /\ SeenRegs["YPTR"].o = o /\ o \in Hold(m, xocbsc) /\ SeenObjs[o] = ObjOf(h, l) /\ All!Of(SeenRegs["YPTR"])
  <2>1. Naming(m, "YPTR", l) /\ All!Of(SeenRegs["YPTR"])
    <3>1. In(m.reg["YPTR"]) /\ l = Top(m.heap, m.reg["YPTR"].a) BY <1>2 DEF h
    <3>2. QED BY <1>2, <1>17, <3>1, NearObject
  <2>2. QED BY <1>2, <2>1 DEF Naming, h
<1>20. new = [k \in DOMAIN ObjOf(h, l) |-> IF k \in {i, j} THEN x ELSE ObjOf(h, l)[k]]
  <2>1. g[l].cells = cells BY <1>1, <1>5, <1>8
  <2>2. new = [k \in DOMAIN cells |-> RefOf(h, cells[k])] BY <1>12, <2>1 DEF ObjOf
  <2>3. DOMAIN ObjOf(h, l) = DOMAIN cells /\ \A k \in DOMAIN cells : ObjOf(h, l)[k] = RefOf(h, old[k])
    BY <1>4 DEF ObjOf, old, h
  <2> HIDE DEF x, new
  <2>4. \A k \in DOMAIN cells : RefOf(h, cells[k]) = IF k \in {i, j} THEN x ELSE ObjOf(h, l)[k] BY <1>1, <1>18, <2>3
  <2>5. QED BY <2>2, <2>3, <2>4
<1>21. i \in DOMAIN ObjOf(h, l) /\ j \in DOMAIN ObjOf(h, l) BY <1>1, <1>4 DEF ObjOf, old, h
<1>22. \A c \in Range(new) : All!Of(c) => c.o \in Hold(m, xocbsc)
  <2> SUFFICES ASSUME NEW k \in DOMAIN ObjOf(h, l), NEW c, c = IF k \in {i, j} THEN x ELSE ObjOf(h, l)[k], All!Of(c)
               PROVE c.o \in Hold(m, xocbsc)
    BY <1>20 DEF Range
  <2>1. CASE c = x
    <3>1. {x} \subseteq Range(SeenRegs) \cup Range(SeenStack) BY <1>18
    <3>2. Refs({x}) \subseteq Hold(m, xocbsc) BY <1>2, <3>1, SeenReached
    <3>3. QED BY <2>1, <3>2 DEF Refs
  <2>2. CASE c = ObjOf(h, l)[k]
    <3>1. k \in DOMAIN m.heap[l].cells /\ c = RefOf(m.heap, m.heap[l].cells[k]) BY <1>2, <2>2 DEF ObjOf
    <3>2. l \in DOMAIN m.heap /\ m.heap[l].id \in Hold(m, xocbsc) BY <1>1, <1>2, <1>19 DEF h
    <3>3. QED BY <1>2, <3>1, <3>2, NearNames
  <2>3. QED BY <2>1, <2>2
<1>23. SeesRegs(t, xocbsc) = SeenRegs /\ SeesStack(t) = SeenStack
  <2>1. \A c : RefOf(t.heap, c) = RefOf(m.heap, c) BY <1>2, <1>12 DEF g
  <2>2. QED BY <1>1, <1>2, <2>1 DEF Looks, SeesRegs, SeesStack
<1>24. Replaced(t, o, new)
  <2>1. o = h[l].id /\ o = g[l].id BY <1>1, <1>9 DEF h
  <2>2. o \in IdOf(g) /\ ObjsOf(g)[o] = new BY <1>1, <1>7, <1>15, <2>1
  <2>3. \A p \in IdOf(h) \ {o} : ObjsOf(g)[p] = ObjsOf(h)[p]
    <3> TAKE p \in IdOf(h) \ {o}
    <3>1. PICK k \in DOMAIN h : p = h[k].id BY DEF IdOf
    <3>2. k # l /\ p = g[k].id /\ k \in DOMAIN g BY <1>7, <1>9, <2>1, <3>1
    <3>3. QED BY <1>15, <1>16, <3>1, <3>2
  <2> HIDE DEF new, o
  <2>4. QED BY <1>7, <1>13, <1>14, <1>19, <1>22, <1>23, <2>2, <2>3 DEF Replaced, g, h
<1> HIDE DEF new, o, x
<1>25. Program!Become([SeenObjs EXCEPT ![o] = new], SeenRegs, SeenStack) /\ Program!Changed = {} BY <1>24, ReplacedStep
<1>26. Program!Of(SeenRegs["YPTR"]) BY <1>19 DEF Program!Of, All!Of
<1>27. Program!Cells("YPTR") = SeenObjs[o] BY <1>19, <1>26 DEF Program!Cells
<1>28. [SeenObjs EXCEPT ![o] = new] = [SeenObjs EXCEPT ![o] = [k \in DOMAIN @ |-> IF k \in {i, j} THEN x ELSE @[k]]]
  BY <1>19, <1>20
<1>29. Program!Store("XPTR", "YPTR")
  <2> DEFINE y == SeenRegs["YPTR"]
             A == [SeenObjs EXCEPT ![o] = new]
             B == [SeenObjs EXCEPT ![y.o] = [k \in DOMAIN @ |-> IF k \in {i, j} THEN SeenRegs["XPTR"] ELSE @[k]]]
  <2>1. A = B BY <1>19, <1>28 DEF x
  <2>2. Program!Become(A, SeenRegs, SeenStack) BY <1>25
  <2>3. i \in DOMAIN Program!Cells("YPTR") /\ j \in DOMAIN Program!Cells("YPTR") BY <1>19, <1>21, <1>27
  <2> HIDE DEF A, B
  <2>4. Program!Become(B, SeenRegs, SeenStack) BY <2>1, <2>2
  <2>5. QED BY <1>26, <2>3, <2>4 DEF Program!Store, B
<1>30. "XPTR" \in Work /\ "YPTR" \in Work BY DEF Work
<1>31. QED BY <1>25, <1>29, <1>30 DEF Moves, Program!Next

LEMMA PutDMoves ==
  ASSUME StorageAssumption, Inv, PutD
  PROVE Moves
<1>1. PICK i \in 1..2 :
        /\ In(reg["YPTR"]) /\ Off(reg["YPTR"]) + i \in DOMAIN heap[Obj(reg["YPTR"])].cells
        /\ Do([m EXCEPT !.heap[Obj(reg["YPTR"])].cells[Off(reg["YPTR"]) + i] = reg["XPTR"]])
  BY DEF PutD
<1> DEFINE k == Obj(reg["YPTR"])
           j == Off(reg["YPTR"]) + i
           c == reg["XPTR"]
           old == heap[k].cells
           cells == [old EXCEPT ![j] = c]
           t == [m EXCEPT !.heap[k].cells[j] = c]
<1>2. "XPTR" \in Regs /\ "YPTR" \in Regs BY RegsAre
<1>3. Laid(heap) /\ CellsOf(heap) /\ heap \in Seq(BlockOf) BY InvIs
<1>4. Held(heap, reg["YPTR"]) /\ Held(heap, c) /\ c \in Cell BY <1>2, InvIs DEF Held
<1>5. k \in DOMAIN heap BY <1>1, <1>3, <1>4, HeldIn DEF Obj
<1>6. t.heap = [heap EXCEPT ![k].cells[j] = c] /\ t.reg = reg /\ t.stack = stack BY DEF m
<1>7. Become(t) /\ xocbsc' = xocbsc /\ full' = full BY <1>1 DEF Do, Still
<1>8. j \in DOMAIN old /\ In(reg["YPTR"]) /\ k = Top(heap, reg["YPTR"].a) BY <1>1 DEF Obj
<1> HIDE DEF t, k, j, c
<1>9. t.heap = [heap EXCEPT ![k].cells = cells] BY <1>6
<1>10. old \in Seq(Cell)
  <2>1. heap[k] \in BlockOf BY <1>3, <1>5
  <2>2. QED BY <2>1 DEF BlockOf
<1> HIDE DEF old
<1>11. cells \in Seq(Cell) /\ Len(cells) = Len(old) /\ DOMAIN cells = DOMAIN old
  <2>1. Len(old) \in Nat /\ old \in [1..Len(old) -> Cell] /\ DOMAIN old = 1..Len(old) BY <1>10
  <2>2. cells \in [1..Len(old) -> Cell] BY <1>4, <2>1
  <2>3. QED BY <2>1, <2>2
<1>12. \A n \in DOMAIN cells : cells[n] = IF n \in {j, j} THEN c ELSE old[n] BY <1>8, <1>11
<1> HIDE DEF cells
<1>13. Written(k, j, j, cells, t) BY <1>5, <1>6, <1>8, <1>9, <1>11, <1>12 DEF Written, old, c
<1>14. QED BY <1>7, <1>8, <1>13, WriteMoves

\* A pair of cells.
LEMMA PairMoves ==
  ASSUME StorageAssumption, Inv, In(reg["YPTR"]), NEW l \in DOMAIN heap, l = Top(heap, reg["YPTR"].a),
         NEW i \in DOMAIN heap[l].cells, i + 1 \in DOMAIN heap[l].cells,
         NEW c, c = reg["XPTR"], xocbsc' = xocbsc, full' = full,
         Become([m EXCEPT !.heap[l].cells[i] = c, !.heap[l].cells[i + 1] = c])
  PROVE Moves
<1> DEFINE old == heap[l].cells
           cells == [old EXCEPT ![i] = c, ![i + 1] = c]
           t == [m EXCEPT !.heap[l].cells[i] = c, !.heap[l].cells[i + 1] = c]
<1>1. Laid(heap) /\ CellsOf(heap) /\ heap \in Seq(BlockOf) BY InvIs
<1>2. c \in Cell BY RegsAre, InvIs DEF Held
<1>3. t.reg = reg /\ t.stack = stack /\ Become(t)
  <2> DEFINE h1 == [heap EXCEPT ![l].cells[i] = c]
             t1 == [m EXCEPT !.heap[l].cells[i] = c]
             h == [h1 EXCEPT ![l].cells[i + 1] = c]
  <2>1. t1 = [heap |-> h1, bins |-> bins, reg |-> reg, stack |-> stack] BY DEF m
  <2>2. t = [t1 EXCEPT !.heap[l].cells[i + 1] = c] OBVIOUS
  <2> HIDE DEF h1, t1
  <2>3. t = [heap |-> h, bins |-> bins, reg |-> reg, stack |-> stack] BY <2>1, <2>2
  <2> HIDE DEF h, t
  <2>4. t.reg = reg /\ t.stack = stack BY <2>3
  <2>5. Become(t) BY DEF t
  <2>6. QED BY <2>4, <2>5
<1>4. t.heap = [heap EXCEPT ![l].cells = cells]
  <2>1. t.heap = [heap EXCEPT ![l].cells[i] = c, ![l].cells[i + 1] = c] BY DEF m
  <2>2. heap[l] \in BlockOf /\ DOMAIN heap = 1..Len(heap) BY <1>1
  <2> DEFINE b == heap[l]
             b1 == [b EXCEPT !.cells = [old EXCEPT ![i] = c]]
             b2 == [b1 EXCEPT !.cells = [b1.cells EXCEPT ![i + 1] = c]]
  <2>3. b1.cells = [old EXCEPT ![i] = c] BY <2>2 DEF BlockOf
  <2>4. b2 = [b EXCEPT !.cells = cells] BY <2>2, <2>3 DEF BlockOf
  <2> DEFINE h1 == [heap EXCEPT ![l] = b1]
  <2>5. h1[l] = b1 OBVIOUS
  <2>6. t.heap = [h1 EXCEPT ![l] = b2] BY <2>1, <2>5
  <2> HIDE DEF b1, b2
  <2>7. t.heap = [heap EXCEPT ![l] = b2] BY <2>6
  <2>8. QED BY <2>4, <2>7
<1> HIDE DEF t
<1>5. old \in Seq(Cell)
  <2>1. heap[l] \in BlockOf BY <1>1, LaidType
  <2>2. QED BY <2>1 DEF BlockOf
<1>6. i \in DOMAIN old /\ i + 1 \in DOMAIN old OBVIOUS
<1> HIDE DEF old
<1>7. cells \in Seq(Cell) /\ Len(cells) = Len(old) /\ DOMAIN cells = DOMAIN old
  <2>1. Len(old) \in Nat /\ old \in [1..Len(old) -> Cell] /\ DOMAIN old = 1..Len(old) BY <1>5
  <2>2. cells \in [1..Len(old) -> Cell] BY <1>2, <2>1
  <2> HIDE DEF cells
  <2>3. cells \in Seq(Cell) /\ Len(cells) = Len(old) /\ DOMAIN cells = 1..Len(old) BY <2>1, <2>2
  <2>4. QED BY <2>1, <2>3
<1>8. \A n \in DOMAIN cells : cells[n] = IF n \in {i, i + 1} THEN c ELSE old[n] BY <1>6, <1>7
<1> HIDE DEF cells
<1>9. Written(l, i, i + 1, cells, t) BY <1>3, <1>4, <1>6, <1>7, <1>8 DEF Written, old
<1>10. QED BY <1>3, <1>9, WriteMoves

LEMMA AUGATLMoves ==
  ASSUME StorageAssumption, ~Stale, Inv, AUGATL
  PROVE Moves
<1> DEFINE y == reg["YPTR"]
           l == Top(heap, y.a)
           pairs == heap[l].cells
           free == {i \in DOMAIN pairs : i % 2 = 1 /\ pairs[i] = Zero}
           n == Len(pairs) + 2
           s == Provided(m, n)
           k == Top(s.heap, s.reg["YPTR"].a)
           long == [s EXCEPT !.heap = Block(s, s.heap[k].cells \o <<s.reg["XPTR"], s.reg["XPTR"]>>),
                             !.reg["YPTR"] = Free(s)]
<1>1. /\ y.p /\ l # 0 /\ Len(pairs) % 2 = 0 /\ heap[l].id \in Ids
      /\ free = {} => Allocate(m, n, long)
      /\ free # {} => /\ xocbsc' = xocbsc /\ full' = full
                      /\ Become([m EXCEPT !.heap[l].cells[Min(free)] = reg["XPTR"],
                                          !.heap[l].cells[Min(free) + 1] = reg["XPTR"]])
  BY DEF AUGATL, Still
<1>2. "XPTR" \in Regs /\ "YPTR" \in Regs BY RegsAre
<1>3. Laid(heap) /\ CellsOf(heap) /\ Good(m) /\ m.heap = heap /\ m.reg = reg BY InvIs
<1>4. Held(heap, y) /\ Held(heap, reg["XPTR"]) BY <1>2, InvIs
<1>5. In(y)
  <2>1. y.a \in Int /\ HDSGPT \in Int BY <1>4 DEF Held, Cell, StorageAssumption
  <2>2. y.a < HDSGPT => l = 0 BY <1>3, <2>1, TopBelow
  <2>3. ~(y.a < HDSGPT) BY <1>1, <2>2
  <2> HIDE DEF y
  <2>4. y.a >= HDSGPT BY <2>1, <2>3
  <2>5. QED BY <1>1, <2>4 DEF In
<1>6. l \in DOMAIN heap BY <1>3, <1>4, <1>5, HeldIn
<1>7. pairs \in Seq(Cell)
  <2>1. heap[l] \in BlockOf BY <1>3, <1>6, LaidType
  <2>2. QED BY <2>1 DEF BlockOf
<1>8. CASE free = {}
  <2>1. long = Lengthened(s) BY DEF Lengthened, With
  <2> HIDE DEF long, s
  <2>2. Allocate(m, n, long) BY <1>1, <1>8
  <2>3. long = Lengthened(Provided(m, n)) BY <2>1 DEF s
  <2>4. heap[l].id \in Ids /\ l = Top(heap, reg["YPTR"].a) /\ n = Len(heap[l].cells) + 2 /\ In(reg["YPTR"]) BY <1>1, <1>5
  <2> HIDE DEF n, l, y
  <2>5. QED BY <2>2, <2>3, <2>4, LongerMoves
<1>9. CASE free # {}
  <2> DEFINE i == Min(free)
  <2>1. i \in free
    <3>1. free \subseteq Nat BY <1>7
    <3> HIDE DEF free
    <3>2. QED BY <1>9, <3>1, MinIs
  <2>2. i \in DOMAIN pairs /\ i % 2 = 1 BY <2>1
  <2>3. Become([m EXCEPT !.heap[l].cells[i] = reg["XPTR"], !.heap[l].cells[i + 1] = reg["XPTR"]])
        /\ xocbsc' = xocbsc /\ full' = full
    BY <1>1, <1>9
  <2> HIDE DEF i, free
  <2>4. i + 1 \in DOMAIN pairs
    <3>1. DOMAIN pairs = 1..Len(pairs) /\ Len(pairs) \in Nat BY <1>7
    <3>2. i \in 1..Len(pairs) /\ i % 2 = 1 BY <2>2, <3>1
    <3>3. i # Len(pairs)
      <4> SUFFICES ASSUME i = Len(pairs) PROVE FALSE OBVIOUS
      <4>1. Len(pairs) % 2 = 0 BY <1>1
      <4>2. i % 2 = 1 /\ i = Len(pairs) BY <2>2
      <4>3. Len(pairs) % 2 = 1 BY <4>2
      <4> HIDE DEF pairs
      <4>4. QED BY <4>1, <4>3
    <3> DEFINE L == Len(pairs)
    <3>4. L \in Nat /\ i \in 1..L /\ i # L /\ DOMAIN pairs = 1..L BY <3>1, <3>2, <3>3
    <3> HIDE DEF L, pairs
    <3>5. QED BY <3>4
  <2>5. l = Top(heap, reg["YPTR"].a) /\ In(reg["YPTR"]) BY <1>5
  <2> HIDE DEF l
  <2>6. QED BY <1>6, <2>2, <2>3, <2>4, <2>5, PairMoves
<1>10. QED BY <1>8, <1>9

------------------------------------------------------------------------------
\* A block of the program is cut: nothing is named behind the cut.
Splits(h, g, k, i, new) ==
  /\ Laid(h) /\ IdsOf(h) /\ k \in DOMAIN h /\ h[k].id \in Ids
  /\ i \in Nat /\ i > 0 /\ i + 1 < Len(h[k].cells)
  /\ new \in Ids /\ (\A j \in DOMAIN h : h[j].id # new) /\ Split(h, g, k, i, new)
NotAfter(h, k, i, c) == Held(h, c) /\ (In(c) /\ Top(h, c.a) = k => c.a - h[k].a <= i)
Parted(h, g, k, i, new) ==
  /\ \A c : NotAfter(h, k, i, c) => RefOf(g, c) = RefOf(h, c)
  /\ IdsOf(g) /\ IdOf(g) = IdOf(h) \cup {new}
  /\ \A j \in DOMAIN h : \E l \in DOMAIN g : g[l].id = h[j].id /\ (j # k => g[l].cells = h[j].cells)
  /\ k \in DOMAIN g /\ g[k].id = h[k].id /\ g[k].cells = SubSeq(h[k].cells, 1, i) /\ DOMAIN g[k].cells = 1..i

LEMMA SplitSees ==
  ASSUME StorageAssumption, NEW h, NEW g, NEW k, NEW i, NEW new, Splits(h, g, k, i, new)
  PROVE Parted(h, g, k, i, new)
<1> /\ Laid(h) /\ IdsOf(h) /\ k \in DOMAIN h /\ h[k].id \in Ids
    /\ i \in Nat /\ i > 0 /\ i + 1 < Len(h[k].cells)
    /\ new \in Ids /\ (\A j \in DOMAIN h : h[j].id # new) /\ Split(h, g, k, i, new)
  BY DEF Splits
<1> DEFINE N == Len(h)
           at(j) == IF j <= k THEN j ELSE j + 1
<1>1. h \in Seq(BlockOf) /\ N \in Nat /\ DOMAIN h = 1..N /\ k \in 1..N /\ k \in Nat BY DEF Laid
<1>2. Laid(g) BY SplitLaid
<1>3. /\ g \in Seq(BlockOf) /\ Len(g) = N + 1 /\ \A j \in 1..N + 1 :
         /\ j < k => g[j] = h[j]
         /\ j = k => g[j].a = h[k].a /\ g[j].id = h[k].id /\ g[j].cells = SubSeq(h[k].cells, 1, i)
         /\ j = k + 1 => g[j].a = h[k].a + i + 1 /\ g[j].id = new /\ g[j].cells = SubSeq(h[k].cells, i + 2, Len(h[k].cells))
         /\ j > k + 1 => g[j] = h[j - 1]
  BY DEF Split
<1>4. DOMAIN g = 1..N + 1 BY <1>1, <1>3
<1>5. h[k] \in BlockOf /\ h[k].a \in Int BY LaidType
<1>6. SubSeq(h[k].cells, 1, i) \in Seq(Cell) /\ Len(SubSeq(h[k].cells, 1, i)) = i
  <2> DEFINE c == h[k].cells
  <2>1. c \in Seq(Cell) /\ Len(c) \in Nat BY <1>5 DEF BlockOf
  <2>2. 1 \in 1..Len(c) + 1 /\ i \in 0..Len(c) /\ 1 <= i + 1 /\ i - 1 + 1 = i BY <2>1
  <2> HIDE DEF c
  <2>3. SubSeq(c, 1, i) \in Seq(Cell) /\ Len(SubSeq(c, 1, i)) = i BY <2>1, <2>2, PartIs
  <2>4. QED BY <2>3 DEF c
<1> HIDE DEF N
<1>7. \A j \in 1..N : at(j) \in 1..N + 1 BY <1>1
<1>8. \A j \in 1..N : /\ g[at(j)].a = h[j].a /\ g[at(j)].id = h[j].id
                      /\ j # k => g[at(j)] = h[j]
  <2> TAKE j \in 1..N
  <2>1. CASE j < k BY <1>1, <1>3, <1>7, <2>1
  <2>2. CASE j = k BY <1>1, <1>3, <1>7, <2>2
  <2>3. CASE j > k
    <3>1. j + 1 \in 1..N + 1 /\ j + 1 > k + 1 /\ (j + 1) - 1 = j /\ at(j) = j + 1 BY <1>1, <2>3
    <3>2. g[j + 1] = h[j] BY <1>3, <3>1
    <3>3. QED BY <3>1, <3>2
  <2>4. QED BY <1>1, <2>1, <2>2, <2>3
<1>9. \A l \in 1..N + 1 : l = k + 1 \/ \E j \in 1..N : at(j) = l
  <2> TAKE l \in 1..N + 1
  <2>1. CASE l <= k BY <1>1, <2>1
  <2>2. CASE l > k + 1
    <3>1. l - 1 \in 1..N /\ at(l - 1) = l BY <1>1, <2>2
    <3>2. QED BY <3>1
  <2>3. QED BY <1>1, <2>1, <2>2
<1>10. k + 1 \in 1..N + 1 /\ g[k + 1].id = new BY <1>1, <1>3
<1>11. at(k) = k /\ k \in 1..N + 1 /\ g[k].id = h[k].id /\ g[k].a = h[k].a /\ g[k].cells = SubSeq(h[k].cells, 1, i)
  BY <1>1, <1>3
<1>12. DOMAIN g[k].cells = 1..i /\ Size(g[k]) = i + 1
  <2>1. g[k].cells \in Seq(Cell) /\ Len(g[k].cells) = i BY <1>6, <1>11
  <2>2. g[k].id \notin Strings BY <1>11 DEF StorageAssumption
  <2>3. QED BY <2>1, <2>2 DEF Size
<1> HIDE DEF at
<1>13. IdsOf(g)
  <2> SUFFICES ASSUME NEW j \in 1..N + 1, NEW l \in 1..N + 1, g[j].id = g[l].id PROVE j = l BY <1>4 DEF IdsOf
  <2>1. \A n \in 1..N : g[at(n)].id # new BY <1>1, <1>8
  <2>2. CASE j = k + 1
    <3>1. g[l].id = new BY <1>10, <2>2
    <3>2. QED BY <1>9, <2>1, <2>2, <3>1
  <2>3. CASE l = k + 1
    <3>1. g[j].id = new BY <1>10, <2>3
    <3>2. QED BY <1>9, <2>1, <2>3, <3>1
  <2>4. CASE j # k + 1 /\ l # k + 1
    <3>1. PICK n1 \in 1..N : at(n1) = j BY <1>9, <2>4
    <3>2. PICK n2 \in 1..N : at(n2) = l BY <1>9, <2>4
    <3>3. h[n1].id = h[n2].id BY <1>8, <3>1, <3>2
    <3>4. n1 = n2 BY <1>1, <3>3 DEF IdsOf
    <3>5. QED BY <3>1, <3>2, <3>4
  <2>5. QED BY <2>2, <2>3, <2>4
<1>14. IdOf(g) = IdOf(h) \cup {new}
  <2>1. \A p \in IdOf(g) : p \in IdOf(h) \cup {new}
    <3> TAKE p \in IdOf(g)
    <3>1. PICK l \in 1..N + 1 : p = g[l].id BY <1>4 DEF IdOf
    <3>2. CASE l = k + 1 BY <1>10, <3>1, <3>2
    <3>3. CASE l # k + 1
      <4>1. PICK j \in 1..N : at(j) = l BY <1>9, <3>3
      <4>2. p = h[j].id BY <1>8, <3>1, <4>1
      <4>3. QED BY <1>1, <4>2 DEF IdOf
    <3>4. QED BY <3>2, <3>3
  <2>2. \A p \in IdOf(h) : p \in IdOf(g) BY <1>1, <1>4, <1>7, <1>8 DEF IdOf
  <2>3. new \in IdOf(g) BY <1>4, <1>10 DEF IdOf
  <2>4. QED BY <2>1, <2>2, <2>3
<1>15. \A j \in DOMAIN h : \E l \in DOMAIN g : g[l].id = h[j].id /\ (j # k => g[l].cells = h[j].cells)
  BY <1>1, <1>4, <1>7, <1>8
<1>16. ASSUME NEW c, Held(h, c), In(c) /\ Top(h, c.a) = k => c.a - h[k].a <= i PROVE RefOf(g, c) = RefOf(h, c)
  <2>1. CASE ~In(c) BY <2>1 DEF RefOf
  <2>2. CASE In(c)
    <3> DEFINE j == Top(h, c.a)
    <3>1. c.a \in Int /\ j \in DOMAIN h /\ h[j].a <= c.a /\ c.a < h[j].a + Size(h[j]) BY <1>16, <2>2, HeldIn
    <3> HIDE DEF j
    <3>2. j \in 1..N /\ at(j) \in DOMAIN g /\ h[j].a \in Int BY <1>1, <1>4, <1>7, <3>1, LaidType
    <3>3. g[at(j)].a <= c.a /\ c.a < g[at(j)].a + Size(g[at(j)])
      <4>1. CASE j = k
        <5>1. c.a - h[k].a <= i BY <1>16, <2>2, <4>1 DEF j
        <5>2. at(j) = k BY <1>11, <4>1
        <5>3. QED BY <1>5, <1>11, <1>12, <3>1, <4>1, <5>1, <5>2
      <4>2. CASE j # k
        <5>1. g[at(j)] = h[j] BY <1>8, <3>2, <4>2
        <5>2. QED BY <3>1, <5>1
      <4>3. QED BY <4>1, <4>2
    <3>4. Top(g, c.a) = at(j) BY <1>2, <3>1, <3>2, <3>3, TopIs
    <3>5. g[at(j)].a = h[j].a /\ g[at(j)].id = h[j].id BY <1>8, <3>2
    <3>6. RefOf(h, c) = [o |-> h[j].id, i |-> c.a - h[j].a] BY <2>2, <3>1 DEF RefOf, j
    <3>7. RefOf(g, c) = [o |-> g[at(j)].id, i |-> c.a - g[at(j)].a] BY <2>2, <3>2, <3>4 DEF RefOf
    <3>8. QED BY <3>5, <3>6, <3>7
  <2>3. QED BY <2>1, <2>2
<1>17. \A c : NotAfter(h, k, i, c) => RefOf(g, c) = RefOf(h, c) BY <1>16 DEF NotAfter
<1>18. QED BY <1>4, <1>11, <1>12, <1>13, <1>14, <1>15, <1>17 DEF Parted

\* The same for what the program sees.
Above(k, i) == \A c \in Cells : In(c) /\ Obj(c) = k => Off(c) <= i

LEMMA CutMoves ==
  ASSUME StorageAssumption, Inv, In(reg["XPTR"]), NEW k \in DOMAIN heap, k = Obj(reg["XPTR"]), heap[k].id \in Ids,
         NEW i \in Nat, i = Off(reg["XPTR"]), i > 0, i + 1 < Len(heap[k].cells), Above(k, i),
         NEW new \in Ids, \A j \in DOMAIN heap : heap[j].id # new, NEW t, Split(heap, t.heap, k, i, new),
         t.reg = reg, t.stack = stack, Become(t), full' = full, xocbsc' = xocbsc
  PROVE Moves
<1> DEFINE h == heap
           g == t.heap
           o == h[k].id
           val == ObjOf(g, k)
           old == ObjOf(h, k)
           X == {RefOf(h, c) : c \in Cell}
<1>1. Near(m) /\ Looks(m) /\ m.heap = h /\ m.reg = reg /\ m.stack = stack BY NearNow, NearIs, InvIs
<1>2. Laid(h) /\ h \in Seq(BlockOf) /\ IdsOf(h) /\ CellsOf(h) BY InvIs
<1> DEFINE Fine(c) == NotAfter(h, k, i, c)
<1>3. /\ \A c : Fine(c) => RefOf(g, c) = RefOf(h, c)
      /\ IdsOf(g) /\ IdOf(g) = IdOf(h) \cup {new}
      /\ \A j \in DOMAIN h : \E l \in DOMAIN g : g[l].id = h[j].id /\ (j # k => g[l].cells = h[j].cells)
      /\ k \in DOMAIN g /\ g[k].id = h[k].id /\ g[k].cells = SubSeq(h[k].cells, 1, i) /\ DOMAIN g[k].cells = 1..i
  <2>1. Splits(h, g, k, i, new) BY <1>2 DEF Splits
  <2>2. Parted(h, g, k, i, new) BY <2>1, SplitSees
  <2> HIDE DEF h, g
  <2>3. QED BY <2>2 DEF Parted
<1>4. g \in Seq(BlockOf) BY DEF Split
<1>5. \A c \in Cells : In(c) /\ Top(h, c.a) = k => c.a - h[k].a <= i BY DEF Above, Obj, Off
<1>6. \A z \in Regs : Fine(reg[z])
  <2> TAKE z \in Regs
  <2>1. Held(h, reg[z]) /\ DOMAIN reg = Regs BY InvIs
  <2>2. reg[z] \in Cells BY <2>1 DEF Cells, Range
  <2>3. QED BY <1>5, <2>1, <2>2 DEF NotAfter
<1>7. \A j \in DOMAIN stack : Fine(stack[j])
  <2> TAKE j \in DOMAIN stack
  <2>1. Held(h, stack[j]) BY InvIs
  <2>2. stack[j] \in Cells BY DEF Cells, Range
  <2>3. QED BY <1>5, <2>1, <2>2 DEF NotAfter
<1>8. \A j \in DOMAIN h : \A n \in DOMAIN h[j].cells : Fine(h[j].cells[n])
  <2> TAKE j \in DOMAIN h
  <2> TAKE n \in DOMAIN h[j].cells
  <2>1. Held(h, h[j].cells[n]) BY <1>2 DEF CellsOf
  <2>2. h[j].cells[n] \in Range(heap[j].cells) BY DEF Range
  <2>3. h[j].cells[n] \in Cells BY <2>2 DEF Cells
  <2>4. QED BY <1>5, <2>1, <2>3 DEF NotAfter
<1>9. Fine(xocbsc.c)
  <2>1. Saved(heap, xocbsc) BY InvIs
  <2>2. CASE ~xocbsc.c.p
    <3>1. ~In(xocbsc.c) /\ xocbsc.c \in Cell BY <2>1, <2>2 DEF In, Saved
    <3>2. QED BY <3>1 DEF NotAfter, Held
  <2>3. CASE xocbsc.c.p
    <3>1. Held(h, xocbsc.c) /\ (In(xocbsc.c) => h[Top(h, xocbsc.c.a)].a = xocbsc.c.a) BY <2>1, <2>3 DEF Saved, AtCode
    <3>2. xocbsc.c.a \in Int BY <3>1 DEF Held, Cell
    <3>3. xocbsc.c.a - xocbsc.c.a <= i BY <3>2
    <3>4. QED BY <3>1, <3>3 DEF NotAfter
  <2>4. QED BY <2>2, <2>3
<1>10. SeesRegs(t, xocbsc) = SeenRegs /\ SeesStack(t) = SeenStack
  <2>1. \A z \in Sighted : RefOf(g, IF z = "XOCBSC" THEN xocbsc.c ELSE reg[z]) = RefOf(h, IF z = "XOCBSC" THEN xocbsc.c ELSE reg[z])
    <3> TAKE z \in Sighted
    <3>1. z = "XOCBSC" \/ z \in Regs BY DEF Sighted
    <3>2. Fine(IF z = "XOCBSC" THEN xocbsc.c ELSE reg[z]) BY <1>6, <1>9, <3>1
    <3> HIDE DEF Fine
    <3>3. QED BY <1>3, <3>2
  <2>2. \A j \in DOMAIN stack : RefOf(g, stack[j]) = RefOf(h, stack[j]) BY <1>3, <1>7
  <2>3. QED BY <1>1, <2>1, <2>2 DEF Looks, SeesRegs, SeesStack
<1> HIDE DEF Fine
<1>11. \A j \in DOMAIN h : \A n \in DOMAIN h[j].cells : RefOf(g, h[j].cells[n]) = RefOf(h, h[j].cells[n]) BY <1>3, <1>8
<1>12. /\ \A j \in DOMAIN h : h[j].id \in IdOf(h) /\ ObjsOf(h)[h[j].id] = ObjOf(h, j)
       /\ \A j \in DOMAIN g : g[j].id \in IdOf(g) /\ ObjsOf(g)[g[j].id] = ObjOf(g, j)
  BY <1>2, <1>3, <1>4, ObjsIs
<1> HIDE DEF g, h
<1>13. \A p \in IdOf(h) \ {o} : p \in IdOf(g) /\ ObjsOf(g)[p] = ObjsOf(h)[p]
  <2> TAKE p \in IdOf(h) \ {o}
  <2>1. PICK j \in DOMAIN h : p = h[j].id BY DEF IdOf
  <2>2. j # k BY <2>1
  <2>3. PICK l \in DOMAIN g : g[l].id = h[j].id /\ g[l].cells = h[j].cells BY <1>3, <2>1, <2>2
  <2>4. ObjOf(g, l) = ObjOf(h, j) BY <1>11, <2>3 DEF ObjOf
  <2>5. QED BY <1>12, <2>1, <2>3, <2>4
<1>14. "XPTR" \in Regs \ {"LSTPTR", "BUKPTR"} /\ "XPTR" \in Work BY DEF Regs, Work
<1>15. /\ SeenRegs["XPTR"].o = o /\ SeenRegs["XPTR"].i = i /\ o \in Hold(m, xocbsc) /\ SeenObjs[o] = old
       /\ All!Of(SeenRegs["XPTR"])
  <2>1. In(m.reg["XPTR"]) /\ k = Top(m.heap, m.reg["XPTR"].a) BY <1>1 DEF Obj, h
  <2>2. Naming(m, "XPTR", k) /\ All!Of(SeenRegs["XPTR"]) BY <1>1, <1>14, <2>1, NearObject
  <2>3. i = reg["XPTR"].a - heap[k].a BY DEF Off
  <2>4. QED BY <1>1, <2>2, <2>3 DEF Naming, h
<1>16. h[k] \in BlockOf /\ h[k].cells \in Seq(Cell) /\ Len(h[k].cells) \in Nat
  <2>1. h[k] \in BlockOf BY <1>2, LaidType DEF h
  <2>2. QED BY <2>1 DEF BlockOf
<1>17. DOMAIN val = 1..i /\ \A n \in 1..i : n \in DOMAIN h[k].cells /\ val[n] = old[n]
  <2> DEFINE c == h[k].cells
  <2>1. c \in Seq(Cell) /\ Len(c) \in Nat /\ DOMAIN c = 1..Len(c) BY <1>16
  <2>2. 1 \in 1..Len(c) + 1 /\ i \in 0..Len(c) /\ 1 <= i + 1 /\ i - 1 + 1 = i BY <2>1 DEF h
  <2>3. \A n \in DOMAIN c : RefOf(g, c[n]) = RefOf(h, c[n]) BY <1>11 DEF h
  <2>4. g[k].cells = SubSeq(c, 1, i) /\ DOMAIN g[k].cells = 1..i BY <1>3
  <2>5. \A n \in DOMAIN c : old[n] = RefOf(h, c[n]) BY DEF ObjOf
  <2>6. DOMAIN val = DOMAIN g[k].cells /\ \A n \in DOMAIN g[k].cells : val[n] = RefOf(g, g[k].cells[n]) BY DEF ObjOf
  <2> HIDE DEF c, val, old
  <2>7. \A n \in 1..i : SubSeq(c, 1, i)[n] = c[1 + n - 1] BY <2>1, <2>2, PartIs
  <2>8. ASSUME NEW n \in 1..i PROVE n \in DOMAIN c /\ val[n] = old[n]
    <3>1. n \in DOMAIN c /\ 1 + n - 1 = n BY <2>1, <2>2
    <3>2. val[n] = RefOf(g, c[n]) BY <2>4, <2>6, <2>7, <3>1
    <3>3. QED BY <2>3, <2>5, <3>1, <3>2
  <2>9. QED BY <2>4, <2>6, <2>8 DEF c
<1>18. val = SubSeq(old, 1, i)
  <2>1. old = [n \in DOMAIN h[k].cells |-> RefOf(h, h[k].cells[n])] BY DEF ObjOf
  <2>2. old \in Seq(X) /\ Len(old) = Len(h[k].cells) BY <1>16, <2>1, SeqSeen
  <2>3. i \in 0..Len(old) /\ 1 \in 1..Len(old) + 1 /\ 1 <= i + 1 /\ i - 1 + 1 = i BY <1>16, <2>2 DEF h
  <2>4. val = [n \in 1..i |-> val[n]] BY <1>17 DEF ObjOf
  <2> HIDE DEF val, old, X
  <2>5. SubSeq(old, 1, i) \in Seq(X) /\ Len(SubSeq(old, 1, i)) = i /\ \A n \in 1..i : SubSeq(old, 1, i)[n] = old[1 + n - 1]
    BY <2>2, <2>3, PartIs
  <2>6. \A n \in 1..i : 1 + n - 1 = n OBVIOUS
  <2>7. \A n \in 1..i : SubSeq(old, 1, i)[n] = val[n] BY <1>17, <2>5, <2>6
  <2> DEFINE part == SubSeq(old, 1, i)
  <2>8. part = [n \in 1..i |-> part[n]] BY <2>5
  <2> HIDE DEF part
  <2>9. \A n \in 1..i : part[n] = val[n] BY <2>7 DEF part
  <2>10. val = part BY <2>4, <2>8, <2>9
  <2>11. QED BY <2>10 DEF part
<1>19. \A d \in Range(val) : All!Of(d) => d.o \in Hold(m, xocbsc)
  <2> SUFFICES ASSUME NEW n \in 1..i, All!Of(val[n]) PROVE val[n].o \in Hold(m, xocbsc) BY <1>17 DEF Range
  <2>1. n \in DOMAIN m.heap[k].cells /\ val[n] = RefOf(m.heap, m.heap[k].cells[n]) BY <1>1, <1>17 DEF ObjOf
  <2>2. k \in DOMAIN m.heap /\ m.heap[k].id \in Hold(m, xocbsc) BY <1>1, <1>15 DEF h
  <2> HIDE DEF val
  <2>3. QED BY <1>1, <2>1, <2>2, NearNames
<1>20. Replaced(t, o, val)
  <2>1. o \in IdOf(g) /\ ObjsOf(g)[o] = val BY <1>3, <1>12
  <2>2. \A p \in IdOf(g) \ IdOf(h) : p \notin Strings BY <1>3 DEF StorageAssumption
  <2> HIDE DEF val, o
  <2>3. QED BY <1>3, <1>4, <1>10, <1>13, <1>15, <1>19, <2>1, <2>2 DEF Replaced, g, h
<1> HIDE DEF val, old
<1>21. o \in Ids BY DEF h
<1> HIDE DEF o
<1>22. Program!Become([SeenObjs EXCEPT ![o] = val], SeenRegs, SeenStack) /\ Program!Changed = {} BY <1>20, ReplacedStep
<1>23. Program!IsBlock("XPTR") BY <1>15, <1>21 DEF Program!IsBlock, Program!Of, All!Of
<1>24. [SeenObjs EXCEPT ![o] = val] = [SeenObjs EXCEPT ![SeenRegs["XPTR"].o] = SubSeq(@, 1, SeenRegs["XPTR"].i)] BY <1>15, <1>18
<1>25. Program!Cut("XPTR") BY <1>22, <1>23, <1>24 DEF Program!Cut
<1>26. QED BY <1>14, <1>22, <1>25 DEF Moves, Program!Next

LEMMA SPLITMoves ==
  ASSUME StorageAssumption, Inv, SPLIT
  PROVE Moves
<1> DEFINE c == reg["XPTR"]
           k == Obj(c)
           i == Off(c)
           b == heap[k]
           rest == [b EXCEPT !.a = c.a + 1, !.id = Fresh(m), !.cells = SubSeq(@, i + 2, Len(@))]
           first == [b EXCEPT !.cells = SubSeq(@, 1, i)]
           g == SubSeq(heap, 1, k - 1) \o <<first, rest>> \o SubSeq(heap, k + 1, Len(heap))
<1>1. /\ In(c) /\ b.id \in Ids /\ \A d \in Cells : In(d) /\ Obj(d) = k => Off(d) <= i
      /\ IF i = 0 \/ i + 1 >= Len(b.cells) THEN Do(m)
         ELSE Do([m EXCEPT !.heap = SubSeq(@, 1, k - 1) \o <<first, rest>> \o SubSeq(@, k + 1, Len(@))])
  BY DEF SPLIT
<1>2. Above(k, i) BY <1>1 DEF Above
<1>3. m.heap = heap /\ m.bins = bins /\ m.reg = reg /\ m.stack = stack BY DEF m
<1>4. Good(m) /\ Laid(heap) /\ heap \in Seq(BlockOf) /\ FRSGPT(heap) <= TLSGP1 /\ Held(heap, c) BY RegsAre, InvIs
<1>5. CASE i = 0 \/ i + 1 >= Len(b.cells)
  <2>1. Do(m) BY <1>1, <1>5
  <2>2. Become(m) /\ full' = full /\ xocbsc' = xocbsc BY <2>1 DEF Do, Still
  <2>3. SeenObjs' = SeenObjs /\ SeenRegs' = SeenRegs /\ SeenStack' = SeenStack BY <2>2, NearNow, SameSeen
  <2>4. QED BY <2>2, <2>3 DEF Moves, Program!vars
<1>6. CASE ~(i = 0 \/ i + 1 >= Len(b.cells))
  <2> DEFINE t == [m EXCEPT !.heap = g]
  <2>1. Do(t) BY <1>1, <1>3, <1>6
  <2>2. t.heap = g /\ t.reg = reg /\ t.stack = stack
    <3> HIDE DEF g
    <3>1. t = [heap |-> g, bins |-> bins, reg |-> reg, stack |-> stack] BY DEF m
    <3>2. QED BY <3>1
  <2> HIDE DEF t, g
  <2>3. k \in DOMAIN heap /\ c.a \in Int /\ b.a <= c.a BY <1>1, <1>4, HeldIn DEF Obj
  <2>4. b \in BlockOf BY <1>4, <2>3, LaidType
  <2>5. b.a \in Int /\ b.cells \in Seq(Cell) /\ Len(b.cells) \in Nat BY <2>4 DEF BlockOf
  <2>6. i = c.a - b.a BY DEF Off, Obj
  <2>14. c = reg["XPTR"] /\ k = Obj(reg["XPTR"]) /\ b = heap[k] /\ i = Off(reg["XPTR"]) OBVIOUS
  <2> HIDE DEF k, b, c
  <2>7. i \in Nat /\ i > 0 /\ i + 1 < Len(b.cells) /\ c.a + 1 = b.a + i + 1
    <3> HIDE DEF i
    <3>1. i \in Nat BY <2>3, <2>5, <2>6
    <3>2. QED BY <1>6, <2>3, <2>5, <2>6, <3>1
  <2> HIDE DEF i
  <2>8. Fresh(m) \in Ids /\ \A j \in DOMAIN heap : heap[j].id # Fresh(m) BY <1>3, <1>4, FreshIs
  <2>9. first \in BlockOf /\ first.a = b.a /\ first.id = b.id /\ first.cells = SubSeq(b.cells, 1, i)
    <3>1. 1 \in 1..Len(b.cells) + 1 /\ i \in 0..Len(b.cells) /\ 1 <= i + 1 BY <2>5, <2>7
    <3>2. SubSeq(b.cells, 1, i) \in Seq(Cell) BY <2>5, <3>1, PartIs
    <3>3. QED BY <2>4, <3>2 DEF BlockOf
  <2>10. rest \in BlockOf /\ rest.a = b.a + i + 1 /\ rest.id = Fresh(m) /\ rest.cells = SubSeq(b.cells, i + 2, Len(b.cells))
    <3>1. i + 2 \in 1..Len(b.cells) + 1 /\ Len(b.cells) \in 0..Len(b.cells) /\ i + 2 <= Len(b.cells) + 1 BY <2>5, <2>7
    <3>2. SubSeq(b.cells, i + 2, Len(b.cells)) \in Seq(Cell) BY <2>5, <3>1, PartIs
    <3>3. c.a + 1 \in Int BY <2>3
    <3>4. QED BY <2>4, <2>7, <2>8, <3>2, <3>3 DEF BlockOf
  <2> HIDE DEF first, rest
  <2>11. Split(heap, t.heap, k, i, Fresh(m))
    <3>1. /\ g \in Seq(BlockOf) /\ Len(g) = Len(heap) + 1
          /\ \A j \in 1..Len(heap) + 1 :
               g[j] = IF j < k THEN heap[j] ELSE IF j = k THEN first ELSE IF j = k + 1 THEN rest ELSE heap[j - 1]
      <4>1. heap \in Seq(BlockOf) /\ k \in DOMAIN heap /\ first \in BlockOf /\ rest \in BlockOf BY <1>4, <2>3, <2>9, <2>10
      <4>2. g = SubSeq(heap, 1, k - 1) \o <<first, rest>> \o SubSeq(heap, k + 1, Len(heap)) BY DEF g
      <4>3. Halved(BlockOf, heap, k, first, rest, g) BY <4>1, <4>2, HalvesIs
      <4>4. QED BY <4>3 DEF Halved
    <3>2. k \in Nat BY <1>4, <2>3
    <3>3. Split(heap, g, k, i, Fresh(m)) BY <2>9, <2>10, <2>14, <3>1, <3>2 DEF Split
    <3>4. QED BY <2>2, <3>3
  <2>12. In(reg["XPTR"]) /\ heap[k].id \in Ids /\ i + 1 < Len(heap[k].cells) /\ Above(k, i) BY <1>1, <1>2, <2>7, <2>14
  <2>13. Become(t) /\ full' = full /\ xocbsc' = xocbsc BY <2>1 DEF Do, Still
  <2>15. QED BY <2>2, <2>3, <2>7, <2>8, <2>11, <2>12, <2>13, <2>14, CutMoves
<1>7. QED BY <1>5, <1>6

------------------------------------------------------------------------------
\* Storage begins as the program expects it.
LEMMA InitObjects ==
  ASSUME StorageAssumption, Init
  PROVE Program!Init
<1> DEFINE f == ObjsOf(heap)
           cs == Sight(m, xocbsc)
           D == Hold(m, xocbsc)
<1>1. Near(m) /\ m.heap = heap BY InitInv, NearNow, InvIs
<1>2. Good(m) /\ Looks(m) /\ Held(m.heap, xocbsc.c) /\ IdsOf(heap) /\ heap \in Seq(BlockOf) BY <1>1, NearIs
<1>3. DOMAIN f = IdOf(heap) /\ IsFiniteSet(DOMAIN f) BY <1>2, ObjsIs
<1>4. Closed(f, cs, D) /\ D \subseteq IdOf(heap) /\ Objs(m, xocbsc) = [o \in D |-> f[o]] BY <1>1, <1>2, HoldIs
<1>5. SeenObjs = All!Live(f, cs) BY <1>1, <1>2 DEF Looks, Objs
<1> HIDE DEF f, D
<1>6. SeenObjs = [o \in D |-> f[o]] BY <1>2, <1>4 DEF Looks
<1>7. All!Live(f, cs) = All!Live(SeenObjs, cs) BY <1>3, <1>4, <1>6, SameLive
<1>8. cs = Program!Range(SeenRegs) \cup Program!Range(SeenStack) BY <1>2 DEF Looks, Sight, Range, Program!Range
<1>9. Program!Live(SeenObjs, cs) = SeenObjs BY <1>5, <1>7, SameProgram
<1>10. full = 0 BY DEF Init, Begin
<1>11. QED BY <1>8, <1>9, <1>10 DEF Program!Init

\* Each action is a step of the program, or one it does not see.
LEMMA NextMoves ==
  ASSUME StorageAssumption, ~Stale, Inv, [Next]_vars
  PROVE Moves
<1>1. CASE BLOCK BY <1>1, BLOCKMoves
<1>2. CASE GENVAR BY <1>2, GENVARMoves
<1>3. CASE CONVAR BY <1>3, CONVARMoves
<1>4. CASE AUGATL BY <1>4, AUGATLMoves
<1>5. CASE COLECT BY <1>5, COLECTMoves
<1>6. CASE SPLIT BY <1>6, SPLITMoves
<1>7. CASE PutD BY <1>7, PutDMoves
<1>8. CASE GetD BY <1>8, GetDMoves
<1>9. CASE Sum BY <1>9, SumMoves
<1>10. CASE Exchange BY <1>10, ExchangeMoves
<1>11. CASE Number BY <1>11, NumberMoves
<1>12. CASE Push BY <1>12, PushMoves
<1>13. CASE Pop BY <1>13, PopMoves
<1>14. CASE Goto \/ Xithnd \/ Continue \/ Break BY <1>14, PlaceMoves
<1>15. CASE UNCHANGED vars
  <2>1. heap' = heap /\ bins' = bins /\ reg' = reg /\ stack' = stack /\ xocbsc' = xocbsc /\ full' = full BY <1>15 DEF vars
  <2>2. Become(m) BY <2>1 DEF Become, m
  <2>3. SeenObjs' = SeenObjs /\ SeenRegs' = SeenRegs /\ SeenStack' = SeenStack BY <2>1, <2>2, NearNow, SameSeen
  <2>4. QED BY <2>1, <2>3 DEF Moves, Program!vars
<1>16. QED
  BY <1>1, <1>2, <1>3, <1>4, <1>5, <1>6, <1>7, <1>8, <1>9, <1>10, <1>11, <1>12, <1>13, <1>14, <1>15 DEF Next

\* Storage implements Objects: what the program can reach stays as it left it and where
\* it left it, whatever GC and GCM drop, move and link anew, whenever an allocation
\* regenerates; a string has one object, found by its text while it has a value; and
\* an allocation that does not succeed leaves everything as it was.
THEOREM StorageIsUnmoved ==
  ASSUME StorageAssumption, ~Stale
  PROVE Spec => Unmoved
<1>1. Init => Inv /\ Program!Init BY InitInv, InitObjects
<1>2. Inv /\ [Next]_vars => Inv' BY NextInv
<1>3. Inv /\ [Next]_vars => [Program!Next]_(Program!vars) BY NextMoves DEF Moves
<1>4. QED BY <1>1, <1>2, <1>3, PTL DEF Spec, Unmoved, Program!Spec

------------------------------------------------------------------------------
\* Blocks that lie one behind the other take what is between the first and the last.
SizesOf(h) == MapThenSumSet(LAMBDA k : Size(h[k]), DOMAIN h)

LEMMA SumOfSizes ==
  ASSUME StorageAssumption, NEW h, Laid(h)
  PROVE SizesOf(h) = FRSGPT(h) - HDSGPT
<1> DEFINE D == DOMAIN h
           N == Len(h)
           pick(s) == CHOOSE x \in s : TRUE
           G(w) == [s \in SUBSET D |-> IF s = {} THEN 0 ELSE Size(h[pick(s)]) + w[s \ {pick(s)}]]
           it == CHOOSE w : w = G(w)
           W == [SUBSET D -> Int]
           zero == [s \in SUBSET D |-> 0]
           st == [p \in (1..N) \X W |-> G(p[2])]
<1>0. N \in Nat /\ D = 1..N /\ h \in Seq(BlockOf) /\ HDSGPT \in Int BY DEF Laid, StorageAssumption
<1>1. SizesOf(h) = it[D] BY DEF SizesOf, MapThenSumSet, MapThenFoldSet
<1>2. \A k \in D : Size(h[k]) \in Int BY LaidType
<1>3. ASSUME NEW s \in SUBSET D
      PROVE /\ IsFiniteSet(s) /\ Cardinality(s) \in 0..N
            /\ s # {} => /\ pick(s) \in s /\ s \ {pick(s)} \in SUBSET D
                         /\ Cardinality(s) \in 1..N /\ Cardinality(s \ {pick(s)}) = Cardinality(s) - 1
  <2>1. IsFiniteSet(D) /\ Cardinality(D) = N
    <3>1. IsFiniteSet(1..N) /\ Cardinality(1..N) = IF 1 > N THEN 0 ELSE N - 1 + 1 BY <1>0, FS_Interval
    <3>2. QED BY <1>0, <3>1
  <2> HIDE DEF D, N
  <2>2. IsFiniteSet(s) /\ Cardinality(s) \in Nat /\ Cardinality(s) <= N BY <2>1, FS_Subset, FS_CardinalityType
  <2>3. s # {} => pick(s) \in s OBVIOUS
  <2> HIDE DEF pick
  <2>4. s # {} => Cardinality(s) # 0 BY <2>2, FS_EmptySet
  <2>5. s # {} => Cardinality(s \ {pick(s)}) = Cardinality(s) - 1 BY <2>2, <2>3, FS_RemoveElement
  <2>6. QED BY <1>0, <2>2, <2>3, <2>4, <2>5 DEF D, N
<1> HIDE DEF pick
<1>4. \A w \in W : G(w) \in W
  <2> TAKE w \in W
  <2>1. \A s \in SUBSET D : (IF s = {} THEN 0 ELSE Size(h[pick(s)]) + w[s \ {pick(s)}]) \in Int
    <3> TAKE s \in SUBSET D
    <3>1. CASE s = {} BY <3>1
    <3>2. CASE s # {}
      <4>1. pick(s) \in D /\ s \ {pick(s)} \in SUBSET D BY <1>3, <3>2
      <4>2. w[s \ {pick(s)}] \in Int BY <4>1
      <4>3. Size(h[pick(s)]) \in Int BY <1>2, <4>1
      <4>4. QED BY <3>2, <4>2, <4>3
    <3>3. QED BY <3>1, <3>2
  <2>2. QED BY <2>1
<1>5. PICK F \in [0..N -> W] : F[0] = zero /\ \A j \in 1..N : F[j] = G(F[j - 1])
  <2>1. st \in [(1..N) \X W -> W]
    <3> HIDE DEF W, G
    <3>1. QED BY <1>4
  <2>2. zero \in W OBVIOUS
  <2> HIDE DEF zero, W, st
  <2>3. Recursive(W, zero, N, st) BY <1>0, <2>1, <2>2, Recursion
  <2>4. PICK F \in [0..N -> W] : F[0] = zero /\ \A j \in 1..N : F[j] = st[<<j, F[j - 1]>>] BY <2>3 DEF Recursive
  <2>5. \A j \in 1..N : j - 1 \in 0..N BY <1>0
  <2>6. \A j \in 1..N : <<j, F[j - 1]>> \in (1..N) \X W BY <2>5
  <2> HIDE DEF G
  <2>7. \A j \in 1..N : st[<<j, F[j - 1]>>] = G(F[j - 1]) BY <2>6 DEF st
  <2>8. QED BY <2>4, <2>7
<1> DEFINE g == [s \in SUBSET D |-> F[Cardinality(s)][s]]
<1>6. g = G(g)
  <2>1. \A s \in SUBSET D : g[s] = IF s = {} THEN 0 ELSE Size(h[pick(s)]) + g[s \ {pick(s)}]
    <3> TAKE s \in SUBSET D
    <3>1. CASE s = {}
      <4>1. Cardinality(s) = 0 BY <3>1, FS_EmptySet
      <4>2. F[0][s] = 0 BY <1>5
      <4>3. QED BY <3>1, <4>1, <4>2
    <3>2. CASE s # {}
      <4> DEFINE n == Cardinality(s)
                 r == s \ {pick(s)}
      <4>1. n \in 1..N /\ Cardinality(r) = n - 1 /\ r \in SUBSET D BY <1>3, <3>2
      <4> HIDE DEF n, r
      <4>2. F[n] = G(F[n - 1]) BY <1>5, <4>1
      <4>3. F[n][s] = Size(h[pick(s)]) + F[n - 1][s \ {pick(s)}] BY <3>2, <4>2
      <4>4. g[s] = F[n][s] BY DEF n
      <4>5. g[r] = F[n - 1][r] BY <4>1
      <4> HIDE DEF g
      <4>6. QED BY <3>2, <4>3, <4>4, <4>5 DEF r
    <3>3. QED BY <3>1, <3>2
  <2>2. g = [s \in SUBSET D |-> g[s]] OBVIOUS
  <2> HIDE DEF g
  <2>3. QED BY <2>1, <2>2
<1>7. it = G(it) BY <1>6
<1> HIDE DEF it, g
<1>8. \A s \in SUBSET D : it[s] = IF s = {} THEN 0 ELSE Size(h[pick(s)]) + it[s \ {pick(s)}]
  <2>1. \A s \in SUBSET D : G(it)[s] = IF s = {} THEN 0 ELSE Size(h[pick(s)]) + it[s \ {pick(s)}] OBVIOUS
  <2> HIDE DEF G
  <2>2. QED BY <1>7, <2>1
<1> HIDE DEF G, D, W, zero, st
<1> DEFINE sum(s) == it[s]
<1>9. sum({}) = 0
  <2>1. {} \in SUBSET D OBVIOUS
  <2> HIDE DEF D
  <2>2. it[{}] = 0 BY <1>8, <2>1
  <2>3. QED BY <2>2
<1>10. \A s \in SUBSET D : s # {} => sum(s) = Size(h[pick(s)]) + sum(s \ {pick(s)}) BY <1>8
<1>11. SizesOf(h) = sum(D) BY <1>1 DEF D
<1> HIDE DEF sum, N
<1>12. \A s \in SUBSET D : sum(s) \in Int
  <2> DEFINE A == {n \in Nat : \A s \in SUBSET D : Cardinality(s) = n => sum(s) \in Int}
  <2>1. 0 \in A
    <3>1. \A s \in SUBSET D : Cardinality(s) = 0 => s = {} BY <1>3, FS_EmptySet
    <3>2. \A s \in SUBSET D : Cardinality(s) = 0 => sum(s) = 0 BY <1>9, <3>1, Zenon
    <3>3. \A s \in SUBSET D : Cardinality(s) = 0 => sum(s) \in Int BY <3>2
    <3>4. QED BY <3>3
  <2>2. ASSUME NEW n \in Nat, n \in A PROVE n + 1 \in A
    <3> SUFFICES ASSUME NEW s \in SUBSET D, Cardinality(s) = n + 1 PROVE sum(s) \in Int OBVIOUS
    <3>1. s # {} BY FS_EmptySet
    <3>2. pick(s) \in D /\ s \ {pick(s)} \in SUBSET D /\ Cardinality(s \ {pick(s)}) = n BY <1>3, <3>1
    <3>3. sum(s \ {pick(s)}) \in Int BY <2>2, <3>2
    <3>4. QED BY <1>2, <1>10, <3>1, <3>2, <3>3
  <2> HIDE DEF A
  <2>3. Nat \subseteq A BY <2>1, <2>2, Induction
  <2>4. \A s \in SUBSET D : Cardinality(s) \in A BY <1>3, <1>0, <2>3
  <2>5. QED BY <2>4 DEF A
<1>13. ASSUME NEW r \in SUBSET D, NEW z \in D \ r PROVE sum(r \cup {z}) = sum(r) + Size(h[z])
  <2> DEFINE A == {n \in Nat : \A s \in SUBSET D : Cardinality(s) = n => \A y \in D \ s : sum(s \cup {y}) = sum(s) + Size(h[y])}
  <2>1. 0 \in A
    <3> SUFFICES ASSUME NEW s \in SUBSET D, Cardinality(s) = 0, NEW y \in D \ s PROVE sum(s \cup {y}) = sum(s) + Size(h[y]) OBVIOUS
    <3>1. s = {} BY <1>3, FS_EmptySet
    <3>2. sum({}) = 0 BY <1>9
    <3>3. {y} \in SUBSET D /\ {y} # {} OBVIOUS
    <3>4. pick({y}) = y BY <1>3, <3>3
    <3>5. sum({y}) = Size(h[y]) + sum({y} \ {y}) BY <1>10, <3>3, <3>4
    <3>6. {y} \ {y} = {} /\ s \cup {y} = {y} BY <3>1
    <3>7. sum(s \cup {y}) = Size(h[y]) + sum({}) /\ sum(s) = sum({}) BY <3>1, <3>5, <3>6, Zenon
    <3>8. Size(h[y]) \in Int BY <1>2
    <3>9. QED BY <3>2, <3>7, <3>8
  <2>2. ASSUME NEW n \in Nat, n \in A PROVE n + 1 \in A
    <3> SUFFICES ASSUME NEW s \in SUBSET D, Cardinality(s) = n + 1, NEW y \in D \ s PROVE sum(s \cup {y}) = sum(s) + Size(h[y]) OBVIOUS
    <3> DEFINE u == s \cup {y}
               x == pick(u)
               v == s \ {x}
    <3>1. u \in SUBSET D /\ u # {} OBVIOUS
    <3>2. x \in u BY <1>3, <3>1
    <3>3. sum(u) = Size(h[x]) + sum(u \ {x}) BY <1>10, <3>1
    <3> HIDE DEF x
    <3>4. sum(s) \in Int /\ Size(h[y]) \in Int BY <1>2, <1>12
    <3>5. CASE x = y
      <4>1. u \ {x} = s BY <3>5
      <4>2. sum(u) = Size(h[y]) + sum(s) BY <3>3, <3>5, <4>1, Zenon
      <4> HIDE DEF u
      <4>3. sum(u) = sum(s) + Size(h[y]) BY <3>4, <4>2
      <4>4. QED BY <4>3 DEF u
    <3>6. CASE x # y
      <4>1. x \in s /\ v \in SUBSET D /\ x \in D \ v /\ y \in D \ v /\ u \ {x} = v \cup {y} /\ s = v \cup {x} BY <3>2, <3>6
      <4>2. Cardinality(v) = n
        <5>1. IsFiniteSet(s) BY <1>3
        <5>2. Cardinality(s \ {x}) = Cardinality(s) - 1 BY <4>1, <5>1, FS_RemoveElement
        <5>3. QED BY <5>2
      <4>3. sum(v \cup {y}) = sum(v) + Size(h[y]) /\ sum(v \cup {x}) = sum(v) + Size(h[x]) BY <2>2, <4>1, <4>2
      <4>4. sum(v) \in Int /\ Size(h[x]) \in Int BY <1>2, <1>12, <4>1
      <4>5. sum(u) = Size(h[x]) + sum(v \cup {y}) /\ sum(s) = sum(v \cup {x}) BY <3>3, <4>1, Zenon
      <4> HIDE DEF u, v
      <4>6. sum(u) = sum(s) + Size(h[y]) BY <3>4, <4>3, <4>4, <4>5
      <4>7. QED BY <4>6 DEF u
    <3>7. QED BY <3>5, <3>6
  <2> HIDE DEF A
  <2>3. Nat \subseteq A BY <2>1, <2>2, Induction
  <2>4. Cardinality(r) \in A BY <1>0, <1>3, <2>3
  <2>5. QED BY <2>4 DEF A
<1> DEFINE End(j) == IF j = 0 THEN HDSGPT ELSE h[j].a + Size(h[j])
<1>14. \A j \in 1..N : h[j].a \in Int /\ Size(h[j]) \in Int BY <1>0, <1>2, LaidType DEF D
<1>15. \A j \in 1..N : h[j].a = End(j - 1)
  <2> TAKE j \in 1..N
  <2>1. CASE j = 1
    <3>1. h[1].a = HDSGPT BY <1>0, <2>1 DEF Laid, N
    <3>2. QED BY <2>1, <3>1
  <2>2. CASE j # 1
    <3>1. j - 1 \in 1..N - 1 /\ j - 1 # 0 /\ (j - 1) + 1 = j BY <1>0, <2>2
    <3>2. h[(j - 1) + 1].a = h[j - 1].a + Size(h[j - 1]) BY <3>1 DEF Laid, N
    <3>3. QED BY <3>1, <3>2
  <2>3. QED BY <2>1, <2>2
<1>16. End(N) = FRSGPT(h)
  <2>1. CASE N = 0
    <3>1. h = <<>> BY <1>0, <2>1 DEF N
    <3>2. QED BY <2>1, <3>1 DEF FRSGPT
  <2>2. CASE N # 0
    <3>1. h # <<>> BY <1>0, <2>2 DEF N
    <3>2. QED BY <2>2, <3>1 DEF FRSGPT, Last, N
  <2>3. QED BY <2>1, <2>2
<1> DEFINE A == {j \in Nat : j \in 0..N => sum(1..j) = End(j) - HDSGPT}
<1>17. 0 \in A
  <2>1. 1..0 = {} /\ {} \in SUBSET D OBVIOUS
  <2>2. sum(1..0) = 0 BY <1>9, <2>1
  <2>3. QED BY <1>0, <2>2
<1>18. ASSUME NEW j \in Nat, j \in A PROVE j + 1 \in A
  <2> SUFFICES ASSUME j + 1 \in 0..N PROVE sum(1..j + 1) = End(j + 1) - HDSGPT OBVIOUS
  <2>1. j \in 0..N /\ j + 1 \in 1..N /\ j + 1 # 0 /\ j + 1 - 1 = j BY <1>0
  <2>2. 1..j \in SUBSET D /\ j + 1 \in D \ (1..j) /\ 1..j + 1 = (1..j) \cup {j + 1} BY <1>0, <2>1 DEF D
  <2>3. sum(1..j + 1) = sum(1..j) + Size(h[j + 1]) BY <1>13, <2>2
  <2>4. sum(1..j) = End(j) - HDSGPT BY <1>18, <2>1
  <2>5. h[j + 1].a = End(j) /\ h[j + 1].a \in Int /\ Size(h[j + 1]) \in Int BY <1>14, <1>15, <2>1
  <2>6. End(j + 1) = h[j + 1].a + Size(h[j + 1]) BY <2>1
  <2> HIDE DEF End
  <2>7. QED BY <1>0, <2>3, <2>4, <2>5, <2>6
<1>19. N \in A
  <2> HIDE DEF A
  <2>1. QED BY <1>0, <1>17, <1>18, Induction
<1>20. sum(1..N) = End(N) - HDSGPT BY <1>0, <1>19
<1> HIDE DEF End
<1>21. sum(D) = FRSGPT(h) - HDSGPT BY <1>0, <1>16, <1>20
<1>22. QED BY <1>21, <1>11
------------------------------------------------------------------------------
\* GCM marks no more than what is reached.
LEMMA MarkLeast ==
  ASSUME NEW s, NEW X, s.heap \in Seq(X), NEW some, some \subseteq DOMAIN s.heap,
         NEW S, some \subseteq S, Reach(s, S) \subseteq S
  PROVE Mark(s, some) \subseteq S
<1> DEFINE N == Len(s.heap)
           D == DOMAIN s.heap
           G(w) == [n \in 0..N |-> some \cup IF n = 0 THEN {} ELSE Reach(s, w[n - 1])]
           reach == CHOOSE w : w = G(w)
           st == [p \in (1..N) \X SUBSET D |-> some \cup Reach(s, p[2])]
<1>0. N \in Nat /\ D = 1..N OBVIOUS
<1>1. Mark(s, some) = reach[N] BY DEF Mark, Reach
<1>2. \A R : Reach(s, R) \subseteq D BY TargetsType DEF Reach
<1>3. st \in [(1..N) \X SUBSET D -> SUBSET D] BY <1>2
<1>4. PICK f \in [0..N -> SUBSET D] : f[0] = some /\ \A j \in 1..N : f[j] = st[<<j, f[j - 1]>>]
  <2> DEFINE W == SUBSET D
  <2>1. some \in W /\ N \in Nat BY <1>0
  <2>2. st \in [(1..N) \X W -> W] BY <1>3
  <2> HIDE DEF st, N, D, W, G, reach
  <2>3. Recursive(W, some, N, st) BY <2>1, <2>2, Recursion
  <2>4. QED BY <2>3 DEF W, Recursive
<1>5. \A j \in 1..N : f[j] = some \cup Reach(s, f[j - 1])
  <2> SUFFICES ASSUME NEW j \in 1..N PROVE f[j] = some \cup Reach(s, f[j - 1]) OBVIOUS
  <2>1. j - 1 \in 0..N BY <1>0
  <2>2. f[j - 1] \in SUBSET D BY <2>1
  <2>3. <<j, f[j - 1]>> \in (1..N) \X SUBSET D BY <2>2
  <2> HIDE DEF D
  <2>4. st[<<j, f[j - 1]>>] = some \cup Reach(s, <<j, f[j - 1]>>[2]) BY <2>3
  <2>5. QED BY <1>4, <2>4
<1>6. f = G(f)
  <2>1. \A n \in 0..N : n = 0 \/ n \in 1..N OBVIOUS
  <2>2. \A n \in 0..N : f[n] = some \cup IF n = 0 THEN {} ELSE Reach(s, f[n - 1]) BY <1>4, <1>5, <2>1
  <2>3. QED BY <2>2
<1>7. reach = G(reach) BY <1>6
<1> HIDE DEF reach, D, N
<1>8. \A n \in 0..N : reach[n] = some \cup IF n = 0 THEN {} ELSE Reach(s, reach[n - 1])
  <2>1. \A n \in 0..N : G(reach)[n] = some \cup IF n = 0 THEN {} ELSE Reach(s, reach[n - 1]) OBVIOUS
  <2>2. QED BY <1>7, <2>1
<1> HIDE DEF G
<1> DEFINE T == {n \in Nat : n \in 0..N => reach[n] \subseteq S}
<1>9. 0 \in T
  <2>1. 0 \in 0..N BY <1>0
  <2>2. reach[0] = some \cup {} BY <1>8, <2>1
  <2>3. QED BY <2>2
<1>10. ASSUME NEW n \in Nat, n \in T PROVE n + 1 \in T
  <2> SUFFICES ASSUME n + 1 \in 0..N PROVE reach[n + 1] \subseteq S OBVIOUS
  <2>1. n \in 0..N /\ n + 1 # 0 /\ n + 1 - 1 = n BY <1>0
  <2>2. reach[n] \subseteq S BY <1>10, <2>1
  <2>3. reach[n + 1] = some \cup Reach(s, reach[n]) BY <1>8, <2>1
  <2>4. Reach(s, reach[n]) \subseteq Reach(s, S) BY <2>2, ReachGrows
  <2>5. QED BY <2>3, <2>4
<1> HIDE DEF T
<1>11. N \in T BY <1>0, <1>9, <1>10, Induction
<1>12. N \in 0..N BY <1>0
<1>13. QED BY <1>1, <1>11, <1>12 DEF T

\* A place that is in a block is not below HDSGPT.
LEMMA TopInside ==
  ASSUME StorageAssumption, NEW h, Laid(h), NEW c \in Cell, c.p, Top(h, c.a) # 0
  PROVE In(c)
<1>1. h \in Seq(BlockOf) /\ c.a \in Int /\ HDSGPT \in Int BY DEF Laid, Cell, StorageAssumption
<1>2. {k \in DOMAIN h : h[k].a <= c.a} # {} BY FS_EmptySet DEF Top
<1>3. PICK k \in DOMAIN h : h[k].a <= c.a BY <1>2
<1>4. HDSGPT <= h[k].a /\ h[k].a \in Int BY TopOwn
<1>5. QED BY <1>1, <1>3, <1>4 DEF In

\* What the bins hold are strings.
LEMMA BinsHold ==
  ASSUME StorageAssumption, NEW s, Laid(s.heap), BinsOf(s), NEW a \in InBins(s)
  PROVE \E k \in DOMAIN s.heap : s.heap[k].id \in Strings /\ a = s.heap[k].a /\ Top(s.heap, a) = k
<1>0. s.heap \in Seq(BlockOf) BY DEF Laid
<1>1. PICK b \in Bins : a \in Range(Tail(Chain(s, b))) BY DEF InBins
<1>2. PICK q : Strung(s, b, q) BY DEF BinsOf
<1>3. Chain(s, b) = Along(s, b, q) BY <1>2, ChainOf
<1>4. Len(q) \in Nat /\ DOMAIN q = 1..Len(q) /\ \A n \in DOMAIN q : q[n] \in DOMAIN s.heap BY <1>0, <1>2, StrungShort
<1>5. b \in Nat BY BinType
<1>6. \A k \in DOMAIN s.heap : Top(s.heap, s.heap[k].a) = k /\ s.heap[k].a \in Int BY TopOwn
<1> DEFINE w == Along(s, b, q)
           N == Len(q)
<1>7. w = [n \in 1..N + 1 |-> IF n = 1 THEN -b ELSE s.heap[q[n - 1]].a] BY DEF Along
<1>8. \A n \in 1..N + 1 : (IF n = 1 THEN -b ELSE s.heap[q[n - 1]].a) \in Int
  <2> TAKE n \in 1..N + 1
  <2>1. CASE n = 1 BY <1>5, <2>1
  <2>2. CASE n # 1
    <3>1. n - 1 \in 1..N BY <1>4, <2>2
    <3>2. q[n - 1] \in DOMAIN s.heap BY <1>4, <3>1
    <3>3. QED BY <1>6, <2>2, <3>2
  <2>3. QED BY <2>1, <2>2
<1>9. w \in [1..N + 1 -> Int] BY <1>7, <1>8
<1>10. \A n \in 1..N : n + 1 \in 1..N + 1 /\ n + 1 # 1 /\ (n + 1) - 1 = n BY <1>4
<1>11. \A n \in 1..N : w[n + 1] = s.heap[q[n]].a BY <1>7, <1>10
<1> HIDE DEF w
<1>12. N \in Nat BY <1>4
<1> HIDE DEF N
<1>13. w \in Seq(Int) /\ Len(w) = N + 1 /\ w # <<>> BY <1>9, <1>12
<1>14. DOMAIN Tail(w) = 1..N /\ \A n \in 1..N : Tail(w)[n] = w[n + 1] BY <1>12, <1>13
<1>15. PICK n \in 1..N : a = w[n + 1]
  <2>1. Range(Tail(w)) = {Tail(w)[n] : n \in 1..N} BY <1>14 DEF Range
  <2>2. a \in Range(Tail(w)) BY <1>1, <1>3 DEF w
  <2>3. QED BY <1>14, <2>1, <2>2
<1>16. a = s.heap[q[n]].a /\ n \in DOMAIN q BY <1>4, <1>11, <1>15 DEF N
<1>17. q[n] \in OfBin(s, b) BY <1>2, <1>16 DEF Strung
<1>18. q[n] \in DOMAIN s.heap /\ s.heap[q[n]].id \in Strings BY <1>17 DEF OfBin
<1>19. QED BY <1>6, <1>16, <1>18
------------------------------------------------------------------------------
\* A pointer names no place below HDSGPT.  (Only LSTPTR and BUKPTR do, and -1 and 0.)
Firm(c) == c.p => In(c)
FirmHeap(h) == \A k \in DOMAIN h : \A i \in DOMAIN h[k].cells : Firm(h[k].cells[i])
\* What OnlyWhenFull says is held in t.
Clutch(t, x) == Sight(t, x) \cup {RefOf(t.heap, t.reg["LSTPTR"]), RefOf(t.heap, t.reg["BUKPTR"])}

\* What a pointer means that leads into a block.
LEMMA TopMeans ==
  ASSUME StorageAssumption, NEW h, Laid(h), NEW c, Held(h, c), c.p, Top(h, c.a) # 0
  PROVE In(c) /\ All!Of(RefOf(h, c)) /\ RefOf(h, c).o = h[Top(h, c.a)].id
<1>1. c \in Cell BY DEF Held
<1>2. In(c) BY <1>1, TopInside
<1>3. QED BY <1>2, RefIs

\* After a regeneration there is no block that cannot be reached.
LEMMA GCKept ==
  ASSUME StorageAssumption, NEW s, Good(s), FirmHeap(s.heap), NEW x, NEW t, t = GC(s)
  PROVE \A j \in DOMAIN t.heap : t.heap[j].id \in All!Reached(ObjsOf(t.heap), Clutch(t, x))
<1> DEFINE K == Marked(s)
           g == ObjsOf(t.heap)
           cs == Clutch(t, x)
           R == All!Reached(g, cs)
           S == {k \in K : s.heap[k].id \in R}
<1>1. Good(t) /\ Regenerated(s, t) BY GCGood, GCRegenerates
<1>2. Keeps(s, K) /\ K \subseteq DOMAIN s.heap /\ t.heap = Moved(s, K) BY <1>1 DEF Regenerated, Keeps
<1>3. Laid(s.heap) /\ IdsOf(s.heap) /\ CellsOf(s.heap) /\ BinsOf(s) /\ s.heap \in Seq(BlockOf) BY DEF Good, Laid
<1>4. Laid(t.heap) /\ IdsOf(t.heap) /\ t.heap \in Seq(BlockOf) BY <1>1 DEF Good, Laid
<1>5. /\ \A z \in Regs : Follows(s, K, s.reg[z], t.heap, t.reg[z])
      /\ \A i \in DOMAIN s.stack : Follows(s, K, s.stack[i], t.heap, t.stack[i])
      /\ Len(t.stack) = Len(s.stack) /\ t.stack \in Seq(Cell) /\ s.stack \in Seq(Cell)
  BY <1>1 DEF Regenerated, Good
<1>6. (\A z \in Regs : Held(s.heap, s.reg[z])) /\ \A i \in DOMAIN s.stack : Held(s.heap, s.stack[i]) BY DEF Good
<1>7. Roots(s) \cup Valued(s) \subseteq K /\ K = Mark(s, Roots(s) \cup Valued(s))
  <2>1. Roots(s) \cup Valued(s) \subseteq DOMAIN s.heap BY <1>3, TargetsType DEF Roots, Valued
  <2>2. QED BY <1>3, <2>1, MarkClosed DEF Marked
<1>8. \A k \in K : /\ NewPlace(K, k) \in DOMAIN t.heap /\ t.heap[NewPlace(K, k)].id = s.heap[k].id
                   /\ ObjOf(t.heap, NewPlace(K, k)) = ObjOf(s.heap, k)
  BY <1>2, KeptObject
<1>9. \A j \in DOMAIN t.heap : \E k \in K : j = NewPlace(K, k) BY <1>2, <1>3, NewPlaceIs
<1>10. DOMAIN g = IdOf(t.heap) /\ IsFiniteSet(DOMAIN g)
       /\ \A j \in DOMAIN t.heap : t.heap[j].id \in DOMAIN g /\ g[t.heap[j].id] = ObjOf(t.heap, j)
  BY <1>4, ObjsIs
<1>11. \A k \in K : s.heap[k].id \in DOMAIN g /\ g[s.heap[k].id] = ObjOf(s.heap, k) BY <1>8, <1>10
<1> HIDE DEF K, g
<1>12. \A z \in Regs : RefOf(t.heap, t.reg[z]) = RefOf(s.heap, s.reg[z]) BY <1>2, <1>5, FollowsRef
<1>13. \A i \in DOMAIN s.stack : RefOf(t.heap, t.stack[i]) = RefOf(s.heap, s.stack[i]) BY <1>2, <1>5, FollowsRef
<1>14. \A z \in Regs : RefOf(s.heap, s.reg[z]) \in cs
  <2> TAKE z \in Regs
  <2>1. CASE z \in {"LSTPTR", "BUKPTR"} BY <1>12, <2>1 DEF Clutch
  <2>2. CASE z \notin {"LSTPTR", "BUKPTR"}
    <3>1. z \in Sighted /\ z # "XOCBSC" BY <2>2 DEF Sighted, Regs
    <3>2. SeesRegs(t, x)[z] = RefOf(t.heap, t.reg[z]) /\ z \in DOMAIN SeesRegs(t, x) BY <3>1 DEF SeesRegs
    <3>3. SeesRegs(t, x)[z] \in Range(SeesRegs(t, x)) BY <3>2 DEF Range
    <3>4. QED BY <1>12, <3>2, <3>3 DEF Clutch, Sight
  <2>3. QED BY <2>1, <2>2
<1>15. \A i \in DOMAIN s.stack : RefOf(s.heap, s.stack[i]) \in cs
  <2> TAKE i \in DOMAIN s.stack
  <2>1. i \in DOMAIN t.stack BY <1>5
  <2>2. SeesStack(t)[i] = RefOf(t.heap, t.stack[i]) /\ i \in DOMAIN SeesStack(t) BY <2>1 DEF SeesStack
  <2>3. SeesStack(t)[i] \in Range(SeesStack(t)) BY <2>2 DEF Range
  <2>4. QED BY <1>13, <2>2, <2>3 DEF Clutch, Sight
<1>16. Closed(g, cs, R) BY <1>10, ReachedIs
<1>17. Refs(cs) \subseteq R /\ Full(g) \subseteq R /\ Named(g, R) \subseteq R BY <1>16 DEF Closed
<1> HIDE DEF cs, R
<1>18. Roots(s) \subseteq S
  <2> SUFFICES ASSUME NEW k \in Roots(s) PROVE s.heap[k].id \in R BY <1>7
  <2>1. PICK c \in {s.reg[z] : z \in RootRegs} \cup Range(s.stack) : c.p /\ k = Top(s.heap, c.a) /\ k # 0 BY DEF Roots, Targets
  <2>2. Held(s.heap, c) /\ RefOf(s.heap, c) \in cs BY <1>6, <1>14, <1>15 DEF RootRegs, Range
  <2>3. All!Of(RefOf(s.heap, c)) /\ RefOf(s.heap, c).o = s.heap[k].id BY <1>3, <2>1, <2>2, TopMeans
  <2>4. RefOf(s.heap, c).o \in Refs(cs) BY <2>2, <2>3 DEF Refs
  <2>5. QED BY <1>17, <2>3, <2>4
<1>19. Valued(s) \subseteq S
  <2> SUFFICES ASSUME NEW k \in Valued(s) PROVE s.heap[k].id \in R BY <1>7
  <2>1. k \in K /\ k \in DOMAIN s.heap BY <1>2, <1>7
  <2>2. Range(s.heap[k].cells) # {Zero} BY DEF Valued
  <2>3. PICK a \in InBins(s) : k = Top(s.heap, a) BY DEF Valued, Targets, Ptr
  <2>4. s.heap[k].id \in Strings BY <1>3, <2>3, BinsHold
  <2>5. s.heap[k].cells \in Seq(Cell) /\ Len(s.heap[k].cells) = 2
    <3>1. s.heap[k] \in BlockOf BY <1>3, <2>1
    <3>2. QED BY <1>3, <2>1, <2>4, <3>1 DEF BlockOf, CellsOf
  <2>6. PICK i \in DOMAIN s.heap[k].cells : s.heap[k].cells[i] # Zero
    <3>1. CASE \A i \in DOMAIN s.heap[k].cells : s.heap[k].cells[i] = Zero
      <4>1. DOMAIN s.heap[k].cells = 1..2 /\ 1 \in 1..2 BY <2>5
      <4>2. Range(s.heap[k].cells) = {Zero} BY <3>1, <4>1 DEF Range
      <4>3. QED BY <2>2, <4>2
    <3>2. QED BY <3>1
  <2> DEFINE c == s.heap[k].cells[i]
  <2>7. c \in Cell /\ Held(s.heap, c) /\ Firm(c) /\ c # Zero BY <1>3, <2>1, <2>5, <2>6 DEF CellsOf, FirmHeap
  <2> HIDE DEF c
  <2>8. RefOf(s.heap, c) # All!Zero
    <3>1. CASE In(c)
      <4>1. All!Of(RefOf(s.heap, c)) BY <1>3, <2>7, <3>1, RefIs
      <4>2. ~All!Of(All!Zero) BY DEF All!Of, All!Zero
      <4>3. QED BY <4>1, <4>2
    <3>2. CASE ~In(c)
      <4>1. ~c.p /\ c.a \in Int /\ c = [p |-> FALSE, a |-> c.a] BY <2>7, <3>2 DEF Firm, Cell
      <4>2. c.a # 0 BY <2>7, <4>1 DEF Zero
      <4>3. RefOf(s.heap, c) = [n |-> c.a] BY <3>2 DEF RefOf
      <4>4. [n |-> c.a].n # [n |-> 0].n BY <4>2
      <4>5. QED BY <4>3, <4>4 DEF All!Zero
    <3>3. QED BY <3>1, <3>2
  <2>9. ObjOf(s.heap, k)[i] = RefOf(s.heap, c) /\ i \in DOMAIN ObjOf(s.heap, k) BY DEF ObjOf, c
  <2>10. Range(ObjOf(s.heap, k)) # {All!Zero} BY <2>8, <2>9 DEF Range
  <2>11. s.heap[k].id \in DOMAIN g /\ g[s.heap[k].id] = ObjOf(s.heap, k) BY <1>11, <2>1
  <2>12. s.heap[k].id \in Full(g) BY <2>4, <2>10, <2>11 DEF Full
  <2>13. QED BY <1>17, <2>12
<1>20. Reach(s, S) \subseteq S
  <2> SUFFICES ASSUME NEW k \in Reach(s, S) PROVE k \in S OBVIOUS
  <2>1. PICK c \in UNION {Range(Scanned(s.heap[l])) : l \in S} : c.p /\ k = Top(s.heap, c.a) /\ k # 0 BY DEF Reach, Targets
  <2>2. PICK l \in S : c \in Range(s.heap[l].cells) BY <2>1 DEF Scanned
  <2>3. PICK i \in DOMAIN s.heap[l].cells : c = s.heap[l].cells[i] BY <2>2 DEF Range
  <2>4. l \in K /\ l \in DOMAIN s.heap /\ s.heap[l].id \in R BY <1>2, <2>2
  <2>5. Held(s.heap, c) /\ Rooted(s, K, c) BY <1>2, <1>3, <2>3, <2>4 DEF CellsOf, Keeps
  <2>6. In(c) /\ All!Of(RefOf(s.heap, c)) /\ RefOf(s.heap, c).o = s.heap[k].id BY <1>3, <2>1, <2>5, TopMeans
  <2>7. k \in K BY <2>1, <2>5, <2>6 DEF Rooted
  <2>8. s.heap[l].id \in DOMAIN g /\ g[s.heap[l].id] = ObjOf(s.heap, l) BY <1>11, <2>4
  <2>9. ObjOf(s.heap, l)[i] = RefOf(s.heap, c) /\ i \in DOMAIN ObjOf(s.heap, l) BY <2>3 DEF ObjOf
  <2>10. RefOf(s.heap, c) \in Range(g[s.heap[l].id]) BY <2>8, <2>9 DEF Range
  <2>11. RefOf(s.heap, c) \in UNION {Range(g[o]) : o \in R \cap DOMAIN g} BY <2>4, <2>8, <2>10
  <2>12. RefOf(s.heap, c).o \in Named(g, R) BY <2>6, <2>11 DEF Named, Refs
  <2>13. QED BY <1>17, <2>6, <2>7, <2>12
<1>21. K \subseteq S
  <2>1. Roots(s) \cup Valued(s) \subseteq DOMAIN s.heap BY <1>2, <1>7
  <2>2. Roots(s) \cup Valued(s) \subseteq S BY <1>18, <1>19
  <2> HIDE DEF S
  <2>3. Mark(s, Roots(s) \cup Valued(s)) \subseteq S BY <1>3, <1>20, <2>1, <2>2, MarkLeast
  <2>4. QED BY <1>7, <2>3
<1>22. ASSUME NEW j \in DOMAIN t.heap PROVE t.heap[j].id \in R
  <2>1. PICK k \in K : j = NewPlace(K, k) BY <1>9
  <2>2. t.heap[j].id = s.heap[k].id BY <1>8, <2>1
  <2>3. QED BY <1>21, <2>1, <2>2
<1>23. QED BY <1>22 DEF R, cs, g
------------------------------------------------------------------------------
\* What the program works with holds pointers into blocks only.
Solid(s) == /\ FirmHeap(s.heap) /\ \A i \in DOMAIN s.stack : Firm(s.stack[i])
            /\ Firm(s.reg["XPTR"]) /\ Firm(s.reg["YPTR"])
\* t has no block that cannot be reached, and no room for n.
Tight(t, x, n) == /\ \A j \in DOMAIN t.heap : t.heap[j].id \in All!Reached(ObjsOf(t.heap), Clutch(t, x))
                  /\ n \in Int /\ ~(n <= Room(t))
Snug == Solid(m) /\ (full # 0 => Tight(m, xocbsc, full))

LEMMA FollowsFirm ==
  ASSUME NEW s, NEW K, NEW c, Firm(c), NEW h, NEW d, Follows(s, K, c, h, d)
  PROVE Firm(d)
BY DEF Follows, Firm, In

LEMMA GCSolid ==
  ASSUME StorageAssumption, NEW s, Good(s), Solid(s)
  PROVE Solid(GC(s))
<1> DEFINE t == GC(s)
           K == Marked(s)
<1>1. Regenerated(s, t) BY GCRegenerates
<1>2. /\ Keeps(s, K) /\ K \subseteq DOMAIN s.heap /\ t.heap = Moved(s, K)
      /\ \A z \in Regs : Follows(s, K, s.reg[z], t.heap, t.reg[z])
      /\ t.stack \in Seq(Cell) /\ Len(t.stack) = Len(s.stack)
      /\ \A i \in DOMAIN s.stack : Follows(s, K, s.stack[i], t.heap, t.stack[i])
  BY <1>1 DEF Regenerated, Keeps
<1>3. Laid(s.heap) /\ CellsOf(s.heap) /\ BinsOf(s) /\ s.stack \in Seq(Cell) BY DEF Good
<1> HIDE DEF K, t
<1>4. Firm(t.reg["XPTR"]) /\ Firm(t.reg["YPTR"])
  <2>1. Firm(s.reg["XPTR"]) /\ Firm(s.reg["YPTR"]) BY DEF Solid
  <2>2. Follows(s, K, s.reg["XPTR"], t.heap, t.reg["XPTR"]) /\ Follows(s, K, s.reg["YPTR"], t.heap, t.reg["YPTR"])
    BY <1>2, RegsAre
  <2>3. QED BY <2>1, <2>2, FollowsFirm
<1>5. ASSUME NEW i \in DOMAIN t.stack PROVE Firm(t.stack[i])
  <2>1. i \in DOMAIN s.stack BY <1>2, <1>3
  <2>2. Firm(s.stack[i]) BY <2>1 DEF Solid
  <2>3. Follows(s, K, s.stack[i], t.heap, t.stack[i]) BY <1>2, <2>1
  <2>4. QED BY <2>2, <2>3, FollowsFirm
<1>6. ASSUME NEW j \in DOMAIN t.heap, NEW i \in DOMAIN t.heap[j].cells PROVE Firm(t.heap[j].cells[i])
  <2> DEFINE k == Nth(K, j)
  <2>1. k \in K /\ NewPlace(K, k) = j BY <1>2, <1>3, NewPlaceIs
  <2> HIDE DEF k
  <2>2. t.heap[j] = Kept(s, K, k) BY <1>2, <1>3, <2>1, NewPlaceIs
  <2>3. KeptAs(s, K, k) BY <1>2, <1>3, <2>1, KeptIs
  <2> DEFINE c == s.heap[k].cells[i]
  <2>4. k \in DOMAIN s.heap /\ i \in DOMAIN s.heap[k].cells /\ t.heap[j].cells[i] = Relocated(s, K, c)
    BY <1>2, <2>1, <2>2, <2>3 DEF KeptAs
  <2>5. Firm(c) BY <2>4 DEF Solid, FirmHeap
  <2>6. Held(s.heap, c) /\ Rooted(s, K, c) BY <1>2, <1>3, <2>1, <2>4 DEF CellsOf, Keeps
  <2> HIDE DEF c
  <2>7. Follows(s, K, c, t.heap, Relocated(s, K, c)) BY <1>2, <1>3, <2>6, RelocatedFollows
  <2>8. QED BY <2>4, <2>5, <2>7, FollowsFirm
<1>7. QED BY <1>4, <1>5, <1>6 DEF Solid, FirmHeap, t

\* What is the case of a state is the case of the state that becomes it.
LEMMA SnugNext ==
  ASSUME NEW t, Solid(t), Become(t), full' = 0 \/ Tight(t, xocbsc', full')
  PROVE Snug'
<1> DEFINE u == m'
<1>1. u.heap = t.heap /\ u.bins = t.bins /\ u.reg = t.reg /\ u.stack = t.stack BY DEF m, Become
<1>2. Snug' = (Solid(u) /\ (full' # 0 => Tight(u, xocbsc', full'))) BY DEF Snug
<1> HIDE DEF u
<1>3. Solid(u) BY <1>1 DEF Solid
<1>4. Sight(u, xocbsc') = Sight(t, xocbsc') BY <1>1 DEF Sight, SeesRegs, SeesStack
<1>5. Clutch(u, xocbsc') = Clutch(t, xocbsc') BY <1>1, <1>4 DEF Clutch
<1>6. Tight(u, xocbsc', full') = Tight(t, xocbsc', full') BY <1>1, <1>5 DEF Tight, Room
<1>7. QED BY <1>2, <1>3, <1>6

\* A step of the program that leaves storage alone.
LEMMA PlainSnug ==
  ASSUME Solid(m), NEW t, t.heap = heap, Become(t), full' = 0, \A i \in DOMAIN t.stack : Firm(t.stack[i]),
         Firm(t.reg["XPTR"]), Firm(t.reg["YPTR"])
  PROVE Snug'
<1>1. m.heap = heap BY DEF m
<1>2. Solid(t) BY <1>1 DEF Solid
<1>3. QED BY <1>2, SnugNext

LEMMA RegSnug ==
  ASSUME Inv, Solid(m), NEW r \in Regs, NEW c, r \in Work => Firm(c), Become([m EXCEPT !.reg[r] = c]), full' = 0
  PROVE Snug'
<1> DEFINE t == [m EXCEPT !.reg[r] = c]
<1>1. t.heap = heap /\ t.stack = stack /\ t.reg = [reg EXCEPT ![r] = c] /\ Become(t) BY DEF m
<1> HIDE DEF t
<1>2. reg \in [Regs -> Cell] /\ m.reg = reg /\ m.stack = stack BY InvIs
<1>3. t.reg[r] = c /\ \A z \in Regs \ {r} : t.reg[z] = reg[z] BY <1>1, <1>2
<1>4. (\A i \in DOMAIN stack : Firm(stack[i])) /\ Firm(reg["XPTR"]) /\ Firm(reg["YPTR"]) BY <1>2 DEF Solid
<1>5. Firm(t.reg["XPTR"]) /\ Firm(t.reg["YPTR"]) BY <1>3, <1>4, RegsAre DEF Work
<1>6. QED BY <1>1, <1>4, <1>5, PlainSnug

\* An allocation regenerates before it gives up.
LEMMA AllocateSnug ==
  ASSUME StorageAssumption, ~Stale, NEW s, Near(s), Solid(s), NEW n \in Int, NEW new, Allocate(s, n, new),
         Near(Provided(s, n)) /\ Solid(Provided(s, n)) /\ n <= Room(Provided(s, n)) => Solid(new)
  PROVE Snug'
<1> DEFINE t == Provided(s, n)
<1>1. /\ xocbsc' = xocbsc /\ full = 0 /\ (n <= Room(s) \/ Stale \/ ~xocbsc.c.p)
      /\ (n <= Room(t) => Become(new) /\ full' = full) /\ (~(n <= Room(t)) => Become(t) /\ full' = n)
  BY DEF Allocate, Step
<1>2. Near(t) BY <1>1, NearProvided
<1>3. Good(s) BY NearIs
<1>4. Solid(t) BY <1>3, GCSolid DEF Provided
<1>5. CASE n <= Room(t)
  <2>1. Solid(new) BY <1>2, <1>4, <1>5
  <2> HIDE DEF t
  <2>2. QED BY <1>1, <1>5, <2>1, SnugNext
<1>6. CASE ~(n <= Room(t))
  <2>1. t = GC(s) BY <1>6 DEF Provided
  <2> HIDE DEF t
  <2>2. FirmHeap(s.heap) BY DEF Solid
  <2>3. \A j \in DOMAIN t.heap : t.heap[j].id \in All!Reached(ObjsOf(t.heap), Clutch(t, xocbsc')) BY <1>3, <2>1, <2>2, GCKept
  <2>4. Tight(t, xocbsc', full') BY <1>1, <1>6, <2>3 DEF Tight
  <2>5. QED BY <1>1, <1>4, <1>6, <2>4, SnugNext
<1>7. QED BY <1>5, <1>6

------------------------------------------------------------------------------
\* A block more.
LEMMA NewSolid ==
  ASSUME StorageAssumption, NEW s, Near(s), Solid(s), NEW cells, \A i \in DOMAIN cells : Firm(cells[i]),
         NEW t, NEW r \in Work, Differ(s, t, Block(s, cells), r, Free(s))
  PROVE Solid(t)
<1> DEFINE d == [a |-> FRSGPT(s.heap), id |-> Fresh(s), cells |-> cells, link |-> 0]
<1>1. Laid(s.heap) /\ s.heap \in Seq(BlockOf) /\ s.reg \in [Regs -> Cell] BY NearIs
<1>2. t.heap = Append(s.heap, d) /\ t.stack = s.stack /\ t.reg = [s.reg EXCEPT ![r] = Free(s)] BY DEF Differ, Block
<1>3. d.cells = cells OBVIOUS
<1> HIDE DEF d
<1>4. DOMAIN t.heap = DOMAIN s.heap \cup {Len(s.heap) + 1} /\ t.heap[Len(s.heap) + 1] = d
      /\ \A k \in DOMAIN s.heap : t.heap[k] = s.heap[k]
  BY <1>1, <1>2
<1>5. FirmHeap(s.heap) /\ (\A i \in DOMAIN s.stack : Firm(s.stack[i])) /\ Firm(s.reg["XPTR"]) /\ Firm(s.reg["YPTR"]) BY DEF Solid
<1>6. FirmHeap(t.heap) BY <1>3, <1>4, <1>5 DEF FirmHeap
<1>7. Firm(Free(s))
  <2>1. FRSGPT(s.heap) >= HDSGPT BY <1>1, LaidEnds DEF StorageAssumption
  <2>2. QED BY <2>1 DEF Free, Ptr, Firm, In
<1>8. Firm(t.reg["XPTR"]) /\ Firm(t.reg["YPTR"]) BY <1>1, <1>2, <1>5, <1>7, RegsAre DEF Work
<1>9. QED BY <1>2, <1>5, <1>6, <1>8 DEF Solid

LEMMA BLOCKSnug ==
  ASSUME StorageAssumption, ~Stale, Inv, Solid(m), BLOCK
  PROVE Snug'
<1>1. PICK n \in 1..2 : Allocate(m, n, Blocked(Provided(m, n), n)) BY DEF BLOCK
<1> DEFINE s == Provided(m, n)
           t == Blocked(s, n)
           cells == [i \in 1..n |-> Zero]
<1>2. Near(m) BY NearNow
<1>3. ASSUME Near(s), Solid(s) PROVE Solid(t)
  <2> HIDE DEF s
  <2>1. IsState(s) BY <1>3, NearIs
  <2>2. t = With(s, Block(s, cells), "XPTR", Free(s)) BY DEF Blocked, With
  <2>3. \A i \in DOMAIN cells : Firm(cells[i]) BY DEF Firm, Zero
  <2> HIDE DEF cells, t
  <2>4. Differ(s, t, Block(s, cells), "XPTR", Free(s)) BY <2>1, <2>2, WithIs
  <2>5. "XPTR" \in Work BY DEF Work
  <2>6. QED BY <1>3, <2>3, <2>4, <2>5, NewSolid
<1>4. Allocate(m, n, t) BY <1>1
<1> HIDE DEF t
<1>5. QED BY <1>2, <1>3, <1>4, AllocateSnug

\* A longer copy of a block.
LEMMA LongerSolid ==
  ASSUME StorageAssumption, NEW s, Near(s), Solid(s), NEW k \in DOMAIN s.heap, k = Top(s.heap, s.reg["YPTR"].a),
         NEW t, t = Lengthened(s)
  PROVE Solid(t)
<1> DEFINE c == s.reg["XPTR"]
           old == s.heap[k].cells
           cells == old \o <<c, c>>
<1>1. Laid(s.heap) /\ IsState(s) /\ s.reg \in [Regs -> Cell] BY NearIs
<1>2. old \in Seq(Cell)
  <2>1. s.heap[k] \in BlockOf BY <1>1, LaidType
  <2>2. QED BY <2>1 DEF BlockOf
<1>3. c \in Cell BY <1>1, RegsAre
<1>4. Firm(c) /\ \A i \in DOMAIN old : Firm(old[i]) BY DEF Solid, FirmHeap
<1>5. t = With(s, Block(s, cells), "YPTR", Free(s)) BY DEF Lengthened
<1> HIDE DEF c, old
<1>6. \A i \in DOMAIN cells : Firm(cells[i])
  <2> TAKE i \in DOMAIN cells
  <2>1. cells \in Seq(Cell) /\ Len(cells) = Len(old) + 2 /\ Len(old) \in Nat BY <1>2, <1>3
  <2>2. CASE i \in DOMAIN old BY <1>2, <1>4, <2>2
  <2>3. CASE i \notin DOMAIN old
    <3>1. i = Len(old) + 1 \/ i = Len(old) + 2 BY <1>2, <2>1, <2>3
    <3>2. cells[i] = c BY <1>2, <1>3, <3>1
    <3>3. QED BY <1>4, <3>2
  <2>4. QED BY <2>2, <2>3
<1> HIDE DEF cells
<1>7. Differ(s, t, Block(s, cells), "YPTR", Free(s)) BY <1>1, <1>5, WithIs
<1>8. "YPTR" \in Work BY DEF Work
<1>9. QED BY <1>6, <1>7, <1>8, NewSolid

\* Cells of a block are written.
Writes(t, l, i, j, c) ==
  /\ l \in DOMAIN heap /\ t.reg = reg /\ t.stack = stack
  /\ t.heap = [heap EXCEPT ![l].cells = [heap[l].cells EXCEPT ![i] = c, ![j] = c]]

LEMMA WritesSnug ==
  ASSUME Inv, Solid(m), NEW t, NEW l, NEW i, NEW j, NEW c, Writes(t, l, i, j, c), Firm(c), Become(t), full' = 0
  PROVE Snug'
<1> USE DEF Writes
<1> DEFINE old == heap[l].cells
           cells == [old EXCEPT ![i] = c, ![j] = c]
           d == [heap[l] EXCEPT !.cells = cells]
<1>1. m.heap = heap /\ m.reg = reg /\ m.stack = stack /\ heap \in Seq(BlockOf) BY InvIs
<1>2. d.cells = cells
  <2>1. heap[l] \in BlockOf BY <1>1
  <2>2. QED BY <2>1 DEF BlockOf
<1>3. DOMAIN cells = DOMAIN old /\ \A n \in DOMAIN old : cells[n] = c \/ cells[n] = old[n] OBVIOUS
<1>4. t.heap = [heap EXCEPT ![l] = d] OBVIOUS
<1> HIDE DEF cells, d
<1>5. FirmHeap(heap) /\ (\A n \in DOMAIN stack : Firm(stack[n])) /\ Firm(reg["XPTR"]) /\ Firm(reg["YPTR"]) BY <1>1 DEF Solid
<1>6. \A n \in DOMAIN cells : Firm(cells[n]) BY <1>3, <1>5 DEF FirmHeap
<1>7. DOMAIN t.heap = DOMAIN heap /\ t.heap[l] = d /\ \A k \in DOMAIN heap : k # l => t.heap[k] = heap[k] BY <1>4
<1>8. FirmHeap(t.heap) BY <1>2, <1>5, <1>6, <1>7 DEF FirmHeap
<1>9. Solid(t) BY <1>5, <1>8 DEF Solid
<1>10. QED BY <1>9, SnugNext

LEMMA AUGATLSnug ==
  ASSUME StorageAssumption, ~Stale, Inv, Solid(m), AUGATL
  PROVE Snug'
<1> DEFINE y == reg["YPTR"]
           l == Top(heap, y.a)
           pairs == heap[l].cells
           free == {i \in DOMAIN pairs : i % 2 = 1 /\ pairs[i] = Zero}
           n == Len(pairs) + 2
           s == Provided(m, n)
           t == Lengthened(s)
           c == reg["XPTR"]
<1>1. /\ y.p /\ l # 0
      /\ free = {} => Allocate(m, n, [s EXCEPT !.heap = Block(s, s.heap[Top(s.heap, s.reg["YPTR"].a)].cells \o <<s.reg["XPTR"], s.reg["XPTR"]>>),
                                              !.reg["YPTR"] = Free(s)])
      /\ free # {} => /\ full = 0 /\ full' = full
                      /\ Become([m EXCEPT !.heap[l].cells[Min(free)] = c, !.heap[l].cells[Min(free) + 1] = c])
  BY DEF AUGATL, Step, Still
<1>2. "YPTR" \in Regs BY RegsAre
<1>3. Near(m) /\ Laid(heap) /\ m.heap = heap /\ m.reg = reg /\ heap \in Seq(BlockOf) BY InvIs, NearNow
<1>4. Held(heap, y) BY <1>2, InvIs
<1>5. In(y)
  <2>1. y \in Cell BY <1>4 DEF Held
  <2> HIDE DEF y
  <2>2. QED BY <1>1, <1>3, <2>1, TopInside
<1>6. l \in DOMAIN heap BY <1>3, <1>4, <1>5, HeldIn
<1>7. CASE free = {}
  <2>1. ASSUME Near(s), Solid(s) PROVE Solid(t)
    <3>1. SeenRegs["YPTR"] = RefOf(heap, y) /\ SeenRegs["YPTR"] = RefOf(s.heap, s.reg["YPTR"])
          /\ All!Of(SeenRegs["YPTR"]) = In(y) /\ All!Of(SeenRegs["YPTR"]) = In(s.reg["YPTR"])
      <4>1. "YPTR" \in Regs \ {"LSTPTR", "BUKPTR"} BY <1>2
      <4> HIDE DEF s
      <4>2. QED BY <1>3, <2>1, <4>1, NearObject
    <3>2. In(s.reg["YPTR"]) BY <1>5, <3>1
    <3> HIDE DEF s
    <3>3. Laid(s.heap) /\ Held(s.heap, s.reg["YPTR"]) BY <1>2, <2>1, NearIs
    <3>4. Top(s.heap, s.reg["YPTR"].a) \in DOMAIN s.heap BY <3>2, <3>3, HeldIn
    <3>5. QED BY <2>1, <3>4, LongerSolid
  <2>2. Allocate(m, n, t) BY <1>1, <1>7 DEF Lengthened, With
  <2>3. n \in Int
    <3>1. heap[l] \in BlockOf BY <1>3, <1>6
    <3>2. pairs \in Seq(Cell) BY <3>1 DEF BlockOf
    <3>3. QED BY <3>2
  <2> HIDE DEF n, t
  <2>4. QED BY <1>3, <2>1, <2>2, <2>3, AllocateSnug
<1>8. CASE free # {}
  <2> DEFINE i == Min(free)
             u == [m EXCEPT !.heap[l].cells[i] = c, !.heap[l].cells[i + 1] = c]
             cells == [pairs EXCEPT ![i] = c, ![i + 1] = c]
  <2>1. Become(u) /\ full' = 0 BY <1>1, <1>8
  <2> HIDE DEF i, free
  <2>2. u.reg = reg /\ u.stack = stack /\ u.heap = [heap EXCEPT ![l].cells[i] = c, ![l].cells[i + 1] = c]
    <3> DEFINE h1 == [heap EXCEPT ![l].cells[i] = c]
               u1 == [m EXCEPT !.heap[l].cells[i] = c]
               h == [h1 EXCEPT ![l].cells[i + 1] = c]
    <3>1. u1 = [heap |-> h1, bins |-> bins, reg |-> reg, stack |-> stack] BY DEF m
    <3>2. u = [u1 EXCEPT !.heap[l].cells[i + 1] = c] OBVIOUS
    <3> HIDE DEF h1, u1
    <3>3. u = [heap |-> h, bins |-> bins, reg |-> reg, stack |-> stack] BY <3>1, <3>2
    <3> HIDE DEF h, u
    <3>4. u.heap = h /\ u.reg = reg /\ u.stack = stack BY <3>3
    <3>5. QED BY <3>4 DEF h, h1
  <2>3. u.heap = [heap EXCEPT ![l].cells = cells]
    <3>1. heap[l] \in BlockOf /\ DOMAIN heap = 1..Len(heap) BY <1>3, <1>6
    <3> HIDE DEF l, u, c
    <3> DEFINE b == heap[l]
               b1 == [b EXCEPT !.cells = [pairs EXCEPT ![i] = c]]
               b2 == [b1 EXCEPT !.cells = [b1.cells EXCEPT ![i + 1] = c]]
    <3>2. b1.cells = [pairs EXCEPT ![i] = c] BY <3>1 DEF BlockOf
    <3>3. b2 = [b EXCEPT !.cells = cells] BY <3>1, <3>2 DEF BlockOf
    <3> DEFINE h1 == [heap EXCEPT ![l] = b1]
    <3>4. h1[l] = b1 BY <1>6
    <3>5. u.heap = [h1 EXCEPT ![l] = b2] BY <2>2, <3>4
    <3> HIDE DEF b1, b2
    <3>6. u.heap = [heap EXCEPT ![l] = b2] BY <3>5
    <3>7. QED BY <3>3, <3>6
  <2>4. Firm(c) BY <1>3 DEF Solid
  <2> HIDE DEF l, u, c
  <2>5. Writes(u, l, i, i + 1, c) BY <1>6, <2>2, <2>3 DEF Writes
  <2>6. QED BY <2>1, <2>4, <2>5, WritesSnug
<1>9. QED BY <1>7, <1>8

LEMMA PutDSnug ==
  ASSUME StorageAssumption, Inv, Solid(m), PutD
  PROVE Snug'
<1>1. PICK i \in 1..2 :
        /\ In(reg["YPTR"]) /\ Do([m EXCEPT !.heap[Obj(reg["YPTR"])].cells[Off(reg["YPTR"]) + i] = reg["XPTR"]])
  BY DEF PutD
<1> DEFINE l == Obj(reg["YPTR"])
           j == Off(reg["YPTR"]) + i
           c == reg["XPTR"]
           t == [m EXCEPT !.heap[l].cells[j] = c]
<1>2. "YPTR" \in Regs BY RegsAre
<1>3. Laid(heap) /\ m.reg = reg /\ Held(heap, reg["YPTR"]) BY <1>2, InvIs
<1>4. l \in DOMAIN heap BY <1>1, <1>3, HeldIn DEF Obj
<1>5. t.heap = [heap EXCEPT ![l].cells[j] = c] /\ t.reg = reg /\ t.stack = stack BY DEF m
<1>6. Become(t) /\ full' = 0 BY <1>1 DEF Do, Step, Still
<1>7. Firm(c) BY <1>3 DEF Solid
<1> HIDE DEF t, l, j, c
<1>8. [heap[l].cells EXCEPT ![j] = c] = [heap[l].cells EXCEPT ![j] = c, ![j] = c] OBVIOUS
<1>9. t.heap = [heap EXCEPT ![l].cells = [heap[l].cells EXCEPT ![j] = c, ![j] = c]] BY <1>5, <1>8
<1>10. Writes(t, l, j, j, c) BY <1>4, <1>5, <1>9 DEF Writes
<1>11. QED BY <1>6, <1>7, <1>10, WritesSnug

------------------------------------------------------------------------------
\* The table of strings.
LEMMA LocatedSolid ==
  ASSUME StorageAssumption, NEW s, Near(s), Solid(s), NEW t \in Strings
  PROVE Solid(Located(s, t))
<1> DEFINE l == Located(s, t)
<1>1. Good(s) BY NearIs
<1>2. l.heap = s.heap /\ l.stack = s.stack /\ \A z \in Regs \ {"LSTPTR", "BUKPTR"} : l.reg[z] = s.reg[z]
  BY <1>1, LocatedIs
<1> HIDE DEF l
<1>3. l.reg["XPTR"] = s.reg["XPTR"] /\ l.reg["YPTR"] = s.reg["YPTR"] BY <1>2, RegsAre
<1>4. QED BY <1>2, <1>3 DEF Solid, l

LEMMA FoundSolid ==
  ASSUME StorageAssumption, NEW s, Near(s), Solid(s), NEW t \in Strings, Present(s, t)
  PROVE Solid(Found(s, t))
<1> DEFINE e == Found(s, t)
           c == s.reg["BUKPTR"]
<1>1. Laid(s.heap) /\ IsState(s) /\ s.reg \in [Regs -> Cell] BY NearIs
<1>2. e = [s EXCEPT !.reg["XPTR"] = c] BY DEF Found
<1>3. Firm(c)
  <2>1. PICK k \in DOMAIN s.heap : c = Ptr(s.heap[k].a) BY DEF Present
  <2>2. s.heap[k].a >= HDSGPT BY <1>1, TopOwn
  <2>3. QED BY <2>1, <2>2 DEF Firm, In, Ptr
<1> HIDE DEF e, c
<1>4. s = [heap |-> s.heap, bins |-> s.bins, reg |-> s.reg, stack |-> s.stack] BY <1>1 DEF IsState
<1>5. e.heap = s.heap /\ e.stack = s.stack /\ e.reg = [s.reg EXCEPT !["XPTR"] = c] BY <1>2, <1>4
<1>6. e.reg["XPTR"] = c /\ e.reg["YPTR"] = s.reg["YPTR"] BY <1>1, <1>5, RegsAre
<1>7. QED BY <1>3, <1>5, <1>6 DEF Solid, e

LEMMA EnteredSolid ==
  ASSUME StorageAssumption, NEW s, Near(s), Solid(s), NEW t \in Strings, Absent(s, t), 3 + Words[t] <= Room(s)
  PROVE Solid(Entered(s, t))
<1> DEFINE e == Entered(s, t)
           N == Len(s.heap)
<1>1. Good(s) /\ Laid(s.heap) /\ s.heap \in Seq(BlockOf) /\ s.reg \in [Regs -> Cell] BY NearIs
<1>2. FRSGPT(s.heap) \in Int /\ HDSGPT <= FRSGPT(s.heap) BY <1>1, LaidEnds
<1>3. FRSGPT(s.heap) + 4 + Words[t] <= TLSGP1
  <2>1. Words[t] \in Nat /\ TLSGP1 \in Nat BY DEF StorageAssumption
  <2>2. QED BY <1>2, <2>1 DEF Room
<1>4. Entering(s, t, e) BY <1>1, <1>3, EnteredGood
<1> HIDE DEF e
<1>5. e.stack = s.stack /\ e.reg = [s.reg EXCEPT !["XPTR"] = Free(s)] BY <1>4 DEF Entering
<1>6. e.heap \in Seq(BlockOf) /\ Len(e.heap) = N + 1 /\ e.heap[N + 1].cells = <<Zero, Zero>>
      /\ \A k \in DOMAIN s.heap : e.heap[k].cells = s.heap[k].cells
  BY <1>4 DEF Entering, Laid
<1>7. N \in Nat /\ DOMAIN s.heap = 1..N /\ DOMAIN e.heap = 1..N + 1 BY <1>1, <1>6
<1>8. FirmHeap(s.heap) /\ (\A i \in DOMAIN s.stack : Firm(s.stack[i])) /\ Firm(s.reg["XPTR"]) /\ Firm(s.reg["YPTR"]) BY DEF Solid
<1> HIDE DEF N
<1>9. ASSUME NEW k \in DOMAIN e.heap, NEW i \in DOMAIN e.heap[k].cells PROVE Firm(e.heap[k].cells[i])
  <2>1. CASE k = N + 1
    <3>1. e.heap[k].cells[i] = Zero BY <1>6, <2>1
    <3>2. QED BY <3>1 DEF Firm, Zero
  <2>2. CASE k # N + 1
    <3>1. k \in DOMAIN s.heap BY <1>7, <2>2
    <3>2. QED BY <1>6, <1>8, <3>1 DEF FirmHeap
  <2>3. QED BY <2>1, <2>2
<1>10. Firm(Free(s)) BY <1>2 DEF Free, Ptr, Firm, In, StorageAssumption
<1>11. e.reg["XPTR"] = Free(s) /\ e.reg["YPTR"] = s.reg["YPTR"] BY <1>1, <1>5, RegsAre
<1>12. QED BY <1>5, <1>8, <1>9, <1>10, <1>11 DEF Solid, FirmHeap, e

LEMMA GENVARSnug ==
  ASSUME StorageAssumption, ~Stale, Inv, Solid(m), GENVAR
  PROVE Snug'
<1>1. PICK t \in Strings :
        LET l == Located(m, t)
            n == 3 + Words[t]
        IN IF IsThere(l, t) THEN Step /\ Become(Found(l, t)) /\ Still ELSE Allocate(l, n, Entered(Provided(l, n), t))
  BY DEF GENVAR
<1> DEFINE l == Located(m, t)
           n == 3 + Words[t]
           s == Provided(l, n)
<1>2. Near(m) BY NearNow
<1>3. Near(l) /\ Solid(l) /\ IF IsThere(l, t) THEN Present(l, t) ELSE Absent(l, t)
  BY <1>2, NearLocated, LocatedSound, LocatedSolid DEF Near
<1>4. IF IsThere(l, t) THEN Step /\ Become(Found(l, t)) /\ Still ELSE Allocate(l, n, Entered(s, t)) BY <1>1
<1> HIDE DEF l
<1>5. CASE IsThere(l, t)
  <2>1. Become(Found(l, t)) /\ full' = 0 BY <1>4, <1>5 DEF Step, Still
  <2>2. Solid(Found(l, t)) BY <1>3, <1>5, FoundSolid
  <2>3. QED BY <2>1, <2>2, SnugNext
<1>6. CASE ~IsThere(l, t)
  <2>1. Absent(s, t)
    <3>1. CASE n <= Room(l) BY <1>3, <1>6, <3>1 DEF Provided
    <3>2. CASE ~(n <= Room(l))
      <4>1. s = GC(l) BY <3>2 DEF Provided
      <4>2. Good(l) /\ Absent(l, t) BY <1>3, <1>6, NearIs
      <4>3. QED BY <4>1, <4>2, AbsentKept
    <3>3. QED BY <3>1, <3>2
  <2>2. ASSUME Near(s), Solid(s), n <= Room(s) PROVE Solid(Entered(s, t))
    <3> HIDE DEF s
    <3>1. QED BY <2>1, <2>2, EnteredSolid
  <2>3. Allocate(l, n, Entered(s, t)) BY <1>4, <1>6
  <2>4. n \in Int BY DEF StorageAssumption
  <2> HIDE DEF n
  <2>5. QED BY <1>3, <2>2, <2>3, <2>4, AllocateSnug
<1>7. QED BY <1>5, <1>6

LEMMA CONVARSnug ==
  ASSUME StorageAssumption, ~Stale, Inv, Solid(m), CONVAR
  PROVE Snug'
<1>1. PICK t \in Strings : \E n \in Words[t]..Words[t] + 1 : Allocate(m, 3 + n, Loca1(Provided(m, 3 + n), t)) BY DEF CONVAR
<1>2. PICK n \in Words[t]..Words[t] + 1 : Allocate(m, 3 + n, Loca1(Provided(m, 3 + n), t)) BY <1>1
<1> DEFINE k == 3 + n
           s == Provided(m, k)
           l == Located(s, t)
<1>3. Near(m) BY NearNow
<1>4. ASSUME Near(s), Solid(s), k <= Room(s) PROVE Solid(Loca1(s, t))
  <2>1. Near(l) /\ Solid(l) /\ IF IsThere(l, t) THEN Present(l, t) ELSE Absent(l, t)
    <3> HIDE DEF s
    <3>1. QED BY <1>4, NearLocated, LocatedSound, LocatedSolid DEF Near
  <2>2. Room(l) = Room(s) /\ Room(l) \in Int
    <3>1. Good(s) BY <1>4, NearIs
    <3> HIDE DEF s
    <3>2. l.heap = s.heap BY <3>1, LocatedIs
    <3>3. FRSGPT(s.heap) \in Int /\ TLSGP1 \in Nat BY <3>1, LaidEnds DEF Good, StorageAssumption
    <3>4. QED BY <3>2, <3>3 DEF Room
  <2>3. 3 + Words[t] <= Room(l)
    <3>1. Words[t] \in Nat /\ n \in Int /\ Words[t] <= n BY DEF StorageAssumption
    <3> HIDE DEF s, l
    <3>2. QED BY <1>4, <2>2, <3>1
  <2>4. Loca1(s, t) = IF IsThere(l, t) THEN Found(l, t) ELSE Entered(l, t) BY DEF Loca1
  <2> HIDE DEF l, s
  <2>5. CASE IsThere(l, t) BY <2>1, <2>4, <2>5, FoundSolid
  <2>6. CASE ~IsThere(l, t) BY <2>1, <2>3, <2>4, <2>6, EnteredSolid
  <2>7. QED BY <2>5, <2>6
<1>5. Allocate(m, k, Loca1(s, t)) BY <1>2
<1>6. k \in Int BY DEF StorageAssumption
<1> HIDE DEF k
<1>7. QED BY <1>3, <1>4, <1>5, <1>6, AllocateSnug

------------------------------------------------------------------------------
\* The other steps.
LEMMA COLECTSnug ==
  ASSUME StorageAssumption, Inv, Solid(m), COLECT
  PROVE Snug'
<1>1. Become(GC(m)) /\ full' = 0 BY DEF COLECT, Step, Still
<1>2. Solid(GC(m)) BY InvIs, GCSolid
<1>3. QED BY <1>1, <1>2, SnugNext

LEMMA SPLITSnug ==
  ASSUME StorageAssumption, Inv, Solid(m), SPLIT
  PROVE Snug'
<1> DEFINE c == reg["XPTR"]
           k == Obj(c)
           i == Off(c)
           b == heap[k]
           first == [b EXCEPT !.cells = SubSeq(@, 1, i)]
           rest == [b EXCEPT !.a = c.a + 1, !.id = Fresh(m), !.cells = SubSeq(@, i + 2, Len(@))]
           g == SubSeq(heap, 1, k - 1) \o <<first, rest>> \o SubSeq(heap, k + 1, Len(heap))
<1>1. /\ In(c) /\ b.id \in Ids /\ full' = 0
      /\ IF i = 0 \/ i + 1 >= Len(b.cells) THEN Do(m)
         ELSE Do([m EXCEPT !.heap = SubSeq(@, 1, k - 1) \o <<first, rest>> \o SubSeq(@, k + 1, Len(@))])
  BY DEF SPLIT, Do, Step, Still
<1>2. m.heap = heap /\ m.bins = bins /\ m.reg = reg /\ m.stack = stack BY DEF m
<1>3. Laid(heap) /\ heap \in Seq(BlockOf) /\ FRSGPT(heap) <= TLSGP1 /\ Held(heap, c) BY RegsAre, InvIs
<1>4. CASE i = 0 \/ i + 1 >= Len(b.cells)
  <2>1. Become(m) BY <1>1, <1>4 DEF Do
  <2>2. QED BY <1>1, <2>1, SnugNext
<1>5. CASE ~(i = 0 \/ i + 1 >= Len(b.cells))
  <2> DEFINE t == [m EXCEPT !.heap = g]
  <2>1. Become(t) BY <1>1, <1>2, <1>5 DEF Do
  <2>2. t.heap = g /\ t.reg = reg /\ t.stack = stack
    <3> HIDE DEF g
    <3>1. t = [heap |-> g, bins |-> bins, reg |-> reg, stack |-> stack] BY DEF m
    <3>2. QED BY <3>1
  <2> HIDE DEF t, g
  <2>3. k \in DOMAIN heap /\ c.a \in Int /\ b.a <= c.a BY <1>1, <1>3, HeldIn DEF Obj
  <2>4. b \in BlockOf BY <1>3, <2>3, LaidType
  <2>5. b.a \in Int /\ b.cells \in Seq(Cell) /\ Len(b.cells) \in Nat BY <2>4 DEF BlockOf
  <2>6. i = c.a - b.a BY DEF Off, Obj
  <2>7. FirmHeap(heap) /\ (\A n \in DOMAIN stack : Firm(stack[n])) /\ Firm(reg["XPTR"]) /\ Firm(reg["YPTR"]) BY <1>2 DEF Solid
  <2>8. \A n \in DOMAIN b.cells : Firm(b.cells[n]) BY <2>3, <2>7 DEF FirmHeap
  <2> HIDE DEF k, b, c
  <2>9. i \in Nat /\ i > 0 /\ i + 1 < Len(b.cells)
    <3> HIDE DEF i
    <3>1. i \in Nat BY <2>3, <2>5, <2>6
    <3>2. QED BY <1>5, <2>5, <3>1
  <2> HIDE DEF i
  <2>10. Fresh(m) \in Ids BY <1>2, <1>3, FreshIs
  <2>11. first \in BlockOf /\ first.cells \in Seq(Cell) /\ \A n \in DOMAIN first.cells : Firm(first.cells[n])
    <3> DEFINE w == SubSeq(b.cells, 1, i)
    <3>1. 1 \in 1..Len(b.cells) + 1 /\ i \in 0..Len(b.cells) /\ 1 <= i + 1 BY <2>5, <2>9
    <3>2. w \in Seq(Cell) /\ Len(w) = i - 1 + 1 /\ \A n \in 1..i - 1 + 1 : w[n] = b.cells[1 + n - 1] BY <2>5, <3>1, PartIs
    <3>3. first.cells = w /\ first \in [a : Int, id : Strings \cup Ids, cells : {w}, link : Int] BY <2>4 DEF BlockOf
    <3> HIDE DEF w, first
    <3>4. DOMAIN w = 1..i /\ \A n \in 1..i : w[n] = b.cells[n] /\ n \in DOMAIN b.cells BY <2>5, <2>9, <3>2
    <3>5. first \in BlockOf BY <3>2, <3>3 DEF BlockOf
    <3>6. QED BY <2>8, <3>2, <3>3, <3>4, <3>5
  <2>12. rest \in BlockOf /\ rest.cells \in Seq(Cell) /\ \A n \in DOMAIN rest.cells : Firm(rest.cells[n])
    <3> DEFINE L == Len(b.cells)
               w == SubSeq(b.cells, i + 2, L)
    <3>1. i + 2 \in 1..L + 1 /\ L \in 0..L /\ i + 2 <= L + 1 BY <2>5, <2>9
    <3>2. w \in Seq(Cell) /\ Len(w) = L - (i + 2) + 1 /\ \A n \in 1..L - (i + 2) + 1 : w[n] = b.cells[i + 2 + n - 1]
      BY <2>5, <3>1, PartIs
    <3>3. c.a + 1 \in Int BY <2>3
    <3>4. rest.cells = w /\ rest \in [a : Int, id : Strings \cup Ids, cells : {w}, link : Int] BY <2>4, <2>10, <3>3 DEF BlockOf
    <3>5. L \in Nat /\ DOMAIN b.cells = 1..L /\ i + 1 < L BY <2>5, <2>9
    <3> HIDE DEF w, rest, L
    <3>6. DOMAIN w = 1..L - (i + 2) + 1 BY <3>2
    <3>7. \A n \in 1..L - (i + 2) + 1 : i + 2 + n - 1 \in 1..L BY <2>9, <3>5
    <3>8. \A n \in DOMAIN w : Firm(w[n]) BY <2>8, <3>2, <3>5, <3>6, <3>7
    <3>9. rest \in BlockOf BY <3>2, <3>4 DEF BlockOf
    <3>10. QED BY <3>2, <3>4, <3>8, <3>9
  <2> HIDE DEF first, rest
  <2>13. g = SubSeq(heap, 1, k - 1) \o <<first, rest>> \o SubSeq(heap, k + 1, Len(heap)) BY DEF g
  <2>14. Halved(BlockOf, heap, k, first, rest, g) BY <1>3, <2>3, <2>11, <2>12, <2>13, HalvesIs
  <2>15. FirmHeap(g)
    <3> SUFFICES ASSUME NEW j \in DOMAIN g PROVE \A n \in DOMAIN g[j].cells : Firm(g[j].cells[n]) BY DEF FirmHeap
    <3>1. k \in 1..Len(heap) /\ Len(heap) \in Nat /\ DOMAIN heap = 1..Len(heap) BY <1>3, <2>3
    <3>2. j \in 1..Len(heap) + 1 /\ g[j] = IF j < k THEN heap[j] ELSE IF j = k THEN first ELSE IF j = k + 1 THEN rest ELSE heap[j - 1]
      BY <2>14, <3>1 DEF Halved
    <3>3. g[j] = first \/ g[j] = rest \/ (j < k /\ g[j] = heap[j]) \/ (j > k + 1 /\ g[j] = heap[j - 1]) BY <3>1, <3>2
    <3>4. (j < k => j \in DOMAIN heap) /\ (j > k + 1 => j - 1 \in DOMAIN heap) BY <3>1, <3>2
    <3>5. g[j] = first \/ g[j] = rest \/ \E l \in DOMAIN heap : g[j] = heap[l] BY <3>3, <3>4
    <3>6. QED BY <2>7, <2>11, <2>12, <3>5 DEF FirmHeap
  <2>16. Solid(t) BY <2>2, <2>7, <2>15 DEF Solid
  <2>17. QED BY <1>1, <2>1, <2>16, SnugNext
<1>6. QED BY <1>4, <1>5

LEMMA GetDSnug ==
  ASSUME StorageAssumption, Inv, Solid(m), GetD
  PROVE Snug'
<1>1. PICK i \in 1..2 : /\ In(reg["XPTR"]) /\ Off(reg["XPTR"]) + i \in DOMAIN heap[Obj(reg["XPTR"])].cells
                        /\ Do([m EXCEPT !.reg["XPTR"] = heap[Obj(reg["XPTR"])].cells[Off(reg["XPTR"]) + i]])
  BY DEF GetD
<1> DEFINE k == Obj(reg["XPTR"])
           c == heap[k].cells[Off(reg["XPTR"]) + i]
<1>2. "XPTR" \in Regs BY DEF Regs
<1>3. Laid(heap) /\ m.heap = heap /\ \A z \in Regs : Held(heap, reg[z]) BY InvIs
<1>4. k \in DOMAIN heap BY <1>1, <1>2, <1>3, HeldIn DEF Obj
<1>5. Firm(c) BY <1>1, <1>3, <1>4 DEF Solid, FirmHeap
<1> HIDE DEF c
<1>6. Become([m EXCEPT !.reg["XPTR"] = c]) /\ full' = 0 BY <1>1 DEF c, Do, Step, Still
<1>7. QED BY <1>2, <1>5, <1>6, RegSnug

LEMMA SumSnug ==
  ASSUME StorageAssumption, Inv, Solid(m), Sum
  PROVE Snug'
<1> DEFINE d == reg["XPTR"]
           c == [p |-> d.p, a |-> d.a + 1]
<1>1. In(d) /\ Become([m EXCEPT !.reg["XPTR"].a = @ + 1]) /\ full' = 0 BY DEF Sum, Do, Step, Still
<1>2. reg \in [Regs -> Cell] /\ "XPTR" \in Regs BY RegsAre, InvIs
<1>3. d.a \in Int /\ d = [p |-> d.p, a |-> d.a] BY <1>2 DEF Cell
<1>4. Firm(c) BY <1>1, <1>3 DEF Firm, In, StorageAssumption
<1>5. [m EXCEPT !.reg["XPTR"].a = @ + 1] = [m EXCEPT !.reg["XPTR"] = c]
  <2>1. [d EXCEPT !.a = @ + 1] = c BY <1>3
  <2> HIDE DEF c
  <2>2. [m EXCEPT !.reg["XPTR"].a = @ + 1] = [m EXCEPT !.reg["XPTR"] = [d EXCEPT !.a = @ + 1]] BY <1>2 DEF m
  <2>3. QED BY <2>1, <2>2
<1> HIDE DEF c
<1>6. Become([m EXCEPT !.reg["XPTR"] = c]) BY <1>1, <1>5
<1>7. QED BY <1>1, <1>2, <1>4, <1>6, RegSnug

LEMMA NumberSnug ==
  ASSUME StorageAssumption, Inv, Solid(m), Number
  PROVE Snug'
<1>1. PICK n \in Numbers : Become([m EXCEPT !.reg["XPTR"] = Num(n)]) /\ full' = 0 BY DEF Number, Do, Step, Still
<1>2. Firm(Num(n)) /\ "XPTR" \in Regs BY RegsAre DEF Num, Firm
<1>3. QED BY <1>1, <1>2, RegSnug

LEMMA ExchangeSnug ==
  ASSUME StorageAssumption, Inv, Solid(m), Exchange
  PROVE Snug'
<1> DEFINE t == [m EXCEPT !.reg["XPTR"] = reg["YPTR"], !.reg["YPTR"] = reg["XPTR"]]
           r1 == [reg EXCEPT !["XPTR"] = reg["YPTR"]]
           r == [r1 EXCEPT !["YPTR"] = reg["XPTR"]]
           t1 == [m EXCEPT !.reg["XPTR"] = reg["YPTR"]]
<1>1. Become(t) /\ full' = 0 BY DEF Exchange, Do, Step, Still
<1>2. reg \in [Regs -> Cell] /\ m.reg = reg /\ m.stack = stack BY InvIs
<1>3. r["XPTR"] = reg["YPTR"] /\ r["YPTR"] = reg["XPTR"] BY <1>2, RegsAre
<1>4. t.heap = heap /\ t.stack = stack /\ t.reg = r
  <2>1. t1 = [heap |-> heap, bins |-> bins, reg |-> r1, stack |-> stack] /\ t = [t1 EXCEPT !.reg["YPTR"] = reg["XPTR"]] BY DEF m
  <2> HIDE DEF r1, t1, t
  <2>2. t = [heap |-> heap, bins |-> bins, reg |-> r, stack |-> stack] BY <2>1
  <2>3. QED BY <2>2
<1> HIDE DEF t, r
<1>5. (\A i \in DOMAIN stack : Firm(stack[i])) /\ Firm(reg["XPTR"]) /\ Firm(reg["YPTR"]) BY <1>2 DEF Solid
<1>6. QED BY <1>1, <1>3, <1>4, <1>5, PlainSnug

LEMMA PushSnug ==
  ASSUME StorageAssumption, Inv, Solid(m), Push
  PROVE Snug'
<1> DEFINE c == reg["XPTR"]
           t == [m EXCEPT !.stack = Append(@, c)]
<1>1. t.heap = heap /\ t.stack = Append(stack, c) /\ t.reg = reg BY DEF m
<1>2. Become(t) /\ full' = 0 BY DEF Push, Do, Step, Still
<1>3. reg \in [Regs -> Cell] /\ stack \in Seq(Cell) /\ m.reg = reg /\ m.stack = stack BY InvIs
<1>4. c \in Cell BY <1>3, RegsAre
<1>5. (\A i \in DOMAIN stack : Firm(stack[i])) /\ Firm(c) /\ Firm(reg["YPTR"]) /\ Firm(reg["XPTR"]) BY <1>3 DEF Solid
<1> HIDE DEF t, c
<1>6. \A i \in DOMAIN Append(stack, c) : (i \in DOMAIN stack /\ Append(stack, c)[i] = stack[i]) \/ Append(stack, c)[i] = c
  BY <1>3, <1>4
<1>7. \A i \in DOMAIN t.stack : Firm(t.stack[i]) BY <1>1, <1>5, <1>6
<1>8. QED BY <1>1, <1>2, <1>5, <1>7, PlainSnug

LEMMA PopSnug ==
  ASSUME StorageAssumption, Inv, Solid(m), Pop
  PROVE Snug'
<1> DEFINE f == Front(stack)
           c == Last(stack)
           r == [reg EXCEPT !["XPTR"] = c]
           t == [m EXCEPT !.stack = Front(@), !.reg["XPTR"] = c]
           t1 == [m EXCEPT !.stack = Front(@)]
<1>1. Become(t) /\ full' = 0 /\ stack # <<>> BY DEF Pop, Do, Step, Still
<1>2. t.heap = heap /\ t.stack = f /\ t.reg = r
  <2>1. t1 = [heap |-> heap, bins |-> bins, reg |-> reg, stack |-> f] /\ t = [t1 EXCEPT !.reg["XPTR"] = c] BY DEF m
  <2> HIDE DEF f, c, t1, t
  <2>2. t = [heap |-> heap, bins |-> bins, reg |-> r, stack |-> f] BY <2>1
  <2> HIDE DEF r
  <2>3. QED BY <2>2
<1>3. reg \in [Regs -> Cell] /\ stack \in Seq(Cell) /\ m.reg = reg /\ m.stack = stack BY InvIs
<1>4. (\A i \in DOMAIN stack : Firm(stack[i])) /\ Firm(reg["YPTR"]) BY <1>3 DEF Solid
<1>5. Len(stack) \in Nat /\ Len(stack) # 0 /\ DOMAIN stack = 1..Len(stack) BY <1>1, <1>3
<1>6. Firm(c)
  <2>1. Len(stack) \in DOMAIN stack BY <1>5
  <2>2. QED BY <1>4, <2>1 DEF Last
<1>7. \A i \in DOMAIN f : Firm(f[i])
  <2>1. f = SubSeq(stack, 1, Len(stack) - 1) BY DEF Front
  <2>2. 1 \in 1..Len(stack) + 1 /\ Len(stack) - 1 \in 0..Len(stack) /\ 1 <= Len(stack) - 1 + 1 BY <1>5
  <2> DEFINE L == Len(stack) - 1
             w == SubSeq(stack, 1, L)
  <2>3. w \in Seq(Cell) /\ Len(w) = L - 1 + 1 /\ \A i \in 1..L - 1 + 1 : w[i] = stack[1 + i - 1]
    <3> HIDE DEF L
    <3>1. 1 \in 1..Len(stack) + 1 /\ L \in 0..Len(stack) /\ 1 <= L + 1 BY <2>2 DEF L
    <3>2. QED BY <1>3, <3>1, PartIs
  <2>4. f = w BY <2>1
  <2> HIDE DEF f, w
  <2>5. \A i \in DOMAIN w : w[i] = stack[i] /\ i \in DOMAIN stack BY <1>5, <2>3
  <2>6. QED BY <1>4, <2>4, <2>5
<1> HIDE DEF t, f, c
<1>8. t.reg["XPTR"] = c /\ t.reg["YPTR"] = reg["YPTR"] BY <1>2, <1>3, RegsAre
<1>9. QED BY <1>1, <1>2, <1>4, <1>6, <1>7, <1>8, PlainSnug

LEMMA PlaceSnug ==
  ASSUME StorageAssumption, Inv, Solid(m), Goto \/ Xithnd \/ Continue \/ Break
  PROVE Snug'
<1>1. "OCBSCL" \in Regs /\ "TBLBCS" \in Regs /\ "OCBSCL" \notin Work /\ "TBLBCS" \notin Work BY RegsAre DEF Work
<1>2. CASE Goto
  <2>1. Become([m EXCEPT !.reg["OCBSCL"] = reg["XPTR"]]) /\ full' = 0 BY <1>2 DEF Goto, Do, Step, Still
  <2>2. QED BY <1>1, <2>1, RegSnug
<1>3. CASE Xithnd
  <2>1. Become([m EXCEPT !.reg["OCBSCL"] = reg["YPTR"]]) /\ full' = 0 BY <1>3 DEF Xithnd, Step
  <2>2. QED BY <1>1, <2>1, RegSnug
<1>4. CASE Continue
  <2>1. Become([m EXCEPT !.reg["OCBSCL"] = xocbsc.c]) /\ full' = 0 BY <1>4 DEF Continue, Step
  <2>2. QED BY <1>1, <2>1, RegSnug
<1>5. CASE Break
  <2>1. Become([m EXCEPT !.reg["TBLBCS"] = reg["XPTR"]]) /\ full' = 0 BY <1>5 DEF Break, Step
  <2>2. QED BY <1>1, <2>1, RegSnug
<1>6. QED BY <1>2, <1>3, <1>4, <1>5

------------------------------------------------------------------------------
LEMMA InitSnug ==
  ASSUME Init
  PROVE Snug
<1>1. heap = <<>> /\ stack = <<>> /\ full = 0 /\ reg["XPTR"] = Zero /\ reg["YPTR"] = Zero BY DEF Init, Begin, Empty, Regs
<1>2. m.heap = heap /\ m.reg = reg /\ m.stack = stack BY DEF m
<1>3. DOMAIN heap = {} /\ DOMAIN stack = {} BY <1>1
<1>4. Firm(Zero) BY DEF Firm, Zero
<1>5. QED BY <1>1, <1>2, <1>3, <1>4 DEF Snug, Solid, FirmHeap

LEMMA NextSnug ==
  ASSUME StorageAssumption, ~Stale, Inv, Snug, [Next]_vars
  PROVE Snug'
<1>0. Solid(m) BY DEF Snug
<1>1. CASE BLOCK BY <1>0, <1>1, BLOCKSnug
<1>2. CASE GENVAR BY <1>0, <1>2, GENVARSnug
<1>3. CASE CONVAR BY <1>0, <1>3, CONVARSnug
<1>4. CASE AUGATL BY <1>0, <1>4, AUGATLSnug
<1>5. CASE COLECT BY <1>0, <1>5, COLECTSnug
<1>6. CASE SPLIT BY <1>0, <1>6, SPLITSnug
<1>7. CASE PutD BY <1>0, <1>7, PutDSnug
<1>8. CASE GetD BY <1>0, <1>8, GetDSnug
<1>9. CASE Sum BY <1>0, <1>9, SumSnug
<1>10. CASE Exchange BY <1>0, <1>10, ExchangeSnug
<1>11. CASE Number BY <1>0, <1>11, NumberSnug
<1>12. CASE Push BY <1>0, <1>12, PushSnug
<1>13. CASE Pop BY <1>0, <1>13, PopSnug
<1>14. CASE Goto \/ Xithnd \/ Continue \/ Break BY <1>0, <1>14, PlaceSnug
<1>15. CASE UNCHANGED vars
  <2>1. Become(m) /\ full' = full /\ xocbsc' = xocbsc BY <1>15 DEF vars, Become, m
  <2>2. full' = 0 \/ Tight(m, xocbsc', full') BY <2>1 DEF Snug
  <2>3. QED BY <1>0, <2>1, <2>2, SnugNext
<1>16. QED
  BY <1>1, <1>2, <1>3, <1>4, <1>5, <1>6, <1>7, <1>8, <1>9, <1>10, <1>11, <1>12, <1>13, <1>14, <1>15 DEF Next

\* Error 20 is not raised while regeneration could make the room: what the program can
\* still reach, with the strings LSTPTR and BUKPTR are at, and what was asked for are
\* more than there is between HDSGPT and TLSGP1 (BLOCK, CONVAR, GENVAR, AUGATL, GC, GCM).
THEOREM ErrorWhenFull ==
  ASSUME StorageAssumption, ~Stale
  PROVE Spec => []OnlyWhenFull
<1>1. ASSUME Inv, Snug PROVE OnlyWhenFull
  <2> SUFFICES ASSUME full # 0
               PROVE LET held == All!Reached(AllObjs, Range(SeenRegs) \cup Range(SeenStack) \cup {Ref(reg["LSTPTR"]), Ref(reg["BUKPTR"])})
                         size == MapThenSumSet(LAMBDA k : Size(heap[k]), {k \in DOMAIN heap : heap[k].id \in held})
                     IN HDSGPT + size + full + 1 > TLSGP1
    BY DEF OnlyWhenFull
  <2> DEFINE cs == Range(SeenRegs) \cup Range(SeenStack) \cup {Ref(reg["LSTPTR"]), Ref(reg["BUKPTR"])}
             held == All!Reached(AllObjs, cs)
             K == {k \in DOMAIN heap : heap[k].id \in held}
             size == MapThenSumSet(LAMBDA k : Size(heap[k]), K)
  <2>1. m.heap = heap /\ m.reg = reg /\ m.stack = stack /\ Laid(heap) BY <1>1, InvIs
  <2>2. Tight(m, xocbsc, full) BY <1>1 DEF Snug
  <2>3. AllObjs = ObjsOf(heap) /\ SeenRegs = SeesRegs(m, xocbsc) /\ SeenStack = SeesStack(m) BY <1>1, SeesNow
  <2>4. \A c : Ref(c) = RefOf(heap, c) BY DEF Ref, RefOf, Obj, Off
  <2>5. cs = Clutch(m, xocbsc) BY <2>1, <2>3, <2>4 DEF Clutch, Sight
  <2>6. K = DOMAIN heap
    <3>1. held = All!Reached(ObjsOf(heap), Clutch(m, xocbsc)) BY <2>3, <2>5
    <3> HIDE DEF held
    <3>2. \A k \in DOMAIN heap : heap[k].id \in held BY <2>1, <2>2, <3>1 DEF Tight
    <3>3. QED BY <3>2
  <2> HIDE DEF K
  <2>7. size = SizesOf(heap) BY <2>6, Zenon DEF SizesOf
  <2>8. size = FRSGPT(heap) - HDSGPT BY <2>1, <2>7, SumOfSizes
  <2>9. ~(full <= TLSGP1 - FRSGPT(heap) - 1) BY <2>1, <2>2 DEF Tight, Room
  <2>10. FRSGPT(heap) \in Int /\ HDSGPT \in Int /\ TLSGP1 \in Int BY <2>1, LaidEnds DEF StorageAssumption
  <2> HIDE DEF size
  <2>11. full \in Int BY <2>2 DEF Tight
  <2>12. HDSGPT + size + full + 1 > TLSGP1 BY <2>8, <2>9, <2>10, <2>11
  <2>13. QED BY <2>12 DEF size, K, held, cs
<1>2. Init => Snug BY InitSnug
<1>3. Inv /\ Snug /\ [Next]_vars => Snug' BY NextSnug
<1>4. Spec => []Inv BY Invariance
<1>5. QED BY <1>1, <1>2, <1>3, <1>4, PTL DEF Spec
===============================================================================
