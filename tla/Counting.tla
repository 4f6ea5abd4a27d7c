------------------------------ MODULE Counting ------------------------------
(***************************************************************************)
(* What the other proofs need to know of numbers and of finite sets: the   *)
(* least and the greatest of some numbers, sums over a finite set and how  *)
(* they change, what its parts count together, and where a function leads  *)
(* that is applied again and again.                                        *)
(***************************************************************************)
EXTENDS FiniteSetsExt, Integers, FiniteSetTheorems, WellFoundedInduction, TLAPS

-----------------------------------------------------------------------------
(* Sums over finite sets.  Of the subsets of a finite set of which something *)
(* is not so there is a smallest, for numbers are well-founded: what holds   *)
(* of a set when it holds of its smaller ones holds of every finite set.     *)

SumOf(u, S) == MapThenSumSet(LAMBDA x : u[x], S)
Picked(s) == CHOOSE x \in s : TRUE

\* g sums up u over the subsets of S.
SumsUp(g, u, S) ==
  g = [s \in SUBSET S |-> IF s = {} THEN 0 ELSE u[Picked(s)] + g[s \ {Picked(s)}]]

LEMMA SumIs ==
  ASSUME NEW u, NEW S
  PROVE  SumOf(u, S) = (CHOOSE g : SumsUp(g, u, S))[S]
BY DEF SumOf, MapThenSumSet, MapThenFoldSet, SumsUp, Picked

LessThan == {ss \in Nat \X Nat : ss[1] < ss[2]}

\* Numbers are well-founded.
LEMMA NumbersAreFounded == IsWellFoundedOn(LessThan, Nat)
BY NatLessThanWellFounded DEF OpToRel, LessThan

LEMMA LeastNumber ==
  ASSUME NEW N, N \subseteq Nat, N # {}
  PROVE  \E n \in N : \A m \in N : n <= m
<1>1. \E n \in N : \A m \in N : <<m, n>> \notin LessThan
  BY WFMin, NumbersAreFounded
<1>2. ASSUME NEW n \in Nat, NEW m \in Nat, m < n PROVE <<m, n>> \in LessThan
  <2>1. <<m, n>> \in Nat \X Nat
    OBVIOUS
  <2>2. <<m, n>>[1] < <<m, n>>[2]
    BY <1>2
  <2> QED
    BY <2>1, <2>2 DEF LessThan
<1>3. \A n, m \in N : <<m, n>> \notin LessThan => n <= m
  BY <1>2
<1> QED
  BY <1>1, <1>3

\* Of the sets with a finite count there is a smallest.
LEMMA SmallestSet ==
  ASSUME NEW F, F # {}, \A s \in F : IsFiniteSet(s)
  PROVE  \E s \in F : \A t \in F : t \subseteq s => t = s
<1> DEFINE N == {Cardinality(s) : s \in F}
<1>1. N \subseteq Nat /\ N # {}
  BY FS_CardinalityType
<1>2. PICK n \in N : \A m \in N : n <= m
  BY <1>1, LeastNumber
<1>3. PICK s \in F : Cardinality(s) = n
  BY <1>2
<1>4. ASSUME NEW t \in F, t \subseteq s PROVE t = s
  <2>1. IsFiniteSet(s)
    OBVIOUS
  <2>2. Cardinality(t) \in Nat /\ Cardinality(s) \in Nat /\ Cardinality(s) <= Cardinality(t)
    BY <1>2, <1>3, FS_CardinalityType
  <2>3. Cardinality(t) <= Cardinality(s) /\ (Cardinality(t) = Cardinality(s) => t = s)
    BY <1>4, <2>1, FS_Subset
  <2> QED
    BY <2>2, <2>3
<1> QED
  BY <1>4

\* Where two of them are defined they agree.
LEMMA SumsAgree ==
  ASSUME NEW u, NEW S, NEW T, NEW g, NEW h, SumsUp(g, u, S), SumsUp(h, u, T),
         NEW s, IsFiniteSet(s), s \subseteq S, s \subseteq T
  PROVE  g[s] = h[s]
<1> DEFINE F == {t \in SUBSET s : g[t] # h[t]}
<1> SUFFICES ASSUME F # {} PROVE FALSE
  OBVIOUS
<1>1. \A t \in F : IsFiniteSet(t)
  BY FS_Subset
<1>2. PICK t \in F : \A r \in F : r \subseteq t => r = t
  <2> HIDE DEF F
  <2> QED
    BY <1>1, SmallestSet
<1>3. t \in SUBSET S /\ t \in SUBSET T
  OBVIOUS
<1> DEFINE r == t \ {Picked(t)}
<1>4. /\ g[t] = IF t = {} THEN 0 ELSE u[Picked(t)] + g[r]
      /\ h[t] = IF t = {} THEN 0 ELSE u[Picked(t)] + h[r]
  BY <1>3 DEF SumsUp
<1>5. t # {}
  BY <1>4
<1>6. Picked(t) \in t
  BY <1>5 DEF Picked
<1>7. r # t /\ r \subseteq t /\ r \in SUBSET s
  BY <1>6
<1>8. g[r] = h[r]
  BY <1>2, <1>7
<1> QED
  BY <1>4, <1>5, <1>8

Summing(u, s) == CHOOSE g : SumsUp(g, u, s)

\* A finite set has such a function.
LEMMA SumsExist ==
  ASSUME NEW u, NEW S, IsFiniteSet(S)
  PROVE  SumsUp(Summing(u, S), u, S)
<1> DEFINE F == {s \in SUBSET S : ~\E g : SumsUp(g, u, s)}
<1> SUFFICES ASSUME F # {} PROVE FALSE
  BY DEF Summing
<1>1. \A s \in F : IsFiniteSet(s)
  BY FS_Subset
<1>2. PICK s \in F : \A r \in F : r \subseteq s => r = s
  <2> HIDE DEF F
  <2> QED
    BY <1>1, SmallestSet
<1>3. ASSUME NEW r \in SUBSET s, r # s PROVE SumsUp(Summing(u, r), u, r) /\ IsFiniteSet(r)
  <2>1. \E g : SumsUp(g, u, r)
    BY <1>2, <1>3
  <2> QED
    BY <2>1, <1>3, FS_Subset DEF Summing
<1> DEFINE g == [t \in SUBSET s |-> IF t = {} THEN 0 ELSE u[Picked(t)] + Summing(u, t \ {Picked(t)})[t \ {Picked(t)}]]
<1>4. ASSUME NEW t \in SUBSET s, t # {} PROVE g[t \ {Picked(t)}] = Summing(u, t \ {Picked(t)})[t \ {Picked(t)}]
  <2> DEFINE r == t \ {Picked(t)}
             q == r \ {Picked(r)}
  <2>1. Picked(t) \in t
    BY <1>4 DEF Picked
  <2>2. r \in SUBSET s /\ r # s
    BY <2>1
  <2>3. SumsUp(Summing(u, r), u, r) /\ IsFiniteSet(r)
    BY <2>2, <1>3
  <2>4. Summing(u, r)[r] = IF r = {} THEN 0 ELSE u[Picked(r)] + Summing(u, r)[q]
    <3> HIDE DEF r
    <3>1. r \in SUBSET r
      OBVIOUS
    <3> QED
      BY <2>3, <3>1 DEF SumsUp
  <2>5. g[r] = IF r = {} THEN 0 ELSE u[Picked(r)] + Summing(u, q)[q]
    BY <2>2
  <2>6. CASE r # {}
    <3>1. Picked(r) \in r
      BY <2>6 DEF Picked
    <3>2. q \in SUBSET s /\ q # s /\ q \subseteq r /\ q \subseteq q
      BY <2>2, <3>1
    <3>3. SumsUp(Summing(u, q), u, q) /\ IsFiniteSet(q)
      BY <3>2, <1>3
    <3>4. Summing(u, r)[q] = Summing(u, q)[q]
      <4> HIDE DEF r, q
      <4> QED
        BY <2>3, <3>2, <3>3, SumsAgree
    <3> QED
      BY <2>4, <2>5, <3>4
  <2> QED
    BY <2>4, <2>5, <2>6
<1>5. g = [t \in SUBSET s |-> IF t = {} THEN 0 ELSE u[Picked(t)] + g[t \ {Picked(t)}]]
  <2>1. \A t \in SUBSET s : g[t] = IF t = {} THEN 0 ELSE u[Picked(t)] + g[t \ {Picked(t)}]
    <3> SUFFICES ASSUME NEW t \in SUBSET s PROVE g[t] = IF t = {} THEN 0 ELSE u[Picked(t)] + g[t \ {Picked(t)}]
      OBVIOUS
    <3>1. g[t] = IF t = {} THEN 0 ELSE u[Picked(t)] + Summing(u, t \ {Picked(t)})[t \ {Picked(t)}]
      OBVIOUS
    <3> QED
      BY <3>1, <1>4
  <2>2. g = [t \in SUBSET s |-> g[t]]
    OBVIOUS
  <2> HIDE DEF g
  <2> QED
    BY <2>1, <2>2
<1> QED
  <2> HIDE DEF g
  <2> QED
    BY <1>2, <1>5 DEF SumsUp

LEMMA SumEmpty == ASSUME NEW u PROVE SumOf(u, {}) = 0
<1>1. SumsUp(Summing(u, {}), u, {})
  BY SumsExist, FS_EmptySet
<1> QED
  BY <1>1, SumIs DEF SumsUp, Summing

LEMMA SumPick ==
  ASSUME NEW u, NEW S, IsFiniteSet(S), S # {}
  PROVE  Picked(S) \in S /\ SumOf(u, S) = u[Picked(S)] + SumOf(u, S \ {Picked(S)})
<1> DEFINE R == S \ {Picked(S)}
<1>1. Picked(S) \in S
  BY DEF Picked
<1>2. IsFiniteSet(R)
  BY FS_Subset
<1>3. SumsUp(Summing(u, S), u, S) /\ SumsUp(Summing(u, R), u, R)
  BY <1>2, SumsExist
<1>4. Summing(u, S)[S] = u[Picked(S)] + Summing(u, S)[R]
  <2>1. S \in SUBSET S
    OBVIOUS
  <2> QED
    BY <1>3, <2>1 DEF SumsUp
<1>5. Summing(u, S)[R] = Summing(u, R)[R]
  <2>1. R \subseteq S /\ R \subseteq R
    OBVIOUS
  <2> HIDE DEF R
  <2> QED
    BY <1>2, <1>3, <2>1, SumsAgree
<1>6. SumOf(u, S) = Summing(u, S)[S] /\ SumOf(u, R) = Summing(u, R)[R]
  BY SumIs DEF Summing
<1> QED
  BY <1>1, <1>4, <1>5, <1>6

\* Any element may be taken out first.
LEMMA SumTakes ==
  ASSUME NEW D, NEW u \in [D -> Nat], NEW S \in SUBSET D, IsFiniteSet(S)
  PROVE  SumOf(u, S) \in Nat /\ \A x \in S : SumOf(u, S) = u[x] + SumOf(u, S \ {x})
<1> DEFINE Takes(s) == SumOf(u, s) \in Nat /\ \A x \in s : SumOf(u, s) = u[x] + SumOf(u, s \ {x})
           F == {s \in SUBSET S : ~Takes(s)}
<1> SUFFICES ASSUME F # {} PROVE FALSE
  OBVIOUS
<1>1. \A s \in F : IsFiniteSet(s)
  BY FS_Subset
<1>2. PICK s \in F : \A r \in F : r \subseteq s => r = s
  <2> HIDE DEF F
  <2> QED
    BY <1>1, SmallestSet
<1>3. ASSUME NEW r \in SUBSET s, r # s PROVE Takes(r)
  <2>1. r \in SUBSET S
    OBVIOUS
  <2> HIDE DEF Takes
  <2> QED
    BY <1>2, <1>3, <2>1
<1>4. s # {}
  <2>1. Takes({})
    BY SumEmpty
  <2> HIDE DEF Takes
  <2> QED
    BY <2>1
<1>5. IsFiniteSet(s) /\ s \subseteq D
  BY <1>1
<1> DEFINE y == Picked(s)
<1>6. y \in s /\ SumOf(u, s) = u[y] + SumOf(u, s \ {y})
  BY <1>4, <1>5, SumPick
<1> HIDE DEF y
<1>7. SumOf(u, s \ {y}) \in Nat /\ u[y] \in Nat
  BY <1>3, <1>5, <1>6
<1>8. ASSUME NEW x \in s, x # y PROVE SumOf(u, s) = u[x] + SumOf(u, s \ {x})
  <2>1. SumOf(u, s \ {y}) = u[x] + SumOf(u, (s \ {y}) \ {x})
    BY <1>3, <1>6, <1>8
  <2>2. SumOf(u, s \ {x}) = u[y] + SumOf(u, (s \ {x}) \ {y})
    BY <1>3, <1>6, <1>8
  <2>3. (s \ {y}) \ {x} = (s \ {x}) \ {y}
    OBVIOUS
  <2>4. SumOf(u, (s \ {x}) \ {y}) \in Nat
    BY <1>3, <1>6
  <2>5. u[x] \in Nat /\ u[y] \in Nat
    BY <1>5, <1>6
  <2>6. SumOf(u, s) = u[y] + (u[x] + SumOf(u, (s \ {x}) \ {y}))
    BY <1>6, <2>1, <2>3
  <2>7. SumOf(u, s \ {x}) = u[y] + SumOf(u, (s \ {x}) \ {y})
    BY <2>2
  <2> HIDE DEF Takes, F
  <2> QED
    BY <2>4, <2>5, <2>6, <2>7
<1>9. Takes(s)
  BY <1>6, <1>7, <1>8
<1> QED
  BY <1>9, <1>2

LEMMA SumTake ==
  ASSUME NEW D, NEW u \in [D -> Nat], NEW S, S \subseteq D, IsFiniteSet(S), NEW x, x \in S
  PROVE  /\ SumOf(u, S) = u[x] + SumOf(u, S \ {x})
         /\ SumOf(u, S \ {x}) \in Nat /\ u[x] \in Nat /\ SumOf(u, S) \in Nat
<1>1. S \ {x} \in SUBSET D /\ IsFiniteSet(S \ {x})
  BY FS_Subset
<1>2. SumOf(u, S \ {x}) \in Nat
  BY <1>1, SumTakes
<1>3. SumOf(u, S) \in Nat /\ SumOf(u, S) = u[x] + SumOf(u, S \ {x})
  BY SumTakes
<1> QED
  BY <1>2, <1>3

\* More rows and greater numbers give a greater sum.
LEMMA SumGrows ==
  ASSUME NEW D, NEW E, NEW u \in [D -> Nat], NEW v \in [E -> Nat],
         NEW S \in SUBSET D, NEW T \in SUBSET E, IsFiniteSet(T), S \subseteq T,
         \A x \in S : u[x] <= v[x]
  PROVE  SumOf(u, S) \in Nat /\ SumOf(v, T) \in Nat /\ SumOf(u, S) <= SumOf(v, T)
<1> DEFINE Less(t) == SumOf(u, S \cap t) <= SumOf(v, t)
           F == {t \in SUBSET T : ~Less(t)}
<1>0. IsFiniteSet(S)
  BY FS_Subset
<1>1. SumOf(u, S) \in Nat /\ SumOf(v, T) \in Nat
  BY <1>0, SumTakes
<1> SUFFICES ASSUME F # {} PROVE FALSE
  <2>1. S \cap T = S
    OBVIOUS
  <2> QED
    BY <1>1, <2>1
<1>2. \A t \in F : IsFiniteSet(t)
  BY FS_Subset
<1>3. PICK t \in F : \A r \in F : r \subseteq t => r = t
  <2> HIDE DEF F
  <2> QED
    BY <1>2, SmallestSet
<1>4. t # {}
  BY SumEmpty
<1>5. PICK x \in t : TRUE
  BY <1>4
<1> DEFINE r == t \ {x}
<1>6. r \in SUBSET T /\ r # t /\ r \subseteq t
  OBVIOUS
<1>7. Less(r)
  <2> HIDE DEF Less
  <2> QED
    BY <1>3, <1>6
<1>8. /\ IsFiniteSet(t) /\ IsFiniteSet(r) /\ IsFiniteSet(S \cap t) /\ IsFiniteSet(S \cap r)
      /\ t \in SUBSET E /\ S \cap t \in SUBSET D /\ r \in SUBSET E /\ S \cap r \in SUBSET D
  BY <1>2, <1>6, FS_Subset
<1>9. SumOf(v, t) = v[x] + SumOf(v, r) /\ SumOf(v, r) \in Nat /\ v[x] \in Nat
  BY <1>8, SumTakes
<1>10. SumOf(u, S \cap r) \in Nat
  BY <1>8, SumTakes
<1>11. CASE x \in S
  <2>1. SumOf(u, S \cap t) = u[x] + SumOf(u, (S \cap t) \ {x})
    <3>1. x \in S \cap t
      BY <1>11
    <3> QED
      BY <1>8, <3>1, SumTake
  <2>2. (S \cap t) \ {x} = S \cap r
    OBVIOUS
  <2>3. u[x] <= v[x] /\ u[x] \in Nat
    BY <1>11
  <2> QED
    BY <1>7, <1>9, <1>10, <2>1, <2>2, <2>3
<1>12. CASE x \notin S
  <2>1. S \cap t = S \cap r
    BY <1>12
  <2> QED
    BY <1>7, <1>9, <1>10, <2>1
<1> QED
  BY <1>11, <1>12

LEMMA SumSame ==
  ASSUME NEW D, NEW E, NEW u \in [D -> Nat], NEW v \in [E -> Nat],
         NEW S \in SUBSET (D \cap E), IsFiniteSet(S), \A x \in S : u[x] = v[x]
  PROVE  SumOf(u, S) = SumOf(v, S)
<1>1. S \in SUBSET D /\ S \in SUBSET E /\ \A x \in S : u[x] \in Nat /\ v[x] \in Nat
  OBVIOUS
<1>2. SumOf(u, S) \in Nat /\ SumOf(v, S) \in Nat /\ SumOf(u, S) <= SumOf(v, S)
  BY <1>1, SumGrows
<1>3. SumOf(v, S) <= SumOf(u, S)
  BY <1>1, SumGrows
<1> QED
  BY <1>2, <1>3

\* One number grows by n: so does each sum it is in.
LEMMA SumAdds ==
  ASSUME NEW D, NEW u \in [D -> Nat], NEW S \in SUBSET D, IsFiniteSet(S), NEW n \in Nat, NEW r \in D,
         NEW v \in [D -> Nat], v[r] = u[r] + n, \A x \in D \ {r} : v[x] = u[x]
  PROVE  SumOf(v, S) = IF r \in S THEN SumOf(u, S) + n ELSE SumOf(u, S)
<1>1. \A x \in S \ {r} : u[x] = v[x]
  OBVIOUS
<1>2. IsFiniteSet(S \ {r}) /\ S \ {r} \in SUBSET D
  BY FS_Subset
<1>3. SumOf(u, S \ {r}) = SumOf(v, S \ {r})
  <2> DEFINE R == S \ {r}
  <2>1. R \in SUBSET (D \cap D) /\ IsFiniteSet(R) /\ \A x \in R : u[x] = v[x]
    BY <1>1, <1>2
  <2>2. SumOf(u, R) = SumOf(v, R)
    <3> HIDE DEF R
    <3> QED
      BY <2>1, SumSame, SMT
  <2> QED
    BY <2>2
<1>4. CASE r \in S
  <2>1. SumOf(u, S) = u[r] + SumOf(u, S \ {r})
    BY <1>4, SumTake
  <2>3. SumOf(v, S) = v[r] + SumOf(v, S \ {r})
    BY <1>4, SumTake
  <2>2. SumOf(u, S \ {r}) \in Nat /\ u[r] \in Nat /\ v[r] = u[r] + n
    BY <1>2, SumTakes
  <2> QED
    BY <1>3, <1>4, <2>1, <2>2, <2>3
<1>5. CASE r \notin S
  BY <1>3, <1>5
<1> QED
  BY <1>4, <1>5

LEMMA SumZero ==
  ASSUME NEW D, NEW u \in [D -> Nat], NEW S \in SUBSET D, IsFiniteSet(S), \A x \in S : u[x] = 0
  PROVE  SumOf(u, S) = 0
<1> DEFINE F == {s \in SUBSET S : SumOf(u, s) # 0}
<1> SUFFICES ASSUME F # {} PROVE FALSE
  OBVIOUS
<1>1. \A s \in F : IsFiniteSet(s)
  BY FS_Subset
<1>2. PICK s \in F : \A r \in F : r \subseteq s => r = s
  <2> HIDE DEF F
  <2> QED
    BY <1>1, SmallestSet
<1>3. s # {}
  BY SumEmpty
<1>4. PICK x \in s : TRUE
  BY <1>3
<1>5. SumOf(u, s) = u[x] + SumOf(u, s \ {x})
  BY <1>1, SumTakes
<1>6. SumOf(u, s \ {x}) = 0 /\ u[x] = 0
  BY <1>2
<1> QED
  BY <1>2, <1>5, <1>6

\* What the parts of a finite set count together is what it counts.
LEMMA PartsCount ==
  ASSUME NEW S, IsFiniteSet(S), NEW T, IsFiniteSet(T), NEW P \in [S -> SUBSET T],
         \A d, e \in S : d # e => P[d] \cap P[e] = {}
  PROVE  SumOf([d \in S |-> Cardinality(P[d])], S) = Cardinality(UNION {P[d] : d \in S})
<1> DEFINE u == [d \in S |-> Cardinality(P[d])]
           All(s) == UNION {P[d] : d \in s}
           F == {s \in SUBSET S : SumOf(u, s) # Cardinality(All(s))}
<1> SUFFICES ASSUME F # {} PROVE FALSE
  OBVIOUS
<1>1. \A s \in F : IsFiniteSet(s)
  BY FS_Subset
<1>2. PICK s \in F : \A r \in F : r \subseteq s => r = s
  <2> HIDE DEF F
  <2> QED
    BY <1>1, SmallestSet
<1>3. u \in [S -> Nat] /\ \A t \in SUBSET T : IsFiniteSet(t)
  <2>1. \A t \in SUBSET T : IsFiniteSet(t)
    BY FS_Subset
  <2> QED
    BY <2>1, FS_CardinalityType
<1>4. s # {}
  <2>1. SumOf(u, {}) = 0
    BY SumEmpty
  <2>2. Cardinality(All({})) = 0
    BY FS_EmptySet
  <2> QED
    BY <2>1, <2>2
<1>5. PICK x \in s : TRUE
  BY <1>4
<1> DEFINE r == s \ {x}
<1>6. r \in SUBSET S /\ r # s /\ r \subseteq s
  OBVIOUS
<1>7. SumOf(u, r) = Cardinality(All(r))
  BY <1>2, <1>6
<1>8. SumOf(u, s) = Cardinality(P[x]) + SumOf(u, r)
  <2>1. u[x] = Cardinality(P[x])
    OBVIOUS
  <2>2. s \subseteq S /\ IsFiniteSet(s)
    BY <1>1
  <2> HIDE DEF u
  <2> QED
    BY <1>3, <2>1, <2>2, SumTake
<1>9. All(s) = P[x] \cup All(r) /\ P[x] \cap All(r) = {} /\ IsFiniteSet(P[x]) /\ IsFiniteSet(All(r))
  <2>1. P[x] \in SUBSET T /\ All(r) \in SUBSET T
    OBVIOUS
  <2>2. All(s) = P[x] \cup All(r)
    OBVIOUS
  <2>3. P[x] \cap All(r) = {}
    OBVIOUS
  <2> HIDE DEF All
  <2> QED
    BY <1>3, <2>1, <2>2, <2>3
<1>10. Cardinality(All(s)) = Cardinality(P[x]) + Cardinality(All(r))
  <2> HIDE DEF All
  <2>1. Cardinality(P[x] \cup All(r)) = Cardinality(P[x]) + Cardinality(All(r)) - Cardinality(P[x] \cap All(r))
    BY <1>9, FS_Union
  <2>2. Cardinality(P[x] \cap All(r)) = 0
    BY <1>9, FS_EmptySet
  <2>3. Cardinality(P[x]) \in Nat /\ Cardinality(All(r)) \in Nat
    BY <1>9, FS_CardinalityType
  <2> QED
    BY <1>9, <2>1, <2>2, <2>3
<1> QED
  BY <1>2, <1>7, <1>8, <1>10

-----------------------------------------------------------------------------
(* The least and the greatest of some numbers.                             *)

\* The least of some numbers.
LEMMA LeastIs ==
  ASSUME NEW N, N \subseteq Nat, N # {}
  PROVE  Min(N) \in N /\ \A n \in N : Min(N) <= n
<1>1. PICK n \in N : \A m \in N : n <= m
  BY LeastNumber
<1>2. Min(N) = CHOOSE x \in N : \A y \in N : x <= y
  BY DEF Min
<1> QED
  BY <1>1, <1>2

\* The greatest of some numbers.
LEMMA GreatestIs ==
  ASSUME NEW S, S \subseteq Nat, IsFiniteSet(S), S # {}
  PROVE  Max(S) \in S /\ Max(S) \in Nat /\ \A n \in S : n <= Max(S)
<1> DEFINE Top(s) == \E m \in s : \A n \in s : n <= m
           F == {s \in SUBSET S : s # {} /\ ~Top(s)}
<1>1. \A s \in F : IsFiniteSet(s)
  BY FS_Subset
<1>2. F = {}
  <2> SUFFICES ASSUME F # {} PROVE FALSE
    OBVIOUS
  <2>1. PICK s \in F : \A r \in F : r \subseteq s => r = s
    <3> HIDE DEF F
    <3> QED
      BY <1>1, SmallestSet
  <2>2. PICK x \in s : TRUE
    OBVIOUS
  <2> DEFINE r == s \ {x}
  <2>3. x \in Nat /\ s \subseteq Nat
    OBVIOUS
  <2>4. r # {}
    BY <2>3
  <2>5. Top(r)
    <3>1. r \in SUBSET S /\ r # s /\ r \subseteq s
      OBVIOUS
    <3> HIDE DEF Top, r
    <3> QED
      BY <2>1, <2>4, <3>1
  <2>6. PICK m \in r : \A n \in r : n <= m
    BY <2>5
  <2>7. CASE x <= m
    BY <2>3, <2>6, <2>7
  <2>8. CASE m <= x
    <3>1. \A n \in s : n <= x
      BY <2>3, <2>6, <2>8
    <3> QED
      BY <3>1
  <2> QED
    BY <2>3, <2>7, <2>8
<1>3. PICK m \in S : \A n \in S : n <= m
  BY <1>2
<1>4. Max(S) = CHOOSE x \in S : \A y \in S : x >= y
  BY DEF Max
<1>5. \A n \in S : m >= n
  BY <1>3
<1>6. Max(S) \in S /\ \A n \in S : Max(S) >= n
  BY <1>4, <1>5
<1> QED
  BY <1>6

-----------------------------------------------------------------------------
(* A function applied again and again.                                     *)

\* g is where step leads from first, one after the other, up to n.
Leads(g, n, step, first) ==
  g = [m \in 0 .. n |-> IF m = 0 THEN first ELSE step[g[m - 1]]]

LEMMA LeadsAlike ==
  ASSUME NEW T, NEW step \in [T -> T], NEW first \in T, NEW n \in Nat, NEW k \in Nat,
         NEW g, NEW h, Leads(g, n, step, first), Leads(h, k, step, first),
         NEW m \in Nat, m <= n, m <= k
  PROVE  g[m] = h[m] /\ g[m] \in T
<1> DEFINE N == {i \in 0 .. m : ~(g[i] = h[i] /\ g[i] \in T)}
<1> SUFFICES ASSUME N # {} PROVE FALSE
  OBVIOUS
<1>1. PICK i \in N : \A j \in N : i <= j
  <2>1. N \subseteq Nat
    OBVIOUS
  <2> HIDE DEF N
  <2> QED
    BY <2>1, LeastNumber
<1>2. i \in 0 .. n /\ i \in 0 .. k
  OBVIOUS
<1>3. /\ g[i] = IF i = 0 THEN first ELSE step[g[i - 1]]
      /\ h[i] = IF i = 0 THEN first ELSE step[h[i - 1]]
  BY <1>2 DEF Leads
<1>4. i # 0
  BY <1>3
<1>5. i - 1 \in 0 .. m /\ i - 1 \notin N
  BY <1>1, <1>4
<1>6. g[i - 1] = h[i - 1] /\ g[i - 1] \in T
  BY <1>5
<1> QED
  BY <1>3, <1>4, <1>6

\* There is such a function, of any length.
LEMMA SomethingLeads ==
  ASSUME NEW T, NEW step \in [T -> T], NEW first \in T, NEW n \in Nat
  PROVE  \E g : Leads(g, n, step, first)
<1> DEFINE N == {m \in Nat : ~\E g : Leads(g, m, step, first)}
<1> SUFFICES ASSUME N # {} PROVE FALSE
  OBVIOUS
<1>1. PICK m \in N : \A j \in N : m <= j
  <2>1. N \subseteq Nat
    OBVIOUS
  <2> HIDE DEF N
  <2> QED
    BY <2>1, LeastNumber
<1>2. CASE m = 0
  <2> DEFINE g == [i \in 0 .. 0 |-> first]
  <2>1. g = [i \in 0 .. 0 |-> IF i = 0 THEN first ELSE step[g[i - 1]]]
    OBVIOUS
  <2> HIDE DEF g
  <2>2. Leads(g, m, step, first)
    BY <1>2, <2>1 DEF Leads
  <2> QED
    BY <2>2
<1>3. CASE m # 0
  <2>1. m - 1 \in Nat /\ m - 1 \notin N
    BY <1>1, <1>3
  <2>2. PICK h : Leads(h, m - 1, step, first)
    BY <2>1
  <2> DEFINE g == [i \in 0 .. m |-> IF i = m THEN step[h[m - 1]] ELSE h[i]]
  <2>3. ASSUME NEW i \in 0 .. m PROVE g[i] = IF i = 0 THEN first ELSE step[g[i - 1]]
    <3>1. CASE i = m
      BY <1>3, <2>1, <3>1
    <3>2. CASE i # m
      <4>1. i \in 0 .. (m - 1)
        BY <2>1, <3>2
      <4>2. h[i] = IF i = 0 THEN first ELSE step[h[i - 1]]
        BY <2>2, <4>1 DEF Leads
      <4>3. g[i] = h[i] /\ (i # 0 => g[i - 1] = h[i - 1])
        BY <2>1, <4>1
      <4> QED
        BY <4>2, <4>3
    <3> QED
      BY <3>1, <3>2
  <2>4. g = [i \in 0 .. m |-> g[i]]
    OBVIOUS
  <2> HIDE DEF g
  <2>5. g = [i \in 0 .. m |-> IF i = 0 THEN first ELSE step[g[i - 1]]]
    BY <2>3, <2>4
  <2>6. Leads(g, m, step, first)
    BY <2>5 DEF Leads
  <2> QED
    BY <2>6
<1> QED
  BY <1>2, <1>3

\* And one of all lengths: where n steps lead.
Way(g, T, step, first) == g \in [Nat -> T] /\ g[0] = first /\ \A n \in Nat : g[n + 1] = step[g[n]]

LEMMA StepsLead ==
  ASSUME NEW T, NEW step \in [T -> T], NEW first \in T
  PROVE  \E g : Way(g, T, step, first)
<1> DEFINE some(n) == CHOOSE h : Leads(h, n, step, first)
           g == [n \in Nat |-> some(n)[n]]
<1>1. \A n \in Nat : Leads(some(n), n, step, first)
  BY SomethingLeads
<1> HIDE DEF some
<1>2. \A n \in Nat : some(n)[n] \in T
  BY <1>1, LeadsAlike
<1>3. g \in [Nat -> T]
  BY <1>2
<1>4. g[0] = first
  <2>1. some(0)[0] = first
    BY <1>1 DEF Leads
  <2> QED
    BY <2>1
<1>5. ASSUME NEW n \in Nat PROVE g[n + 1] = step[g[n]]
  <2>1. some(n + 1)[n + 1] = step[some(n + 1)[n]]
    <3>1. n + 1 \in 0 .. (n + 1) /\ n + 1 # 0 /\ (n + 1) - 1 = n
      OBVIOUS
    <3>2. some(n + 1) = [m \in 0 .. (n + 1) |-> IF m = 0 THEN first ELSE step[some(n + 1)[m - 1]]]
      BY <1>1 DEF Leads
    <3> QED
      BY <3>1, <3>2
  <2>2. some(n + 1)[n] = some(n)[n]
    <3>1. Leads(some(n + 1), n + 1, step, first) /\ Leads(some(n), n, step, first) /\ n + 1 \in Nat /\ n <= n + 1 /\ n <= n
      BY <1>1
    <3> QED
      BY <3>1, LeadsAlike
  <2> QED
    BY <2>1, <2>2
<1> HIDE DEF g
<1>6. Way(g, T, step, first)
  BY <1>3, <1>4, <1>5 DEF Way
<1> QED
  BY <1>6

\* ways[x][n] is where n steps lead from x.
Ways(ways, T, step) == \A x \in T : Way(ways[x], T, step, x)

LEMMA WaysExist ==
  ASSUME NEW T, NEW step \in [T -> T]
  PROVE  \E ways : Ways(ways, T, step)
<1> DEFINE ways == [x \in T |-> CHOOSE g : Way(g, T, step, x)]
<1>1. \A x \in T : \E g : Way(g, T, step, x)
  BY StepsLead
<1>2. \A x \in T : Way(ways[x], T, step, x)
  BY <1>1
<1> HIDE DEF ways
<1>3. Ways(ways, T, step)
  BY <1>2 DEF Ways
<1> QED
  BY <1>3

LEMMA WayFrom ==
  ASSUME NEW T, NEW step, NEW ways, Ways(ways, T, step), NEW x \in T
  PROVE  ways[x] \in [Nat -> T] /\ ways[x][0] = x /\ \A n \in Nat : ways[x][n + 1] = step[ways[x][n]]
BY DEF Ways, Way

\* Steps from x, then steps from where they led.
LEMMA WaysJoin ==
  ASSUME NEW T, NEW step, NEW ways, Ways(ways, T, step), NEW x \in T, NEW a \in Nat, NEW b \in Nat
  PROVE  ways[x][a + b] = ways[ways[x][a]][b]
<1>1. PICK w : w = ways[x]
  OBVIOUS
<1>2. PICK v : v = ways[w[a]]
  OBVIOUS
<1>3. w \in [Nat -> T] /\ w[0] = x /\ \A n \in Nat : w[n + 1] = step[w[n]]
  BY <1>1, WayFrom
<1>4. w[a] \in T
  BY <1>3
<1>5. v[0] = w[a] /\ \A n \in Nat : v[n + 1] = step[v[n]]
  BY <1>2, <1>4, WayFrom
<1> SUFFICES w[a + b] = v[b]
  BY <1>1, <1>2
<1> DEFINE N == {n \in Nat : w[a + n] # v[n]}
<1> SUFFICES ASSUME N # {} PROVE FALSE
  OBVIOUS
<1>6. PICK n \in N : \A m \in N : n <= m
  <2>1. N \subseteq Nat
    OBVIOUS
  <2> HIDE DEF N
  <2> QED
    BY <2>1, LeastNumber
<1>7. n # 0
  <2>1. a + 0 = a
    OBVIOUS
  <2> QED
    BY <1>5, <2>1
<1>8. n - 1 \in Nat /\ n - 1 \notin N
  BY <1>6, <1>7
<1>9. PICK k \in Nat : k = n - 1 /\ a + k \in Nat
  BY <1>8
<1>10. w[a + k] = v[k]
  BY <1>8, <1>9
<1>11. w[(a + k) + 1] = step[w[a + k]] /\ v[k + 1] = step[v[k]]
  BY <1>3, <1>5, <1>9
<1>12. (a + k) + 1 = a + n /\ k + 1 = n
  BY <1>9
<1>13. w[a + n] = v[n]
  BY <1>10, <1>11, <1>12
<1> QED
  BY <1>13

\* From the end there is no way on.
LEMMA WaysEnd ==
  ASSUME NEW T, NEW step, NEW ways, Ways(ways, T, step), NEW end \in T, step[end] = end, NEW n \in Nat
  PROVE  ways[end][n] = end
<1> DEFINE N == {m \in Nat : ways[end][m] # end}
<1> SUFFICES ASSUME N # {} PROVE FALSE
  OBVIOUS
<1>1. PICK m \in N : \A i \in N : m <= i
  <2>1. N \subseteq Nat
    OBVIOUS
  <2> HIDE DEF N
  <2> QED
    BY <2>1, LeastNumber
<1>2. m # 0
  BY WayFrom
<1>3. m - 1 \in Nat /\ m - 1 \notin N
  BY <1>1, <1>2
<1>4. ways[end][(m - 1) + 1] = step[ways[end][m - 1]] /\ (m - 1) + 1 = m
  BY <1>3, WayFrom
<1> QED
  BY <1>3, <1>4

\* What of S lies on the way from x is in R.
OnTheWay(ways, x, S, R) == \A i \in Nat \ {0} : ways[x][i] \in S => ways[x][i] \in R

\* What some steps lead to, so few do as there are places on the way.
LEMMA SoonThere ==
  ASSUME NEW S, NEW end, end \notin S, NEW step, step[end] = end,
         NEW ways, Ways(ways, S \cup {end}, step), NEW x \in S, NEW y \in S, NEW n \in Nat \ {0}, ways[x][n] = y,
         NEW R, IsFiniteSet(R), OnTheWay(ways, x, S, R)
  PROVE  \E m \in 1 .. Cardinality(R) : ways[x][m] = y
<1>0. \A k, b \in Nat : ways[x][k + b] = ways[ways[x][k]][b]
  BY WaysJoin
<1> DEFINE N == {i \in Nat \ {0} : ways[x][i] = y}
<1>1. PICK m \in N : \A i \in N : m <= i
  <2>1. N \subseteq Nat /\ N # {}
    OBVIOUS
  <2> HIDE DEF N
  <2> QED
    BY <2>1, LeastNumber
<1>2. m \in Nat /\ m >= 1 /\ ways[x][m] = y /\ x \in S \cup {end}
  OBVIOUS
<1>3. ASSUME NEW i \in 1 .. m PROVE ways[x][i] \in R
  <2>1. i \in Nat /\ m - i \in Nat /\ i + (m - i) = m
    BY <1>2
  <2>2. ways[x][i + (m - i)] = ways[ways[x][i]][m - i]
    BY <1>0, <2>1
  <2>3. ways[x][i] \in S \cup {end}
    <3>1. ways[x] \in [Nat -> S \cup {end}]
      BY <1>2, WayFrom
    <3> QED
      BY <2>1, <3>1
  <2>4. ways[x][i] # end
    <3>1. ways[end][m - i] = end
      <4>1. PICK b \in Nat : b = m - i
        BY <2>1
      <4> HIDE DEF N
      <4>2. ways[end][b] = end
        BY WaysEnd
      <4> QED
        BY <4>1, <4>2
    <3> QED
      BY <1>2, <2>1, <2>2, <3>1
  <2>5. i \in Nat \ {0}
    OBVIOUS
  <2>6. ways[x][i] \in S
    BY <2>3, <2>4
  <2> HIDE DEF N
  <2> QED
    BY <2>5, <2>6 DEF OnTheWay
<1>4. ASSUME NEW i \in 1 .. m, NEW j \in 1 .. m, i < j PROVE ways[x][i] # ways[x][j]
  <2> SUFFICES ASSUME ways[x][i] = ways[x][j] PROVE FALSE
    OBVIOUS
  <2>1. i \in Nat /\ j \in Nat /\ m - j \in Nat /\ j + (m - j) = m
    BY <1>2
  <2>2. ways[x][j + (m - j)] = ways[ways[x][j]][m - j] /\ ways[x][i + (m - j)] = ways[ways[x][i]][m - j]
    BY <1>0, <2>1
  <2>3. ways[x][i + (m - j)] = y
    BY <1>2, <2>1, <2>2
  <2>4. i + (m - j) \in Nat \ {0} /\ i + (m - j) < m
    BY <1>2, <1>4, <2>1
  <2>5. i + (m - j) \in N
    BY <2>3, <2>4
  <2> QED
    BY <1>1, <1>2, <2>4, <2>5
<1> DEFINE f == [i \in 1 .. m |-> ways[x][i]]
<1>5. f \in [1 .. m -> R]
  BY <1>3
<1>6. \A i, j \in 1 .. m : f[i] = f[j] => i = j
  <2> SUFFICES ASSUME NEW i \in 1 .. m, NEW j \in 1 .. m, f[i] = f[j] PROVE i = j
    OBVIOUS
  <2>1. ~(i < j) /\ ~(j < i)
    BY <1>4
  <2> QED
    BY <1>2, <2>1
<1>7. f \in Injection(1 .. m, R)
  <2> HIDE DEF f
  <2> QED
    BY <1>5, <1>6 DEF Injection, IsInjective
<1>8. Cardinality(1 .. m) <= Cardinality(R)
  <2> HIDE DEF f
  <2> QED
    BY <1>7, FS_Injection
<1>9. Cardinality(1 .. m) = m
  <2>1. 1 \in Int /\ m \in Int /\ m >= 1
    BY <1>2
  <2> HIDE DEF f, N
  <2>2. Cardinality(1 .. m) = IF 1 > m THEN 0 ELSE m - 1 + 1
    BY <2>1, FS_Interval
  <2> QED
    BY <2>1, <2>2
<1>10. Cardinality(R) \in Nat
  BY FS_CardinalityType
<1> QED
  BY <1>2, <1>8, <1>9, <1>10

=============================================================================
