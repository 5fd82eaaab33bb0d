---------------------------- MODULE CountingLemmas ----------------------------
(***************************************************************************)
(* How a count changes when one thread moves.  Every counter of this code  *)
(* (users of an entry, waiters of a monitor, references of a feed) is the  *)
(* size of a set of threads or other holders, and a step adds one element  *)
(* to the set or takes one away.                                           *)
(*                                                                         *)
(* Then induction up to a bound.  The library states it for an operator,   *)
(* which the provers here cannot instantiate; over a set they can, and so  *)
(* what a recursive function computes is within reach.                     *)
(*                                                                         *)
(* Last, a table of parents and what a recursion that goes up it computes. *)
(***************************************************************************)
EXTENDS Integers, FiniteSets, FiniteSetTheorems, TLAPS

In(t, S) == IF t \in S THEN 1 ELSE 0

(* Two finite sets that differ at t at most, and what that does to sizes.  *)
Swaps(t, S, R) ==
  /\ Cardinality(S) \in Nat /\ Cardinality(R) \in Nat
  /\ In(t, S) \in {0, 1} /\ In(t, R) \in {0, 1}
  /\ Cardinality(R) + In(t, S) = Cardinality(S) + In(t, R)

(* The sizes of two such sets differ by what t contributes.                *)
LEMMA CountExchange ==
  ASSUME NEW All, IsFiniteSet(All),
         NEW S \in SUBSET All, NEW R \in SUBSET All,
         NEW t, S \ {t} = R \ {t}
  PROVE  Swaps(t, S, R)
<1>1. IsFiniteSet(S) /\ IsFiniteSet(R)
  BY FS_Subset
<1>2. Cardinality(S) \in Nat /\ Cardinality(R) \in Nat
  BY <1>1, FS_CardinalityType
<1>3. Cardinality(S \ {t})
        = IF t \in S THEN Cardinality(S) - 1 ELSE Cardinality(S)
  BY <1>1, FS_RemoveElement
<1>4. Cardinality(R \ {t})
        = IF t \in R THEN Cardinality(R) - 1 ELSE Cardinality(R)
  BY <1>1, FS_RemoveElement
<1> QED
  BY <1>2, <1>3, <1>4 DEF In, Swaps

(* How many hold something, when one of them takes up another record.      *)
HoldersOf(All, w, f) == {x \in All : w[x].feed = f}
CountOf(All, w, f) == Cardinality(HoldersOf(All, w, f))
LEMMA HoldersExchange ==
  ASSUME NEW All, IsFiniteSet(All), NEW w, w = [x \in All |-> w[x]], NEW t \in All, NEW r, NEW f
  PROVE  /\ CountOf(All, w, f) \in Nat /\ CountOf(All, [w EXCEPT ![t] = r], f) \in Nat
         /\ CountOf(All, [w EXCEPT ![t] = r], f) + (IF w[t].feed = f THEN 1 ELSE 0)
              = CountOf(All, w, f) + (IF r.feed = f THEN 1 ELSE 0)
<1> DEFINE v == [w EXCEPT ![t] = r]
<1>1. v[t] = r /\ \A x \in All \ {t} : v[x] = w[x]
  OBVIOUS
<1> HIDE DEF v
<1>2. HoldersOf(All, w, f) \ {t} = HoldersOf(All, v, f) \ {t}
  BY <1>1 DEF HoldersOf
<1>3. Swaps(t, HoldersOf(All, w, f), HoldersOf(All, v, f))
  BY <1>2, CountExchange DEF HoldersOf
<1>4. (t \in HoldersOf(All, w, f) <=> w[t].feed = f) /\ (t \in HoldersOf(All, v, f) <=> r.feed = f)
  BY <1>1 DEF HoldersOf
<1> USE DEF v
<1> QED
  BY <1>3, <1>4 DEF Swaps, In, CountOf

(* A subset of a finite set counts zero exactly when it is empty.          *)
LEMMA CountEmpty ==
  ASSUME NEW All, IsFiniteSet(All), NEW S \in SUBSET All
  PROVE  /\ Cardinality(S) \in Nat
         /\ Cardinality(S) = 0 <=> S = {}
<1>1. IsFiniteSet(S)
  BY FS_Subset
<1> QED
  BY <1>1, FS_CardinalityType, FS_EmptySet

(* It counts one exactly when it has one element.                          *)
LEMMA CountOne ==
  ASSUME NEW All, IsFiniteSet(All), NEW S \in SUBSET All, Cardinality(S) = 1
  PROVE  \E x \in All : S = {x}
<1>1. IsFiniteSet(S)
  BY FS_Subset
<1>2. PICK x \in S : TRUE
  BY CountEmpty
<1>3. IsFiniteSet(S \ {x}) /\ Cardinality(S \ {x}) = 0
  BY <1>1, <1>2, FS_RemoveElement
<1>4. S \ {x} = {}
  BY <1>3, FS_EmptySet
<1> QED
  BY <1>2, <1>4

(* The values of a function on a finite set.                               *)
LEMMA ImageFinite ==
  ASSUME NEW S, IsFiniteSet(S), NEW f
  PROVE  /\ IsFiniteSet({f[x] : x \in S})
         /\ Cardinality({f[x] : x \in S}) <= Cardinality(S)
<1> DEFINE T == {f[x] : x \in S}  g == [x \in S |-> f[x]]
<1>1. g \in Surjection(S, T)
  BY DEF Surjection
<1> HIDE DEF g
<1> QED
  BY <1>1, FS_Surjection

(* Sets that have nothing in common.                                       *)
LEMMA CountApart ==
  ASSUME NEW A, NEW B, IsFiniteSet(A), IsFiniteSet(B), A \cap B = {}
  PROVE  Cardinality(A \cup B) = Cardinality(A) + Cardinality(B)
<1>1. Cardinality(A) \in Nat /\ Cardinality(B) \in Nat
  BY FS_CardinalityType
<1> QED
  BY <1>1, FS_Union, FS_EmptySet

LEMMA HoldersCount ==
  ASSUME NEW All, IsFiniteSet(All), NEW w, NEW f
  PROVE  /\ CountOf(All, w, f) \in Nat
         /\ CountOf(All, w, f) = 0 <=> \A x \in All : w[x].feed # f
         /\ CountOf(All, w, f) = 1 => \A x, y \in All : w[x].feed = f /\ w[y].feed = f => x = y
<1>1. \A x \in All : x \in HoldersOf(All, w, f) <=> w[x].feed = f
  BY DEF HoldersOf
<1>2. HoldersOf(All, w, f) \in SUBSET All
  BY DEF HoldersOf
<1>3. CountOf(All, w, f) \in Nat /\ (CountOf(All, w, f) = 0 <=> HoldersOf(All, w, f) = {})
  BY <1>2, CountEmpty DEF CountOf
<1>4. ASSUME CountOf(All, w, f) = 1 PROVE \E x \in All : HoldersOf(All, w, f) = {x}
  BY <1>2, <1>4, CountOne DEF CountOf
<1> QED
  BY <1>1, <1>2, <1>3, <1>4

(* A set moved down by n is as large.                                      *)
LEMMA CountShift ==
  ASSUME NEW A, IsFiniteSet(A), A \subseteq Int, NEW n \in Int, NEW B,
         \A x \in A : x - n \in B, \A y \in B : y \in Int /\ y + n \in A
  PROVE  Cardinality(B) = Cardinality(A)
<1> DEFINE f == [x \in A |-> x - n]
<1>1. f \in [A -> B] /\ \A x \in A : f[x] = x - n
  OBVIOUS
<1> HIDE DEF f
<1>2. f \in Injection(A, B)
  BY <1>1 DEF Injection, IsInjective
<1>3. \A y \in B : f[y + n] = y
  BY <1>1
<1>4. f \in Surjection(A, B)
  BY <1>1, <1>3 DEF Surjection
<1> QED
  BY <1>2, <1>4, FS_Bijection DEF ExistsBijection, Bijection

-----------------------------------------------------------------------------
(* A set of naturals that is not empty has a least element.                *)
LEMMA LeastNatural ==
  ASSUME NEW T \in SUBSET Nat, T # {}
  PROVE  \E m \in T : \A k \in T : m <= k
<1> DEFINE R == OpToRel(<, Nat)
<1>1. IsWellFoundedOn(R, Nat)
  BY NatLessThanWellFounded, Zenon
<1>2. \A x, y \in Nat : x < y => <<x, y>> \in R
  BY DEF OpToRel
<1> HIDE DEF R
<1>3. PICK m \in T : \A y \in T : ~ (<<y, m>> \in R)
  BY <1>1, WFMin
<1>4. ASSUME NEW k \in T PROVE m <= k
  <2>1. m \in Nat /\ k \in Nat /\ ~ (k < m)
    BY <1>2, <1>3
  <2> QED
    BY <2>1
<1> QED
  BY <1>4

LEMMA LeastChosen ==
  ASSUME NEW T \in SUBSET Nat, T # {}
  PROVE  LET m == CHOOSE x \in T : \A y \in T : x =< y
         IN  m \in T /\ \A k \in T : m <= k
BY LeastNatural

(* Induction up to a bound, over a set.                                    *)
LEMMA SetInduction ==
  ASSUME NEW n \in Nat, NEW T, 0 \in T,
         \A i \in 0..n - 1 : i \in T => i + 1 \in T
  PROVE  \A i \in 0..n : i \in T
<1> SUFFICES ASSUME {i \in 0..n : i \notin T} # {} PROVE FALSE
  OBVIOUS
<1>1. PICK m \in {i \in 0..n : i \notin T} : \A k \in {i \in 0..n : i \notin T} : m <= k
  <2>1. {i \in 0..n : i \notin T} \in SUBSET Nat
    OBVIOUS
  <2> QED
    BY <2>1, LeastNatural
<1>2. m - 1 \in 0..n - 1 /\ m - 1 + 1 = m
  BY <1>1
<1>3. m - 1 \in T
  BY <1>1, <1>2
<1> QED
  BY <1>1, <1>2, <1>3

(* The values of a recursive definition: f[0] is S, and next gives each    *)
(* one from the one before.  Such an f exists up to any bound.             *)
Iteration(C, S, next, f) ==
  f = [n \in 0..C |-> IF n = 0 THEN S ELSE next[f[n - 1]]]

LEMMA Iterates ==
  ASSUME NEW C \in Nat, NEW T, NEW S \in T, NEW next \in [T -> T]
  PROVE  \E f \in [0..C -> T] : Iteration(C, S, next, f)
<1> DEFINE Ok(n, f) == f = [m \in 0..n |-> IF m = 0 THEN S ELSE next[f[m - 1]]]
    X == {n \in 0..C : \E f \in [0..n -> T] : Ok(n, f)}
<1>1. 0 \in X
  <2> DEFINE f == [m \in 0..0 |-> S]
  <2>1. f \in [0..0 -> T] /\ Ok(0, f)
    OBVIOUS
  <2> HIDE DEF f, Ok
  <2> QED
    BY <2>1
<1>2. ASSUME NEW i \in 0..C - 1, i \in X PROVE i + 1 \in X
  <2>1. PICK f \in [0..i -> T] : Ok(i, f)
    BY <1>2
  <2>2. \A m \in 0..i : f[m] \in T /\ f[m] = IF m = 0 THEN S ELSE next[f[m - 1]]
    BY <2>1
  <2> HIDE DEF Ok
  <2> DEFINE g == [m \in 0..i + 1 |-> IF m = i + 1 THEN next[f[i]] ELSE f[m]]
  <2>3. g \in [0..i + 1 -> T]
    BY <2>2
  <2>4. \A m \in 0..i : g[m] = f[m]
    OBVIOUS
  <2>5. g[i + 1] = next[f[i]]
    OBVIOUS
  <2> HIDE DEF g
  <2>6. ASSUME NEW m \in 0..i + 1 PROVE g[m] = IF m = 0 THEN S ELSE next[g[m - 1]]
    <3>1. CASE m = i + 1
      <4>1. m - 1 = i /\ m # 0 /\ i \in 0..i
        BY <3>1
      <4> QED
        BY <3>1, <4>1, <2>4, <2>5
    <3>2. CASE m # i + 1
      <4>1. m \in 0..i /\ (m # 0 => m - 1 \in 0..i)
        BY <3>2
      <4> QED
        BY <4>1, <2>2, <2>4
    <3> QED
      BY <3>1, <3>2
  <2>7. g = [m \in 0..i + 1 |-> IF m = 0 THEN S ELSE next[g[m - 1]]]
    <3>1. g = [m \in 0..i + 1 |-> g[m]]
      BY <2>3
    <3> QED
      BY <2>6, <3>1
  <2>8. i + 1 \in 0..C
    OBVIOUS
  <2> QED
    BY <2>3, <2>7, <2>8 DEF Ok
<1>3. C \in X
  <2> HIDE DEF X
  <2>1. \A i \in 0..C : i \in X
    BY <1>1, <1>2, SetInduction
  <2> QED
    BY <2>1
<1> QED
  BY <1>3 DEF Iteration

-----------------------------------------------------------------------------
(* A table of parents in which going up comes to an end, and the members   *)
(* at or above each one.                                                   *)
Forest(C, S, N) ==
  /\ S \in [C -> C \cup {N}] /\ N \notin C
  /\ \A T \in (SUBSET C) \ {{}} : \E c \in T : S[c] \notin T
Ups(C, S, N, F) == F = [c \in C |-> {c} \cup (IF S[c] = N THEN {} ELSE F[S[c]])]

(* Sets that hold the parents of their members, and the least with c.      *)
Upwards(S, N, T) == \A c \in T : S[c] # N => S[c] \in T
Line(C, S, N, c) == {d \in C : \A T \in SUBSET (C \ {d}) : c \in T => ~Upwards(S, N, T)}

LEMMA LineLeast ==
  ASSUME NEW C, NEW S, NEW N, Forest(C, S, N), NEW c \in C
  PROVE  /\ Line(C, S, N, c) \subseteq C /\ c \in Line(C, S, N, c) /\ Upwards(S, N, Line(C, S, N, c))
         /\ \A T \in SUBSET C : Upwards(S, N, T) /\ c \in T => Line(C, S, N, c) \subseteq T
<1>1. \A T \in SUBSET C : Upwards(S, N, T) /\ c \in T => Line(C, S, N, c) \subseteq T
  <2> SUFFICES ASSUME NEW T \in SUBSET C, Upwards(S, N, T), c \in T, NEW d \in Line(C, S, N, c), d \notin T
               PROVE  FALSE
    OBVIOUS
  <2> QED
    BY DEF Line
<1>2. \A d \in Line(C, S, N, c) : S[d] # N => S[d] \in Line(C, S, N, c)
  <2> SUFFICES ASSUME NEW d \in Line(C, S, N, c), S[d] # N,
                      NEW T \in SUBSET (C \ {S[d]}), c \in T, Upwards(S, N, T)
               PROVE  FALSE
    BY DEF Line, Forest
  <2>1. d \in T
    BY <1>1
  <2> QED
    BY <2>1 DEF Upwards
<1>3. Line(C, S, N, c) \subseteq C /\ c \in Line(C, S, N, c)
  BY DEF Line
<1> QED
  BY <1>1, <1>2, <1>3 DEF Upwards

LEMMA LineStep ==
  ASSUME NEW C, NEW S, NEW N, Forest(C, S, N), NEW c \in C
  PROVE  IF S[c] = N THEN Line(C, S, N, c) = {c}
         ELSE S[c] \in C /\ Line(C, S, N, c) = {c} \cup Line(C, S, N, S[c])
<1>1. CASE S[c] = N
  <2>1. Upwards(S, N, {c})
    BY <1>1 DEF Upwards
  <2> QED
    BY <1>1, <2>1, LineLeast
<1>2. CASE S[c] # N
  <2> DEFINE T == {c} \cup Line(C, S, N, S[c])
  <2>1. S[c] \in C
    BY <1>2 DEF Forest
  <2>2. Upwards(S, N, T) /\ T \subseteq C
    BY <2>1, LineLeast DEF Upwards
  <2>3. Line(C, S, N, c) \subseteq T
    BY <2>2, LineLeast
  <2>4. S[c] \in Line(C, S, N, c)
    BY <1>2, LineLeast DEF Upwards
  <2> QED
    BY <1>2, <2>1, <2>3, <2>4, LineLeast
<1> QED
  BY <1>1, <1>2

(* Those sets are the one solution of the recursion that goes up.          *)
LEMMA UpsExist ==
  ASSUME NEW C, NEW S, NEW N, Forest(C, S, N)
  PROVE  \E F : Ups(C, S, N, F)
<1> DEFINE F == [c \in C |-> Line(C, S, N, c)]
<1>1. \A c \in C : F[c] = {c} \cup (IF S[c] = N THEN {} ELSE F[S[c]])
  BY LineStep
<1>2. F = [c \in C |-> {c} \cup (IF S[c] = N THEN {} ELSE F[S[c]])]
  BY <1>1
<1>3. Ups(C, S, N, F)
  BY <1>2 DEF Ups
<1> QED
  BY <1>3

LEMMA UpsStep ==
  ASSUME NEW C, NEW S, NEW N, Forest(C, S, N), NEW F, Ups(C, S, N, F), NEW c \in C
  PROVE  IF S[c] = N THEN F[c] = {c} ELSE S[c] \in C /\ F[c] = {c} \cup F[S[c]]
BY DEF Ups, Forest

LEMMA UpsLeast ==
  ASSUME NEW C, NEW S, NEW N, Forest(C, S, N), NEW F, Ups(C, S, N, F), NEW c \in C
  PROVE  /\ F[c] \subseteq C /\ c \in F[c] /\ Upwards(S, N, F[c])
         /\ \A T \in SUBSET C : Upwards(S, N, T) /\ c \in T => F[c] \subseteq T
<1> DEFINE T == {d \in Line(C, S, N, c) : F[d] # Line(C, S, N, d)}
<1> SUFFICES ASSUME T # {} PROVE FALSE
  BY LineLeast
<1>1. T \in (SUBSET C) \ {{}}
  BY LineLeast
<1>2. PICK d \in T : S[d] \notin T
  BY <1>1 DEF Forest
<1>3. d \in C /\ d \in Line(C, S, N, c) /\ F[d] # Line(C, S, N, d)
  BY <1>1, <1>2
<1>4. S[d] # N => S[d] \in Line(C, S, N, c) /\ S[d] \in C
  BY <1>3, LineLeast DEF Upwards
<1>5. S[d] # N => F[S[d]] = Line(C, S, N, S[d])
  BY <1>2, <1>4
<1>6. IF S[d] = N THEN F[d] = {d} ELSE F[d] = {d} \cup F[S[d]]
  BY <1>3, UpsStep
<1>7. IF S[d] = N THEN Line(C, S, N, d) = {d} ELSE Line(C, S, N, d) = {d} \cup Line(C, S, N, S[d])
  BY <1>3, LineStep
<1> QED
  BY <1>3, <1>5, <1>6, <1>7

LEMMA UpsAntisymmetric ==
  ASSUME NEW C, NEW S, NEW N, Forest(C, S, N), NEW F, Ups(C, S, N, F),
         NEW c \in C, NEW d \in F[c], c \in F[d]
  PROVE  c = d
<1> SUFFICES ASSUME c # d PROVE FALSE
  OBVIOUS
<1> DEFINE T == {x \in C : F[x] = F[c]}
<1>1. T \in (SUBSET C) \ {{}}
  OBVIOUS
<1>2. PICK x \in T : S[x] \notin T
  BY <1>1 DEF Forest
<1>3. x \in C /\ F[x] = F[c] /\ d \in C
  BY <1>2, UpsLeast
<1>4. F[d] = F[c] /\ c \in F[x] /\ d \in F[x]
  BY <1>3, UpsLeast
<1>5. PICK y \in {c, d} : y # x
  OBVIOUS
<1>6. S[x] # N /\ S[x] \in C /\ y \in F[S[x]] /\ F[S[x]] \subseteq F[x]
  BY <1>3, <1>4, <1>5, UpsStep
<1>7. F[y] = F[c] /\ F[y] \subseteq F[S[x]]
  BY <1>3, <1>4, <1>5, <1>6, UpsLeast
<1> QED
  BY <1>2, <1>3, <1>6, <1>7

(* What is above one stands in a line, and some of it has a lowest.        *)
LEMMA UpsLine ==
  ASSUME NEW C, NEW S, NEW N, Forest(C, S, N), NEW F, Ups(C, S, N, F),
         NEW c \in C, NEW d \in F[c], NEW e \in F[c]
  PROVE  d \in F[e] \/ e \in F[d]
<1> DEFINE T == {x \in F[c] : e \in F[x] \/ x \in F[e]}
<1>1. T \subseteq C /\ c \in T /\ e \in C
  BY UpsLeast
<1>2. ASSUME NEW x \in T, S[x] # N PROVE S[x] \in T
  <2>1. S[x] \in F[c] /\ x \in C
    BY <1>2, UpsLeast DEF Upwards
  <2>2. CASE e \in F[x] /\ e # x
    BY <1>2, <2>1, <2>2, UpsStep
  <2>3. CASE x \in F[e] \/ e = x
    BY <1>1, <1>2, <2>1, <2>3, UpsLeast DEF Upwards
  <2> QED
    BY <1>2, <2>2, <2>3
<1>3. Upwards(S, N, T)
  BY <1>2 DEF Upwards
<1> HIDE DEF T
<1>4. F[c] \subseteq T
  BY <1>1, <1>3, UpsLeast
<1> QED
  BY <1>4 DEF T

LEMMA UpsLowest ==
  ASSUME NEW C, NEW S, NEW N, Forest(C, S, N), NEW F, Ups(C, S, N, F),
         NEW c \in C, NEW T \in SUBSET F[c], T # {}
  PROVE  \E l \in T : T \subseteq F[l] /\ \A m \in T : T \subseteq F[m] => m = l
<1> DEFINE R == {x \in F[c] : (\E l \in T : T \subseteq F[l]) \/ T \subseteq F[x]}
<1>1. R \subseteq C /\ c \in R
  BY UpsLeast
<1>2. ASSUME NEW x \in R, S[x] # N PROVE S[x] \in R
  <2>1. S[x] \in F[c] /\ x \in C
    BY <1>2, UpsLeast DEF Upwards
  <2>2. CASE \E l \in T : T \subseteq F[l]
    BY <2>1, <2>2
  <2>3. CASE T \subseteq F[x] /\ x \notin T
    BY <1>2, <2>1, <2>3, UpsStep
  <2> QED
    BY <2>2, <2>3
<1>3. F[c] \subseteq R
  <2>1. Upwards(S, N, R)
    BY <1>2 DEF Upwards
  <2> HIDE DEF R
  <2> QED
    BY <1>1, <2>1, UpsLeast
<1>4. PICK l \in T : T \subseteq F[l]
  BY <1>3
<1>5. ASSUME NEW m \in T, T \subseteq F[m] PROVE m = l
  <2>1. l \in C /\ m \in F[l] /\ l \in F[m]
    BY <1>4, <1>5, UpsLeast
  <2> QED
    BY <2>1, UpsAntisymmetric
<1> QED
  BY <1>4, <1>5
=============================================================================
