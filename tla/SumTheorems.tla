----------------------------- MODULE SumTheorems -----------------------------
(***************************************************************************)
(* Facts about SumFunctionOnSet, the sum of the values of a function over a *)
(* finite set.  The library defines it by recursion over the subsets of    *)
(* the set.  Induction is done here by way of a smallest counterexample,   *)
(* so that every fact is a first-order one.                                *)
(***************************************************************************)
EXTENDS Integers, FiniteSets, Functions, FiniteSetTheorems, TLAPS

(* Among any subsets of a finite set there is one that contains no other of *)
(* them.                                                                    *)
LEMMA SmallestSubset ==
  ASSUME NEW S, IsFiniteSet(S), NEW B \in SUBSET (SUBSET S), B # {}
  PROVE  \E T \in B : \A U \in B : U \subseteq T => U = T
<1>1. IsWellFoundedOn(StrictSubsetOrdering(S), FiniteSubsetsOf(S))
  BY FS_StrictSubsetOrderingWellFounded
<1>2. B \subseteq FiniteSubsetsOf(S)
  BY FS_FiniteSubsetsOfFinite
<1>3. PICK T \in B : \A U \in B : <<U, T>> \notin StrictSubsetOrdering(S)
  BY <1>1, <1>2, WFMin
<1>4. \A U \in B : U \subseteq T => U = T
  BY <1>3 DEF StrictSubsetOrdering
<1>5. QED
  BY <1>4

(* The element that the fold takes out of s, and what makes g the function *)
(* that the fold iterates over the subsets of S.                           *)
Taken(s) == CHOOSE x \in s : TRUE

Iterates(g, f, S) ==
  g = [s \in SUBSET S |-> IF s = {} THEN 0 ELSE f[Taken(s)] + g[s \ {Taken(s)}]]

(* The fold takes an element out of a set that has one. *)
LEMMA TakenIsElement ==
  ASSUME NEW s, s # {}
  PROVE  Taken(s) \in s
BY DEF Taken

(* SumFunctionOnSet is the function that its definition iterates, at S. *)
LEMMA SumIsIterated ==
  ASSUME NEW f, NEW S
  PROVE  SumFunctionOnSet(f, S) = (CHOOSE g : Iterates(g, f, S))[S]
BY DEF SumFunctionOnSet, FoldFunctionOnSet, MapThenFoldSet, Iterates, Taken

(* What is iterated over a set and over a subset of it agree.              *)
LEMMA IterationIsUnique ==
  ASSUME NEW f, NEW S, IsFiniteSet(S), NEW T \in SUBSET S,
         NEW g, Iterates(g, f, S), NEW h, Iterates(h, f, T)
  PROVE  \A s \in SUBSET T : g[s] = h[s]
<1> DEFINE B == {s \in SUBSET T : g[s] # h[s]}
<1>1. SUFFICES ASSUME B # {}
               PROVE  FALSE
  OBVIOUS
<1>2. IsFiniteSet(T) /\ B \in SUBSET (SUBSET T)
  BY FS_Subset
<1>3. PICK s \in B : \A u \in B : u \subseteq s => u = s
  <2> HIDE DEF B
  <2>1. QED
    BY <1>1, <1>2, SmallestSubset
<1>4. /\ g[s] = IF s = {} THEN 0 ELSE f[Taken(s)] + g[s \ {Taken(s)}]
      /\ h[s] = IF s = {} THEN 0 ELSE f[Taken(s)] + h[s \ {Taken(s)}]
  BY DEF Iterates
<1>5. CASE s = {}
  BY <1>3, <1>4, <1>5
<1>6. CASE s # {}
  <2>1. s \ {Taken(s)} \in SUBSET T /\ s \ {Taken(s)} # s
    BY <1>6, TakenIsElement
  <2>2. g[s \ {Taken(s)}] = h[s \ {Taken(s)}]
    BY <1>3, <2>1
  <2>3. QED
    BY <1>3, <1>4, <2>2
<1>7. QED
  BY <1>5, <1>6

(* There is such a function: the sums of the smaller sets give that of a   *)
(* set.                                                                    *)
LEMMA IterationExists ==
  ASSUME NEW f, NEW S, IsFiniteSet(S)
  PROVE  Iterates(CHOOSE g : Iterates(g, f, S), f, S)
<1> DEFINE B == {T \in SUBSET S : \A g : ~Iterates(g, f, T)}
<1>1. SUFFICES B = {}
  BY S \in SUBSET S
<1>2. SUFFICES ASSUME B # {}
               PROVE  FALSE
  OBVIOUS
<1>3. PICK T \in B : \A U \in B : U \subseteq T => U = T
  <2>1. B \in SUBSET (SUBSET S)
    OBVIOUS
  <2> HIDE DEF B
  <2>2. QED
    BY <1>2, <2>1, SmallestSubset
<1> DEFINE it(U) == CHOOSE g : Iterates(g, f, U)
           h == [s \in SUBSET T |->
                  IF s = {} THEN 0
                  ELSE f[Taken(s)] + it(s \ {Taken(s)})[s \ {Taken(s)}]]
<1>4. ASSUME NEW U \in SUBSET T, U # T
      PROVE  Iterates(it(U), f, U)
  BY <1>3, <1>4
<1> HIDE DEF it
<1>5. ASSUME NEW s \in SUBSET T, s # {}
      PROVE  h[s \ {Taken(s)}] = it(s \ {Taken(s)})[s \ {Taken(s)}]
  <2> DEFINE u == s \ {Taken(s)}
  <2>1. u \in SUBSET T /\ u # T
    BY <1>5, TakenIsElement
  <2> HIDE DEF u
  <2>2. it(u)[u] = IF u = {} THEN 0 ELSE f[Taken(u)] + it(u)[u \ {Taken(u)}]
    BY <1>4, <2>1 DEF Iterates
  <2>3. h[u] = IF u = {} THEN 0
               ELSE f[Taken(u)] + it(u \ {Taken(u)})[u \ {Taken(u)}]
    BY <2>1
  <2>4. ASSUME u # {}
        PROVE  it(u)[u \ {Taken(u)}] = it(u \ {Taken(u)})[u \ {Taken(u)}]
    <3> DEFINE v == u \ {Taken(u)}
    <3>1. v \in SUBSET u /\ v \in SUBSET T /\ v # T
      BY <2>1, <2>4, TakenIsElement
    <3> HIDE DEF v
    <3>2. IsFiniteSet(u)
      BY <2>1, FS_Subset
    <3>3. Iterates(it(u), f, u) /\ Iterates(it(v), f, v)
      BY <1>4, <2>1, <3>1
    <3>4. \A s1 \in SUBSET v : it(u)[s1] = it(v)[s1]
      BY <3>1, <3>2, <3>3, IterationIsUnique
    <3>5. QED
      BY <3>4 DEF v
  <2>5. QED
    BY <2>2, <2>3, <2>4 DEF u
<1>6. Iterates(h, f, T)
  <2>1. \A s \in SUBSET T :
          h[s] = IF s = {} THEN 0 ELSE f[Taken(s)] + h[s \ {Taken(s)}]
    BY <1>5
  <2>2. h = [s \in SUBSET T |-> h[s]]
    OBVIOUS
  <2> HIDE DEF h
  <2>3. QED
    BY <2>1, <2>2 DEF Iterates
<1>7. QED
  BY <1>3, <1>6

(* The sum is the value the fold takes out plus the sum of the rest.       *)
LEMMA SumRecursion ==
  ASSUME NEW f, NEW S, IsFiniteSet(S)
  PROVE  SumFunctionOnSet(f, S) =
           IF S = {} THEN 0
           ELSE f[Taken(S)] + SumFunctionOnSet(f, S \ {Taken(S)})
<1> DEFINE it(U) == CHOOSE g : Iterates(g, f, U)
<1>1. Iterates(it(S), f, S)
  BY IterationExists
<1>2. it(S)[S] = IF S = {} THEN 0 ELSE f[Taken(S)] + it(S)[S \ {Taken(S)}]
  BY <1>1, S \in SUBSET S DEF Iterates
<1>3. ASSUME S # {}
      PROVE  it(S)[S \ {Taken(S)}] = SumFunctionOnSet(f, S \ {Taken(S)})
  <2> DEFINE R == S \ {Taken(S)}
  <2>1. R \in SUBSET S /\ IsFiniteSet(R)
    BY FS_Subset
  <2> HIDE DEF R
  <2>2. Iterates(it(R), f, R)
    BY <2>1, IterationExists
  <2>3. it(S)[R] = it(R)[R]
    BY <1>1, <2>1, <2>2, IterationIsUnique, R \in SUBSET R
  <2>4. it(R)[R] = SumFunctionOnSet(f, R)
    BY SumIsIterated
  <2>5. QED
    BY <2>3, <2>4 DEF R
<1>4. it(S)[S] = SumFunctionOnSet(f, S)
  BY SumIsIterated
<1>5. QED
  BY <1>2, <1>3, <1>4

-----------------------------------------------------------------------------
(* The sum over no element is zero. *)
LEMMA SumEmpty ==
  ASSUME NEW f
  PROVE  SumFunctionOnSet(f, {}) = 0
BY SumRecursion, FS_EmptySet

(* The sum of natural numbers is one. *)
LEMMA SumType ==
  ASSUME NEW f, NEW S, IsFiniteSet(S), \A x \in S : f[x] \in Nat
  PROVE  SumFunctionOnSet(f, S) \in Nat
<1> DEFINE B == {T \in SUBSET S : SumFunctionOnSet(f, T) \notin Nat}
<1>1. SUFFICES ASSUME B # {}
               PROVE  FALSE
  BY S \in SUBSET S
<1>2. PICK T \in B : \A U \in B : U \subseteq T => U = T
  <2>1. B \in SUBSET (SUBSET S)
    OBVIOUS
  <2> HIDE DEF B
  <2>2. QED
    BY <1>1, <2>1, SmallestSubset
<1> DEFINE R == T \ {Taken(T)}
<1>3. IsFiniteSet(T)
  BY FS_Subset
<1>4. /\ T = {} => SumFunctionOnSet(f, T) = 0
      /\ T # {} => SumFunctionOnSet(f, T) = f[Taken(T)] + SumFunctionOnSet(f, R)
  BY <1>3, SumRecursion
<1>5. T # {} => Taken(T) \in T /\ R \in SUBSET S /\ R \subseteq T /\ R # T
  BY TakenIsElement
<1> HIDE DEF R
<1>6. T # {} => SumFunctionOnSet(f, R) \in Nat
  BY <1>2, <1>5
<1>7. QED
  BY <1>2, <1>4, <1>5, <1>6

(* Whichever element is taken out, the rest makes up the sum.              *)
LEMMA SumRemove ==
  ASSUME NEW f, NEW S, IsFiniteSet(S), \A y \in S : f[y] \in Nat, NEW x \in S
  PROVE  SumFunctionOnSet(f, S) = f[x] + SumFunctionOnSet(f, S \ {x})
<1> DEFINE sum(T) == SumFunctionOnSet(f, T)
           B == {T \in SUBSET S : \E y \in T : sum(T) # f[y] + sum(T \ {y})}
<1>1. SUFFICES ASSUME B # {}
               PROVE  FALSE
  BY S \in SUBSET S
<1>2. PICK T \in B : \A U \in B : U \subseteq T => U = T
  <2>1. B \in SUBSET (SUBSET S)
    OBVIOUS
  <2> HIDE DEF B
  <2>2. QED
    BY <1>1, <2>1, SmallestSubset
<1>3. PICK y \in T : sum(T) # f[y] + sum(T \ {y})
  BY <1>2
<1> DEFINE z == Taken(T)
           R == T \ {z}
           Q == T \ {y}
           P == T \ {y, z}
<1>4. z \in T /\ y # z
  <2>1. z \in T
    BY <1>3, TakenIsElement
  <2>2. sum(T) = f[z] + sum(T \ {z})
    <3>1. IsFiniteSet(T) /\ T # {}
      BY <1>3, FS_Subset
    <3>2. QED
      BY <3>1, SumRecursion
  <2>3. QED
    BY <1>3, <2>1, <2>2
<1>5. /\ R \in SUBSET S /\ R \subseteq T /\ R # T /\ y \in R /\ R \ {y} = P
      /\ Q \in SUBSET S /\ Q \subseteq T /\ Q # T /\ z \in Q /\ Q \ {z} = P
      /\ P \in SUBSET S
  BY <1>3, <1>4
<1>6. sum(T) = f[z] + sum(R)
  <2>1. IsFiniteSet(T) /\ T # {}
    BY <1>3, FS_Subset
  <2>2. QED
    BY <2>1, SumRecursion
<1> HIDE DEF R, Q, P, z
<1>7. sum(R) = f[y] + sum(P)
  BY <1>2, <1>5
<1>8. sum(Q) = f[z] + sum(P)
  BY <1>2, <1>5
<1>9. sum(P) \in Nat
  <2>1. IsFiniteSet(P) /\ \A u \in P : f[u] \in Nat
    BY <1>5, FS_Subset
  <2>2. QED
    BY <2>1, SumType
<1>10. f[y] \in Nat /\ f[z] \in Nat
  BY <1>3, <1>4
<1>11. sum(T) = f[y] + sum(Q)
  <2> HIDE DEF sum
  <2>1. QED
    BY <1>6, <1>7, <1>8, <1>9, <1>10
<1>12. QED
  BY <1>3, <1>11 DEF Q

(* One more element adds its value. *)
LEMMA SumAdd ==
  ASSUME NEW f, NEW S, IsFiniteSet(S), \A y \in S : f[y] \in Nat,
         NEW x, x \notin S, f[x] \in Nat
  PROVE  SumFunctionOnSet(f, S \cup {x}) = f[x] + SumFunctionOnSet(f, S)
<1> DEFINE U == S \cup {x}
<1>1. IsFiniteSet(U)
  BY FS_AddElement
<1>2. x \in U /\ U \ {x} = S /\ \A y \in U : f[y] \in Nat
  OBVIOUS
<1> HIDE DEF U
<1>3. SumFunctionOnSet(f, U) = f[x] + SumFunctionOnSet(f, U \ {x})
  BY <1>1, <1>2, SumRemove
<1>4. QED
  BY <1>2, <1>3 DEF U

(* The sum depends only on the values of the function on the set.          *)
LEMMA SumAgrees ==
  ASSUME NEW f, NEW g, NEW S, IsFiniteSet(S), \A x \in S : f[x] = g[x]
  PROVE  SumFunctionOnSet(f, S) = SumFunctionOnSet(g, S)
<1> DEFINE B == {T \in SUBSET S : SumFunctionOnSet(f, T) # SumFunctionOnSet(g, T)}
<1>1. SUFFICES ASSUME B # {}
               PROVE  FALSE
  BY S \in SUBSET S
<1>2. PICK T \in B : \A U \in B : U \subseteq T => U = T
  <2>1. B \in SUBSET (SUBSET S)
    OBVIOUS
  <2> HIDE DEF B
  <2>2. QED
    BY <1>1, <2>1, SmallestSubset
<1> DEFINE R == T \ {Taken(T)}
<1>3. IsFiniteSet(T)
  BY FS_Subset
<1>4. T # {} /\ Taken(T) \in T
  <2>1. T = {} => SumFunctionOnSet(f, T) = SumFunctionOnSet(g, T)
    BY SumEmpty
  <2>2. QED
    BY <1>2, <2>1, TakenIsElement
<1>5. /\ SumFunctionOnSet(f, T) = f[Taken(T)] + SumFunctionOnSet(f, R)
      /\ SumFunctionOnSet(g, T) = g[Taken(T)] + SumFunctionOnSet(g, R)
  BY <1>3, <1>4, SumRecursion
<1>6. R \in SUBSET S /\ R \subseteq T /\ R # T
  BY <1>4
<1> HIDE DEF R
<1>7. SumFunctionOnSet(f, R) = SumFunctionOnSet(g, R)
  BY <1>2, <1>6
<1>8. QED
  BY <1>2, <1>4, <1>5, <1>7

(* The sum over two sets without a common element is that of their sums. *)
LEMMA SumOfParts ==
  ASSUME NEW f, NEW S, IsFiniteSet(S), NEW T, IsFiniteSet(T), S \cap T = {},
         \A x \in S \cup T : f[x] \in Nat
  PROVE  SumFunctionOnSet(f, S \cup T) =
           SumFunctionOnSet(f, S) + SumFunctionOnSet(f, T)
<1> DEFINE sum(U) == SumFunctionOnSet(f, U)
           B == {U \in SUBSET T : sum(S \cup U) # sum(S) + sum(U)}
<1>1. SUFFICES ASSUME B # {}
               PROVE  FALSE
  BY T \in SUBSET T
<1>2. PICK U \in B : \A V \in B : V \subseteq U => V = U
  <2>1. B \in SUBSET (SUBSET T)
    OBVIOUS
  <2> HIDE DEF B
  <2>2. QED
    BY <1>1, <2>1, SmallestSubset
<1>3. /\ IsFiniteSet(U) /\ \A x \in U : f[x] \in Nat
      /\ U \in SUBSET T /\ S \cap U = {}
      /\ sum(S \cup U) # sum(S) + sum(U)
  BY <1>2, FS_Subset
<1>4. sum(S) \in Nat
  BY SumType
<1>5. U # {}
  <2>1. U = {} => sum(S \cup U) = sum(S) /\ sum(U) = 0
    BY SumEmpty, S \cup {} = S
  <2> HIDE DEF sum
  <2>2. QED
    BY <1>3, <1>4, <2>1
<1>6. PICK x \in U : TRUE
  BY <1>5
<1> DEFINE R == U \ {x}
           W == S \cup U
<1>7. /\ R \in SUBSET T /\ R \subseteq U /\ R # U /\ IsFiniteSet(R)
      /\ \A y \in R : f[y] \in Nat
  BY <1>3, FS_RemoveElement
<1>8. sum(S \cup R) = sum(S) + sum(R)
  BY <1>2, <1>7
<1>9. IsFiniteSet(W) /\ W \ {x} = S \cup R /\ x \in W /\ \A y \in W : f[y] \in Nat
  BY <1>3, FS_Union
<1>10. sum(U) = f[x] + sum(R)
  BY <1>3, SumRemove
<1> HIDE DEF R, W
<1>11. sum(W) = f[x] + sum(W \ {x})
  BY <1>9, SumRemove
<1>12. sum(R) \in Nat /\ f[x] \in Nat
  BY <1>3, <1>7, SumType
<1>13. sum(W) # sum(S) + sum(U)
  BY <1>3 DEF W
<1> HIDE DEF sum
<1>14. QED
  BY <1>4, <1>8, <1>9, <1>10, <1>11, <1>12, <1>13

(* The sum over a subset is no greater. *)
LEMMA SumIsMonotonic ==
  ASSUME NEW f, NEW S, IsFiniteSet(S), \A x \in S : f[x] \in Nat, NEW T \in SUBSET S
  PROVE  SumFunctionOnSet(f, T) <= SumFunctionOnSet(f, S)
<1> DEFINE R == S \ T
<1>1. IsFiniteSet(T) /\ IsFiniteSet(R)
  BY FS_Subset
<1>2. T \cap R = {} /\ T \cup R = S /\ \A x \in T \cup R : f[x] \in Nat
  OBVIOUS
<1> HIDE DEF R
<1>3. SumFunctionOnSet(f, T \cup R) =
        SumFunctionOnSet(f, T) + SumFunctionOnSet(f, R)
  BY <1>1, <1>2, SumOfParts
<1>4. SumFunctionOnSet(f, T) \in Nat /\ SumFunctionOnSet(f, R) \in Nat
  BY <1>1, <1>2, SumType
<1>5. SumFunctionOnSet(f, S) =
        SumFunctionOnSet(f, T) + SumFunctionOnSet(f, R)
  BY <1>2, <1>3
<1>6. QED
  BY <1>4, <1>5

(* The sum over a family of disjoint sets is the sum of their sums.        *)
LEMMA SumOfFamily ==
  ASSUME NEW f, NEW I, IsFiniteSet(I), NEW F,
         \A i \in I : IsFiniteSet(F[i]) /\ \A x \in F[i] : f[x] \in Nat,
         \A i, j \in I : i # j => F[i] \cap F[j] = {}
  PROVE  SumFunctionOnSet(f, UNION {F[i] : i \in I}) =
           SumFunctionOnSet([i \in I |-> SumFunctionOnSet(f, F[i])], I)
<1> DEFINE sum(U) == SumFunctionOnSet(f, U)
           row == [i \in I |-> sum(F[i])]
           rows(J) == SumFunctionOnSet(row, J)
           All(J) == UNION {F[i] : i \in J}
           B == {J \in SUBSET I : sum(All(J)) # rows(J)}
<1>1. SUFFICES ASSUME B # {}
               PROVE  FALSE
  BY I \in SUBSET I
<1>2. PICK J \in B : \A K \in B : K \subseteq J => K = J
  <2>1. B \in SUBSET (SUBSET I)
    OBVIOUS
  <2> HIDE DEF B
  <2>2. QED
    BY <1>1, <2>1, SmallestSubset
<1>3. J \in SUBSET I /\ IsFiniteSet(J) /\ sum(All(J)) # rows(J)
  BY <1>2, FS_Subset
<1>4. J # {}
  <2>1. All({}) = {}
    OBVIOUS
  <2>2. sum({}) = 0 /\ rows({}) = 0
    BY SumEmpty
  <2>3. QED
    BY <1>3, <2>1, <2>2
<1>5. PICK i \in J : TRUE
  BY <1>4
<1> DEFINE K == J \ {i}
<1>6. K \in SUBSET I /\ K \subseteq J /\ K # J /\ IsFiniteSet(K)
  BY <1>3, FS_Subset
<1>7. sum(All(K)) = rows(K)
  BY <1>2, <1>6
<1>8. \A j \in I : row[j] \in Nat
  BY SumType
<1>9. rows(J) = row[i] + rows(K)
  <2>1. \A j \in J : row[j] \in Nat
    BY <1>3, <1>8
  <2> HIDE DEF row
  <2>2. QED
    BY <1>3, <2>1, SumRemove
<1>10. All(J) = F[i] \cup All(K) /\ F[i] \cap All(K) = {}
  BY <1>3
<1>11. IsFiniteSet(All(K))
  <2> DEFINE P == {F[j] : j \in K}
  <2>1. IsFiniteSet(P)
    <3> DEFINE g == [j \in K |-> F[j]]
    <3>1. g \in Surjection(K, P)
      BY DEF Surjection
    <3> HIDE DEF g
    <3>2. QED
      BY <1>6, <3>1, FS_Surjection
  <2>2. \A s \in P : IsFiniteSet(s)
    BY <1>6
  <2>3. All(K) = UNION P
    OBVIOUS
  <2> HIDE DEF P
  <2>4. QED
    BY <2>1, <2>2, <2>3, FS_UNION
<1>12. \A x \in F[i] \cup All(K) : f[x] \in Nat
  BY <1>3, <1>6
<1>13. IsFiniteSet(F[i])
  BY <1>3
<1> HIDE DEF All, K
<1>14. sum(F[i] \cup All(K)) = sum(F[i]) + sum(All(K))
  BY <1>10, <1>11, <1>12, <1>13, SumOfParts
<1>15. row[i] = sum(F[i])
  BY <1>3
<1>16. QED
  BY <1>3, <1>7, <1>9, <1>10, <1>14, <1>15
=============================================================================
