---------------------------- MODULE SumTheorems ----------------------------
(***************************************************************************)
(* Facts about sums over finite sets, and the induction they rest on.  An  *)
(* induction theorem over a predicate cannot be used by the provers; over  *)
(* a set of cases it can: the cases that fail, if there are any, have a    *)
(* least one (WFMin).                                                      *)
(***************************************************************************)
EXTENDS Sums, FiniteSetTheorems, TLAPS

(* What holds of a subset whenever it holds of the smaller ones holds of   *)
(* all of them; G is the set of those it holds of.                         *)
LEMMA SubsetInduction ==
    ASSUME NEW S, IsFiniteSet(S), NEW G,
           \A T \in SUBSET S : (\A U \in SUBSET T : U # T => U \in G) => T \in G
    PROVE  \A T \in SUBSET S : T \in G
<1> DEFINE Bad == {T \in SUBSET S : T \notin G}
           R == StrictSubsetOrdering(S)
<1> SUFFICES ASSUME Bad # {} PROVE FALSE
    OBVIOUS
<1>1. IsWellFoundedOn(R, SUBSET S)
    <2>1. FiniteSubsetsOf(S) = SUBSET S
        BY FS_FiniteSubsetsOfFinite
    <2>2. IsWellFoundedOn(R, FiniteSubsetsOf(S))
        BY FS_StrictSubsetOrderingWellFounded
    <2> QED BY <2>1, <2>2
<1>2. Bad \subseteq SUBSET S
    OBVIOUS
<1> HIDE DEF R
<1>3. PICK T \in Bad : \A U \in Bad : ~ (<<U, T>> \in R)
    <2> HIDE DEF Bad
    <2> QED BY <1>1, <1>2, WFMin
<1>4. ASSUME NEW U \in SUBSET T, U # T PROVE U \in G
    BY <1>3, <1>4 DEF R, StrictSubsetOrdering
<1> QED BY <1>3, <1>4

(* What the fold computes with: a function over the subsets of S that      *)
(* adds one element, any one, to the sum of the others.                    *)
AnyOf(s) == CHOOSE x \in s : TRUE
SumStep(f, h, s) == IF s = {} THEN 0 ELSE f[AnyOf(s)] + h[s \ {AnyOf(s)}]
SumIter(f, S) == CHOOSE h : h = [s \in SUBSET S |-> SumStep(f, h, s)]

(* The fold of the library is such a function, at S. *)
LEMMA SumIsIter ==
    ASSUME NEW f, NEW S
    PROVE  SumOver(f, S) = SumIter(f, S)[S]
BY DEF SumOver, MapThenSumSet, MapThenFoldSet, SumIter, SumStep, AnyOf

SolvesSum(h, f, S) == h = [s \in SUBSET S |-> SumStep(f, h, s)]

(* Two of them agree wherever both are defined, *)
LEMMA IterUnique ==
    ASSUME NEW f, NEW S, IsFiniteSet(S), NEW g, SolvesSum(g, f, S), NEW V, V \subseteq S,
           NEW h, SolvesSum(h, f, V)
    PROVE  \A s \in SUBSET V : g[s] = h[s]
<1> DEFINE G == {s \in SUBSET V : g[s] = h[s]}
<1>1. IsFiniteSet(V)
    BY FS_Subset
<1>2. ASSUME NEW T \in SUBSET V, \A U \in SUBSET T : U # T => U \in G
      PROVE  T \in G
    <2>1. g[T] = SumStep(f, g, T) /\ h[T] = SumStep(f, h, T)
        BY DEF SolvesSum
    <2>2. CASE T = {}
        BY <2>1, <2>2 DEF SumStep
    <2>3. CASE T # {}
        <3>1. AnyOf(T) \in T
            BY <2>3 DEF AnyOf
        <3>2. T \ {AnyOf(T)} \in G
            BY <1>2, <3>1
        <3> QED BY <2>1, <2>3, <3>2 DEF SumStep
    <2> QED BY <2>2, <2>3
<1> HIDE DEF G
<1>3. \A T \in SUBSET V : T \in G
    BY <1>1, <1>2, SubsetInduction
<1> QED BY <1>3 DEF G

(* and there is one over every finite set. *)
LEMMA IterExists ==
    ASSUME NEW f, NEW S, IsFiniteSet(S)
    PROVE  SolvesSum(SumIter(f, S), f, S)
<1> DEFINE G == {T \in SUBSET S : \E h : SolvesSum(h, f, T)}
<1>1. ASSUME NEW T \in SUBSET S, \A U \in SUBSET T : U # T => U \in G
      PROVE  T \in G
    <2>1. CASE T = {}
        <3> DEFINE h == [s \in SUBSET T |-> 0]
        <3>1. SolvesSum(h, f, T)
            BY <2>1 DEF SolvesSum, SumStep
        <3> QED BY <3>1
    <2>2. CASE T # {}
        <3> DEFINE x == AnyOf(T)
                   k == [U \in SUBSET T |-> SumIter(f, U)]
                   h == [s \in SUBSET T |->
                           IF s = T THEN f[x] + k[T \ {x}][T \ {x}] ELSE k[s][s]]
        <3>1. x \in T
            BY <2>2 DEF AnyOf
        <3>2. \A U \in SUBSET T : U # T => SolvesSum(k[U], f, U)
            BY <1>1 DEF SumIter, SolvesSum
        <3>3. ASSUME NEW s \in SUBSET T PROVE h[s] = SumStep(f, h, s)
            <4>1. CASE s = T
                BY <2>2, <3>1, <4>1 DEF SumStep
            <4>2. CASE s # T
                <5>1. h[s] = SumStep(f, k[s], s)
                    <6>1. h[s] = k[s][s]
                        BY <4>2
                    <6>2. SolvesSum(k[s], f, s)
                        BY <3>2, <4>2
                    <6> HIDE DEF h, k
                    <6> QED BY <6>1, <6>2 DEF SolvesSum
                <5>2. CASE s = {}
                    BY <5>1, <5>2 DEF SumStep
                <5>3. CASE s # {}
                    <6> DEFINE t == s \ {AnyOf(s)}
                    <6>1. AnyOf(s) \in s
                        BY <5>3 DEF AnyOf
                    <6>2. t \in SUBSET T /\ t # T /\ t \subseteq s
                        BY <6>1
                    <6>3. SolvesSum(k[s], f, s) /\ SolvesSum(k[t], f, t)
                        BY <3>2, <4>2, <6>2
                    <6>4. IsFiniteSet(s)
                        BY FS_Subset
                    <6>5. h[t] = k[t][t]
                        BY <6>2
                    <6> HIDE DEF h, k, t
                    <6>6. k[s][t] = k[t][t]
                        <7>1. PICK g, w : g = k[s] /\ w = k[t]
                            OBVIOUS
                        <7>2. SolvesSum(g, f, s) /\ SolvesSum(w, f, t) /\ t \subseteq s
                            BY <6>2, <6>3, <7>1
                        <7>3. \A u \in SUBSET t : g[u] = w[u]
                            BY <6>4, <7>2, IterUnique
                        <7> QED BY <7>1, <7>3
                    <6> QED BY <5>1, <5>3, <6>5, <6>6 DEF SumStep, t
                <5> QED BY <5>2, <5>3
            <4> QED BY <4>1, <4>2
        <3>4. h = [s \in SUBSET T |-> h[s]]
            OBVIOUS
        <3> HIDE DEF h
        <3>5. SolvesSum(h, f, T)
            BY <3>3, <3>4 DEF SolvesSum
        <3> QED BY <3>5
    <2> QED BY <2>1, <2>2
<1> HIDE DEF G
<1>2. S \in G
    <2>1. \A T \in SUBSET S : T \in G
        BY <1>1, SubsetInduction
    <2> QED BY <2>1
<1> QED BY <1>2 DEF G, SumIter, SolvesSum

(* So the fold is what it is meant to be. *)
LEMMA SumUnfold ==
    ASSUME NEW f, NEW S, IsFiniteSet(S)
    PROVE  SumOver(f, S) = IF S = {} THEN 0 ELSE f[AnyOf(S)] + SumOver(f, S \ {AnyOf(S)})
<1> DEFINE t == S \ {AnyOf(S)}
<1>1. SumOver(f, S) = SumStep(f, SumIter(f, S), S)
    <2>1. SolvesSum(SumIter(f, S), f, S)
        BY IterExists
    <2> QED BY <2>1, SumIsIter DEF SolvesSum
<1>2. SumIter(f, S)[t] = SumIter(f, t)[t]
    <2>1. IsFiniteSet(t) /\ t \subseteq S
        BY FS_Subset
    <2>2. SolvesSum(SumIter(f, S), f, S) /\ SolvesSum(SumIter(f, t), f, t)
        BY <2>1, IterExists
    <2> HIDE DEF t
    <2>3. PICK g, h, u : g = SumIter(f, S) /\ h = SumIter(f, t) /\ u = t
        OBVIOUS
    <2>4. IsFiniteSet(S) /\ SolvesSum(g, f, S) /\ u \subseteq S /\ SolvesSum(h, f, u)
        BY <2>1, <2>2, <2>3
    <2>5. \A s \in SUBSET u : g[s] = h[s]
        BY <2>4, IterUnique
    <2>6. g[u] = h[u]
        BY <2>5
    <2> QED BY <2>3, <2>6
<1> QED BY <1>1, <1>2, SumIsIter DEF SumStep

(* A sum of naturals is a natural. *)
LEMMA SumType ==
    ASSUME NEW S, IsFiniteSet(S), NEW f, \A x \in S : f[x] \in Nat
    PROVE  SumOver(f, S) \in Nat
<1> DEFINE G == {T \in SUBSET S : SumOver(f, T) \in Nat}
<1>1. ASSUME NEW T \in SUBSET S, \A U \in SUBSET T : U # T => U \in G
      PROVE  T \in G
    <2>1. SumOver(f, T) = IF T = {} THEN 0 ELSE f[AnyOf(T)] + SumOver(f, T \ {AnyOf(T)})
        <3>1. IsFiniteSet(T)
            BY FS_Subset
        <3> QED BY <3>1, SumUnfold
    <2>2. CASE T = {}
        BY <2>1, <2>2
    <2>3. CASE T # {}
        <3>1. AnyOf(T) \in T
            BY <2>3 DEF AnyOf
        <3>2. SumOver(f, T \ {AnyOf(T)}) \in Nat
            BY <1>1, <3>1
        <3> QED BY <2>1, <2>3, <3>1, <3>2
    <2> QED BY <2>2, <2>3
<1> HIDE DEF G
<1>2. \A T \in SUBSET S : T \in G
    BY <1>1, SubsetInduction
<1> QED BY <1>2 DEF G

(* It does not matter which element is added last. *)
LEMMA SumRemove ==
    ASSUME NEW S, IsFiniteSet(S), NEW f, \A x \in S : f[x] \in Nat, NEW c \in S
    PROVE  SumOver(f, S) = f[c] + SumOver(f, S \ {c})
<1> DEFINE G == {T \in SUBSET S : \A x \in T : SumOver(f, T) = f[x] + SumOver(f, T \ {x})}
<1>1. ASSUME NEW T \in SUBSET S, \A U \in SUBSET T : U # T => U \in G
      PROVE  T \in G
    <2> SUFFICES ASSUME NEW x \in T PROVE SumOver(f, T) = f[x] + SumOver(f, T \ {x})
        OBVIOUS
    <2>0. PICK y : y = AnyOf(T)
        OBVIOUS
    <2>1. y \in T /\ SumOver(f, T) = f[y] + SumOver(f, T \ {y})
        <3>1. IsFiniteSet(T)
            BY FS_Subset
        <3>2. y \in T
            BY <2>0 DEF AnyOf
        <3>3. T # {}
            BY <3>2
        <3> QED BY <2>0, <3>1, <3>2, <3>3, SumUnfold
    <2>2. CASE x = y
        BY <2>1, <2>2
    <2>3. CASE x # y
        <3>1. T \ {x} \in G /\ T \ {y} \in G
            BY <1>1, <2>1
        <3>2. SumOver(f, T \ {x}) = f[y] + SumOver(f, (T \ {x}) \ {y})
            BY <2>1, <2>3, <3>1
        <3>3. SumOver(f, T \ {y}) = f[x] + SumOver(f, (T \ {y}) \ {x})
            BY <2>3, <3>1
        <3>4. (T \ {x}) \ {y} = (T \ {y}) \ {x}
            OBVIOUS
        <3>5. SumOver(f, (T \ {x}) \ {y}) \in Nat
            <4>1. IsFiniteSet((T \ {x}) \ {y})
                BY FS_Subset
            <4> QED BY <4>1, SumType
        <3> QED BY <2>1, <3>2, <3>3, <3>4, <3>5
    <2> QED BY <2>2, <2>3
<1> HIDE DEF G
<1>2. \A T \in SUBSET S : T \in G
    BY <1>1, SubsetInduction
<1> QED BY <1>2 DEF G

(* A new element adds its value, *)
LEMMA SumAdd ==
    ASSUME NEW S, IsFiniteSet(S), NEW c, c \notin S, NEW f, \A x \in S \cup {c} : f[x] \in Nat
    PROVE  SumOver(f, S \cup {c}) = f[c] + SumOver(f, S)
<1>1. IsFiniteSet(S \cup {c})
    BY FS_AddElement
<1>2. (S \cup {c}) \ {c} = S
    OBVIOUS
<1>3. SumOver(f, S \cup {c}) = f[c] + SumOver(f, (S \cup {c}) \ {c})
    BY <1>1, SumRemove
<1> QED BY <1>2, <1>3

(* and no element adds nothing. *)
LEMMA SumEmpty == ASSUME NEW f PROVE SumOver(f, {}) = 0
BY FS_EmptySet, SumUnfold

(* Sums over disjoint sets add up. *)
LEMMA SumUnion ==
    ASSUME NEW S, IsFiniteSet(S), NEW T, IsFiniteSet(T), S \cap T = {},
           NEW f, \A x \in S \cup T : f[x] \in Nat
    PROVE  SumOver(f, S \cup T) = SumOver(f, S) + SumOver(f, T)
<1> DEFINE G == {U \in SUBSET T : SumOver(f, S \cup U) = SumOver(f, S) + SumOver(f, U)}
<1>0. SumOver(f, S) \in Nat
    BY SumType
<1>1. ASSUME NEW U \in SUBSET T, \A V \in SUBSET U : V # U => V \in G
      PROVE  U \in G
    <2>1. CASE U = {}
        BY <1>0, <2>1, SumEmpty
    <2>2. CASE U # {}
        <3>1. PICK c : c \in U
            BY <2>2
        <3>2. PICK V : V = U \ {c}
            OBVIOUS
        <3>3. IsFiniteSet(V) /\ IsFiniteSet(S \cup V) /\ V \in SUBSET T /\ IsFiniteSet(U)
            <4>1. IsFiniteSet(V) /\ IsFiniteSet(U)
                BY <3>2, FS_Subset
            <4>2. IsFiniteSet(S \cup V)
                BY <4>1, FS_Union
            <4> QED BY <3>2, <4>1, <4>2
        <3>4. SumOver(f, S \cup V) = SumOver(f, S) + SumOver(f, V)
            BY <1>1, <3>1, <3>2
        <3>5. S \cup U = (S \cup V) \cup {c} /\ U = V \cup {c} /\ c \notin S \cup V
            BY <3>1, <3>2
        <3>6. SumOver(f, (S \cup V) \cup {c}) = f[c] + SumOver(f, S \cup V)
            <4>1. \A x \in (S \cup V) \cup {c} : f[x] \in Nat
                BY <3>1, <3>3
            <4> QED BY <3>3, <3>5, <4>1, SumAdd
        <3>7. SumOver(f, V \cup {c}) = f[c] + SumOver(f, V)
            <4>1. \A x \in V \cup {c} : f[x] \in Nat
                BY <3>1, <3>3
            <4> QED BY <3>3, <3>5, <4>1, SumAdd
        <3>8. SumOver(f, V) \in Nat /\ f[c] \in Nat
            BY <3>1, <3>3, SumType
        <3>9. SumOver(f, S \cup U) = f[c] + SumOver(f, S \cup V)
            BY <3>5, <3>6
        <3>10. SumOver(f, U) = f[c] + SumOver(f, V)
            BY <3>5, <3>7
        <3>11. SumOver(f, S \cup U) = SumOver(f, S) + SumOver(f, U)
            BY <1>0, <3>4, <3>8, <3>9, <3>10
        <3> QED BY <3>11
    <2> QED BY <2>1, <2>2
<1> HIDE DEF G
<1>2. \A U \in SUBSET T : U \in G
    BY <1>1, SubsetInduction
<1> QED BY <1>2 DEF G

(* The sum depends on the values in the set alone. *)
LEMMA SumEqual ==
    ASSUME NEW S, IsFiniteSet(S), NEW f, NEW g, \A x \in S : f[x] = g[x]
    PROVE  SumOver(f, S) = SumOver(g, S)
<1> DEFINE G == {T \in SUBSET S : SumOver(f, T) = SumOver(g, T)}
<1>1. ASSUME NEW T \in SUBSET S, \A U \in SUBSET T : U # T => U \in G
      PROVE  T \in G
    <2>1. IsFiniteSet(T)
        BY FS_Subset
    <2>2. CASE T = {}
        BY <2>2, SumEmpty
    <2>3. CASE T # {}
        <3>1. AnyOf(T) \in T
            BY <2>3 DEF AnyOf
        <3>2. SumOver(f, T \ {AnyOf(T)}) = SumOver(g, T \ {AnyOf(T)}) /\ f[AnyOf(T)] = g[AnyOf(T)]
            BY <1>1, <3>1
        <3> QED BY <2>1, <2>3, <3>2, SumUnfold
    <2> QED BY <2>2, <2>3
<1> HIDE DEF G
<1>2. \A T \in SUBSET S : T \in G
    BY <1>1, SubsetInduction
<1> QED BY <1>2 DEF G

(* A part of a sum is no more than the whole. *)
LEMMA SumSubset ==
    ASSUME NEW S, IsFiniteSet(S), NEW T \in SUBSET S, NEW f, \A x \in S : f[x] \in Nat
    PROVE  /\ SumOver(f, T) <= SumOver(f, S)
           /\ SumOver(f, T) \in Nat
<1>1. IsFiniteSet(T) /\ IsFiniteSet(S \ T)
    BY FS_Subset
<1>2. PICK R : R = S \ T
    OBVIOUS
<1>3. SumOver(f, T \cup R) = SumOver(f, T) + SumOver(f, R)
    BY <1>1, <1>2, SumUnion
<1>4. SumOver(f, T) \in Nat /\ SumOver(f, R) \in Nat
    BY <1>1, <1>2, SumType
<1>5. T \cup R = S
    BY <1>2
<1>6. SumOver(f, S) = SumOver(f, T) + SumOver(f, R)
    BY <1>3, <1>5
<1> QED BY <1>4, <1>6

(* The sum after one value has grown. *)
LEMMA SumBump ==
    ASSUME NEW S, IsFiniteSet(S), NEW f, NEW g, NEW c, NEW n \in Nat,
           \A x \in S : f[x] \in Nat,
           c \in S => g[c] = f[c] + n,
           \A x \in S : x # c => g[x] = f[x]
    PROVE  SumOver(g, S) = SumOver(f, S) + (IF c \in S THEN n ELSE 0)
<1>1. CASE c \notin S
    <2>1. \A x \in S : f[x] = g[x]
        BY <1>1
    <2>2. SumOver(f, S) = SumOver(g, S) /\ SumOver(f, S) \in Nat
        BY <2>1, SumEqual, SumType
    <2> QED BY <1>1, <2>2
<1>2. CASE c \in S
    <2>1. PICK R : R = S \ {c}
        OBVIOUS
    <2>2. IsFiniteSet(R) /\ R \subseteq S
        BY <2>1, FS_Subset
    <2>3. \A x \in S : g[x] \in Nat
        BY <1>2
    <2>4. SumOver(f, S) = f[c] + SumOver(f, R) /\ SumOver(g, S) = g[c] + SumOver(g, R)
        BY <1>2, <2>1, <2>3, SumRemove
    <2>5. \A x \in R : f[x] = g[x]
        BY <2>1
    <2>6. SumOver(f, R) = SumOver(g, R) /\ SumOver(f, R) \in Nat
        BY <2>2, <2>5, SumEqual, SumType
    <2> QED BY <1>2, <2>4, <2>6
<1> QED BY <1>1, <1>2

(* A sum of zeros. *)
LEMMA SumZero ==
    ASSUME NEW S, IsFiniteSet(S), NEW f, \A x \in S : f[x] = 0
    PROVE  SumOver(f, S) = 0
<1> DEFINE G == {T \in SUBSET S : SumOver(f, T) = 0}
<1>1. ASSUME NEW T \in SUBSET S, \A U \in SUBSET T : U # T => U \in G
      PROVE  T \in G
    <2>1. IsFiniteSet(T)
        BY FS_Subset
    <2>2. CASE T = {}
        BY <2>2, SumEmpty
    <2>3. CASE T # {}
        <3>1. AnyOf(T) \in T
            BY <2>3 DEF AnyOf
        <3>2. SumOver(f, T \ {AnyOf(T)}) = 0 /\ f[AnyOf(T)] = 0
            BY <1>1, <3>1
        <3> QED BY <2>1, <2>3, <3>2, SumUnfold
    <2> QED BY <2>2, <2>3
<1> HIDE DEF G
<1>2. \A T \in SUBSET S : T \in G
    BY <1>1, SubsetInduction
<1> QED BY <1>2 DEF G

-----------------------------------------------------------------------------
(* A finite set of integers has a least and a greatest element. *)
LEMMA Extremes ==
    ASSUME NEW S \in SUBSET Int, IsFiniteSet(S), S # {}
    PROVE  /\ \E m \in S : \A y \in S : m <= y
           /\ \E m \in S : \A y \in S : y <= m
<1> DEFINE Has(T) == /\ \E m \in T : \A y \in T : m <= y
                     /\ \E m \in T : \A y \in T : y <= m
           G == {T \in SUBSET S : T = {} \/ Has(T)}
<1>1. ASSUME NEW T \in SUBSET S, \A U \in SUBSET T : U # T => U \in G
      PROVE  T \in G
    <2> SUFFICES ASSUME NEW x \in T PROVE Has(T)
        OBVIOUS
    <2>1. PICK U : U = T \ {x}
        OBVIOUS
    <2>2. U \in SUBSET T /\ U # T /\ T = U \cup {x} /\ x \in Int /\ U \subseteq Int
        BY <2>1
    <2>5. U = {} \/ Has(U)
        <3> HIDE DEF Has
        <3> QED BY <1>1, <2>2
    <2>3. CASE U = {}
        BY <2>2, <2>3
    <2>4. CASE Has(U)
        <3>1. PICK m \in U : \A y \in U : m <= y
            BY <2>4
        <3>2. \E n \in T : \A y \in T : n <= y
            <4>1. CASE m <= x
                BY <2>2, <3>1, <4>1
            <4>2. CASE x <= m
                <5>1. \A y \in U : x <= y
                    BY <2>2, <3>1, <4>2
                <5> QED BY <2>2, <5>1
            <4> QED BY <2>2, <3>1, <4>1, <4>2
        <3>3. PICK n \in U : \A y \in U : y <= n
            BY <2>4
        <3>4. \E k \in T : \A y \in T : y <= k
            <4>1. CASE x <= n
                BY <2>2, <3>3, <4>1
            <4>2. CASE n <= x
                <5>1. \A y \in U : y <= x
                    BY <2>2, <3>3, <4>2
                <5> QED BY <2>2, <5>1
            <4> QED BY <2>2, <3>3, <4>1, <4>2
        <3> QED BY <3>2, <3>4
    <2> QED BY <2>3, <2>4, <2>5
<1> HIDE DEF G
<1>2. \A T \in SUBSET S : T \in G
    BY <1>1, SubsetInduction
<1>3. S \in G
    BY <1>2
<1> QED BY <1>3 DEF G

(* The greatest element of a set that grows by one. *)
LEMMA MaxAdd ==
    ASSUME NEW S \in SUBSET Int, IsFiniteSet(S), S # {}, NEW d \in Int
    PROVE  /\ Max(S) \in S
           /\ Max(S \cup {d}) = IF d > Max(S) THEN d ELSE Max(S)
<1>1. ASSUME NEW T \in SUBSET Int, NEW m \in T, \A y \in T : y <= m
      PROVE  Max(T) = m
    <2>1. \A x, y \in T : x >= y <=> y <= x
        OBVIOUS
    <2>2. Max(T) \in T /\ \A y \in T : y <= Max(T)
        BY <1>1, <2>1, Zenon DEF Max
    <2>3. m \in Int /\ Max(T) \in Int /\ m <= Max(T) /\ Max(T) <= m
        BY <1>1, <2>2
    <2> QED BY <2>3
<1>2. PICK m \in S : \A y \in S : y <= m
    BY Extremes
<1>3. Max(S) = m
    BY <1>1, <1>2
<1>4. PICK T : T = S \cup {d}
    OBVIOUS
<1>5. T \in SUBSET Int
    BY <1>4
<1>6. CASE d > m
    <2>1. d \in T /\ \A y \in T : y <= d
        BY <1>2, <1>4, <1>6
    <2>2. Max(T) = d
        BY <1>1, <1>5, <2>1
    <2> QED BY <1>3, <1>4, <1>6, <2>2
<1>7. CASE ~(d > m)
    <2>1. m \in T /\ \A y \in T : y <= m
        BY <1>2, <1>4, <1>7
    <2>2. Max(T) = m
        BY <1>1, <1>5, <2>1
    <2> QED BY <1>3, <1>4, <1>7, <2>2
<1> QED BY <1>2, <1>3, <1>6, <1>7

(* What a function makes of a finite set is finite. *)
LEMMA ImageFinite ==
    ASSUME NEW S, IsFiniteSet(S), NEW f
    PROVE  IsFiniteSet({f[x] : x \in S})
<1> DEFINE G == {T \in SUBSET S : IsFiniteSet({f[x] : x \in T})}
<1>1. ASSUME NEW T \in SUBSET S, \A U \in SUBSET T : U # T => U \in G
      PROVE  T \in G
    <2>1. CASE T = {}
        <3>1. {f[x] : x \in T} = {}
            BY <2>1
        <3> QED BY <3>1, FS_EmptySet
    <2>2. CASE T # {}
        <3>1. PICK r \in T : TRUE
            BY <2>2
        <3>2. T \ {r} \in G
            BY <1>1, <3>1
        <3>3. PICK A : A = {f[x] : x \in T \ {r}}
            OBVIOUS
        <3>4. {f[x] : x \in T} = A \cup {f[r]} /\ IsFiniteSet(A)
            BY <3>1, <3>2, <3>3
        <3>5. IsFiniteSet(A \cup {f[r]})
            BY <3>4, FS_AddElement
        <3> QED BY <3>4, <3>5
    <2> QED BY <2>1, <2>2
<1> HIDE DEF G
<1>2. \A T \in SUBSET S : T \in G
    BY <1>1, SubsetInduction
<1> QED BY <1>2 DEF G

(* What Max and Min choose. *)
LEMMA MaxIs ==
    ASSUME NEW S \in SUBSET Int, IsFiniteSet(S), S # {}
    PROVE  /\ Max(S) \in S /\ \A y \in S : y <= Max(S)
           /\ \A m \in S : (\A y \in S : y <= m) => m = Max(S)
<1>1. PICK m \in S : \A y \in S : y <= m
    BY Extremes
<1>2. \A x, y \in S : x >= y <=> y <= x
    OBVIOUS
<1>3. Max(S) \in S /\ \A y \in S : y <= Max(S)
    BY <1>1, <1>2, Zenon DEF Max
<1>4. ASSUME NEW n \in S, \A y \in S : y <= n PROVE n = Max(S)
    <2>1. n \in Int /\ Max(S) \in Int /\ n <= Max(S) /\ Max(S) <= n
        BY <1>3, <1>4
    <2> QED BY <2>1
<1> QED BY <1>3, <1>4

LEMMA MinIs ==
    ASSUME NEW S \in SUBSET Int, IsFiniteSet(S), S # {}
    PROVE  /\ Min(S) \in S /\ \A y \in S : Min(S) <= y
           /\ \A m \in S : (\A y \in S : m <= y) => m = Min(S)
<1>1. PICK m \in S : \A y \in S : m <= y
    BY Extremes
<1>2. Min(S) \in S /\ \A y \in S : Min(S) <= y
    BY <1>1, Zenon DEF Min
<1>3. ASSUME NEW n \in S, \A y \in S : n <= y PROVE n = Min(S)
    <2>1. n \in Int /\ Min(S) \in Int /\ n <= Min(S) /\ Min(S) <= n
        BY <1>2, <1>3
    <2> QED BY <2>1
<1> QED BY <1>2, <1>3

(* A sum over sets that have nothing in common is the sum of their sums;   *)
(* F[r] is the set of r, and g[r] its sum.                                 *)
LEMMA SumFamily ==
    ASSUME NEW R, IsFiniteSet(R), NEW F, NEW f, NEW g,
           \A r \in R : IsFiniteSet(F[r]) /\ g[r] = SumOver(f, F[r]),
           \A r, q \in R : r # q => F[r] \cap F[q] = {},
           \A r \in R : \A x \in F[r] : f[x] \in Nat
    PROVE  /\ IsFiniteSet(UNION {F[r] : r \in R})
           /\ SumOver(f, UNION {F[r] : r \in R}) = SumOver(g, R)
<1> DEFINE Of(T) == UNION {F[r] : r \in T}
           G == {T \in SUBSET R : /\ IsFiniteSet(Of(T))
                                  /\ SumOver(f, Of(T)) = SumOver(g, T)}
<1>1. ASSUME NEW T \in SUBSET R, \A U \in SUBSET T : U # T => U \in G
      PROVE  T \in G
    <2>1. CASE T = {}
        <3>1. Of(T) = {}
            BY <2>1
        <3>2. IsFiniteSet({}) /\ SumOver(f, {}) = 0 /\ SumOver(g, {}) = 0
            BY FS_EmptySet, SumEmpty
        <3> QED BY <2>1, <3>1, <3>2
    <2>2. CASE T # {}
        <3>1. PICK r \in T : TRUE
            BY <2>2
        <3>2. PICK U : U = T \ {r}
            OBVIOUS
        <3>3. U \in G /\ U \in SUBSET R /\ r \notin U /\ T = U \cup {r}
            BY <1>1, <3>1, <3>2
        <3>4. Of(T) = Of(U) \cup F[r] /\ Of(U) \cap F[r] = {}
            BY <3>1, <3>2, <3>3
        <3>5. IsFiniteSet(Of(U)) /\ SumOver(f, Of(U)) = SumOver(g, U)
            BY <3>3
        <3>6. \A x \in Of(U) \cup F[r] : f[x] \in Nat
            BY <3>1, <3>3
        <3>7. IsFiniteSet(U) /\ IsFiniteSet(F[r]) /\ g[r] = SumOver(f, F[r])
            BY <3>1, <3>3, FS_Subset
        <3>8. \A q \in U \cup {r} : g[q] \in Nat
            <4> SUFFICES ASSUME NEW q \in R PROVE g[q] \in Nat
                BY <3>1, <3>3
            <4> QED BY SumType
        <3> HIDE DEF Of
        <3>9. PICK A, B : A = Of(U) /\ B = F[r]
            OBVIOUS
        <3>10. /\ IsFiniteSet(Of(T))
               /\ SumOver(f, Of(T)) = SumOver(f, Of(U)) + SumOver(f, F[r])
            <4>2. /\ IsFiniteSet(A) /\ IsFiniteSet(B) /\ A \cap B = {}
                  /\ \A x \in A \cup B : f[x] \in Nat
                BY <3>4, <3>5, <3>6, <3>7, <3>9
            <4>3. SumOver(f, A \cup B) = SumOver(f, A) + SumOver(f, B)
                BY <4>2, SumUnion
            <4>4. IsFiniteSet(A \cup B)
                BY <4>2, FS_Union
            <4> QED BY <3>4, <3>9, <4>3, <4>4
        <3>11. SumOver(g, T) = g[r] + SumOver(g, U)
            BY <3>3, <3>7, <3>8, SumAdd
        <3>12. SumOver(g, U) \in Nat /\ g[r] \in Nat
            BY <3>7, <3>8, SumType
        <3> QED BY <3>5, <3>7, <3>10, <3>11, <3>12
    <2> QED BY <2>1, <2>2
<1> HIDE DEF G
<1>2. \A T \in SUBSET R : T \in G
    BY <1>1, SubsetInduction
<1> QED BY <1>2 DEF G

(* A set has as many elements as there are ones to add. *)
LEMMA SumCard ==
    ASSUME NEW S, IsFiniteSet(S), NEW f, \A x \in S : f[x] = 1
    PROVE  SumOver(f, S) = Cardinality(S)
<1> DEFINE G == {T \in SUBSET S : SumOver(f, T) = Cardinality(T)}
<1>1. ASSUME NEW T \in SUBSET S, \A U \in SUBSET T : U # T => U \in G
      PROVE  T \in G
    <2>1. CASE T = {}
        BY <2>1, SumEmpty, FS_EmptySet
    <2>2. CASE T # {}
        <3>1. PICK r \in T : TRUE
            BY <2>2
        <3>2. PICK U : U = T \ {r}
            OBVIOUS
        <3>3. U \in G /\ r \notin U /\ T = U \cup {r} /\ U \subseteq S
            BY <1>1, <3>1, <3>2
        <3>4. IsFiniteSet(U)
            BY <3>3, FS_Subset
        <3>5. Cardinality(T) = Cardinality(U) + 1 /\ Cardinality(U) \in Nat
            BY <3>3, <3>4, FS_AddElement, FS_CardinalityType
        <3>6. \A x \in U \cup {r} : f[x] \in Nat /\ f[r] = 1
            BY <3>1, <3>3
        <3>7. SumOver(f, T) = f[r] + SumOver(f, U)
            BY <3>3, <3>4, <3>6, SumAdd
        <3> QED BY <3>3, <3>5, <3>6, <3>7
    <2> QED BY <2>1, <2>2
<1> HIDE DEF G
<1>2. \A T \in SUBSET S : T \in G
    BY <1>1, SubsetInduction
<1> QED BY <1>2 DEF G

(* The lesser of two. *)
LEMMA MinOfTwo ==
    ASSUME NEW m \in Nat, NEW c \in Nat, NEW n, n = Min({m, c})
    PROVE  n \in Nat /\ n <= c /\ (c <= m => n = c)
<1>1. PICK A, S : A = {m} /\ S = {m, c}
    OBVIOUS
<1>2. IsFiniteSet(S)
    <2>1. S = A \cup {c}
        BY <1>1
    <2>2. IsFiniteSet(A)
        BY <1>1, FS_Singleton
    <2> QED BY <2>1, <2>2, FS_AddElement
<1>3. S \in SUBSET Int /\ S # {}
    BY <1>1
<1>4. n \in S /\ \A y \in S : n <= y
    <2>1. Min(S) \in S /\ \A y \in S : Min(S) <= y
        BY <1>2, <1>3, MinIs
    <2> QED BY <1>1, <2>1
<1>5. (n = m \/ n = c) /\ n <= m /\ n <= c
    BY <1>1, <1>4
<1> QED BY <1>5

(* Sums add up element by element. *)
LEMMA SumPlus ==
    ASSUME NEW S, IsFiniteSet(S), NEW f, NEW g, NEW h,
           \A x \in S : f[x] \in Nat /\ g[x] \in Nat /\ h[x] = f[x] + g[x]
    PROVE  SumOver(h, S) = SumOver(f, S) + SumOver(g, S)
<1> DEFINE G == {T \in SUBSET S : SumOver(h, T) = SumOver(f, T) + SumOver(g, T)}
<1>1. ASSUME NEW T \in SUBSET S, \A U \in SUBSET T : U # T => U \in G
      PROVE  T \in G
    <2>1. CASE T = {}
        BY <2>1, SumEmpty
    <2>2. CASE T # {}
        <3>1. PICK r \in T : TRUE
            BY <2>2
        <3>2. PICK U : U = T \ {r}
            OBVIOUS
        <3>3. U \in G /\ r \notin U /\ T = U \cup {r} /\ U \subseteq S
            BY <1>1, <3>1, <3>2
        <3>4. IsFiniteSet(U)
            BY <3>3, FS_Subset
        <3>5. \A x \in U \cup {r} : f[x] \in Nat /\ g[x] \in Nat /\ h[x] \in Nat
            BY <3>1, <3>3
        <3>6. /\ SumOver(f, T) = f[r] + SumOver(f, U)
              /\ SumOver(g, T) = g[r] + SumOver(g, U)
              /\ SumOver(h, T) = h[r] + SumOver(h, U)
            BY <3>3, <3>4, <3>5, SumAdd
        <3>7. SumOver(f, U) \in Nat /\ SumOver(g, U) \in Nat
            BY <3>4, <3>5, SumType
        <3>8. h[r] = f[r] + g[r] /\ f[r] \in Nat /\ g[r] \in Nat
            BY <3>1
        <3> QED BY <3>3, <3>6, <3>7, <3>8
    <2> QED BY <2>1, <2>2
<1> HIDE DEF G
<1>2. \A T \in SUBSET S : T \in G
    BY <1>1, SubsetInduction
<1> QED BY <1>2 DEF G

(* Of any set, the n elements of the greatest weights can be taken. *)
Heaviest(D, w, n) ==
    {H \in SUBSET D : Cardinality(H) = n /\ \A h \in H, g \in D \ H : w[h] >= w[g]}

LEMMA HeaviestExists ==
    ASSUME NEW D, IsFiniteSet(D), NEW w, \A x \in D : w[x] \in Nat,
           NEW n \in Nat, n <= Cardinality(D)
    PROVE  Heaviest(D, w, n) # {}
<1> DEFINE G == {E \in SUBSET D : \A m \in Nat : m <= Cardinality(E) => Heaviest(E, w, m) # {}}
<1>1. ASSUME NEW T \in SUBSET D, \A U \in SUBSET T : U # T => U \in G
      PROVE  T \in G
    <2>0. IsFiniteSet(T) /\ Cardinality(T) \in Nat
        BY FS_Subset, FS_CardinalityType
    <2> SUFFICES ASSUME NEW m \in Nat, m <= Cardinality(T) PROVE Heaviest(T, w, m) # {}
        OBVIOUS
    <2>1. CASE m = 0
        <3>1. {} \in Heaviest(T, w, m)
            BY <2>1, FS_EmptySet DEF Heaviest
        <3> QED BY <3>1
    <2>2. CASE m # 0
        <3>1. T # {}
            BY <2>2, FS_EmptySet
        <3>2. PICK S : S = {w[x] : x \in T}
            OBVIOUS
        <3>3. IsFiniteSet(S)
            BY <2>0, <3>2, ImageFinite
        <3>4. S \in SUBSET Int /\ S # {}
            BY <3>1, <3>2
        <3>5. PICK r \in T : \A x \in T : w[x] <= w[r]
            <4>1. PICK k \in S : \A y \in S : y <= k
                BY <3>3, <3>4, Extremes
            <4> QED BY <3>2, <4>1
        <3>6. PICK U : U = T \ {r}
            OBVIOUS
        <3>7. U \in G /\ r \notin U /\ T = U \cup {r} /\ U \subseteq D
            BY <1>1, <3>5, <3>6
        <3>8. IsFiniteSet(U) /\ Cardinality(U) \in Nat /\ Cardinality(T) = Cardinality(U) + 1
            BY <3>7, FS_Subset, FS_CardinalityType, FS_AddElement
        <3>9. m - 1 \in Nat /\ m - 1 <= Cardinality(U)
            BY <2>2, <3>8
        <3>10. PICK H : H \in Heaviest(U, w, m - 1)
            BY <3>7, <3>9
        <3>11. H \subseteq U /\ IsFiniteSet(H) /\ Cardinality(H) = m - 1
            BY <3>8, <3>10, FS_Subset DEF Heaviest
        <3>12. Cardinality(H \cup {r}) = m
            <4>1. r \notin H
                BY <3>7, <3>11
            <4>2. Cardinality(H \cup {r}) = Cardinality(H) + 1
                BY <3>11, <4>1, FS_AddElement
            <4> QED BY <3>11, <4>2
        <3>13. ASSUME NEW h \in H \cup {r}, NEW g \in T \ (H \cup {r}) PROVE w[h] >= w[g]
            <4>1. g \in U \ H /\ w[g] \in Nat /\ w[h] \in Nat
                BY <3>7, <3>11
            <4>2. CASE h = r
                <5>1. w[g] <= w[r]
                    BY <3>5
                <5> QED BY <4>1, <4>2, <5>1
            <4>3. CASE h \in H
                BY <3>10, <4>1, <4>3 DEF Heaviest
            <4> QED BY <4>2, <4>3
        <3>14. H \cup {r} \in Heaviest(T, w, m)
            BY <3>7, <3>11, <3>12, <3>13 DEF Heaviest
        <3> QED BY <3>14
    <2> QED BY <2>1, <2>2
<1> HIDE DEF G
<1>2. \A E \in SUBSET D : E \in G
    BY <1>1, SubsetInduction
<1>3. D \in G
    BY <1>2
<1> QED BY <1>3 DEF G

(* Induction over the naturals, for a set of them. *)
LEMMA SetOfNaturals ==
    ASSUME NEW G, 0 \in G, \A n \in Nat : n \in G => n + 1 \in G
    PROVE  \A n \in Nat : n \in G
<1> SUFFICES ASSUME NEW n \in Nat, n \notin G PROVE FALSE
    OBVIOUS
<1>1. PICK S : S = {k \in 0 .. n : k \notin G}
    OBVIOUS
<1>2. IsFiniteSet(S)
    <2>1. IsFiniteSet(0 .. n)
        BY FS_Interval
    <2> QED BY <1>1, <2>1, FS_Subset
<1>3. S \in SUBSET Int /\ S # {}
    BY <1>1
<1>4. PICK m \in S : \A y \in S : m <= y
    BY <1>2, <1>3, Extremes
<1>5. m \in Nat /\ m # 0 /\ m - 1 \in Nat /\ m - 1 \notin S
    BY <1>1, <1>4
<1>6. m - 1 \in G
    BY <1>1, <1>4, <1>5
<1>7. m \in G
    BY <1>5, <1>6
<1> QED BY <1>1, <1>4, <1>7
=============================================================================
