--------------------------- MODULE Operators_proofs ---------------------------
(***************************************************************************)
(* Facts about the operators that several modules are built from: sums     *)
(* over a finite set (MapThenSumSet), recursion from a set to a part of    *)
(* it, what stays of a list, the least and the largest of some numbers.    *)
(* The sums and the recursions are CHOOSEn functions, which are shown to   *)
(* exist by induction.  An induction is stated with a set X of the good    *)
(* sets or numbers, not with a predicate, so that the provers can          *)
(* instantiate it.                                                         *)
(***************************************************************************)
EXTENDS Lists, SequencesExt, FiniteSetTheorems, SequenceTheorems, WellFoundedInduction, TLAPS

\* What holds of a set if it holds of its proper subsets holds of every finite set.
LEMMA StrongSetInduction ==
    ASSUME NEW S, IsFiniteSet(S), NEW X,
           \A T \in SUBSET S : (\A U \in SUBSET T : U # T => U \in X) => T \in X
    PROVE  \A T \in SUBSET S : T \in X
<1> DEFINE Bad == {T \in SUBSET S : T \notin X}
<1> SUFFICES ASSUME NEW R \in SUBSET S, R \notin X PROVE FALSE
  OBVIOUS
<1>1. Bad \subseteq FiniteSubsetsOf(S) /\ Bad # {}
  BY FS_Subset DEF FiniteSubsetsOf
<1>2. IsWellFoundedOn(StrictSubsetOrdering(S), FiniteSubsetsOf(S))
  BY FS_StrictSubsetOrderingWellFounded
<1>3. PICK T \in Bad : \A U \in Bad : ~ (<<U, T>> \in StrictSubsetOrdering(S))
  <2> HIDE DEF Bad
  <2> QED BY <1>1, <1>2, WFMin
<1>4. \A U \in SUBSET T : U # T => U \in X
  BY <1>3 DEF StrictSubsetOrdering
<1> QED
  BY <1>4

\* What holds of the empty set, and of a set with one more element, holds of every finite set.
LEMMA SetInduction ==
    ASSUME NEW S, IsFiniteSet(S), NEW X, {} \in X,
           \A T \in SUBSET S, x \in S : T \in X /\ x \notin T => T \cup {x} \in X
    PROVE  \A T \in SUBSET S : T \in X
<1> SUFFICES ASSUME NEW T \in SUBSET S, \A U \in SUBSET T : U # T => U \in X PROVE T \in X
  BY StrongSetInduction
<1>1. CASE T = {}
  BY <1>1
<1>2. CASE T # {}
  <2>1. PICK x \in T : TRUE
    BY <1>2
  <2>2. T \ {x} \in X /\ (T \ {x}) \cup {x} = T
    BY <2>1
  <2> QED BY <2>1, <2>2
<1> QED BY <1>1, <1>2

-----------------------------------------------------------------------------
(* The sum of w[x] over the x in S.                                          *)

Sigma(w, S) == MapThenSumSet(LAMBDA x : w[x], S)

\* One step of the recursion that defines it.
Summing(w, g, s) == IF s = {} THEN 0 ELSE w[CHOOSE x \in s : TRUE] + g[s \ {CHOOSE x \in s : TRUE}]

LEMMA SigmaIs ==
    ASSUME NEW w, NEW S
    PROVE  Sigma(w, S) = (CHOOSE g : g = [s \in SUBSET S |-> Summing(w, g, s)])[S]
BY DEF Sigma, MapThenSumSet, MapThenFoldSet, Summing

LEMMA ProperSubset ==
    ASSUME NEW T, NEW s \in SUBSET T, NEW u \in SUBSET s, u # s
    PROVE  u \in SUBSET T /\ u # T
<1>1. PICK x \in s : x \notin u
  OBVIOUS
<1> QED BY <1>1

\* Summing looks at smaller sets only.
LEMMA SummingAlike ==
    ASSUME NEW w, NEW g, NEW h, NEW s, \A u \in SUBSET s : u # s => g[u] = h[u]
    PROVE  Summing(w, g, s) = Summing(w, h, s)
BY DEF Summing

Sums(w, S) == [u \in SUBSET S |-> Sigma(w, u)]

\* The recursion has one solution, the sums of the subsets.
LEMMA SumsSolve ==
    ASSUME NEW w, NEW S, IsFiniteSet(S)
    PROVE  \A T \in SUBSET S : \A g : g = [s \in SUBSET T |-> Summing(w, g, s)] <=> g = Sums(w, T)
<1> DEFINE Solves(g, T) == g = [s \in SUBSET T |-> Summing(w, g, s)]
           X == {T \in SUBSET S : \A g : Solves(g, T) <=> g = Sums(w, T)}
<1> SUFFICES \A T \in SUBSET S : T \in X
  OBVIOUS
<1> SUFFICES ASSUME NEW T \in SUBSET S, \A U \in SUBSET T : U # T => U \in X PROVE T \in X
  <2> HIDE DEF X
  <2> QED BY StrongSetInduction
<1> DEFINE h == [u \in SUBSET T |-> Summing(w, Sums(w, T), u)]
<1>1. ASSUME NEW u \in SUBSET T, u # T PROVE h[u] = Sigma(w, u)
  <2>1. Solves(Sums(w, u), u)
    BY <1>1
  <2>2. Sums(w, u)[u] = Summing(w, Sums(w, u), u)
    BY <2>1
  <2>3. Summing(w, Sums(w, u), u) = Summing(w, Sums(w, T), u)
    <3>1. \A v \in SUBSET u : v # u => Sums(w, u)[v] = Sums(w, T)[v]
      BY DEF Sums
    <3> QED BY <3>1, SummingAlike
  <2> QED BY <2>2, <2>3 DEF Sums
<1>2. Solves(h, T)
  <2>1. ASSUME NEW s \in SUBSET T PROVE Summing(w, Sums(w, T), s) = Summing(w, h, s)
    <3>1. ASSUME NEW u \in SUBSET s, u # s PROVE Sums(w, T)[u] = h[u]
      <4>1. u \in SUBSET T /\ u # T
        BY <3>1, ProperSubset
      <4>2. h[u] = Sigma(w, u) /\ Sums(w, T)[u] = Sigma(w, u)
        BY <4>1, <1>1 DEF Sums
      <4> QED BY <4>2
    <3> HIDE DEF h
    <3> QED BY <3>1, SummingAlike
  <2> QED BY <2>1
<1>3. ASSUME NEW g, Solves(g, T) PROVE g = h
  <2>1. ASSUME NEW u \in SUBSET T, u # T PROVE g[u] = Sigma(w, u)
    <3> DEFINE k == [v \in SUBSET u |-> g[v]]
    <3>1. ASSUME NEW v \in SUBSET u PROVE g[v] = Summing(w, k, v)
      <4>1. g[v] = Summing(w, g, v)
        BY <1>3
      <4>2. \A t \in SUBSET v : t # v => g[t] = k[t]
        OBVIOUS
      <4>3. Summing(w, g, v) = Summing(w, k, v)
        BY <4>2, SummingAlike
      <4> QED BY <4>1, <4>3
    <3>2. Solves(k, u)
      BY <3>1
    <3>3. k = Sums(w, u)
      BY <3>2, <2>1
    <3>4. k[u] = Sums(w, u)[u]
      BY <3>3
    <3> QED BY <3>4 DEF Sums
  <2>2. ASSUME NEW s \in SUBSET T PROVE g[s] = h[s]
    <3>1. ASSUME NEW u \in SUBSET s, u # s PROVE Sums(w, T)[u] = g[u]
      <4>1. u \in SUBSET T /\ u # T
        BY <3>1, ProperSubset
      <4>2. g[u] = Sigma(w, u) /\ Sums(w, T)[u] = Sigma(w, u)
        BY <4>1, <2>1 DEF Sums
      <4> QED BY <4>2
    <3>2. Summing(w, Sums(w, T), s) = Summing(w, g, s)
      BY <3>1, SummingAlike
    <3> QED BY <3>2, <1>3
  <2> QED BY <2>2, <1>3
<1>4. (CHOOSE g : Solves(g, T)) = h
  <2> HIDE DEF h, Solves
  <2> QED BY <1>2, <1>3
<1>5. Sigma(w, T) = h[T]
  BY <1>4, SigmaIs
<1>6. h = Sums(w, T)
  BY <1>1, <1>5 DEF Sums
<1> QED
  BY <1>2, <1>3, <1>6

\* The sum of a set that is not empty, by the element that the recursion takes.
LEMMA SigmaStep ==
    ASSUME NEW w, NEW S, IsFiniteSet(S)
    PROVE  /\ Sigma(w, {}) = 0
           /\ S # {} => \E c \in S : Sigma(w, S) = w[c] + Sigma(w, S \ {c})
<1>1. \A T \in SUBSET S : Sums(w, T) = [s \in SUBSET T |-> Summing(w, Sums(w, T), s)]
  BY SumsSolve
<1>2. \A T \in SUBSET S : Sigma(w, T) = Summing(w, Sums(w, T), T)
  BY <1>1 DEF Sums
<1> QED BY <1>2 DEF Summing, Sums

\* Sums of integers are integers, and any element may be taken first.
LEMMA SigmaTakes ==
    ASSUME NEW S, IsFiniteSet(S), NEW w, \A x \in S : w[x] \in Int
    PROVE  \A T \in SUBSET S :
               Sigma(w, T) \in Int /\ \A x \in T : Sigma(w, T) = w[x] + Sigma(w, T \ {x})
<1> DEFINE X == {T \in SUBSET S : Sigma(w, T) \in Int
                                  /\ \A x \in T : Sigma(w, T) = w[x] + Sigma(w, T \ {x})}
<1> SUFFICES \A T \in SUBSET S : T \in X
  OBVIOUS
<1> SUFFICES ASSUME NEW T \in SUBSET S, \A U \in SUBSET T : U # T => U \in X PROVE T \in X
  <2> HIDE DEF X
  <2> QED BY StrongSetInduction
<1>1. CASE T = {}
  <2>1. Sigma(w, {}) = 0
    BY SigmaStep
  <2> QED BY <1>1, <2>1
<1>2. CASE T # {}
  <2>1. PICK c \in T : Sigma(w, T) = w[c] + Sigma(w, T \ {c})
    BY <1>2, SigmaStep, FS_Subset
  <2>2. \A x \in T : T \ {x} \in X
    OBVIOUS
  <2>3. ASSUME NEW x \in T, x # c PROVE Sigma(w, T) = w[x] + Sigma(w, T \ {x})
    <3>1. Sigma(w, T \ {c}) = w[x] + Sigma(w, (T \ {c}) \ {x})
      BY <2>2, <2>3
    <3>2. Sigma(w, T \ {x}) = w[c] + Sigma(w, (T \ {x}) \ {c})
      BY <2>2, <2>3
    <3>3. (T \ {c}) \ {x} = (T \ {x}) \ {c}
      OBVIOUS
    <3>4. (T \ {c}) \ {x} \in X
      <4>1. (T \ {c}) \ {x} \in SUBSET T /\ (T \ {c}) \ {x} # T
        OBVIOUS
      <4> QED BY <4>1
    <3>5. Sigma(w, (T \ {c}) \ {x}) \in Int /\ w[x] \in Int /\ w[c] \in Int
      BY <3>4
    <3>6. Sigma(w, (T \ {x}) \ {c}) = Sigma(w, (T \ {c}) \ {x})
      BY <3>3
    <3> HIDE DEF X
    <3> QED BY <2>1, <3>1, <3>2, <3>5, <3>6
  <2>4. Sigma(w, T) \in Int
    <3>1. Sigma(w, T \ {c}) \in Int /\ w[c] \in Int
      BY <2>2
    <3> QED BY <3>1, <2>1
  <2> QED BY <2>1, <2>3, <2>4
<1> QED BY <1>1, <1>2

LEMMA SigmaTake ==
    ASSUME NEW S, IsFiniteSet(S), NEW w, \A x \in S : w[x] \in Int, NEW c \in S
    PROVE  /\ Sigma(w, S) = w[c] + Sigma(w, S \ {c})
           /\ Sigma(w, S) \in Int /\ Sigma(w, S \ {c}) \in Int
<1>1. \A T \in SUBSET S :
          Sigma(w, T) \in Int /\ \A x \in T : Sigma(w, T) = w[x] + Sigma(w, T \ {x})
  BY SigmaTakes
<1>2. S \in SUBSET S /\ S \ {c} \in SUBSET S
  OBVIOUS
<1>3. Sigma(w, S) \in Int /\ \A x \in S : Sigma(w, S) = w[x] + Sigma(w, S \ {x})
  BY <1>1, <1>2, Zenon
<1> QED BY <1>1, <1>2, <1>3, Zenon

\* The form in which the sums are used: nothing, one more, and the kind of number.
LEMMA SigmaAdd ==
    ASSUME NEW S, IsFiniteSet(S), NEW w, \A x \in S : w[x] \in Int
    PROVE  /\ Sigma(w, {}) = 0
           /\ \A T \in SUBSET S : Sigma(w, T) \in Int
           /\ \A T \in SUBSET S : \A x \in S : x \notin T => Sigma(w, T \cup {x}) = w[x] + Sigma(w, T)
           /\ \A T \in SUBSET S : \A x \in T : Sigma(w, T) = w[x] + Sigma(w, T \ {x})
<1>1. ASSUME NEW T \in SUBSET S, NEW x \in S, x \notin T PROVE Sigma(w, T \cup {x}) = w[x] + Sigma(w, T)
  <2>1. (T \cup {x}) \ {x} = T /\ T \cup {x} \in SUBSET S
    BY <1>1
  <2> QED BY <2>1, SigmaTakes
<1>2. Sigma(w, {}) = 0
  BY SigmaStep
<1>3. \A T \in SUBSET S :
          Sigma(w, T) \in Int /\ \A x \in T : Sigma(w, T) = w[x] + Sigma(w, T \ {x})
  BY SigmaTakes
<1> QED BY <1>1, <1>2, <1>3

\* A sum that is smaller term by term is smaller; equal terms have equal sums.
LEMMA SigmaOrder ==
    ASSUME NEW S, IsFiniteSet(S), NEW v, NEW w, \A x \in S : v[x] \in Int /\ w[x] \in Int /\ v[x] <= w[x]
    PROVE  Sigma(v, S) <= Sigma(w, S)
<1> DEFINE X == {T \in SUBSET S : Sigma(v, T) <= Sigma(w, T)}
<1>1. {} \in X
  BY SigmaAdd
<1>2. ASSUME NEW T \in SUBSET S, NEW x \in S, T \in X, x \notin T PROVE T \cup {x} \in X
  <2>1. Sigma(v, T \cup {x}) = v[x] + Sigma(v, T) /\ Sigma(w, T \cup {x}) = w[x] + Sigma(w, T)
    BY <1>2, SigmaAdd
  <2>2. Sigma(v, T) \in Int /\ Sigma(w, T) \in Int /\ Sigma(v, T) <= Sigma(w, T)
    BY <1>2, SigmaAdd
  <2>3. Sigma(v, T \cup {x}) <= Sigma(w, T \cup {x})
    BY <2>1, <2>2
  <2> QED BY <2>3
<1>3. \A T \in SUBSET S : T \in X
  <2> HIDE DEF X
  <2> QED BY <1>1, <1>2, SetInduction
<1> QED BY <1>3

LEMMA SigmaAlike ==
    ASSUME NEW S, IsFiniteSet(S), NEW v, NEW w, \A x \in S : v[x] \in Int /\ w[x] = v[x]
    PROVE  Sigma(v, S) = Sigma(w, S)
<1>1. Sigma(v, S) <= Sigma(w, S) /\ Sigma(w, S) <= Sigma(v, S)
  BY SigmaOrder
<1>2. Sigma(v, S) \in Int /\ Sigma(w, S) \in Int
  BY SigmaAdd
<1> QED BY <1>1, <1>2

\* The same term n times; no term at all.
LEMMA SigmaSame ==
    ASSUME NEW S, IsFiniteSet(S), NEW w, NEW n \in Int, \A x \in S : w[x] = n
    PROVE  Sigma(w, S) = n * Cardinality(S)
<1> DEFINE X == {T \in SUBSET S : Sigma(w, T) = n * Cardinality(T)}
<1>1. {} \in X
  BY SigmaAdd, FS_EmptySet
<1>2. ASSUME NEW T \in SUBSET S, NEW x \in S, T \in X, x \notin T PROVE T \cup {x} \in X
  <2>1. Sigma(w, T \cup {x}) = n + Sigma(w, T)
    BY <1>2, SigmaAdd
  <2>2. Cardinality(T \cup {x}) = Cardinality(T) + 1 /\ Cardinality(T) \in Nat
    BY <1>2, FS_AddElement, FS_Subset, FS_CardinalityType
  <2>3. Sigma(w, T) = n * Cardinality(T)
    BY <1>2
  <2>4. n * (Cardinality(T) + 1) = n + n * Cardinality(T)
    BY <2>2
  <2> QED BY <2>1, <2>2, <2>3, <2>4
<1>3. \A T \in SUBSET S : T \in X
  <2> HIDE DEF X
  <2> QED BY <1>1, <1>2, SetInduction
<1> QED BY <1>3

\* Terms that are natural numbers: no subset has a larger sum, no element is larger.
LEMMA SigmaNat ==
    ASSUME NEW S, IsFiniteSet(S), NEW w, \A x \in S : w[x] \in Nat
    PROVE  /\ Sigma(w, S) \in Nat
           /\ \A x \in S : w[x] <= Sigma(w, S)
<1> DEFINE zero == [x \in S |-> 0]
<1>1. \A T \in SUBSET S : Sigma(w, T) \in Nat
  <2> SUFFICES ASSUME NEW T \in SUBSET S PROVE Sigma(w, T) \in Nat
    OBVIOUS
  <2>1. IsFiniteSet(T) /\ Sigma(w, T) \in Int
    BY FS_Subset, SigmaAdd
  <2>2. Sigma(zero, T) = 0 * Cardinality(T) /\ Cardinality(T) \in Nat
    BY <2>1, SigmaSame, FS_CardinalityType
  <2>3. Sigma(zero, T) <= Sigma(w, T)
    BY <2>1, SigmaOrder
  <2> QED BY <2>1, <2>2, <2>3
<1>2. ASSUME NEW x \in S PROVE w[x] <= Sigma(w, S)
  <2>1. Sigma(w, S) = w[x] + Sigma(w, S \ {x})
    BY SigmaTake
  <2>2. Sigma(w, S \ {x}) \in Nat
    BY <1>1
  <2> QED BY <2>1, <2>2
<1> QED BY <1>1, <1>2

\* Two of the terms of a sum.
LEMMA SigmaTwo ==
    ASSUME NEW S, IsFiniteSet(S), NEW w, \A x \in S : w[x] \in Nat, NEW x \in S, NEW y \in S, x # y
    PROVE  w[x] + w[y] <= Sigma(w, S) /\ Sigma(w, S) \in Nat
<1>1. Sigma(w, S) = w[x] + Sigma(w, S \ {x})
  BY SigmaTake
<1>2. IsFiniteSet(S \ {x})
  BY FS_Subset
<1>3. w[y] <= Sigma(w, S \ {x}) /\ Sigma(w, S \ {x}) \in Nat
  BY <1>2, SigmaNat
<1> QED BY <1>1, <1>3

\* Two sets that have nothing in common.
LEMMA SigmaSplit ==
    ASSUME NEW S, IsFiniteSet(S), NEW w, \A x \in S : w[x] \in Int, NEW T \in SUBSET S
    PROVE  Sigma(w, S) = Sigma(w, T) + Sigma(w, S \ T)
<1> DEFINE X == {U \in SUBSET T : Sigma(w, U \cup (S \ T)) = Sigma(w, U) + Sigma(w, S \ T)}
<1>1. {} \in X
  <2>1. {} \cup (S \ T) = S \ T
    OBVIOUS
  <2>2. Sigma(w, S \ T) \in Int /\ Sigma(w, {}) = 0
    BY SigmaAdd
  <2> QED BY <2>1, <2>2
<1>2. ASSUME NEW U \in SUBSET T, NEW x \in T, U \in X, x \notin U PROVE U \cup {x} \in X
  <2> DEFINE R == U \cup (S \ T)
  <2>1. (U \cup {x}) \cup (S \ T) = R \cup {x} /\ x \notin R /\ R \in SUBSET S
    BY <1>2
  <2>2. Sigma(w, R \cup {x}) = w[x] + Sigma(w, R) /\ Sigma(w, U \cup {x}) = w[x] + Sigma(w, U)
    <3>1. x \in S /\ U \in SUBSET S
      OBVIOUS
    <3> HIDE DEF R
    <3> QED BY <2>1, <1>2, <3>1, SigmaAdd
  <2>3. Sigma(w, U) \in Int /\ Sigma(w, S \ T) \in Int /\ w[x] \in Int
    BY SigmaAdd
  <2>4. Sigma(w, R) = Sigma(w, U) + Sigma(w, S \ T)
    BY <1>2
  <2> HIDE DEF R
  <2>5. Sigma(w, (U \cup {x}) \cup (S \ T)) = Sigma(w, U \cup {x}) + Sigma(w, S \ T)
    <3>1. Sigma(w, (U \cup {x}) \cup (S \ T)) = Sigma(w, R \cup {x})
      BY <2>1
    <3> QED BY <3>1, <2>2, <2>3, <2>4
  <2> QED BY <2>5
<1>3. \A U \in SUBSET T : U \in X
  <2>1. IsFiniteSet(T)
    BY FS_Subset
  <2> HIDE DEF X
  <2> QED BY <2>1, <1>1, <1>2, SetInduction
<1>4. T \cup (S \ T) = S
  OBVIOUS
<1> QED BY <1>3, <1>4

\* Terms that are nothing, or no larger than a term of the other sum.
LEMMA SigmaBelow ==
    ASSUME NEW S, IsFiniteSet(S), NEW T, IsFiniteSet(T), NEW v, NEW w,
           \A x \in S : v[x] \in Nat, \A x \in T : w[x] \in Nat,
           \A x \in S : v[x] = 0 \/ (x \in T /\ v[x] <= w[x])
    PROVE  Sigma(v, S) <= Sigma(w, T)
<1> DEFINE B == S \cap T
<1>1. B \in SUBSET S /\ B \in SUBSET T /\ IsFiniteSet(B) /\ IsFiniteSet(S \ B) /\ IsFiniteSet(T \ B)
  BY FS_Subset
<1>2. \A x \in B : v[x] \in Int /\ w[x] \in Int /\ v[x] <= w[x]
  OBVIOUS
<1>3. \A x \in S \ B : v[x] = 0
  OBVIOUS
<1>4. (\A x \in S : v[x] \in Int) /\ (\A x \in T : w[x] \in Int) /\ (\A x \in T \ B : w[x] \in Nat)
  OBVIOUS
<1> HIDE DEF B
<1>5. Sigma(v, S) = Sigma(v, B) + Sigma(v, S \ B)
  BY <1>1, <1>4, SigmaSplit
<1>6. Sigma(w, T) = Sigma(w, B) + Sigma(w, T \ B)
  BY <1>1, <1>4, SigmaSplit
<1>7. Sigma(v, S \ B) = 0 * Cardinality(S \ B) /\ Cardinality(S \ B) \in Nat
  BY <1>1, <1>3, SigmaSame, FS_CardinalityType
<1>8. Sigma(w, T \ B) \in Nat
  BY <1>1, <1>4, SigmaNat
<1>9. Sigma(v, B) <= Sigma(w, B)
  BY <1>1, <1>2, SigmaOrder
<1>10. Sigma(v, B) \in Int /\ Sigma(w, B) \in Int
  BY <1>1, <1>2, SigmaAdd
<1> QED BY <1>5, <1>6, <1>7, <1>8, <1>9, <1>10

\* One term is larger by one.
LEMMA SigmaBump ==
    ASSUME NEW S, IsFiniteSet(S), NEW v, NEW w, NEW c,
           \A x \in S : w[x] \in Nat, \A x \in S \ {c} : v[x] = w[x], c \in S => v[c] = w[c] + 1
    PROVE  Sigma(v, S) <= Sigma(w, S) + 1
<1>1. (\A x \in S : w[x] \in Int) /\ (\A x \in S : v[x] \in Int)
  OBVIOUS
<1>2. CASE c \in S
  <2>1. Sigma(v, S) = v[c] + Sigma(v, S \ {c})
    BY <1>1, <1>2, SigmaTake
  <2>2. Sigma(w, S) = w[c] + Sigma(w, S \ {c}) /\ Sigma(w, S \ {c}) \in Int
    BY <1>1, <1>2, SigmaTake
  <2>3. Sigma(w, S \ {c}) = Sigma(v, S \ {c})
    <3>1. IsFiniteSet(S \ {c})
      BY FS_Subset
    <3>2. \A x \in S \ {c} : w[x] \in Int /\ v[x] = w[x]
      BY <1>1
    <3> QED BY <3>1, <3>2, SigmaAlike
  <2> QED BY <1>1, <1>2, <2>1, <2>2, <2>3
<1>3. CASE c \notin S
  <2>1. \A x \in S : w[x] \in Int /\ v[x] = w[x]
    BY <1>1, <1>3
  <2>2. Sigma(w, S) = Sigma(v, S)
    BY <2>1, SigmaAlike
  <2>3. Sigma(w, S) \in Int
    BY <1>1, SigmaAdd
  <2> QED BY <2>2, <2>3
<1> QED BY <1>2, <1>3

-----------------------------------------------------------------------------
(* Recursion from a set to a proper subset of it, and along the naturals.    *)

Turn(stop, done, next, g, s) == IF s \in stop THEN done[s] ELSE g[next[s]]
Recurs(S, stop, done, next, g) == g = [s \in SUBSET S |-> Turn(stop, done, next, g, s)]

\* The recursion has a solution if next[s] is always smaller than s.
LEMMA SetRecursion ==
    ASSUME NEW S, IsFiniteSet(S), NEW stop, NEW done, NEW next,
           \A s \in SUBSET S : s \notin stop => next[s] \in SUBSET s /\ next[s] # s
    PROVE  \E g : Recurs(S, stop, done, next, g)
<1> DEFINE Step(g, s) == Turn(stop, done, next, g, s)
           Solves(g, T) == g = [s \in SUBSET T |-> Step(g, s)]
           Val(T) == (CHOOSE g : Solves(g, T))[T]
           Vals(T) == [u \in SUBSET T |-> Val(u)]
           X == {T \in SUBSET S : \A g : Solves(g, T) <=> g = Vals(T)}
<1>0. ASSUME NEW s \in SUBSET S, NEW g, NEW h, \A u \in SUBSET s : u # s => g[u] = h[u]
      PROVE  Step(g, s) = Step(h, s)
  BY <1>0 DEF Turn
<1> SUFFICES \A T \in SUBSET S : T \in X
  <2>1. S \in X
    OBVIOUS
  <2>2. Solves(Vals(S), S)
    BY <2>1
  <2> QED BY <2>2 DEF Recurs
<1> SUFFICES ASSUME NEW T \in SUBSET S, \A U \in SUBSET T : U # T => U \in X PROVE T \in X
  <2> HIDE DEF X
  <2> QED BY StrongSetInduction
<1> HIDE DEF Step
<1> DEFINE h == [u \in SUBSET T |-> Step(Vals(T), u)]
<1>1. ASSUME NEW u \in SUBSET T, u # T PROVE h[u] = Val(u)
  <2> HIDE DEF Val
  <2>1. Solves(Vals(u), u)
    BY <1>1
  <2>2. Vals(u)[u] = Step(Vals(u), u)
    BY <2>1
  <2>3. Step(Vals(u), u) = Step(Vals(T), u)
    <3>1. \A v \in SUBSET u : v # u => Vals(u)[v] = Vals(T)[v]
      OBVIOUS
    <3> HIDE DEF Vals
    <3> QED BY <3>1, <1>0
  <2> QED BY <2>2, <2>3
<1> HIDE DEF Val
<1>2. Solves(h, T)
  <2>1. ASSUME NEW s \in SUBSET T PROVE Step(Vals(T), s) = Step(h, s)
    <3>1. ASSUME NEW u \in SUBSET s, u # s PROVE Vals(T)[u] = h[u]
      <4>1. u \in SUBSET T /\ u # T
        BY <3>1, ProperSubset
      <4>2. h[u] = Val(u) /\ Vals(T)[u] = Val(u)
        BY <4>1, <1>1
      <4> QED BY <4>2
    <3> HIDE DEF h, Vals
    <3> QED BY <3>1, <1>0
  <2> QED BY <2>1
<1>3. ASSUME NEW g, Solves(g, T) PROVE g = h
  <2>1. ASSUME NEW u \in SUBSET T, u # T PROVE g[u] = Val(u)
    <3> DEFINE k == [v \in SUBSET u |-> g[v]]
    <3>1. ASSUME NEW v \in SUBSET u PROVE g[v] = Step(k, v)
      <4>1. g[v] = Step(g, v)
        BY <1>3
      <4>2. \A t \in SUBSET v : t # v => g[t] = k[t]
        OBVIOUS
      <4>3. Step(g, v) = Step(k, v)
        <5> HIDE DEF k
        <5> QED BY <4>2, <1>0
      <4> QED BY <4>1, <4>3
    <3>2. Solves(k, u)
      BY <3>1
    <3>3. k = Vals(u)
      BY <3>2, <2>1
    <3>4. k[u] = Vals(u)[u]
      BY <3>3
    <3> QED BY <3>4
  <2>2. ASSUME NEW s \in SUBSET T PROVE g[s] = h[s]
    <3>1. ASSUME NEW u \in SUBSET s, u # s PROVE Vals(T)[u] = g[u]
      <4>1. u \in SUBSET T /\ u # T
        BY <3>1, ProperSubset
      <4>2. g[u] = Val(u) /\ Vals(T)[u] = Val(u)
        BY <4>1, <2>1
      <4> QED BY <4>2
    <3>2. Step(Vals(T), s) = Step(g, s)
      <4> HIDE DEF Vals
      <4> QED BY <3>1, <1>0
    <3> QED BY <3>2, <1>3
  <2> QED BY <2>2, <1>3
<1>4. (CHOOSE g : Solves(g, T)) = h
  <2> HIDE DEF h, Solves
  <2> QED BY <1>2, <1>3
<1>5. Val(T) = h[T]
  BY <1>4 DEF Val
<1>6. h = Vals(T)
  BY <1>1, <1>5
<1> QED
  BY <1>2, <1>3, <1>6

\* Induction on the natural numbers, with a set of the good ones.
LEMMA NatSetInduction ==
    ASSUME NEW X, 0 \in X, \A n \in Nat : n \in X => n + 1 \in X
    PROVE  \A n \in Nat : n \in X
<1> DEFINE Bad == {n \in Nat : n \notin X}
<1> SUFFICES ASSUME NEW b \in Nat, b \notin X PROVE FALSE
  OBVIOUS
<1>1. Bad \subseteq Nat /\ Bad # {}
  OBVIOUS
<1>2. PICK m \in Bad : \A n \in Bad : ~ (<<n, m>> \in OpToRel(<, Nat))
  <2> HIDE DEF Bad
  <2> QED BY <1>1, NatLessThanWellFounded, WFMin
<1>3. m \in Nat /\ m \notin X
  BY <1>2
<1>4. \A n \in Bad : ~ (n < m)
  BY <1>2, <1>3 DEF OpToRel
<1>5. m # 0 /\ m - 1 \in Nat /\ m - 1 < m /\ (m - 1) + 1 = m
  <2>1. m # 0
    BY <1>3
  <2> QED BY <2>1, <1>3
<1>6. m - 1 \in X
  BY <1>4, <1>5
<1> QED BY <1>3, <1>5, <1>6

\* The least number of a set.
LEMMA MinNat ==
    ASSUME NEW S \in SUBSET Nat, S # {}
    PROVE  Min(S) \in S /\ \A x \in S : Min(S) <= x
<1>1. PICK m \in S : \A n \in S : ~ (<<n, m>> \in OpToRel(<, Nat))
  BY NatLessThanWellFounded, WFMin
<1>2. \A n \in S : n \in Nat /\ ~ (n < m)
  BY <1>1 DEF OpToRel
<1>3. \A n \in S : m <= n
  BY <1>2
<1>4. \E x \in S : \A y \in S : x <= y
  BY <1>3
<1> QED BY <1>4 DEF Min

\* The largest number of a finite set.
LEMMA MaxNat ==
    ASSUME NEW S \in SUBSET Nat, S # {}, IsFiniteSet(S)
    PROVE  Max(S) \in S /\ \A x \in S : x <= Max(S)
<1> DEFINE X == {T \in SUBSET S : T # {} => \E x \in T : \A y \in T : x >= y}
<1>1. {} \in X
  OBVIOUS
<1>2. ASSUME NEW T \in SUBSET S, NEW x \in S, T \in X, x \notin T PROVE T \cup {x} \in X
  <2>1. CASE T = {}
    BY <2>1
  <2>2. CASE T # {}
    <3>1. PICK m \in T : \A y \in T : m >= y
      BY <1>2, <2>2
    <3>2. CASE x >= m
      <4>1. \A y \in T \cup {x} : x >= y
        BY <3>1, <3>2
      <4> QED BY <4>1
    <3>3. CASE ~ (x >= m)
      <4>1. \A y \in T \cup {x} : m >= y
        BY <3>1, <3>3
      <4> QED BY <4>1
    <3> QED BY <3>2, <3>3
  <2> QED BY <2>1, <2>2
<1>3. \A T \in SUBSET S : T \in X
  <2> HIDE DEF X
  <2> QED BY <1>1, <1>2, SetInduction
<1>4. \E x \in S : \A y \in S : x >= y
  BY <1>3
<1> QED BY <1>4 DEF Max

\* The smaller and the larger of two numbers.
LEMMA MinTwo ==
    ASSUME NEW a \in Int, NEW b \in Int
    PROVE  Min({a, b}) \in {a, b} /\ Min({a, b}) <= a /\ Min({a, b}) <= b
<1>1. \E x \in {a, b} : \A y \in {a, b} : x <= y
  <2>1. CASE a <= b
    BY <2>1
  <2>2. CASE ~ (a <= b)
    BY <2>2
  <2> QED BY <2>1, <2>2
<1> DEFINE m == Min({a, b})
<1>2. m \in {a, b} /\ \A y \in {a, b} : m <= y
  BY <1>1 DEF Min
<1> QED BY <1>2

LEMMA MaxTwo ==
    ASSUME NEW a \in Int, NEW b \in Int
    PROVE  Max({a, b}) \in {a, b} /\ a <= Max({a, b}) /\ b <= Max({a, b})
<1>1. \E x \in {a, b} : \A y \in {a, b} : x >= y
  <2>1. CASE a <= b
    BY <2>1
  <2>2. CASE ~ (a <= b)
    BY <2>2
  <2> QED BY <2>1, <2>2
<1> DEFINE m == Max({a, b})
<1>2. m \in {a, b} /\ \A y \in {a, b} : m >= y
  BY <1>1 DEF Max
<1> QED BY <1>2

\* Products and quotients grow with their terms.
LEMMA Products ==
    ASSUME NEW a \in Nat, NEW b \in Nat, NEW c \in Nat, NEW d \in Nat, a <= b, c <= d
    PROVE  a * c \in Nat /\ a * c <= b * d
<1>1. PICK e \in Nat : b = a + e
  <2>1. b - a \in Nat /\ b = a + (b - a)
    OBVIOUS
  <2> QED BY <2>1
<1>2. PICK f \in Nat : d = c + f
  <2>1. d - c \in Nat /\ d = c + (d - c)
    OBVIOUS
  <2> QED BY <2>1
<1>3. (a + e) * (c + f) = a * c + a * f + e * c + e * f
  OBVIOUS
<1>4. a * c \in Nat /\ a * f \in Nat /\ e * c \in Nat /\ e * f \in Nat
  OBVIOUS
<1> QED BY <1>1, <1>2, <1>3, <1>4

LEMMA Quotients ==
    ASSUME NEW a \in Nat, NEW b \in Nat, NEW n \in Nat \ {0}, a <= b
    PROVE  a \div n \in Nat /\ a \div n <= b \div n
OBVIOUS

-----------------------------------------------------------------------------
(* What stays of a list.                                                     *)

Leaving(u, gone, g, n) == IF n = 0 THEN <<>>
                          ELSE IF u[n] \in gone THEN g[n - 1] ELSE Append(g[n - 1], u[n])

\* The recursion along the list has a solution.
LEMMA WithoutIs ==
    ASSUME NEW E, NEW u \in Seq(E), NEW gone
    PROVE  \E g : g = [n \in 0..Len(u) |-> Leaving(u, gone, g, n)] /\ Without(u, gone) = g[Len(u)]
<1> DEFINE Solves(g, m) == g = [n \in 0..m |-> Leaving(u, gone, g, n)]
           X == {m \in Nat : \E g : Solves(g, m)}
<1>1. 0 \in X
  <2> DEFINE g == [n \in 0..0 |-> <<>>]
  <2>1. Solves(g, 0)
    BY DEF Leaving
  <2> QED BY <2>1
<1>2. ASSUME NEW m \in Nat, m \in X PROVE m + 1 \in X
  <2>1. PICK g : Solves(g, m)
    BY <1>2
  <2> DEFINE h == [n \in 0..(m + 1) |-> IF n \in 0..m THEN g[n] ELSE Leaving(u, gone, g, n)]
  <2>2. ASSUME NEW n \in 0..(m + 1) PROVE h[n] = Leaving(u, gone, h, n)
    <3>1. n # 0 => n - 1 \in 0..m /\ h[n - 1] = g[n - 1]
      OBVIOUS
    <3>2. Leaving(u, gone, h, n) = Leaving(u, gone, g, n)
      <4> HIDE DEF h
      <4> QED BY <3>1 DEF Leaving
    <3>3. n \in 0..m => g[n] = Leaving(u, gone, g, n)
      BY <2>1
    <3> QED BY <3>2, <3>3
  <2>3. Solves(h, m + 1)
    BY <2>2
  <2> HIDE DEF h, Solves
  <2> QED BY <2>3
<1>3. Len(u) \in X
  <2>1. \A m \in Nat : m \in X
    <3> HIDE DEF X
    <3> QED BY <1>1, <1>2, NatSetInduction
  <2> QED BY <2>1
<1>4. Without(u, gone) = (CHOOSE g : Solves(g, Len(u)))[Len(u)]
  BY DEF Without, Leaving
<1> DEFINE f == CHOOSE g : Solves(g, Len(u))
<1>5. Solves(f, Len(u))
  <2> HIDE DEF Solves
  <2> QED BY <1>3
<1> QED BY <1>4, <1>5

\* What stays of a list: no element comes in, none comes twice if none did, and the others stay.
LEMMA WithoutKeeps ==
    ASSUME NEW E, NEW u \in Seq(E), NEW gone
    PROVE  /\ Without(u, gone) \in Seq(E)
           /\ IsInjective(u) => IsInjective(Without(u, gone))
           /\ ToSet(Without(u, gone)) = ToSet(u) \ gone
<1>1. PICK g : g = [n \in 0..Len(u) |-> Leaving(u, gone, g, n)] /\ Without(u, gone) = g[Len(u)]
  BY WithoutIs
<1> DEFINE Good(s, n) == /\ s \in Seq(E)
                         /\ IsInjective(u) => IsInjective(s)
                         /\ ToSet(s) = {u[i] : i \in 1..n} \ gone
           X == {n \in Nat : n <= Len(u) => Good(g[n], n)}
<1>2. 0 \in X
  <2>1. g[0] = <<>>
    BY <1>1 DEF Leaving
  <2>2. Good(<<>>, 0)
    BY DEF IsInjective, ToSet
  <2> QED BY <2>1, <2>2
<1>3. ASSUME NEW n \in Nat, n \in X, n + 1 <= Len(u) PROVE Good(g[n + 1], n + 1)
  <2> DEFINE c == u[n + 1]
             s == g[n]
  <2>1. Good(s, n)
    BY <1>3
  <2>2. g[n + 1] = IF c \in gone THEN s ELSE Append(s, c)
    <3>1. n + 1 \in 0..Len(u) /\ n + 1 # 0 /\ (n + 1) - 1 = n
      BY <1>3
    <3>2. g[n + 1] = Leaving(u, gone, g, n + 1)
      BY <1>1, <3>1
    <3> QED BY <3>1, <3>2 DEF Leaving
  <2>3. {u[i] : i \in 1..(n + 1)} = {u[i] : i \in 1..n} \cup {c}
    <3>1. 1..(n + 1) = 1..n \cup {n + 1}
      OBVIOUS
    <3> QED BY <3>1
  <2>4. c \in E
    BY <1>3
  <2>5. IsInjective(u) => c \notin {u[i] : i \in 1..n}
    BY <1>3 DEF IsInjective
  <2> HIDE DEF c, s
  <2>6. CASE c \in gone
    BY <2>1, <2>2, <2>3, <2>6
  <2>7. CASE c \notin gone
    <3> DEFINE t == Append(s, c)
    <3>1. /\ t \in Seq(E) /\ Len(t) = Len(s) + 1 /\ Len(s) \in Nat
          /\ \A i \in 1..Len(s) : t[i] = s[i]
          /\ t[Len(s) + 1] = c
      BY <2>1, <2>4, AppendProperties, LenProperties
    <3>2. DOMAIN t = 1..Len(s) \cup {Len(s) + 1} /\ DOMAIN s = 1..Len(s)
      BY <2>1, <3>1
    <3> HIDE DEF t
    <3>3. ToSet(t) = ToSet(s) \cup {c}
      BY <3>1, <3>2 DEF ToSet
    <3>4. IsInjective(u) => c \notin ToSet(s)
      BY <2>1, <2>5
    <3>5. ASSUME IsInjective(u) PROVE IsInjective(t)
      <4>1. \A i \in 1..Len(s) : s[i] # c
        BY <3>2, <3>4, <3>5 DEF ToSet
      <4>2. ASSUME NEW i \in DOMAIN t, NEW j \in DOMAIN t, t[i] = t[j] PROVE i = j
        <5>1. CASE i \in 1..Len(s) /\ j \in 1..Len(s)
          BY <2>1, <3>1, <3>2, <3>5, <4>2, <5>1 DEF IsInjective
        <5>2. CASE i = Len(s) + 1 /\ j = Len(s) + 1
          BY <5>2
        <5>3. CASE i = Len(s) + 1 /\ j \in 1..Len(s)
          BY <3>1, <4>1, <4>2, <5>3
        <5>4. CASE j = Len(s) + 1 /\ i \in 1..Len(s)
          BY <3>1, <4>1, <4>2, <5>4
        <5> QED BY <3>2, <5>1, <5>2, <5>3, <5>4
      <4> QED BY <4>2 DEF IsInjective
    <3>6. g[n + 1] = t
      BY <2>2, <2>7 DEF t
    <3>7. ToSet(t) = {u[i] : i \in 1..(n + 1)} \ gone
      BY <2>1, <2>3, <2>7, <3>3
    <3> QED BY <3>1, <3>5, <3>6, <3>7
  <2> QED BY <2>6, <2>7
<1>4. \A n \in Nat : n \in X
  <2>1. ASSUME NEW n \in Nat, n \in X PROVE n + 1 \in X
    <3> HIDE DEF Good
    <3>1. n + 1 \in Nat /\ (n + 1 <= Len(u) => Good(g[n + 1], n + 1))
      BY <1>3, <2>1
    <3> QED BY <3>1
  <2> HIDE DEF X
  <2> QED BY <1>2, <2>1, NatSetInduction
<1>5. Good(g[Len(u)], Len(u))
  <2>1. Len(u) \in Nat /\ Len(u) <= Len(u)
    BY LenProperties
  <2> HIDE DEF Good
  <2> QED BY <1>4, <2>1
<1>6. ToSet(u) = {u[i] : i \in 1..Len(u)}
  BY DEF ToSet
<1> QED BY <1>1, <1>5, <1>6

=============================================================================
