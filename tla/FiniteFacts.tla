---------------------------- MODULE FiniteFacts ----------------------------
(***************************************************************************)
(* Facts about finite sets that the proofs about several components need:  *)
(* the sums of module Functions over a finite set of indices, sets counted *)
(* by their parts, and sets in a strict order.                             *)
(*                                                                         *)
(* What needs an induction is proved from a minimal counterexample, whose  *)
(* existence is a first-order fact (MinimalSubset).                        *)
(***************************************************************************)
EXTENDS Integers, FiniteSets, Functions, FiniteSetTheorems, TLAPS

\* A set of subsets of a finite set has a minimal member: what an induction rests on.
LEMMA MinimalSubset ==
  ASSUME NEW S, IsFiniteSet(S), NEW C, C \subseteq SUBSET S, C # {}
  PROVE  \E T \in C : \A U \in C : U \subseteq T => U = T
<1>1. IsWellFoundedOn(StrictSubsetOrdering(S), FiniteSubsetsOf(S))
  BY FS_StrictSubsetOrderingWellFounded
<1>2. FiniteSubsetsOf(S) = SUBSET S
  BY FS_FiniteSubsetsOfFinite
<1>3. PICK T \in C : \A U \in C : <<U, T>> \notin StrictSubsetOrdering(S)
  BY <1>1, <1>2, WFMin
<1>4. ASSUME NEW U \in C, U \subseteq T PROVE U = T
  BY <1>3, <1>4 DEF StrictSubsetOrdering
<1> QED
  BY <1>4

\* The recursive function that a sum over S is read from.
IsSum(h, f, S) ==
  h = [s \in SUBSET S |-> IF s = {} THEN 0
                          ELSE f[CHOOSE x \in s : TRUE] + h[s \ {CHOOSE x \in s : TRUE}]]

LEMMA SumsAgree ==
  ASSUME NEW f, NEW S, IsFiniteSet(S), NEW T \in SUBSET S,
         NEW g, IsSum(g, f, S), NEW h, IsSum(h, f, T)
  PROVE  \A U \in SUBSET T : g[U] = h[U]
<1> DEFINE C == {U \in SUBSET T : g[U] # h[U]}
<1> SUFFICES ASSUME C # {} PROVE FALSE
  OBVIOUS
<1>1. C \subseteq SUBSET S
  OBVIOUS
<1>2. PICK U \in C : \A V \in C : V \subseteq U => V = U
  <2> HIDE DEF C
  <2> QED
    BY <1>1, MinimalSubset
<1>3. g[U] = IF U = {} THEN 0 ELSE f[CHOOSE x \in U : TRUE] + g[U \ {CHOOSE x \in U : TRUE}]
  BY DEF IsSum
<1>4. h[U] = IF U = {} THEN 0 ELSE f[CHOOSE x \in U : TRUE] + h[U \ {CHOOSE x \in U : TRUE}]
  BY DEF IsSum
<1>5. U # {}
  BY <1>3, <1>4
<1>6. (CHOOSE x \in U : TRUE) \in U
  BY <1>5
<1>7. g[U \ {CHOOSE x \in U : TRUE}] = h[U \ {CHOOSE x \in U : TRUE}]
  BY <1>2, <1>6
<1> QED
  BY <1>3, <1>4, <1>7

LEMMA SumExists ==
  ASSUME NEW f, NEW S, IsFiniteSet(S)
  PROVE  \E h : IsSum(h, f, S)
<1> DEFINE C == {T \in SUBSET S : ~ \E h : IsSum(h, f, T)}
<1> SUFFICES ASSUME C # {} PROVE FALSE
  OBVIOUS
<1>1. PICK T \in C : \A U \in C : U \subseteq T => U = T
  <2>1. C \subseteq SUBSET S
    OBVIOUS
  <2> HIDE DEF C
  <2> QED
    BY <2>1, MinimalSubset
<1> DEFINE G(U) == CHOOSE h : IsSum(h, f, U)
           c(U) == CHOOSE x \in U : TRUE
           h0 == [U \in SUBSET T |-> IF U = T THEN IF T = {} THEN 0 ELSE f[c(T)] + G(T \ {c(T)})[T \ {c(T)}]
                                     ELSE G(U)[U]]
<1>2. ASSUME NEW U \in SUBSET T, U # T PROVE IsSum(G(U), f, U)
  <2>1. U \notin C
    BY <1>1, <1>2
  <2>2. \E h : IsSum(h, f, U)
    BY <2>1
  <2> HIDE DEF C
  <2> QED
    BY <2>2
<1>3. ASSUME NEW U \in SUBSET T PROVE h0[U] = IF U = {} THEN 0 ELSE f[c(U)] + h0[U \ {c(U)}]
  <2> DEFINE W == U \ {c(U)}
  <2>1. CASE U = {}
    <3>1. CASE T = {}
      BY <2>1, <3>1
    <3>2. CASE T # {}
      <4>1. h0[U] = G(U)[U]
        BY <2>1, <3>2
      <4>2. IsSum(G(U), f, U)
        BY <1>2, <2>1, <3>2
      <4>3. G(U)[U] = 0
        BY <4>2, <2>1 DEF IsSum
      <4> QED
        BY <4>1, <4>3, <2>1
    <3> QED
      BY <3>1, <3>2
  <2>2. CASE U # {}
    <3>1. c(U) \in U
      BY <2>2
    <3>2. W \in SUBSET U /\ W \in SUBSET T /\ W # T /\ W # U
      BY <3>1
    <3>3. h0[W] = G(W)[W]
      BY <3>2
    <3>4. CASE U = T
      BY <3>3, <3>4, <2>2
    <3>5. CASE U # T
      <4>1. h0[U] = G(U)[U]
        BY <3>5
      <4>2. IsSum(G(U), f, U) /\ IsSum(G(W), f, W)
        BY <1>2, <3>2, <3>5
      <4>3. IsFiniteSet(U)
        BY FS_Subset
      <4>4. G(U)[U] = f[c(U)] + G(U)[W]
        BY <4>2, <2>2 DEF IsSum
      <4> HIDE DEF G, W, h0
      <4>5. G(U)[W] = G(W)[W]
        BY <4>2, <4>3, <3>2, SumsAgree
      <4>6. h0[U] = f[c(U)] + h0[W]
        BY <4>1, <4>4, <4>5, <3>3
      <4> QED
        BY <4>6, <2>2 DEF W
    <3> QED
      BY <3>4, <3>5
  <2> QED
    BY <2>1, <2>2
<1>4. h0 = [U \in SUBSET T |-> h0[U]]
  OBVIOUS
<1>5. IsSum(h0, f, T)
  <2> HIDE DEF h0
  <2> QED
    BY <1>3, <1>4 DEF IsSum
<1> QED
  BY <1>1, <1>5

\* A sum is the value of that function at its set of indices.
LEMMA SumIs ==
  ASSUME NEW f, NEW S, IsFiniteSet(S)
  PROVE  \E h : IsSum(h, f, S) /\ SumFunctionOnSet(f, S) = h[S]
<1> DEFINE iter == CHOOSE h : IsSum(h, f, S)
<1>1. SumFunctionOnSet(f, S) = iter[S]
  BY DEF SumFunctionOnSet, FoldFunctionOnSet, MapThenFoldSet, IsSum
<1>2. IsSum(iter, f, S)
  <2>1. \E h : IsSum(h, f, S)
    BY SumExists
  <2> QED
    BY <2>1
<1> QED
  BY <1>1, <1>2

LEMMA SumEmpty == \A f : SumFunctionOnSet(f, {}) = 0
<1> TAKE f
<1>1. PICK h : IsSum(h, f, {}) /\ SumFunctionOnSet(f, {}) = h[{}]
  BY FS_EmptySet, SumIs
<1> QED
  BY <1>1 DEF IsSum

LEMMA SumChosen ==
  ASSUME NEW f, NEW S, IsFiniteSet(S), S # {}
  PROVE  \E x \in S : SumFunctionOnSet(f, S) = f[x] + SumFunctionOnSet(f, S \ {x})
<1> DEFINE x == CHOOSE x \in S : TRUE
           T == S \ {x}
<1>1. x \in S
  OBVIOUS
<1>2. IsFiniteSet(T) /\ T \in SUBSET S
  BY FS_Subset
<1>3. PICK g : IsSum(g, f, S) /\ SumFunctionOnSet(f, S) = g[S]
  BY SumIs
<1>4. PICK h : IsSum(h, f, T) /\ SumFunctionOnSet(f, T) = h[T]
  <2> HIDE DEF T
  <2> QED
    BY <1>2, SumIs
<1>5. g[S] = f[x] + g[T]
  BY <1>3 DEF IsSum
<1>6. g[T] = h[T]
  <2> HIDE DEF T
  <2> QED
    BY <1>2, <1>3, <1>4, SumsAgree
<1> QED
  BY <1>1, <1>3, <1>4, <1>5, <1>6

\* Integers add up to an integer, and any of them may be taken first.
LEMMA SumInt ==
  ASSUME NEW f, NEW S, IsFiniteSet(S), \A x \in S : f[x] \in Int
  PROVE  SumFunctionOnSet(f, S) \in Int
<1> DEFINE C == {T \in SUBSET S : SumFunctionOnSet(f, T) \notin Int}
<1> SUFFICES ASSUME C # {} PROVE FALSE
  OBVIOUS
<1>1. PICK T \in C : \A U \in C : U \subseteq T => U = T
  <2>1. C \subseteq SUBSET S
    OBVIOUS
  <2> HIDE DEF C
  <2> QED
    BY <2>1, MinimalSubset
<1>2. T # {}
  BY SumEmpty
<1>3. IsFiniteSet(T)
  BY FS_Subset
<1>4. PICK x \in T : SumFunctionOnSet(f, T) = f[x] + SumFunctionOnSet(f, T \ {x})
  BY <1>2, <1>3, SumChosen
<1>5. SumFunctionOnSet(f, T \ {x}) \in Int
  BY <1>1
<1> QED
  BY <1>4, <1>5

LEMMA SumRemove ==
  ASSUME NEW f, NEW S, IsFiniteSet(S), \A x \in S : f[x] \in Int, NEW x \in S
  PROVE  SumFunctionOnSet(f, S) = f[x] + SumFunctionOnSet(f, S \ {x})
<1> DEFINE Wrong(T) == \E y \in T : SumFunctionOnSet(f, T) # f[y] + SumFunctionOnSet(f, T \ {y})
           C == {T \in SUBSET S : Wrong(T)}
<1> SUFFICES ASSUME C # {} PROVE FALSE
  OBVIOUS
<1>1. PICK T \in C : \A U \in C : U \subseteq T => U = T
  <2>1. C \subseteq SUBSET S
    OBVIOUS
  <2> HIDE DEF C
  <2> QED
    BY <2>1, MinimalSubset
<1>2. PICK y \in T : SumFunctionOnSet(f, T) # f[y] + SumFunctionOnSet(f, T \ {y})
  OBVIOUS
<1>3. IsFiniteSet(T)
  BY FS_Subset
<1>4. PICK z \in T : SumFunctionOnSet(f, T) = f[z] + SumFunctionOnSet(f, T \ {z})
  BY <1>2, <1>3, SumChosen
<1>5. y # z
  BY <1>2, <1>4
<1>6. SumFunctionOnSet(f, T \ {z}) = f[y] + SumFunctionOnSet(f, T \ {y, z})
  <2>1. T \ {z} \notin C
    BY <1>1
  <2>2. (T \ {z}) \ {y} = T \ {y, z}
    OBVIOUS
  <2> QED
    BY <1>5, <2>1, <2>2
<1>7. SumFunctionOnSet(f, T \ {y}) = f[z] + SumFunctionOnSet(f, T \ {y, z})
  <2>1. T \ {y} \notin C
    BY <1>1
  <2>2. (T \ {y}) \ {z} = T \ {y, z}
    OBVIOUS
  <2> QED
    BY <1>5, <2>1, <2>2
<1>8. SumFunctionOnSet(f, T \ {y, z}) \in Int
  <2>1. IsFiniteSet(T \ {y, z}) /\ \A u \in T \ {y, z} : f[u] \in Int
    BY <1>3, FS_Subset
  <2> HIDE DEF C
  <2> QED
    BY <2>1, SumInt
<1>9. f[y] \in Int /\ f[z] \in Int
  OBVIOUS
<1> QED
  BY <1>2, <1>4, <1>6, <1>7, <1>8, <1>9

LEMMA SumAdd ==
  ASSUME NEW f, NEW S, IsFiniteSet(S), NEW x, x \notin S, \A y \in S \cup {x} : f[y] \in Int
  PROVE  SumFunctionOnSet(f, S \cup {x}) = SumFunctionOnSet(f, S) + f[x]
<1>1. IsFiniteSet(S \cup {x})
  BY FS_AddElement
<1>2. (S \cup {x}) \ {x} = S
  OBVIOUS
<1>3. SumFunctionOnSet(f, S) \in Int
  BY SumInt
<1>4. SumFunctionOnSet(f, S \cup {x}) = f[x] + SumFunctionOnSet(f, (S \cup {x}) \ {x})
  BY <1>1, SumRemove
<1>5. SumFunctionOnSet(f, S \cup {x}) = f[x] + SumFunctionOnSet(f, S)
  BY <1>2, <1>4
<1>6. f[x] \in Int
  OBVIOUS
<1> QED
  BY <1>3, <1>5, <1>6

\* Two functions that agree on the indices have the same sum, and a sum grows with its terms.
LEMMA SumGrows ==
  ASSUME NEW f, NEW g, NEW S, IsFiniteSet(S), \A x \in S : f[x] \in Int /\ g[x] \in Int /\ f[x] <= g[x]
  PROVE  SumFunctionOnSet(f, S) <= SumFunctionOnSet(g, S)
<1> DEFINE C == {T \in SUBSET S : ~(SumFunctionOnSet(f, T) <= SumFunctionOnSet(g, T))}
<1> SUFFICES ASSUME C # {} PROVE FALSE
  OBVIOUS
<1>1. PICK T \in C : \A U \in C : U \subseteq T => U = T
  <2>1. C \subseteq SUBSET S
    OBVIOUS
  <2> HIDE DEF C
  <2> QED
    BY <2>1, MinimalSubset
<1>2. T # {}
  BY SumEmpty
<1>3. PICK x \in T : TRUE
  BY <1>2
<1>4. IsFiniteSet(T) /\ IsFiniteSet(T \ {x}) /\ \A y \in T : f[y] \in Int /\ g[y] \in Int
  BY FS_Subset
<1>5. SumFunctionOnSet(f, T \ {x}) <= SumFunctionOnSet(g, T \ {x})
  BY <1>1
<1>6. SumFunctionOnSet(f, T \ {x}) \in Int /\ SumFunctionOnSet(g, T \ {x}) \in Int
  BY <1>4, SumInt
<1>7. /\ SumFunctionOnSet(f, T) = f[x] + SumFunctionOnSet(f, T \ {x})
      /\ SumFunctionOnSet(g, T) = g[x] + SumFunctionOnSet(g, T \ {x})
  BY <1>4, SumRemove
<1>8. f[x] \in Int /\ g[x] \in Int /\ f[x] <= g[x]
  OBVIOUS
<1>9. ~(SumFunctionOnSet(f, T) <= SumFunctionOnSet(g, T))
  OBVIOUS
<1> QED
  BY <1>5, <1>6, <1>7, <1>8, <1>9

LEMMA SumSame ==
  ASSUME NEW f, NEW g, NEW S, IsFiniteSet(S), \A x \in S : f[x] \in Int /\ f[x] = g[x]
  PROVE  SumFunctionOnSet(f, S) = SumFunctionOnSet(g, S)
<1>1. SumFunctionOnSet(f, S) \in Int /\ SumFunctionOnSet(g, S) \in Int
  BY SumInt
<1>2. \A x \in S : f[x] <= g[x] /\ g[x] <= f[x]
  OBVIOUS
<1>3. SumFunctionOnSet(f, S) <= SumFunctionOnSet(g, S)
  BY <1>2, SumGrows
<1>4. SumFunctionOnSet(g, S) <= SumFunctionOnSet(f, S)
  BY <1>2, SumGrows
<1> QED
  BY <1>1, <1>3, <1>4

\* A sum of natural numbers is one, and is zero only when all of them are.
LEMMA SumNat ==
  ASSUME NEW f, NEW S, IsFiniteSet(S), \A x \in S : f[x] \in Nat
  PROVE  /\ SumFunctionOnSet(f, S) \in Nat
         /\ \A x \in S : f[x] <= SumFunctionOnSet(f, S)
<1> DEFINE C == {T \in SUBSET S : SumFunctionOnSet(f, T) \notin Nat}
<1>1. ASSUME C # {} PROVE FALSE
  <2>1. PICK T \in C : \A U \in C : U \subseteq T => U = T
    <3>1. C \subseteq SUBSET S
      OBVIOUS
    <3> HIDE DEF C
    <3> QED
      BY <1>1, <3>1, MinimalSubset
  <2>2. T # {}
    BY SumEmpty
  <2>3. PICK x \in T : SumFunctionOnSet(f, T) = f[x] + SumFunctionOnSet(f, T \ {x})
    BY <2>2, FS_Subset, SumChosen
  <2>4. SumFunctionOnSet(f, T \ {x}) \in Nat
    BY <2>1
  <2>5. f[x] \in Nat
    OBVIOUS
  <2>6. SumFunctionOnSet(f, T) \in Nat
    BY <2>3, <2>4, <2>5
  <2> QED
    BY <2>6
<1>2. \A T \in SUBSET S : SumFunctionOnSet(f, T) \in Nat
  BY <1>1
<1>3. ASSUME NEW x \in S PROVE f[x] <= SumFunctionOnSet(f, S)
  <2>1. \A y \in S : f[y] \in Int
    OBVIOUS
  <2>2. SumFunctionOnSet(f, S) = f[x] + SumFunctionOnSet(f, S \ {x})
    BY <2>1, SumRemove
  <2>3. SumFunctionOnSet(f, S \ {x}) \in Nat /\ f[x] \in Nat
    BY <1>2
  <2> QED
    BY <2>2, <2>3
<1> QED
  BY <1>2, <1>3

LEMMA SumZero ==
  ASSUME NEW f, NEW S, IsFiniteSet(S), \A x \in S : f[x] = 0
  PROVE  SumFunctionOnSet(f, S) = 0
<1> DEFINE C == {T \in SUBSET S : SumFunctionOnSet(f, T) # 0}
<1> SUFFICES ASSUME C # {} PROVE FALSE
  OBVIOUS
<1>1. PICK T \in C : \A U \in C : U \subseteq T => U = T
  <2>1. C \subseteq SUBSET S
    OBVIOUS
  <2> HIDE DEF C
  <2> QED
    BY <2>1, MinimalSubset
<1>2. PICK x \in T : SumFunctionOnSet(f, T) = f[x] + SumFunctionOnSet(f, T \ {x})
  BY SumEmpty, FS_Subset, SumChosen
<1>3. SumFunctionOnSet(f, T \ {x}) = 0 /\ f[x] = 0
  BY <1>1
<1>4. SumFunctionOnSet(f, T) = 0
  BY <1>2, <1>3
<1> QED
  BY <1>4

\* A sum of multiples is a multiple of the sum.
LEMMA SumScaled ==
  ASSUME NEW f, NEW g, NEW S, IsFiniteSet(S), NEW k \in Int, \A x \in S : f[x] \in Int /\ g[x] = k * f[x]
  PROVE  SumFunctionOnSet(g, S) = k * SumFunctionOnSet(f, S)
<1> DEFINE C == {T \in SUBSET S : SumFunctionOnSet(g, T) # k * SumFunctionOnSet(f, T)}
<1> SUFFICES ASSUME C # {} PROVE FALSE
  OBVIOUS
<1>1. PICK T \in C : \A U \in C : U \subseteq T => U = T
  <2>1. C \subseteq SUBSET S
    OBVIOUS
  <2> HIDE DEF C
  <2> QED
    BY <2>1, MinimalSubset
<1>2. T # {}
  <2>1. k * 0 = 0
    OBVIOUS
  <2>2. ASSUME T = {} PROVE FALSE
    BY <2>1, <2>2, SumEmpty
  <2> QED
    BY <2>2
<1>3. PICK x \in T : TRUE
  BY <1>2
<1>4. /\ IsFiniteSet(T) /\ IsFiniteSet(T \ {x})
      /\ \A y \in T : f[y] \in Int
      /\ \A y \in T : g[y] \in Int
  BY FS_Subset
<1>5. /\ SumFunctionOnSet(f, T) = f[x] + SumFunctionOnSet(f, T \ {x})
      /\ SumFunctionOnSet(g, T) = g[x] + SumFunctionOnSet(g, T \ {x})
  BY <1>4, SumRemove
<1>6. SumFunctionOnSet(g, T \ {x}) = k * SumFunctionOnSet(f, T \ {x})
  BY <1>1
<1>7. SumFunctionOnSet(f, T \ {x}) \in Int
  <2>1. \A y \in T \ {x} : f[y] \in Int
    BY <1>4
  <2> QED
    BY <1>4, <2>1, SumInt
<1>8. f[x] \in Int /\ g[x] = k * f[x]
  OBVIOUS
<1>9. SumFunctionOnSet(g, T) # k * SumFunctionOnSet(f, T)
  OBVIOUS
<1> QED
  <2> DEFINE a == SumFunctionOnSet(f, T \ {x})
             b == f[x]
  <2>1. a \in Int /\ b \in Int
    BY <1>7, <1>8
  <2>2. SumFunctionOnSet(g, T) # k * (b + a)
    BY <1>5, <1>9
  <2>3. SumFunctionOnSet(g, T) = k * b + k * a
    BY <1>5, <1>6, <1>8
  <2> HIDE DEF a, b
  <2>4. k * (b + a) = k * b + k * a
    BY <2>1
  <2> QED
    BY <2>2, <2>3, <2>4


\* More terms, none of them negative, never make a sum smaller.
LEMMA SumMore ==
  ASSUME NEW f, NEW g, NEW T, IsFiniteSet(T), \A x \in T : g[x] \in Nat,
         NEW S \in SUBSET T, \A x \in S : f[x] = g[x]
  PROVE  SumFunctionOnSet(f, S) <= SumFunctionOnSet(g, T)
<1> DEFINE C == {U \in SUBSET T : S \subseteq U /\ ~(SumFunctionOnSet(f, S) <= SumFunctionOnSet(g, U))}
<1> SUFFICES ASSUME C # {} PROVE FALSE
  OBVIOUS
<1>1. PICK U \in C : \A V \in C : V \subseteq U => V = U
  <2>1. C \subseteq SUBSET T
    OBVIOUS
  <2> HIDE DEF C
  <2> QED
    BY <2>1, MinimalSubset
<1>2. IsFiniteSet(S) /\ IsFiniteSet(U)
  BY FS_Subset
<1>3. U # S
  <2>1. \A x \in S : f[x] \in Int /\ f[x] = g[x]
    OBVIOUS
  <2>2. SumFunctionOnSet(f, S) = SumFunctionOnSet(g, S)
    BY <1>2, <2>1, SumSame
  <2>3. SumFunctionOnSet(f, S) \in Int
    BY <1>2, <2>1, SumInt
  <2> QED
    BY <2>2, <2>3
<1>4. PICK x \in U : x \notin S
  BY <1>3
<1>5. SumFunctionOnSet(f, S) <= SumFunctionOnSet(g, U \ {x})
  BY <1>1, <1>4
<1>6. SumFunctionOnSet(g, U) = g[x] + SumFunctionOnSet(g, U \ {x})
  <2>1. \A y \in U : g[y] \in Int
    OBVIOUS
  <2> QED
    BY <1>2, <2>1, SumRemove
<1>7. SumFunctionOnSet(g, U \ {x}) \in Nat
  <2>1. IsFiniteSet(U \ {x}) /\ \A y \in U \ {x} : g[y] \in Nat
    BY <1>2, FS_Subset
  <2> QED
    BY <2>1, SumNat
<1>8. SumFunctionOnSet(f, S) \in Int
  <2>1. \A y \in S : f[y] \in Int
    OBVIOUS
  <2> QED
    BY <1>2, <2>1, SumInt
<1>9. g[x] \in Nat /\ ~(SumFunctionOnSet(f, S) <= SumFunctionOnSet(g, U))
  OBVIOUS
<1> QED
  BY <1>5, <1>6, <1>7, <1>8, <1>9

\* Zeros add nothing.
LEMMA SumPadded ==
  ASSUME NEW f, NEW g, NEW T, IsFiniteSet(T), \A x \in T : g[x] \in Int,
         NEW S \in SUBSET T, \A x \in S : f[x] = g[x], \A x \in T \ S : g[x] = 0
  PROVE  SumFunctionOnSet(f, S) = SumFunctionOnSet(g, T)
<1> DEFINE C == {L \in SUBSET (T \ S) : SumFunctionOnSet(g, S \cup L) # SumFunctionOnSet(g, S)}
<1>1. C \subseteq SUBSET (T \ S) /\ IsFiniteSet(T \ S) /\ IsFiniteSet(S)
  BY FS_Subset
<1>2. SumFunctionOnSet(f, S) = SumFunctionOnSet(g, S)
  <2>1. \A x \in S : f[x] \in Int /\ f[x] = g[x]
    OBVIOUS
  <2> QED
    BY <1>1, <2>1, SumSame
<1>3. C = {}
  <2>1. SUFFICES ASSUME C # {} PROVE FALSE
    OBVIOUS
  <2>2. PICK L \in C : \A K \in C : K \subseteq L => K = L
    <3> HIDE DEF C
    <3> QED
      BY <1>1, <2>1, MinimalSubset
  <2>3. L \subseteq T \ S /\ SumFunctionOnSet(g, S \cup L) # SumFunctionOnSet(g, S)
    OBVIOUS
  <2>4. L # {}
    <3>1. S \cup {} = S
      OBVIOUS
    <3> QED
      BY <2>3, <3>1
  <2>5. PICK x \in L : TRUE
    BY <2>4
  <2> DEFINE K == L \ {x}
  <2>6. K \notin C /\ K \in SUBSET (T \ S)
    BY <2>2, <2>3, <2>5
  <2>7. SumFunctionOnSet(g, S \cup K) = SumFunctionOnSet(g, S)
    BY <2>6
  <2> DEFINE U == S \cup K
  <2>8. IsFiniteSet(U) /\ x \notin U /\ U \cup {x} = S \cup L /\ g[x] = 0
    <3>1. U \subseteq T
      BY <2>3
    <3> QED
      BY <2>3, <2>5, <3>1, FS_Subset
  <2>9. \A y \in U \cup {x} : g[y] \in Int
    BY <2>3, <2>8
  <2> HIDE DEF U, C, K
  <2>10. SumFunctionOnSet(g, U \cup {x}) = SumFunctionOnSet(g, U) + g[x]
    BY <2>8, <2>9, SumAdd
  <2>11. SumFunctionOnSet(g, U) \in Int
    BY <2>8, <2>9, SumInt
  <2>12. SumFunctionOnSet(g, S \cup L) = SumFunctionOnSet(g, U) + g[x]
    BY <2>8, <2>10
  <2>13. SumFunctionOnSet(g, U) = SumFunctionOnSet(g, S)
    BY <2>7 DEF U
  <2>14. SumFunctionOnSet(g, U) + g[x] = SumFunctionOnSet(g, U)
    BY <2>8, <2>11
  <2> QED
    BY <2>3, <2>12, <2>13, <2>14
<1>4. SumFunctionOnSet(g, S \cup (T \ S)) = SumFunctionOnSet(g, S)
  BY <1>3
<1>5. S \cup (T \ S) = T
  OBVIOUS
<1> QED
  BY <1>2, <1>4, <1>5

-----------------------------------------------------------------------------
(* The least and the greatest member. *)

LEMMA LeastExists ==
  ASSUME NEW S \in SUBSET Nat, S # {}
  PROVE  \E x \in S : \A y \in S : x <= y
<1>1. PICK x \in S : \A y \in S : <<y, x>> \notin OpToRel(<, Nat)
  BY NatLessThanWellFounded, WFMin
<1>2. ASSUME NEW y \in S PROVE x <= y
  <2>1. x \in Nat /\ y \in Nat
    OBVIOUS
  <2>2. <<y, x>> \notin {ss \in Nat \X Nat : ss[1] < ss[2]}
    BY <1>1, <1>2 DEF OpToRel
  <2>3. ~ (y < x)
    BY <2>1, <2>2
  <2> QED
    BY <2>1, <2>3
<1> QED
  BY <1>2

LEMMA GreatestExists ==
  ASSUME NEW S \in SUBSET Nat, S # {}, NEW n \in Nat, \A x \in S : x <= n
  PROVE  \E x \in S : \A y \in S : y <= x
<1> DEFINE T == {d \in Nat : n - d \in S}
<1>1. T \in SUBSET Nat
  OBVIOUS
<1>2. T # {}
  <2>1. PICK x \in S : TRUE
    OBVIOUS
  <2>2. n - x \in Nat /\ n - (n - x) = x
    BY <2>1
  <2> QED
    BY <2>1, <2>2
<1>3. PICK d \in T : \A e \in T : d <= e
  <2> HIDE DEF T
  <2> QED
    BY <1>1, <1>2, LeastExists
<1>4. ASSUME NEW y \in S PROVE y <= n - d
  <2>1. n - y \in T
    <3>1. n - y \in Nat /\ n - (n - y) = y
      OBVIOUS
    <3> QED
      BY <3>1
  <2>2. d <= n - y
    BY <1>3, <2>1
  <2> QED
    BY <2>2
<1> QED
  BY <1>4

-----------------------------------------------------------------------------
(* Counting. *)

\* A subset of the same size is the whole set.
LEMMA SameSize ==
  ASSUME NEW S, IsFiniteSet(S), NEW T \in SUBSET S
  PROVE  /\ IsFiniteSet(T) /\ Cardinality(T) \in Nat /\ Cardinality(S) \in Nat
         /\ Cardinality(T) <= Cardinality(S)
         /\ Cardinality(T) = Cardinality(S) <=> T = S
<1>1. IsFiniteSet(T) /\ Cardinality(T) <= Cardinality(S) /\ (Cardinality(S) = Cardinality(T) => S = T)
  BY FS_Subset
<1>2. Cardinality(T) \in Nat /\ Cardinality(S) \in Nat
  BY <1>1, FS_CardinalityType
<1> QED
  BY <1>1, <1>2

\* A finite set is counted by its parts: those of its members for which g has each of its values.
Part(S, g, k) == {x \in S : g[x] = k}

LEMMA CountedByParts ==
  ASSUME NEW S, IsFiniteSet(S), NEW K, IsFiniteSet(K), NEW g, \A x \in S : g[x] \in K,
         NEW n, \A k \in K : n[k] = Cardinality(Part(S, g, k))
  PROVE  SumFunctionOnSet(n, K) = Cardinality(S)
<1> DEFINE Of(L) == {x \in S : g[x] \in L}
           C == {L \in SUBSET K : SumFunctionOnSet(n, L) # Cardinality(Of(L))}
<1>1. ASSUME C # {} PROVE FALSE
  <2>1. PICK L \in C : \A M \in C : M \subseteq L => M = L
    <3>1. C \subseteq SUBSET K
      OBVIOUS
    <3> HIDE DEF C
    <3> QED
      BY <1>1, <3>1, MinimalSubset
  <2>2. L # {}
    <3>1. Of({}) = {}
      OBVIOUS
    <3>2. ASSUME L = {} PROVE FALSE
      BY <3>1, <3>2, SumEmpty, FS_EmptySet
    <3> QED
      BY <3>2
  <2>3. PICK k \in L : TRUE
    BY <2>2
  <2>4. SumFunctionOnSet(n, L \ {k}) = Cardinality(Of(L \ {k}))
    BY <2>1, <2>3
  <2>5. IsFiniteSet(L) /\ L \subseteq K
    BY FS_Subset
  <2>6. /\ IsFiniteSet(Of(L \ {k})) /\ IsFiniteSet(Part(S, g, k))
    BY FS_Subset DEF Part
  <2>7. /\ Of(L \ {k}) \cap Part(S, g, k) = {} /\ Of(L \ {k}) \cup Part(S, g, k) = Of(L)
    BY DEF Part
  <2>8. SumFunctionOnSet(n, L) # Cardinality(Of(L))
    OBVIOUS
  <2> HIDE DEF Of, C
  <2>9. Cardinality(Of(L)) = Cardinality(Of(L \ {k})) + Cardinality(Part(S, g, k))
    <3>1. Cardinality(Of(L)) = Cardinality(Of(L \ {k})) + Cardinality(Part(S, g, k))
                                 - Cardinality(Of(L \ {k}) \cap Part(S, g, k))
      BY <2>6, <2>7, FS_Union
    <3>2. Cardinality(Of(L \ {k}) \cap Part(S, g, k)) = 0
      BY <2>7, FS_EmptySet
    <3>3. Cardinality(Of(L \ {k})) \in Nat /\ Cardinality(Part(S, g, k)) \in Nat
      BY <2>6, FS_CardinalityType
    <3> QED
      BY <3>1, <3>2, <3>3
  <2>10. \A j \in L : n[j] \in Int
    <3>1. ASSUME NEW j \in L PROVE n[j] \in Int
      <4>1. n[j] = Cardinality(Part(S, g, j))
        BY <2>5
      <4>2. IsFiniteSet(Part(S, g, j))
        BY FS_Subset DEF Part
      <4> QED
        BY <4>1, <4>2, FS_CardinalityType
    <3> QED
      BY <3>1
  <2>11. SumFunctionOnSet(n, L) = n[k] + SumFunctionOnSet(n, L \ {k})
    BY <2>3, <2>5, <2>10, SumRemove
  <2>12. n[k] = Cardinality(Part(S, g, k))
    BY <2>3, <2>5
  <2>13. Cardinality(Of(L \ {k})) \in Nat /\ Cardinality(Part(S, g, k)) \in Nat
    BY <2>6, FS_CardinalityType
  <2> QED
    BY <2>4, <2>8, <2>9, <2>11, <2>12, <2>13
<1>2. SumFunctionOnSet(n, K) = Cardinality(Of(K))
  BY <1>1
<1>3. Of(K) = S
  OBVIOUS
<1> QED
  BY <1>2, <1>3

-----------------------------------------------------------------------------
(* Strict orders. *)

StrictOrder(R, S) ==
  /\ \A x \in S : <<x, x>> \notin R
  /\ \A x, y \in S : x # y => <<x, y>> \in R \/ <<y, x>> \in R
  /\ \A x, y, z \in S : <<x, y>> \in R /\ <<y, z>> \in R => <<x, z>> \in R

Under(R, S, x) == {y \in S : <<y, x>> \in R}

\* Who is before fewer members than another has before it, is before the other.
LEMMA MoreAreUnder ==
  ASSUME NEW S, IsFiniteSet(S), NEW R, StrictOrder(R, S), NEW x \in S, NEW y \in S
  PROVE  /\ Cardinality(Under(R, S, x)) \in Nat
         /\ Cardinality(Under(R, S, x)) < Cardinality(S)
         /\ <<x, y>> \in R <=> Cardinality(Under(R, S, x)) < Cardinality(Under(R, S, y))
         /\ Cardinality(Under(R, S, x)) = Cardinality(Under(R, S, y)) <=> x = y
<1>1. ASSUME NEW u \in S, NEW v \in S, <<u, v>> \in R
      PROVE  Cardinality(Under(R, S, u)) < Cardinality(Under(R, S, v))
  <2>1. Under(R, S, u) \in SUBSET Under(R, S, v)
    BY <1>1 DEF Under, StrictOrder
  <2>2. u \in Under(R, S, v) /\ u \notin Under(R, S, u)
    BY <1>1 DEF Under, StrictOrder
  <2>3. IsFiniteSet(Under(R, S, v))
    BY FS_Subset DEF Under
  <2> QED
    BY <2>1, <2>2, <2>3, SameSize
<1>2. ASSUME NEW u \in S
      PROVE  Cardinality(Under(R, S, u)) \in Nat /\ Cardinality(Under(R, S, u)) < Cardinality(S)
  <2>1. Under(R, S, u) \in SUBSET S
    BY DEF Under
  <2>2. u \notin Under(R, S, u)
    BY DEF Under, StrictOrder
  <2> QED
    BY <2>1, <2>2, SameSize
<1>3. <<x, y>> \in R \/ <<y, x>> \in R \/ x = y
  BY DEF StrictOrder
<1> QED
  BY <1>1, <1>2, <1>3

\* Every place is taken.
LEMMA EveryPlace ==
  ASSUME NEW S, IsFiniteSet(S), NEW R, StrictOrder(R, S),
         NEW n \in Nat, n < Cardinality(S)
  PROVE  \E x \in S : Cardinality(Under(R, S, x)) = n
<1> DEFINE T == 0..(Cardinality(S) - 1)
           r == [x \in S |-> Cardinality(Under(R, S, x))]
<1>1. Cardinality(S) \in Nat
  BY FS_CardinalityType
<1>2. IsFiniteSet(T) /\ Cardinality(T) = Cardinality(S)
  <2>1. 0 \in Int /\ Cardinality(S) - 1 \in Int
    BY <1>1
  <2>2. IsFiniteSet(T) /\ Cardinality(T) = IF 0 > Cardinality(S) - 1 THEN 0 ELSE Cardinality(S) - 1 - 0 + 1
    BY <2>1, FS_Interval
  <2> QED
    BY <1>1, <2>2
<1>3. r \in [S -> T]
  <2>1. ASSUME NEW x \in S PROVE Cardinality(Under(R, S, x)) \in T
    <3>1. Cardinality(Under(R, S, x)) \in Nat /\ Cardinality(Under(R, S, x)) < Cardinality(S)
      BY MoreAreUnder
    <3> QED
      BY <1>1, <3>1
  <2> QED
    BY <2>1
<1>4. ASSUME NEW x \in S, NEW y \in S, r[x] = r[y] PROVE x = y
  <2>1. Cardinality(Under(R, S, x)) = Cardinality(Under(R, S, y))
    BY <1>4
  <2>2. ASSUME <<x, y>> \in R PROVE FALSE
    BY <2>1, <2>2, MoreAreUnder
  <2>3. ASSUME <<y, x>> \in R PROVE FALSE
    BY <2>1, <2>3, MoreAreUnder
  <2> QED
    BY <2>2, <2>3 DEF StrictOrder
<1>5. r \in Injection(S, T)
  BY <1>3, <1>4 DEF Injection, IsInjective
<1>6. r \in Surjection(S, T)
  <2> HIDE DEF r, T
  <2> QED
    BY <1>2, <1>5, FS_Injection
<1>7. n \in T
  BY <1>1
<1>8. \E x \in S : r[x] = n
  BY <1>6, <1>7 DEF Surjection
<1> QED
  BY <1>8

\* The members in their order, as InOrder of module Ranking makes it.
LEMMA PlacedInOrder ==
  ASSUME NEW S, IsFiniteSet(S), NEW R, StrictOrder(R, S),
         NEW q, q = [i \in 1..Cardinality(S) |-> CHOOSE x \in S : Cardinality(Under(R, S, x)) = i - 1]
  PROVE  /\ Cardinality(S) \in Nat
         /\ \A i \in 1..Cardinality(S) : q[i] \in S /\ Cardinality(Under(R, S, q[i])) = i - 1
         /\ \A x \in S : \E i \in 1..Cardinality(S) : q[i] = x
         /\ \A i, k \in 1..Cardinality(S) : i < k <=> <<q[i], q[k]>> \in R
<1>1. Cardinality(S) \in Nat
  BY FS_CardinalityType
<1>2. ASSUME NEW i \in 1..Cardinality(S) PROVE q[i] \in S /\ Cardinality(Under(R, S, q[i])) = i - 1
  <2>1. i - 1 \in Nat /\ i - 1 < Cardinality(S)
    BY <1>1
  <2>2. \E x \in S : Cardinality(Under(R, S, x)) = i - 1
    BY <2>1, EveryPlace
  <2> QED
    BY <2>2
<1>3. ASSUME NEW x \in S PROVE \E i \in 1..Cardinality(S) : q[i] = x
  <2> DEFINE i == Cardinality(Under(R, S, x)) + 1
  <2>1. i \in 1..Cardinality(S) /\ i - 1 = Cardinality(Under(R, S, x))
    <3>1. Cardinality(Under(R, S, x)) \in Nat /\ Cardinality(Under(R, S, x)) < Cardinality(S)
      BY MoreAreUnder
    <3> QED
      BY <1>1, <3>1
  <2>2. q[i] \in S /\ Cardinality(Under(R, S, q[i])) = i - 1
    BY <1>2, <2>1
  <2> HIDE DEF i
  <2>3. q[i] = x
    BY <2>1, <2>2, MoreAreUnder
  <2> QED
    BY <2>1, <2>3
<1>4. ASSUME NEW i \in 1..Cardinality(S), NEW k \in 1..Cardinality(S)
      PROVE  i < k <=> <<q[i], q[k]>> \in R
  <2>1. <<q[i], q[k]>> \in R <=> Cardinality(Under(R, S, q[i])) < Cardinality(Under(R, S, q[k]))
    BY <1>2, MoreAreUnder
  <2>2. Cardinality(Under(R, S, q[i])) = i - 1 /\ Cardinality(Under(R, S, q[k])) = k - 1
    BY <1>2
  <2> QED
    BY <1>1, <2>1, <2>2
<1> QED
  BY <1>1, <1>2, <1>3, <1>4

\* The members of S that have fewer than n members before them.
Foremost(R, S, n) == {x \in S : Cardinality(Under(R, S, x)) < n}

\* There are n of them where S has as many.
LEMMA ForemostAreMany ==
  ASSUME NEW S, IsFiniteSet(S), NEW R, StrictOrder(R, S), NEW n \in Nat, n <= Cardinality(S)
  PROVE  IsFiniteSet(Foremost(R, S, n)) /\ Cardinality(Foremost(R, S, n)) >= n
<1> DEFINE N == 0..(n - 1)
           F == Foremost(R, S, n)
           at == [k \in N |-> CHOOSE x \in S : Cardinality(Under(R, S, x)) = k]
<1>1. Cardinality(S) \in Nat
  BY FS_CardinalityType
<1>2. Cardinality(N) = n
  <2>1. 0 \in Int /\ n - 1 \in Int
    OBVIOUS
  <2>2. Cardinality(N) = IF 0 > n - 1 THEN 0 ELSE n - 1 - 0 + 1
    BY <2>1, FS_Interval
  <2> QED
    BY <2>2
<1>3. ASSUME NEW k \in N PROVE at[k] \in S /\ Cardinality(Under(R, S, at[k])) = k
  <2>1. k \in Nat /\ k < Cardinality(S)
    BY <1>1
  <2>2. \E x \in S : Cardinality(Under(R, S, x)) = k
    BY <2>1, EveryPlace
  <2> QED
    BY <2>2
<1>4. ASSUME NEW k \in N PROVE at[k] \in F
  <2> HIDE DEF at
  <2>1. k < n
    OBVIOUS
  <2> QED
    BY <1>3, <2>1 DEF Foremost
<1>5. at \in Injection(N, F)
  <2>1. at \in [N -> F]
    <3> HIDE DEF F
    <3> QED
      BY <1>4
  <2>2. \A j, k \in N : at[j] = at[k] => j = k
    <3> HIDE DEF at, N
    <3> QED
      BY <1>3
  <2> HIDE DEF at, N, F
  <2> QED
    BY <2>1, <2>2 DEF Injection, IsInjective
<1>6. IsFiniteSet(F)
  BY FS_Subset DEF Foremost
<1>7. Cardinality(N) <= Cardinality(F) /\ Cardinality(F) \in Nat
  <2> HIDE DEF at, N, F
  <2> QED
    BY <1>5, <1>6, FS_Injection, FS_CardinalityType
<1> HIDE DEF N, F
<1>8. Cardinality(F) >= n
  BY <1>2, <1>7
<1> QED
  BY <1>6, <1>8 DEF F

\* Seen from e, the foremost members of S show all of S up to e, or n members before e.
LEMMA CutOff ==
  ASSUME NEW T, NEW R, StrictOrder(R, T), NEW S \in SUBSET T, IsFiniteSet(S), NEW n \in Nat,
         NEW e \in T
  PROVE  \/ (e \in S => e \in Foremost(R, S, n)) /\ Under(R, S, e) \subseteq Foremost(R, S, n)
         \/ Cardinality(Under(R, Foremost(R, S, n), e)) >= n
<1> DEFINE F == Foremost(R, S, n)
<1> SUFFICES ASSUME NEW y \in S, y \notin F, y = e \/ <<y, e>> \in R
             PROVE  Cardinality(Under(R, F, e)) >= n
  BY DEF Under
<1>1. StrictOrder(R, S)
  BY DEF StrictOrder
<1>2. Cardinality(S) \in Nat /\ Cardinality(Under(R, S, y)) \in Nat
  BY <1>1, MoreAreUnder, FS_CardinalityType
<1>3. n <= Cardinality(Under(R, S, y))
  BY <1>2 DEF Foremost
<1>4. Cardinality(Under(R, S, y)) < Cardinality(S)
  BY <1>1, MoreAreUnder
<1>5. n <= Cardinality(S)
  BY <1>2, <1>3, <1>4
<1>6. Cardinality(F) >= n
  BY <1>1, <1>5, ForemostAreMany
<1>7. ASSUME NEW x \in F PROVE <<x, e>> \in R
  <2>1. x \in S /\ Cardinality(Under(R, S, x)) < n
    BY DEF Foremost
  <2>2. Cardinality(Under(R, S, x)) \in Nat
    BY <1>1, <2>1, MoreAreUnder
  <2>3. Cardinality(Under(R, S, x)) < Cardinality(Under(R, S, y))
    BY <1>2, <1>3, <2>1, <2>2
  <2>4. <<x, y>> \in R
    BY <1>1, <2>1, <2>3, MoreAreUnder
  <2>5. x \in T /\ y \in T
    BY <2>1
  <2> QED
    BY <2>4, <2>5 DEF StrictOrder
<1>8. Under(R, F, e) = F
  BY <1>7 DEF Under
<1> QED
  BY <1>6, <1>8

=============================================================================
