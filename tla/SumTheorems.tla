----------------------------- MODULE SumTheorems -----------------------------
(***************************************************************************)
(* Facts about SumFunctionOnSet(f, S), the sum of f[x] for x in S, for any *)
(* finite S.  The ledgers, votes and allowances of this project are such   *)
(* sums.  Induction over S is by a smallest counterexample, which the      *)
(* library's theorem on minimal elements gives without an operator         *)
(* parameter.                                                              *)
(***************************************************************************)
EXTENDS Functions, FiniteSetTheorems, TLAPS

\* Every set of natural numbers that is not empty has a least element.
LEMMA LeastNumber ==
    ASSUME NEW T \in SUBSET Nat, T # {}
    PROVE  \E n \in T : \A k \in T : n =< k
<1>1. PICK n \in T : \A k \in T : ~(<<k, n>> \in OpToRel(<, Nat))
  BY NatLessThanWellFounded, WFMin
<1>2. \A k \in T : ~(k < n)
  BY <1>1 DEF OpToRel
<1>3. \A k \in T : k \in Nat /\ n \in Nat
  OBVIOUS
<1> QED BY <1>2, <1>3

\* Among subsets of a finite set there is one that no longer belongs to them
\* once any of its elements is taken away.
LEMMA SmallestSet ==
    ASSUME NEW U, IsFiniteSet(U), NEW T \in SUBSET (SUBSET U), T # {}
    PROVE  \E s \in T : \A x \in s : s \ {x} \notin T
<1> DEFINE sizes == {Cardinality(s) : s \in T}
<1>1. \A s \in T : IsFiniteSet(s) /\ Cardinality(s) \in Nat
  BY FS_Subset, FS_CardinalityType
<1>2. sizes \in SUBSET Nat /\ sizes # {}
  BY <1>1
<1>3. PICK n \in sizes : \A k \in sizes : n =< k
  BY <1>2, LeastNumber
<1>4. PICK s \in T : Cardinality(s) = n
  OBVIOUS
<1>5. ASSUME NEW x \in s, s \ {x} \in T PROVE FALSE
  <2>1. Cardinality(s \ {x}) = Cardinality(s) - 1
    BY <1>1, FS_RemoveElement
  <2>2. n =< Cardinality(s \ {x})
    BY <1>3, <1>5
  <2> QED BY <1>1, <1>4, <2>1, <2>2
<1> QED BY <1>4, <1>5

\* The element that the fold takes first, what it makes of a set from its value
\* for the rest, and the function by which Folds.tla defines it.
Choice(s) == CHOOSE x \in s : TRUE

Unfolded(f, F, s) ==
    IF s = {} THEN 0 ELSE f[Choice(s)] + F[s \ {Choice(s)}]

Iterates(f, S, F) ==
    F = [s \in SUBSET S |-> IF s = {} THEN 0
                            ELSE f[Choice(s)] + F[s \ {Choice(s)}]]

\* The sum of the community modules is the value of some such function.
LEMMA SumIsIteration ==
    ASSUME NEW f, NEW S
    PROVE  SumFunctionOnSet(f, S) = (CHOOSE F : Iterates(f, S, F))[S]
BY DEF SumFunctionOnSet, FoldFunctionOnSet, MapThenFoldSet, Choice, Iterates

\* There is one: it is built for the subsets of n elements, for every n.
LEMMA IterationExists ==
    ASSUME NEW S, IsFiniteSet(S), NEW f, \A x \in S : f[x] \in Int
    PROVE  \E F \in [SUBSET S -> Int] : Iterates(f, S, F)
<1> DEFINE UpTo(n, F) ==
             \A s \in SUBSET S :
                Cardinality(s) =< n => F[s] = Unfolded(f, F, s)
           Bad == {n \in Nat : ~ \E F \in [SUBSET S -> Int] : UpTo(n, F)}
<1>1. \A s \in SUBSET S : IsFiniteSet(s) /\ Cardinality(s) \in Nat
  BY FS_Subset, FS_CardinalityType
<1>2. Bad = {}
  <2> SUFFICES ASSUME Bad # {} PROVE FALSE
    OBVIOUS
  <2>1. PICK n \in Bad : \A k \in Bad : n =< k
    BY LeastNumber
  <2>2. CASE n = 0
    <3> DEFINE F == [s \in SUBSET S |-> 0]
    <3>1. F \in [SUBSET S -> Int]
      OBVIOUS
    <3>2. \A s \in SUBSET S : Cardinality(s) =< 0 => s = {}
      BY <1>1, FS_EmptySet
    <3>3. UpTo(0, F)
      BY <3>2 DEF Unfolded
    <3> QED BY <3>1, <3>3, <2>2
  <2>3. CASE n # 0
    <3>1. n - 1 \in Nat /\ n - 1 \notin Bad
      <4>1. n \in Nat /\ n - 1 \in Nat /\ ~(n =< n - 1)
        BY <2>3
      <4> QED BY <4>1, <2>1
    <3>2. PICK F \in [SUBSET S -> Int] : UpTo(n - 1, F)
      BY <3>1
    <3> DEFINE G == [s \in SUBSET S |-> Unfolded(f, F, s)]
    <3>3. ASSUME NEW s \in SUBSET S, s # {}
          PROVE  /\ Choice(s) \in s
                 /\ f[Choice(s)] \in Int
                 /\ s \ {Choice(s)} \in SUBSET S
                 /\ Cardinality(s \ {Choice(s)}) = Cardinality(s) - 1
      <4>1. Choice(s) \in s
        BY <3>3 DEF Choice
      <4> QED BY <4>1, <1>1, FS_RemoveElement
    <3>4. G \in [SUBSET S -> Int]
      <4>1. ASSUME NEW s \in SUBSET S
            PROVE  Unfolded(f, F, s) \in Int
        <5>1. s # {} => F[s \ {Choice(s)}] \in Int /\ f[Choice(s)] \in Int
          BY <3>3
        <5> QED BY <5>1 DEF Unfolded
      <4> QED BY <4>1
    <3>5. ASSUME NEW s \in SUBSET S, Cardinality(s) =< n
          PROVE  G[s] = Unfolded(f, G, s)
      <4>1. CASE s = {}
        BY <4>1 DEF Unfolded
      <4>2. CASE s # {}
        <5> DEFINE t == s \ {Choice(s)}
        <5>1. t \in SUBSET S /\ Cardinality(t) =< n - 1
          BY <3>3, <4>2, <3>5, <1>1, <2>1
        <5>2. F[t] = Unfolded(f, F, t)
          BY <5>1, <3>2
        <5>3. G[t] = F[t]
          BY <5>1, <5>2
        <5> QED BY <5>3, <4>2 DEF Unfolded
      <4> QED BY <4>1, <4>2
    <3> QED BY <3>4, <3>5
  <2> QED BY <2>2, <2>3
<1>3. Cardinality(S) \in Nat
  BY <1>1
<1>4. PICK F \in [SUBSET S -> Int] : UpTo(Cardinality(S), F)
  BY <1>2, <1>3
<1>5. \A s \in SUBSET S : F[s] = Unfolded(f, F, s)
  BY <1>4, FS_Subset
<1> QED BY <1>4, <1>5 DEF Iterates, Unfolded

\* On a finite set its value depends on nothing but the numbers in that set.
LEMMA IterationsAgree ==
    ASSUME NEW S, IsFiniteSet(S), NEW U, S \subseteq U, NEW f, NEW g,
           \A x \in S : f[x] = g[x],
           NEW F, NEW G, Iterates(f, S, F), Iterates(g, U, G)
    PROVE  F[S] = G[S]
<1> DEFINE Bad == {s \in SUBSET S : F[s] # G[s]}
<1> SUFFICES ASSUME Bad # {} PROVE FALSE
  OBVIOUS
<1>1. PICK s \in Bad : \A x \in s : s \ {x} \notin Bad
  BY SmallestSet
<1>2. F[s] = Unfolded(f, F, s) /\ G[s] = Unfolded(g, G, s)
  BY DEF Iterates, Unfolded
<1>3. s # {}
  BY <1>2 DEF Unfolded
<1>4. Choice(s) \in s
  BY <1>3 DEF Choice
<1>5. F[s \ {Choice(s)}] = G[s \ {Choice(s)}]
  BY <1>1, <1>4
<1> QED BY <1>2, <1>3, <1>4, <1>5 DEF Unfolded

\* So the sum is the integer that the recursion in Folds.tla suggests.
LEMMA SumStep ==
    ASSUME NEW S, IsFiniteSet(S), NEW f, \A x \in S : f[x] \in Int
    PROVE  /\ SumFunctionOnSet(f, S) \in Int
           /\ S = {} => SumFunctionOnSet(f, S) = 0
           /\ S # {} =>
                SumFunctionOnSet(f, S)
                  = f[Choice(S)] + SumFunctionOnSet(f, S \ {Choice(S)})
<1> DEFINE R == S \ {Choice(S)}
<1> DEFINE F == CHOOSE F : Iterates(f, S, F)
<1> DEFINE G == CHOOSE G : Iterates(f, R, G)
<1>1. PICK E \in [SUBSET S -> Int] : Iterates(f, S, E)
  BY IterationExists
<1>2. Iterates(f, S, F)
  BY <1>1
<1>3. SumFunctionOnSet(f, S) = F[S]
  BY SumIsIteration
<1>4. F[S] = E[S]
  BY <1>1, <1>2, IterationsAgree
<1>5. S = {} => F[S] = 0
  BY <1>2 DEF Iterates
<1>6. ASSUME S # {}
      PROVE  SumFunctionOnSet(f, S) = f[Choice(S)] + SumFunctionOnSet(f, R)
  <2>1. F[S] = f[Choice(S)] + F[R]
    BY <1>2, <1>6 DEF Iterates
  <2>2. IsFiniteSet(R)
    BY FS_Subset
  <2>3. Iterates(f, R, G)
    <3>1. \E D \in [SUBSET R -> Int] : Iterates(f, R, D)
      BY <2>2, IterationExists
    <3> QED BY <3>1
  <2>4. SumFunctionOnSet(f, R) = G[R]
    BY SumIsIteration
  <2>5. G[R] = F[R]
    BY <2>2, <2>3, <1>2, IterationsAgree
  <2> QED BY <2>1, <2>4, <2>5, <1>3
<1> QED BY <1>3, <1>4, <1>5, <1>6

-----------------------------------------------------------------------------
\* The sum of integers is an integer.
LEMMA SumInt ==
    ASSUME NEW S, IsFiniteSet(S), NEW f, \A x \in S : f[x] \in Int
    PROVE  SumFunctionOnSet(f, S) \in Int
BY SumStep

\* Nothing sums up to zero.
LEMMA SumEmpty ==
    ASSUME NEW f
    PROVE  SumFunctionOnSet(f, {}) = 0
BY SumStep, FS_EmptySet

\* Only the numbers that are summed matter.
LEMMA SumSame ==
    ASSUME NEW S, IsFiniteSet(S), NEW f, NEW g,
           \A x \in S : f[x] \in Int /\ f[x] = g[x]
    PROVE  SumFunctionOnSet(f, S) = SumFunctionOnSet(g, S)
<1> DEFINE F == CHOOSE F : Iterates(f, S, F)
<1> DEFINE G == CHOOSE G : Iterates(g, S, G)
<1>1. Iterates(f, S, F) /\ Iterates(g, S, G)
  <2>1. (\A x \in S : f[x] \in Int) /\ (\A x \in S : g[x] \in Int)
    OBVIOUS
  <2>2. \E E \in [SUBSET S -> Int] : Iterates(f, S, E)
    BY <2>1, IterationExists
  <2>3. \E E \in [SUBSET S -> Int] : Iterates(g, S, E)
    BY <2>1, IterationExists
  <2> QED BY <2>2, <2>3
<1>2. F[S] = G[S]
  BY <1>1, IterationsAgree
<1> QED BY <1>2, SumIsIteration

\* Any element may be the one that is taken out of the sum, not only the one
\* that the fold chooses.
LEMMA SumRemove ==
    ASSUME NEW S, IsFiniteSet(S), NEW f, \A x \in S : f[x] \in Int,
           NEW x \in S
    PROVE  SumFunctionOnSet(f, S) = f[x] + SumFunctionOnSet(f, S \ {x})
<1> DEFINE Bad == {s \in SUBSET S :
                     \E y \in s : SumFunctionOnSet(f, s)
                                    # f[y] + SumFunctionOnSet(f, s \ {y})}
<1> SUFFICES ASSUME Bad # {} PROVE FALSE
  OBVIOUS
<1>1. PICK s \in Bad : \A y \in s : s \ {y} \notin Bad
  BY SmallestSet
<1>2. PICK y \in s :
        SumFunctionOnSet(f, s) # f[y] + SumFunctionOnSet(f, s \ {y})
  OBVIOUS
<1> DEFINE c == Choice(s)
<1>3. c \in s
  BY DEF Choice
<1>4. \A t \in SUBSET S :
        /\ IsFiniteSet(t) /\ \A z \in t : f[z] \in Int
        /\ SumFunctionOnSet(f, t) \in Int
  BY FS_Subset, SumInt
<1>5. SumFunctionOnSet(f, s) = f[c] + SumFunctionOnSet(f, s \ {c})
  BY <1>3, <1>4, SumStep
<1>6. y # c
  BY <1>2, <1>5
<1>7. SumFunctionOnSet(f, s \ {c}) = f[y] + SumFunctionOnSet(f, (s \ {c}) \ {y})
  BY <1>1, <1>3, <1>6
<1>8. SumFunctionOnSet(f, s \ {y}) = f[c] + SumFunctionOnSet(f, (s \ {y}) \ {c})
  BY <1>1, <1>3, <1>6
<1>9. SumFunctionOnSet(f, s \ {y}) = f[c] + SumFunctionOnSet(f, (s \ {c}) \ {y})
  <2>1. (s \ {y}) \ {c} = (s \ {c}) \ {y}
    OBVIOUS
  <2> QED BY <1>8, <2>1
<1>10. /\ f[c] \in Int /\ f[y] \in Int
       /\ SumFunctionOnSet(f, s \ {c}) \in Int
       /\ SumFunctionOnSet(f, s \ {y}) \in Int
       /\ SumFunctionOnSet(f, (s \ {c}) \ {y}) \in Int
  BY <1>3, <1>4
<1>11. SumFunctionOnSet(f, s) = f[y] + SumFunctionOnSet(f, s \ {y})
  BY <1>5, <1>7, <1>9, <1>10
<1> QED BY <1>2, <1>11

\* A change of one number changes the sum by as much.
LEMMA SumUpdate ==
    ASSUME NEW S, IsFiniteSet(S), NEW f, NEW g,
           \A x \in S : f[x] \in Int /\ g[x] \in Int,
           NEW x \in S, \A y \in S \ {x} : g[y] = f[y]
    PROVE  SumFunctionOnSet(g, S) = SumFunctionOnSet(f, S) + (g[x] - f[x])
<1>1. IsFiniteSet(S \ {x})
  BY FS_Subset
<1>2. SumFunctionOnSet(f, S \ {x}) = SumFunctionOnSet(g, S \ {x})
  BY <1>1, SumSame
<1>3. (\A y \in S : f[y] \in Int) /\ (\A y \in S : g[y] \in Int)
  OBVIOUS
<1>4. /\ SumFunctionOnSet(f, S) = f[x] + SumFunctionOnSet(f, S \ {x})
      /\ SumFunctionOnSet(g, S) = g[x] + SumFunctionOnSet(g, S \ {x})
  BY <1>3, SumRemove
<1>5. SumFunctionOnSet(f, S \ {x}) \in Int /\ SumFunctionOnSet(f, S) \in Int
  BY <1>1, <1>3, SumInt
<1> QED BY <1>2, <1>4, <1>5

\* The sum of natural numbers is a natural number.
LEMMA SumNat ==
    ASSUME NEW S, IsFiniteSet(S), NEW f, \A x \in S : f[x] \in Nat
    PROVE  SumFunctionOnSet(f, S) \in Nat
<1> DEFINE Bad == {s \in SUBSET S : SumFunctionOnSet(f, s) \notin Nat}
<1> SUFFICES ASSUME Bad # {} PROVE FALSE
  OBVIOUS
<1>1. PICK s \in Bad : \A y \in s : s \ {y} \notin Bad
  BY SmallestSet
<1>2. s # {}
  BY SumEmpty
<1>3. PICK y \in s : TRUE
  BY <1>2
<1>4. SumFunctionOnSet(f, s \ {y}) \in Nat
  BY <1>1
<1>5. IsFiniteSet(s) /\ \A z \in s : f[z] \in Int
  BY FS_Subset
<1>6. SumFunctionOnSet(f, s) = f[y] + SumFunctionOnSet(f, s \ {y})
  BY <1>5, SumRemove
<1> QED BY <1>4, <1>6

\* The sum of zeros is zero.
LEMMA SumZero ==
    ASSUME NEW S, IsFiniteSet(S), NEW f, \A x \in S : f[x] = 0
    PROVE  SumFunctionOnSet(f, S) = 0
<1> DEFINE Bad == {s \in SUBSET S : SumFunctionOnSet(f, s) # 0}
<1> SUFFICES ASSUME Bad # {} PROVE FALSE
  OBVIOUS
<1>1. PICK s \in Bad : \A y \in s : s \ {y} \notin Bad
  BY SmallestSet
<1>2. s # {}
  BY SumEmpty
<1>3. PICK y \in s : TRUE
  BY <1>2
<1>4. SumFunctionOnSet(f, s \ {y}) = 0
  BY <1>1
<1>5. IsFiniteSet(s) /\ \A z \in s : f[z] \in Int
  BY FS_Subset
<1>6. SumFunctionOnSet(f, s) = f[y] + SumFunctionOnSet(f, s \ {y})
  BY <1>5, SumRemove
<1> QED BY <1>4, <1>6

\* A new element adds its number.
LEMMA SumAdd ==
    ASSUME NEW S, IsFiniteSet(S), NEW f, NEW x, x \notin S,
           \A y \in S \cup {x} : f[y] \in Int
    PROVE  SumFunctionOnSet(f, S \cup {x}) = SumFunctionOnSet(f, S) + f[x]
<1> DEFINE T == S \cup {x}
<1>1. IsFiniteSet(T) /\ x \in T /\ \A y \in T : f[y] \in Int
  BY FS_AddElement
<1>2. T \ {x} = S
  OBVIOUS
<1> HIDE DEF T
<1>3. SumFunctionOnSet(f, T) = f[x] + SumFunctionOnSet(f, T \ {x})
  BY <1>1, SumRemove
<1>4. SumFunctionOnSet(f, T) = f[x] + SumFunctionOnSet(f, S)
  BY <1>2, <1>3
<1>5. f[x] \in Int /\ SumFunctionOnSet(f, S) \in Int
  BY <1>1, SumInt
<1> QED BY <1>4, <1>5 DEF T

\* No natural number is more than a sum that it is part of.
LEMMA SumMember ==
    ASSUME NEW S, IsFiniteSet(S), NEW f, \A y \in S : f[y] \in Nat,
           NEW x \in S
    PROVE  f[x] =< SumFunctionOnSet(f, S)
<1>1. IsFiniteSet(S \ {x})
  BY FS_Subset
<1>2. SumFunctionOnSet(f, S \ {x}) \in Nat
  BY <1>1, SumNat
<1>3. SumFunctionOnSet(f, S) = f[x] + SumFunctionOnSet(f, S \ {x})
  BY SumRemove
<1> QED BY <1>2, <1>3

\* The sum of the sums of two functions is the sum of their pointwise sum.
LEMMA SumSplit ==
    ASSUME NEW S, IsFiniteSet(S), NEW f, NEW g, NEW h,
           \A x \in S : f[x] \in Int /\ g[x] \in Int /\ h[x] = f[x] + g[x]
    PROVE  SumFunctionOnSet(h, S)
             = SumFunctionOnSet(f, S) + SumFunctionOnSet(g, S)
<1> DEFINE Bad == {s \in SUBSET S :
                     SumFunctionOnSet(h, s)
                       # SumFunctionOnSet(f, s) + SumFunctionOnSet(g, s)}
<1> SUFFICES ASSUME Bad # {} PROVE FALSE
  OBVIOUS
<1>1. PICK s \in Bad : \A y \in s : s \ {y} \notin Bad
  BY SmallestSet
<1>2. s # {}
  <2>1. /\ SumFunctionOnSet(f, {}) = 0
        /\ SumFunctionOnSet(g, {}) = 0
        /\ SumFunctionOnSet(h, {}) = 0
    BY SumEmpty
  <2>2. {} \notin Bad
    BY <2>1
  <2> QED BY <2>2, Zenon
<1>3. PICK y \in s : TRUE
  BY <1>2
<1>4. SumFunctionOnSet(h, s \ {y})
        = SumFunctionOnSet(f, s \ {y}) + SumFunctionOnSet(g, s \ {y})
  BY <1>1
<1>5. /\ IsFiniteSet(s) /\ IsFiniteSet(s \ {y})
      /\ \A z \in s : f[z] \in Int
      /\ \A z \in s : g[z] \in Int
      /\ \A z \in s : h[z] \in Int
  BY FS_Subset
<1>6. /\ SumFunctionOnSet(f, s) = f[y] + SumFunctionOnSet(f, s \ {y})
      /\ SumFunctionOnSet(g, s) = g[y] + SumFunctionOnSet(g, s \ {y})
      /\ SumFunctionOnSet(h, s) = h[y] + SumFunctionOnSet(h, s \ {y})
  BY <1>5, SumRemove
<1>7. /\ SumFunctionOnSet(f, s \ {y}) \in Int
      /\ SumFunctionOnSet(g, s \ {y}) \in Int
  BY <1>5, SumInt
<1>8. f[y] \in Int /\ g[y] \in Int /\ h[y] = f[y] + g[y]
  OBVIOUS
<1>9. SumFunctionOnSet(h, s) = SumFunctionOnSet(f, s) + SumFunctionOnSet(g, s)
  BY <1>4, <1>6, <1>7, <1>8
<1> QED BY <1>9

\* A sum does not become less when its numbers grow or numbers are added.
LEMMA SumMonotone ==
    ASSUME NEW S, IsFiniteSet(S), NEW D, D \subseteq S, NEW f, NEW g,
           \A x \in S : g[x] \in Nat,
           \A x \in D : f[x] \in Int /\ f[x] =< g[x]
    PROVE  SumFunctionOnSet(f, D) =< SumFunctionOnSet(g, S)
<1> DEFINE Bad == {s \in SUBSET S :
                     ~(SumFunctionOnSet(f, s \cap D) =< SumFunctionOnSet(g, s))}
<1> SUFFICES ASSUME Bad # {} PROVE FALSE
  <2>1. S \cap D = D /\ S \in SUBSET S
    OBVIOUS
  <2> QED BY <2>1
<1>1. PICK s \in Bad : \A y \in s : s \ {y} \notin Bad
  BY SmallestSet
<1>2. s # {}
  <2>1. /\ SumFunctionOnSet(f, {}) = 0
        /\ SumFunctionOnSet(g, {}) = 0
        /\ {} \cap D = {}
    BY SumEmpty
  <2>2. {} \notin Bad
    BY <2>1
  <2> QED BY <2>2, Zenon
<1>3. PICK y \in s : TRUE
  BY <1>2
<1> DEFINE r == s \ {y}
<1>4. SumFunctionOnSet(f, r \cap D) =< SumFunctionOnSet(g, r)
  BY <1>1
<1>5. /\ IsFiniteSet(s) /\ IsFiniteSet(r)
      /\ IsFiniteSet(s \cap D) /\ IsFiniteSet(r \cap D)
      /\ \A z \in s : g[z] \in Int
      /\ \A z \in s \cap D : f[z] \in Int
  BY FS_Subset
<1>6. /\ SumFunctionOnSet(g, s) = g[y] + SumFunctionOnSet(g, r)
      /\ SumFunctionOnSet(g, r) \in Int
      /\ SumFunctionOnSet(f, r \cap D) \in Int
  BY <1>5, SumRemove, SumInt
<1>7. CASE y \in D
  <2>1. (s \cap D) \ {y} = r \cap D
    OBVIOUS
  <2>2. SumFunctionOnSet(f, s \cap D)
          = f[y] + SumFunctionOnSet(f, (s \cap D) \ {y})
    BY <1>5, <1>7, SumRemove
  <2>3. f[y] \in Int /\ g[y] \in Int /\ f[y] =< g[y]
    BY <1>7
  <2>4. SumFunctionOnSet(f, s \cap D) = f[y] + SumFunctionOnSet(f, r \cap D)
    BY <2>1, <2>2
  <2>5. ~(SumFunctionOnSet(f, s \cap D) =< SumFunctionOnSet(g, s))
    OBVIOUS
  <2> HIDE DEF r
  <2> QED BY <1>4, <1>6, <2>3, <2>4, <2>5
<1>8. CASE y \notin D
  <2>1. SumFunctionOnSet(f, s \cap D) = SumFunctionOnSet(f, r \cap D)
    <3>1. s \cap D = r \cap D
      BY <1>8
    <3> QED BY <3>1, Zenon
  <2>2. g[y] \in Nat
    OBVIOUS
  <2>3. ~(SumFunctionOnSet(f, s \cap D) =< SumFunctionOnSet(g, s))
    OBVIOUS
  <2> HIDE DEF r
  <2> QED BY <1>4, <1>6, <2>1, <2>2, <2>3
<1> QED BY <1>7, <1>8

\* Zeros do not count.
LEMMA SumExtend ==
    ASSUME NEW S, IsFiniteSet(S), NEW D, D \subseteq S, NEW f, NEW g,
           \A x \in D : f[x] \in Int /\ g[x] = f[x],
           \A x \in S \ D : g[x] = 0
    PROVE  SumFunctionOnSet(g, S) = SumFunctionOnSet(f, D)
<1> DEFINE Bad == {s \in SUBSET S :
                     SumFunctionOnSet(f, s \cap D) # SumFunctionOnSet(g, s)}
<1> SUFFICES ASSUME Bad # {} PROVE FALSE
  <2>1. S \cap D = D /\ S \in SUBSET S
    OBVIOUS
  <2> QED BY <2>1
<1>1. PICK s \in Bad : \A y \in s : s \ {y} \notin Bad
  BY SmallestSet
<1>2. s # {}
  <2>1. /\ SumFunctionOnSet(f, {}) = 0
        /\ SumFunctionOnSet(g, {}) = 0
        /\ {} \cap D = {}
    BY SumEmpty
  <2>2. {} \notin Bad
    BY <2>1
  <2> QED BY <2>2, Zenon
<1>3. PICK y \in s : TRUE
  BY <1>2
<1> DEFINE r == s \ {y}
<1>4. SumFunctionOnSet(f, r \cap D) = SumFunctionOnSet(g, r)
  BY <1>1
<1>5. /\ IsFiniteSet(s) /\ IsFiniteSet(r)
      /\ IsFiniteSet(s \cap D)
      /\ \A z \in s : g[z] \in Int
      /\ \A z \in s \cap D : f[z] \in Int
  BY FS_Subset
<1>6. /\ SumFunctionOnSet(g, s) = g[y] + SumFunctionOnSet(g, r)
      /\ SumFunctionOnSet(g, r) \in Int
  BY <1>5, SumRemove, SumInt
<1>7. CASE y \in D
  <2>1. (s \cap D) \ {y} = r \cap D
    OBVIOUS
  <2>2. SumFunctionOnSet(f, s \cap D)
          = f[y] + SumFunctionOnSet(f, (s \cap D) \ {y})
    BY <1>5, <1>7, SumRemove
  <2> QED BY <1>4, <1>6, <1>7, <2>1, <2>2
<1>8. CASE y \notin D
  <2>1. SumFunctionOnSet(f, s \cap D) = SumFunctionOnSet(f, r \cap D)
    <3>1. s \cap D = r \cap D
      BY <1>8
    <3> QED BY <3>1, Zenon
  <2>2. g[y] = 0
    BY <1>8
  <2>3. SumFunctionOnSet(f, s \cap D) # SumFunctionOnSet(g, s)
    OBVIOUS
  <2> HIDE DEF r
  <2> QED BY <1>4, <1>6, <2>1, <2>2, <2>3
<1> QED BY <1>7, <1>8

\* Numbers that take the place of zeros are added.
LEMMA SumJoin ==
    ASSUME NEW S, IsFiniteSet(S), NEW D, D \subseteq S,
           NEW f, NEW j, NEW g,
           \A x \in S : f[x] \in Int,
           \A x \in D : f[x] = 0 /\ j[x] \in Int /\ g[x] = j[x],
           \A x \in S \ D : g[x] = f[x]
    PROVE  SumFunctionOnSet(g, S)
             = SumFunctionOnSet(f, S) + SumFunctionOnSet(j, D)
<1> DEFINE h == [x \in S |-> IF x \in D THEN j[x] ELSE 0]
<1>1. /\ \A x \in S : h[x] \in Int
      /\ \A x \in D : h[x] = j[x]
      /\ \A x \in S \ D : h[x] = 0
  OBVIOUS
<1> HIDE DEF h
<1>2. \A x \in S : f[x] \in Int /\ h[x] \in Int /\ g[x] = f[x] + h[x]
  <2> SUFFICES ASSUME NEW x \in S
               PROVE  f[x] \in Int /\ h[x] \in Int /\ g[x] = f[x] + h[x]
    OBVIOUS
  <2>1. CASE x \in D
    BY <1>1, <2>1
  <2>2. CASE x \notin D
    BY <1>1, <2>2
  <2> QED BY <2>1, <2>2
<1>3. SumFunctionOnSet(g, S) = SumFunctionOnSet(f, S) + SumFunctionOnSet(h, S)
  BY <1>2, SumSplit
<1>4. \A x \in D : j[x] \in Int /\ h[x] = j[x]
  BY <1>1
<1>5. SumFunctionOnSet(h, S) = SumFunctionOnSet(j, D)
  BY <1>1, <1>4, SumExtend
<1> QED BY <1>3, <1>5
=============================================================================
