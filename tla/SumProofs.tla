------------------------------ MODULE SumProofs ------------------------------
(***************************************************************************)
(* Sums over finite sets: SumFunctionOnSet(f, S) adds f[x] over the x in S *)
(* as a recursion that takes a chosen element away at each step, which is  *)
(* how a fold is defined.  That says little about the sum itself: here it  *)
(* is shown to have the value its name promises, whichever element is      *)
(* taken first, and to follow f as f changes at one index.                 *)
(*                                                                         *)
(* The model sums what reservation rows hold (sumActiveHolds, Committed)   *)
(* and what the steps of a plan add up to; the counters that are compared  *)
(* with those sums move by one row at a time.                              *)
(***************************************************************************)
EXTENDS Integers, Functions, FiniteSetTheorems, WellFoundedInduction, TLAPS

(* To find every subset of a finite set in D, it is enough to find the     *)
(* empty one there, and each other one whose subsets with one element less *)
(* are there: a smallest subset outside D would be neither.                *)
LEMMA SubsetsByRemoval ==
    ASSUME NEW S, IsFiniteSet(S), NEW D, {} \in D,
           \A T \in SUBSET S :
              T # {} /\ (\A x \in T : T \ {x} \in D) => T \in D
    PROVE  SUBSET S \subseteq D
<1> DEFINE Missing == {T \in SUBSET S : T \notin D}
<1>1. SUFFICES ASSUME Missing # {}
               PROVE  FALSE
  OBVIOUS
<1>2. Missing \subseteq FiniteSubsetsOf(S)
  BY FS_FiniteSubsetsOfFinite
<1>3. PICK U \in Missing :
          \A V \in Missing : ~ (<<V, U>> \in StrictSubsetOrdering(S))
  <2>1. IsWellFoundedOn(StrictSubsetOrdering(S), FiniteSubsetsOf(S))
    BY FS_StrictSubsetOrderingWellFounded
  <2> HIDE DEF Missing
  <2>2. \E U \in Missing :
            \A V \in Missing : ~ (<<V, U>> \in StrictSubsetOrdering(S))
    BY <1>1, <1>2, <2>1, WFMin, Zenon
  <2> QED BY <2>2
<1>4. ASSUME NEW x \in U
      PROVE  U \ {x} \in D
  <2>1. U \ {x} \subseteq U /\ U \ {x} # U /\ U \ {x} \in SUBSET S
    OBVIOUS
  <2>2. <<U \ {x}, U>> \in StrictSubsetOrdering(S)
    BY <2>1 DEF StrictSubsetOrdering
  <2> QED BY <1>3, <2>1, <2>2
<1> QED BY <1>3, <1>4

-----------------------------------------------------------------------------
(* The recursion has a solution on every finite set, and only one.         *)

Chosen(s) == CHOOSE x \in s : TRUE

AddsUp(f, S, g) ==
    g = [s \in SUBSET S |->
            IF s = {} THEN 0 ELSE f[Chosen(s)] + g[s \ {Chosen(s)}]]

LEMMA ChosenInside ==
    ASSUME NEW s, s # {}
    PROVE  Chosen(s) \in s
BY DEF Chosen

LEMMA SumIsRecursion ==
    ASSUME NEW f, NEW S
    PROVE  SumFunctionOnSet(f, S) = (CHOOSE g : AddsUp(f, S, g))[S]
BY DEF SumFunctionOnSet, FoldFunctionOnSet, MapThenFoldSet, AddsUp, Chosen

LEMMA AddsUpAt ==
    ASSUME NEW f, NEW S, NEW g, AddsUp(f, S, g), NEW s \in SUBSET S
    PROVE  g[s] = IF s = {} THEN 0 ELSE f[Chosen(s)] + g[s \ {Chosen(s)}]
BY Zenon DEF AddsUp

LEMMA AddsUpWithin ==
    ASSUME NEW f, NEW S, NEW g, AddsUp(f, S, g), NEW T \in SUBSET S
    PROVE  AddsUp(f, T, [s \in SUBSET T |-> g[s]])
<1> DEFINE h == [s \in SUBSET T |-> g[s]]
<1>1. ASSUME NEW s \in SUBSET T
      PROVE  g[s] = IF s = {} THEN 0 ELSE f[Chosen(s)] + h[s \ {Chosen(s)}]
  <2>1. s \in SUBSET S /\ s \ {Chosen(s)} \in SUBSET T
    OBVIOUS
  <2>2. h[s \ {Chosen(s)}] = g[s \ {Chosen(s)}]
    BY <2>1
  <2> HIDE DEF h
  <2> QED BY <2>1, <2>2, AddsUpAt
<1>2. h = [s \in SUBSET T |->
              IF s = {} THEN 0 ELSE f[Chosen(s)] + h[s \ {Chosen(s)}]]
  BY <1>1, Zenon
<1> HIDE DEF h
<1> QED BY <1>2 DEF AddsUp

LEMMA AddUpAlike ==
    ASSUME NEW f, NEW S, NEW T \in SUBSET S, IsFiniteSet(T),
           NEW g, AddsUp(f, S, g), NEW h, AddsUp(f, T, h)
    PROVE  g[T] = h[T]
<1> DEFINE D == {s \in SUBSET T : g[s] = h[s]}
<1>1. {} \in D
  BY AddsUpAt
<1>2. ASSUME NEW s \in SUBSET T, s # {}, \A x \in s : s \ {x} \in D
      PROVE  s \in D
  <2>1. g[s \ {Chosen(s)}] = h[s \ {Chosen(s)}]
    BY <1>2, ChosenInside
  <2>2. g[s] = f[Chosen(s)] + g[s \ {Chosen(s)}]
    BY <1>2, AddsUpAt
  <2>3. h[s] = f[Chosen(s)] + h[s \ {Chosen(s)}]
    BY <1>2, AddsUpAt
  <2> QED BY <2>1, <2>2, <2>3
<1>3. SUBSET T \subseteq D
  <2> HIDE DEF D
  <2> QED BY <1>1, <1>2, SubsetsByRemoval
<1> QED BY <1>3

LEMMA AddsUpExists ==
    ASSUME NEW f, NEW S, IsFiniteSet(S)
    PROVE  \E g : AddsUp(f, S, g)
<1> DEFINE D == {T \in SUBSET S : \E g : AddsUp(f, T, g)}
           Of(T) == CHOOSE g : AddsUp(f, T, g)
<1>1. {} \in D
  <2> DEFINE g == [s \in SUBSET {} |-> 0]
  <2>1. g = [s \in SUBSET {} |->
                IF s = {} THEN 0 ELSE f[Chosen(s)] + g[s \ {Chosen(s)}]]
    OBVIOUS
  <2> HIDE DEF g
  <2>2. AddsUp(f, {}, g)
    BY <2>1 DEF AddsUp
  <2> QED BY <2>2
<1>2. ASSUME NEW T \in SUBSET S, T # {}, \A x \in T : T \ {x} \in D
      PROVE  T \in D
  <2> DEFINE rest(s) == s \ {Chosen(s)}
             g == [s \in SUBSET T |-> IF s = {} THEN 0
                                      ELSE f[Chosen(s)] + Of(rest(s))[rest(s)]]
  <2>1. ASSUME NEW r \in SUBSET T, r # T
        PROVE  AddsUp(f, r, Of(r))
    <3>1. PICK x \in T : r \subseteq T \ {x}
      BY <2>1
    <3>2. PICK h : AddsUp(f, T \ {x}, h)
      BY <1>2
    <3>3. AddsUp(f, r, [s \in SUBSET r |-> h[s]])
      BY <3>1, <3>2, AddsUpWithin
    <3> QED BY <3>3
  <2>2. ASSUME NEW s \in SUBSET T, s # {}
        PROVE  g[rest(s)] = Of(rest(s))[rest(s)]
    <3> DEFINE r == rest(s)
    <3> SUFFICES g[r] = Of(r)[r]
      OBVIOUS
    <3>1. r \in SUBSET T /\ r # T
      BY <2>2, ChosenInside
    <3>2. AddsUp(f, r, Of(r))
      <4> HIDE DEF r, Of
      <4> QED BY <2>1, <3>1
    <3>3. CASE r = {}
      <4>1. g[r] = 0
        BY <3>1, <3>3
      <4>2. Of(r)[r] = 0
        <5> HIDE DEF r, Of
        <5> QED BY <3>2, <3>3, AddsUpAt
      <4> QED BY <4>1, <4>2
    <3>4. CASE r # {}
      <4> DEFINE q == rest(r)
      <4>1. g[r] = f[Chosen(r)] + Of(q)[q]
        <5> HIDE DEF r, Of
        <5> QED BY <3>1, <3>4
      <4>2. q \in SUBSET r /\ q \in SUBSET T /\ q # T
        <5> HIDE DEF r
        <5> QED BY <3>1, <3>4, ChosenInside
      <4>3. Of(r)[r] = f[Chosen(r)] + Of(r)[q]
        <5> HIDE DEF r, Of
        <5> QED BY <3>2, <3>4, AddsUpAt
      <4>4. AddsUp(f, q, Of(q))
        <5> HIDE DEF q, r, Of
        <5> QED BY <2>1, <4>2
      <4>5. IsFiniteSet(q)
        <5> HIDE DEF q, r
        <5> QED BY <4>2, FS_Subset
      <4>6. Of(r)[q] = Of(q)[q]
        <5> HIDE DEF q, r, Of
        <5> QED BY <3>2, <4>2, <4>4, <4>5, AddUpAlike
      <4> HIDE DEF g, q, r, Of
      <4> QED BY <4>1, <4>3, <4>6
    <3> HIDE DEF g, r, Of
    <3> QED BY <3>3, <3>4
  <2>3. g = [s \in SUBSET T |->
                IF s = {} THEN 0 ELSE f[Chosen(s)] + g[s \ {Chosen(s)}]]
    <3>1. ASSUME NEW s \in SUBSET T
          PROVE  g[s] = IF s = {} THEN 0
                        ELSE f[Chosen(s)] + g[s \ {Chosen(s)}]
      <4>1. g[s] = IF s = {} THEN 0
                   ELSE f[Chosen(s)] + Of(rest(s))[rest(s)]
        <5> HIDE DEF Of
        <5> QED OBVIOUS
      <4> HIDE DEF g, Of
      <4> QED BY <2>2, <4>1
    <3>2. g = [s \in SUBSET T |-> g[s]]
      <4> HIDE DEF Of
      <4> QED OBVIOUS
    <3> HIDE DEF g
    <3>3. [s \in SUBSET T |-> g[s]] =
              [s \in SUBSET T |->
                IF s = {} THEN 0 ELSE f[Chosen(s)] + g[s \ {Chosen(s)}]]
      BY <3>1, Zenon
    <3> QED BY <3>2, <3>3, Zenon
  <2>4. AddsUp(f, T, g)
    <3> HIDE DEF g
    <3> QED BY <2>3 DEF AddsUp
  <2> HIDE DEF g
  <2> QED BY <2>4
<1>3. SUBSET S \subseteq D
  <2> HIDE DEF D
  <2> QED BY <1>1, <1>2, SubsetsByRemoval
<1> QED BY <1>3

(* What the recursion is worth: nothing where there is nothing to add, and *)
(* the chosen element and the rest otherwise.                              *)
LEMMA SumOfNothing ==
    ASSUME NEW f
    PROVE  SumFunctionOnSet(f, {}) = 0
<1> DEFINE g == CHOOSE h : AddsUp(f, {}, h)
<1>1. AddsUp(f, {}, g)
  BY FS_EmptySet, AddsUpExists
<1> HIDE DEF g
<1>2. g[{}] = 0
  BY <1>1, AddsUpAt
<1> QED BY <1>2, SumIsRecursion DEF g

LEMMA SumByChosen ==
    ASSUME NEW f, NEW S, IsFiniteSet(S), S # {}
    PROVE  SumFunctionOnSet(f, S) =
              f[Chosen(S)] + SumFunctionOnSet(f, S \ {Chosen(S)})
<1> DEFINE R == S \ {Chosen(S)}
           g == CHOOSE h : AddsUp(f, S, h)
           h == CHOOSE k : AddsUp(f, R, k)
<1>1. R \in SUBSET S /\ IsFiniteSet(R)
  BY FS_Subset
<1>2. AddsUp(f, S, g)
  BY AddsUpExists
<1>3. AddsUp(f, R, h)
  <2> HIDE DEF R
  <2> QED BY <1>1, AddsUpExists
<1>4. SumFunctionOnSet(f, S) = g[S] /\ SumFunctionOnSet(f, R) = h[R]
  BY SumIsRecursion
<1> HIDE DEF g, h
<1>5. g[S] = f[Chosen(S)] + g[R]
  BY <1>2, AddsUpAt
<1> HIDE DEF R
<1>6. g[R] = h[R]
  BY <1>1, <1>2, <1>3, AddUpAlike
<1> QED BY <1>4, <1>5, <1>6 DEF R

-----------------------------------------------------------------------------
(* The same, whichever element is taken away.                              *)

LEMMA SumIsInteger ==
    ASSUME NEW S, IsFiniteSet(S), NEW f, \A x \in S : f[x] \in Int
    PROVE  SumFunctionOnSet(f, S) \in Int
<1> DEFINE D == {T \in SUBSET S : SumFunctionOnSet(f, T) \in Int}
<1>1. {} \in D
  BY SumOfNothing
<1>2. ASSUME NEW T \in SUBSET S, T # {}, \A x \in T : T \ {x} \in D
      PROVE  T \in D
  <2>1. SumFunctionOnSet(f, T) =
            f[Chosen(T)] + SumFunctionOnSet(f, T \ {Chosen(T)})
    BY <1>2, FS_Subset, SumByChosen
  <2> QED BY <1>2, <2>1, ChosenInside
<1>3. SUBSET S \subseteq D
  <2> HIDE DEF D
  <2> QED BY <1>1, <1>2, SubsetsByRemoval
<1> QED BY <1>3

LEMMA SumWithout ==
    ASSUME NEW S, IsFiniteSet(S), NEW f, \A x \in S : f[x] \in Int, NEW a \in S
    PROVE  SumFunctionOnSet(f, S) = f[a] + SumFunctionOnSet(f, S \ {a})
<1> DEFINE Rest(T, x) == SumFunctionOnSet(f, T \ {x})
           D == {T \in SUBSET S :
                    \A x \in T : SumFunctionOnSet(f, T) = f[x] + Rest(T, x)}
<1>1. {} \in D
  OBVIOUS
<1>2. ASSUME NEW T \in SUBSET S, T # {}, \A x \in T : T \ {x} \in D
      PROVE  T \in D
  <2> DEFINE c == Chosen(T)
  <2>1. c \in T /\ SumFunctionOnSet(f, T) = f[c] + SumFunctionOnSet(f, T \ {c})
    BY <1>2, FS_Subset, ChosenInside, SumByChosen
  <2> HIDE DEF c
  <2>2. ASSUME NEW x \in T, x # c
        PROVE  SumFunctionOnSet(f, T) = f[x] + SumFunctionOnSet(f, T \ {x})
    <3> DEFINE both == (T \ {c}) \ {x}
    <3>1. SumFunctionOnSet(f, T \ {c}) = f[x] + SumFunctionOnSet(f, both)
      BY <1>2, <2>1, <2>2
    <3>2. (T \ {x}) \ {c} = both
      OBVIOUS
    <3>3. SumFunctionOnSet(f, T \ {x}) = f[c] + SumFunctionOnSet(f, both)
      BY <1>2, <2>1, <2>2, <3>2
    <3>4. SumFunctionOnSet(f, both) \in Int
      BY FS_Subset, SumIsInteger
    <3>5. f[x] \in Int /\ f[c] \in Int
      BY <2>1
    <3> HIDE DEF both
    <3> QED BY <2>1, <3>1, <3>3, <3>4, <3>5
  <2> QED BY <2>1, <2>2
<1>3. SUBSET S \subseteq D
  <2> HIDE DEF D
  <2> QED BY <1>1, <1>2, SubsetsByRemoval
<1> QED BY <1>3

-----------------------------------------------------------------------------
(* How a sum follows the function it adds up.                              *)

(* Functions that agree on a set have the same sum there.                  *)
LEMMA SumOfSame ==
    ASSUME NEW S, IsFiniteSet(S), NEW f, NEW g, \A x \in S : f[x] = g[x]
    PROVE  SumFunctionOnSet(f, S) = SumFunctionOnSet(g, S)
<1> DEFINE D == {T \in SUBSET S :
                    SumFunctionOnSet(f, T) = SumFunctionOnSet(g, T)}
<1>1. {} \in D
  BY SumOfNothing
<1>2. ASSUME NEW T \in SUBSET S, T # {}, \A x \in T : T \ {x} \in D
      PROVE  T \in D
  <2> DEFINE c == Chosen(T)
  <2>1. /\ c \in T
        /\ SumFunctionOnSet(f, T) = f[c] + SumFunctionOnSet(f, T \ {c})
        /\ SumFunctionOnSet(g, T) = g[c] + SumFunctionOnSet(g, T \ {c})
    BY <1>2, FS_Subset, ChosenInside, SumByChosen
  <2> HIDE DEF c
  <2> QED BY <1>2, <2>1
<1>3. SUBSET S \subseteq D
  <2> HIDE DEF D
  <2> QED BY <1>1, <1>2, SubsetsByRemoval
<1> QED BY <1>3

(* Where only one value changes, the sum changes by as much.               *)
LEMMA SumAfterUpdate ==
    ASSUME NEW S, IsFiniteSet(S), NEW a \in S,
           NEW f, \A x \in S : f[x] \in Int,
           NEW g, \A x \in S : g[x] \in Int,
           \A x \in S \ {a} : g[x] = f[x]
    PROVE  SumFunctionOnSet(g, S) = SumFunctionOnSet(f, S) + (g[a] - f[a])
<1> DEFINE R == S \ {a}
<1>1. IsFiniteSet(R)
  BY FS_Subset
<1>2. SumFunctionOnSet(g, R) = SumFunctionOnSet(f, R)
  BY <1>1, SumOfSame
<1>3. SumFunctionOnSet(f, S) = f[a] + SumFunctionOnSet(f, R)
  BY SumWithout
<1>4. SumFunctionOnSet(g, S) = g[a] + SumFunctionOnSet(g, R)
  BY SumWithout
<1>5. SumFunctionOnSet(f, R) \in Int
  BY <1>1, SumIsInteger
<1> HIDE DEF R
<1> QED BY <1>2, <1>3, <1>4, <1>5

(* The sum of two functions sums to the two sums.                          *)
LEMMA SumOfPlus ==
    ASSUME NEW S, IsFiniteSet(S),
           NEW f, \A x \in S : f[x] \in Int,
           NEW g, \A x \in S : g[x] \in Int,
           NEW h, \A x \in S : h[x] = f[x] + g[x]
    PROVE  SumFunctionOnSet(h, S) =
              SumFunctionOnSet(f, S) + SumFunctionOnSet(g, S)
<1> DEFINE D == {T \in SUBSET S : SumFunctionOnSet(h, T) =
                    SumFunctionOnSet(f, T) + SumFunctionOnSet(g, T)}
<1>1. {} \in D
  BY SumOfNothing
<1>2. ASSUME NEW T \in SUBSET S, T # {}, \A x \in T : T \ {x} \in D
      PROVE  T \in D
  <2> DEFINE c == Chosen(T)
  <2>1. /\ c \in T
        /\ SumFunctionOnSet(f, T) = f[c] + SumFunctionOnSet(f, T \ {c})
        /\ SumFunctionOnSet(g, T) = g[c] + SumFunctionOnSet(g, T \ {c})
        /\ SumFunctionOnSet(h, T) = h[c] + SumFunctionOnSet(h, T \ {c})
    BY <1>2, FS_Subset, ChosenInside, SumByChosen
  <2> HIDE DEF c
  <2>2. IsFiniteSet(T \ {c})
    BY FS_Subset
  <2>3. /\ SumFunctionOnSet(f, T \ {c}) \in Int
        /\ SumFunctionOnSet(g, T \ {c}) \in Int
    BY <2>2, SumIsInteger
  <2>4. /\ f[c] \in Int /\ g[c] \in Int
        /\ h[c] = f[c] + g[c]
    BY <2>1
  <2>5. SumFunctionOnSet(h, T \ {c}) =
            SumFunctionOnSet(f, T \ {c}) + SumFunctionOnSet(g, T \ {c})
    BY <1>2, <2>1
  <2> QED BY <2>1, <2>3, <2>4, <2>5
<1>3. SUBSET S \subseteq D
  <2> HIDE DEF D
  <2> QED BY <1>1, <1>2, SubsetsByRemoval
<1> QED BY <1>3

(* A function that is nowhere above another one has no larger a sum.       *)
LEMMA SumIsMonotone ==
    ASSUME NEW S, IsFiniteSet(S),
           NEW f, \A x \in S : f[x] \in Int,
           NEW g, \A x \in S : g[x] \in Int,
           \A x \in S : f[x] <= g[x]
    PROVE  SumFunctionOnSet(f, S) <= SumFunctionOnSet(g, S)
<1> DEFINE D == {T \in SUBSET S :
                    SumFunctionOnSet(f, T) <= SumFunctionOnSet(g, T)}
<1>1. {} \in D
  BY SumOfNothing
<1>2. ASSUME NEW T \in SUBSET S, T # {}, \A x \in T : T \ {x} \in D
      PROVE  T \in D
  <2> DEFINE c == Chosen(T)
  <2>1. /\ c \in T
        /\ SumFunctionOnSet(f, T) = f[c] + SumFunctionOnSet(f, T \ {c})
        /\ SumFunctionOnSet(g, T) = g[c] + SumFunctionOnSet(g, T \ {c})
    BY <1>2, FS_Subset, ChosenInside, SumByChosen
  <2> HIDE DEF c
  <2>2. IsFiniteSet(T \ {c})
    BY FS_Subset
  <2>3. /\ SumFunctionOnSet(f, T \ {c}) \in Int
        /\ SumFunctionOnSet(g, T \ {c}) \in Int
    BY <2>2, SumIsInteger
  <2>4. f[c] \in Int /\ g[c] \in Int /\ f[c] <= g[c]
    BY <2>1
  <2>5. SumFunctionOnSet(f, T \ {c}) <= SumFunctionOnSet(g, T \ {c})
    BY <1>2, <2>1
  <2> QED BY <2>1, <2>3, <2>4, <2>5
<1>3. SUBSET S \subseteq D
  <2> HIDE DEF D
  <2> QED BY <1>1, <1>2, SubsetsByRemoval
<1> QED BY <1>3

(* A sum needs only the part of the set where there is something to add.   *)
LEMMA SumOfPart ==
    ASSUME NEW S, IsFiniteSet(S), NEW f, \A x \in S : f[x] \in Int,
           NEW P \in SUBSET S, \A x \in S \ P : f[x] = 0
    PROVE  SumFunctionOnSet(f, P) = SumFunctionOnSet(f, S)
<1> DEFINE D == {T \in SUBSET S :
                    SumFunctionOnSet(f, T \cap P) = SumFunctionOnSet(f, T)}
<1>1. {} \in D
  <2>1. {} \cap P = {}
    OBVIOUS
  <2> QED BY <2>1
<1>2. ASSUME NEW T \in SUBSET S, T # {}, \A x \in T : T \ {x} \in D
      PROVE  T \in D
  <2>1. PICK c \in T : TRUE
    BY <1>2
  <2>2. IsFiniteSet(T) /\ IsFiniteSet(T \ {c}) /\ IsFiniteSet(T \cap P)
    BY FS_Subset
  <2>3. SumFunctionOnSet(f, T) = f[c] + SumFunctionOnSet(f, T \ {c})
    BY <2>2, SumWithout
  <2>4. /\ f[c] \in Int
        /\ SumFunctionOnSet(f, T \ {c}) \in Int
    BY <2>2, SumIsInteger
  <2>5. SumFunctionOnSet(f, (T \ {c}) \cap P) = SumFunctionOnSet(f, T \ {c})
    BY <1>2
  <2>6. CASE c \in P
    <3>1. c \in T \cap P /\ (T \cap P) \ {c} = (T \ {c}) \cap P
      BY <2>6
    <3>2. SumFunctionOnSet(f, T \cap P) =
              f[c] + SumFunctionOnSet(f, (T \cap P) \ {c})
      BY <2>2, <3>1, SumWithout
    <3> QED BY <2>3, <2>5, <3>1, <3>2
  <2>7. CASE c \notin P
    <3>1. T \cap P = (T \ {c}) \cap P /\ f[c] = 0
      BY <2>7
    <3>2. SumFunctionOnSet(f, T) = SumFunctionOnSet(f, T \ {c})
      BY <2>3, <2>4, <3>1
    <3>3. SumFunctionOnSet(f, T \cap P) = SumFunctionOnSet(f, T)
      BY <2>5, <3>1, <3>2, Zenon
    <3> QED BY <3>3
  <2> QED BY <2>6, <2>7
<1>3. SUBSET S \subseteq D
  <2> HIDE DEF D
  <2> QED BY <1>1, <1>2, SubsetsByRemoval
<1>4. S \cap P = P
  OBVIOUS
<1> QED BY <1>3, <1>4

(* No amount in a sum of amounts is more than the sum.                     *)
LEMMA SumOfAmounts ==
    ASSUME NEW S, IsFiniteSet(S), NEW f, \A x \in S : f[x] \in Nat
    PROVE  /\ SumFunctionOnSet(f, S) \in Nat
           /\ \A x \in S : f[x] <= SumFunctionOnSet(f, S)
<1>1. ASSUME NEW T \in SUBSET S
      PROVE  SumFunctionOnSet(f, T) \in Nat
  <2> DEFINE zero == [x \in T |-> 0]
  <2>1. IsFiniteSet(T)
    BY FS_Subset
  <2>2. \A x \in T : zero[x] = 0 /\ zero[x] \in Int
    OBVIOUS
  <2> HIDE DEF zero
  <2>3. SumFunctionOnSet(zero, T) <= SumFunctionOnSet(f, T)
    <3>1. \A x \in T : f[x] \in Int /\ zero[x] <= f[x]
      BY <2>2
    <3> QED BY <2>1, <2>2, <3>1, SumIsMonotone
  <2>4. SumFunctionOnSet(zero, {}) = SumFunctionOnSet(zero, T)
    BY <2>1, <2>2, SumOfPart
  <2>5. SumFunctionOnSet(f, T) \in Int
    BY <2>1, SumIsInteger
  <2> QED BY <2>3, <2>4, <2>5, SumOfNothing
<1>2. ASSUME NEW x \in S
      PROVE  f[x] <= SumFunctionOnSet(f, S)
  <2>1. SumFunctionOnSet(f, S) = f[x] + SumFunctionOnSet(f, S \ {x})
    BY SumWithout
  <2> QED BY <1>1, <2>1
<1> QED BY <1>1, <1>2

=============================================================================
