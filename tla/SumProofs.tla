----------------------------- MODULE SumProofs -----------------------------
(***************************************************************************)
(* Sums over finite sets of any size: what SumFunctionOnSet of the module  *)
(* Functions computes.  It is a recursive function under a CHOOSE, so its  *)
(* recursion equation has to be proved first: the function exists and is   *)
(* the only one.  There is no induction principle over finite sets to cite *)
(* with the provers at hand; instead the set of the arguments at which a   *)
(* statement fails is shown to have no least element, under the strict     *)
(* subset ordering of the subsets of a finite set or the order of Nat.     *)
(***************************************************************************)
EXTENDS Functions, FiniteSetTheorems, WellFoundedInduction, TLAPS

\* A set of subsets that has {} and grows with them by any element has S.
LEMMA SubsetInduction ==
  ASSUME NEW S, IsFiniteSet(S), NEW Good, {} \in Good,
         \A T \in Good : \A x \in S \ T : T \subseteq S => T \union {x} \in Good
  PROVE  S \in Good
<1>1. SUFFICES ASSUME S \notin Good PROVE FALSE
  OBVIOUS
<1> DEFINE Bad == {T \in FiniteSubsetsOf(S) : T \notin Good}
<1>2. S \in Bad
  BY <1>1 DEF FiniteSubsetsOf
<1>3. PICK T \in Bad : \A U \in Bad : <<U, T>> \notin StrictSubsetOrdering(S)
  <2>1. Bad \subseteq FiniteSubsetsOf(S) /\ Bad # {}
    BY <1>2
  <2> HIDE DEF Bad
  <2>2. QED
    BY <2>1, FS_StrictSubsetOrderingWellFounded, WFMin
<1>4. T \subseteq S /\ IsFiniteSet(T) /\ T \notin Good
  BY <1>3 DEF FiniteSubsetsOf
<1>5. PICK x : x \in T
  BY <1>4
<1>6. T \ {x} \in Bad => FALSE
  BY <1>3, <1>4, <1>5 DEF StrictSubsetOrdering
<1>7. T \ {x} \in Good
  BY <1>4, <1>5, <1>6, FS_RemoveElement DEF FiniteSubsetsOf
<1>8. (T \ {x}) \union {x} \in Good
  BY <1>4, <1>5, <1>7
<1>9. (T \ {x}) \union {x} = T
  BY <1>5
<1>10. QED
  BY <1>4, <1>8, <1>9

\* One unfolding of the sum over s, given the sums over its subsets, and the
\* function of the subsets of S that MapThenFoldSet chooses.
SumBody(f, iter, s) ==
  IF s = {} THEN 0
  ELSE f[CHOOSE x \in s : TRUE] + iter[s \ {CHOOSE x \in s : TRUE}]

SumIter(f, S) == CHOOSE iter : iter = [s \in SUBSET S |-> SumBody(f, iter, s)]

\* The library's sum is the value of that function at S.
LEMMA SumIsIter ==
  ASSUME NEW f, NEW S
  PROVE  SumFunctionOnSet(f, S) = SumIter(f, S)[S]
BY DEF SumFunctionOnSet, FoldFunctionOnSet, MapThenFoldSet, SumIter, SumBody

\* A set that has 0 and each successor of its members has the natural numbers.
LEMMA NatSetInduction ==
  ASSUME NEW Good, 0 \in Good, \A n \in Nat : n \in Good => n + 1 \in Good
  PROVE  Nat \subseteq Good
<1>1. SUFFICES ASSUME ~ (Nat \subseteq Good) PROVE FALSE
  OBVIOUS
<1> DEFINE Bad == Nat \ Good
<1>2. PICK n \in Bad : \A m \in Bad : <<m, n>> \notin OpToRel(<, Nat)
  <2>1. Bad \subseteq Nat /\ Bad # {}
    BY <1>1
  <2> HIDE DEF Bad
  <2>2. QED
    BY <2>1, NatLessThanWellFounded, WFMin
<1>3. \A m \in Bad : ~ (m < n)
  BY <1>2 DEF OpToRel
<1>4. n - 1 \in Nat /\ n - 1 \notin Bad
  BY <1>3
<1>5. (n - 1) + 1 \in Good
  BY <1>4
<1>6. QED
  BY <1>4, <1>5

\* A function that satisfies the recursion equation exists, by induction on the
\* size of the subsets up to which it is satisfied.
LEMMA IterExists ==
  ASSUME NEW f, NEW S, IsFiniteSet(S)
  PROVE  \E iter : iter = [s \in SUBSET S |-> SumBody(f, iter, s)]
<1> DEFINE UpTo(g, n) == \A s \in SUBSET S :
                           Cardinality(s) <= n => g[s] = SumBody(f, g, s)
           Good == {n \in Nat : \E g : UpTo(g, n)}
<1>1. \A s \in SUBSET S : /\ IsFiniteSet(s) /\ Cardinality(s) \in Nat
                          /\ Cardinality(s) <= Cardinality(S)
  BY FS_Subset, FS_CardinalityType
<1>2. \A s \in SUBSET S : s # {} =>
        /\ (CHOOSE x \in s : TRUE) \in s
        /\ Cardinality(s \ {CHOOSE x \in s : TRUE}) = Cardinality(s) - 1
  BY <1>1, FS_RemoveElement
<1>3. ASSUME NEW n \in Nat, NEW g,
             \A s \in SUBSET S : Cardinality(s) < n => g[s] = SumBody(f, g, s)
      PROVE  UpTo([s \in SUBSET S |-> SumBody(f, g, s)], n)
  <2> DEFINE h == [s \in SUBSET S |-> SumBody(f, g, s)]
  <2>1. ASSUME NEW s \in SUBSET S, Cardinality(s) <= n PROVE h[s] = SumBody(f, h, s)
    <3>1. CASE s = {}
      BY <3>1 DEF SumBody
    <3>2. CASE s # {}
      <4> DEFINE x == CHOOSE x \in s : TRUE
      <4>1. x \in s /\ Cardinality(s \ {x}) = Cardinality(s) - 1
        BY <1>2, <3>2
      <4>2. Cardinality(s \ {x}) < n
        BY <1>1, <2>1, <4>1
      <4>3. h[s \ {x}] = g[s \ {x}]
        BY <1>3, <4>2
      <4>4. h[s] = f[x] + g[s \ {x}] /\ SumBody(f, h, s) = f[x] + h[s \ {x}]
        BY <3>2 DEF SumBody
      <4>5. QED
        BY <4>3, <4>4
    <3>3. QED
      BY <3>1, <3>2
  <2>2. QED
    BY <2>1
<1>4. 0 \in Good
  <2>1. \A s \in SUBSET S : Cardinality(s) < 0 => f[s] = SumBody(f, f, s)
    BY <1>1
  <2>2. 0 \in Nat
    OBVIOUS
  <2>3. UpTo([s \in SUBSET S |-> SumBody(f, f, s)], 0)
    BY <1>3, <2>1, <2>2
  <2>4. QED
    BY <2>3
<1>5. ASSUME NEW n \in Nat, n \in Good PROVE n + 1 \in Good
  <2>1. PICK g : UpTo(g, n)
    BY <1>5
  <2>2. \A s \in SUBSET S : Cardinality(s) < n + 1 => g[s] = SumBody(f, g, s)
    BY <1>1, <2>1
  <2>3. n + 1 \in Nat
    OBVIOUS
  <2>4. UpTo([s \in SUBSET S |-> SumBody(f, g, s)], n + 1)
    BY <1>3, <2>2, <2>3
  <2>5. QED
    BY <2>3, <2>4
<1>6. PICK g : UpTo(g, Cardinality(S))
  <2> HIDE DEF UpTo
  <2>1. Nat \subseteq Good
    <3> HIDE DEF Good
    <3> QED BY <1>4, <1>5, NatSetInduction
  <2>2. QED
    BY <1>1, <2>1
<1>7. \A s \in SUBSET S : g[s] = SumBody(f, g, s)
  BY <1>1, <1>6
<1> DEFINE h == [s \in SUBSET S |-> g[s]]
<1>8. \A s \in SUBSET S : SumBody(f, h, s) = SumBody(f, g, s)
  BY DEF SumBody
<1>9. h = [s \in SUBSET S |-> SumBody(f, h, s)]
  BY <1>7, <1>8
<1>10. QED
  BY <1>9

\* The sum over a set and over the rest of it after the element the fold takes.
LEMMA SumUnfolds ==
  ASSUME NEW f, NEW S, IsFiniteSet(S)
  PROVE  \A s \in SUBSET S : SumIter(f, S)[s] = SumBody(f, SumIter(f, S), s)
<1>1. SumIter(f, S) = [s \in SUBSET S |-> SumBody(f, SumIter(f, S), s)]
  BY IterExists DEF SumIter
<1>2. QED
  BY <1>1

\* What is summed over a subset does not depend on the set it is taken from.
LEMMA SumOfSubset ==
  ASSUME NEW f, NEW S, IsFiniteSet(S), NEW T \in SUBSET S
  PROVE  SumIter(f, S)[T] = SumIter(f, T)[T]
<1> DEFINE Agree(s) == SumIter(f, S)[s] = SumIter(f, T)[s]
           Good == {n \in Nat : \A s \in SUBSET T : Cardinality(s) <= n => Agree(s)}
<1>1. IsFiniteSet(T)
  BY FS_Subset
<1>2. \A s \in SUBSET T : /\ IsFiniteSet(s) /\ Cardinality(s) \in Nat
                          /\ Cardinality(s) = 0 <=> s = {}
  BY <1>1, FS_Subset, FS_CardinalityType, FS_EmptySet
<1>3. \A s \in SUBSET T : s # {} =>
        /\ (CHOOSE x \in s : TRUE) \in s
        /\ Cardinality(s \ {CHOOSE x \in s : TRUE}) = Cardinality(s) - 1
  BY <1>2, FS_RemoveElement
<1>4. \A s \in SUBSET T : /\ SumIter(f, S)[s] = SumBody(f, SumIter(f, S), s)
                          /\ SumIter(f, T)[s] = SumBody(f, SumIter(f, T), s)
  BY <1>1, SumUnfolds
<1>5. 0 \in Good
  BY <1>2, <1>4 DEF SumBody
<1>6. ASSUME NEW n \in Nat, n \in Good PROVE n + 1 \in Good
  <2>1. ASSUME NEW s \in SUBSET T, Cardinality(s) <= n + 1 PROVE Agree(s)
    <3>1. CASE s = {}
      BY <1>4, <3>1 DEF SumBody
    <3>2. CASE s # {}
      <4> DEFINE x == CHOOSE x \in s : TRUE
      <4>1. Cardinality(s \ {x}) <= n
        BY <1>2, <1>3, <2>1, <3>2
      <4>2. Agree(s \ {x})
        BY <1>6, <4>1
      <4>3. QED
        BY <1>4, <3>2, <4>2 DEF SumBody
    <3>3. QED
      BY <3>1, <3>2
  <2>2. QED
    BY <2>1
<1>7. Cardinality(T) \in Good
  <2> HIDE DEF Good
  <2> QED BY <1>2, <1>5, <1>6, NatSetInduction
<1>8. QED
  BY <1>2, <1>7

\* The sum over no element.
LEMMA SumEmpty == \A f : SumFunctionOnSet(f, {}) = 0
BY SumIsIter, SumUnfolds, FS_EmptySet DEF SumBody

\* Taking out the element that the definition chooses.
LEMMA SumChosen ==
  ASSUME NEW f, NEW S, IsFiniteSet(S), S # {}
  PROVE  LET x == CHOOSE x \in S : TRUE
         IN  /\ x \in S
             /\ SumFunctionOnSet(f, S) = f[x] + SumFunctionOnSet(f, S \ {x})
<1> DEFINE x == CHOOSE x \in S : TRUE
<1>1. x \in S
  OBVIOUS
<1>2. SumFunctionOnSet(f, S) = f[x] + SumIter(f, S)[S \ {x}]
  BY SumIsIter, SumUnfolds DEF SumBody
<1>3. SumFunctionOnSet(f, S \ {x}) = SumIter(f, S)[S \ {x}]
  BY SumIsIter, SumOfSubset
<1>4. QED
  BY <1>1, <1>2, <1>3

\* Any element may be taken out first.
LEMMA SumTake ==
  ASSUME NEW f, NEW S, IsFiniteSet(S), \A x \in S : f[x] \in Int
  PROVE  /\ SumFunctionOnSet(f, S) \in Int
         /\ \A x \in S :
              SumFunctionOnSet(f, S) = f[x] + SumFunctionOnSet(f, S \ {x})
<1> DEFINE IsSum(T) ==
             /\ SumFunctionOnSet(f, T) \in Int
             /\ \A x \in T :
                  SumFunctionOnSet(f, T) = f[x] + SumFunctionOnSet(f, T \ {x})
           Good == {n \in Nat : \A T \in SUBSET S : Cardinality(T) <= n => IsSum(T)}
<1>1. \A T \in SUBSET S : /\ IsFiniteSet(T) /\ Cardinality(T) \in Nat
                          /\ Cardinality(T) = 0 <=> T = {}
                          /\ \A x \in T : Cardinality(T \ {x}) = Cardinality(T) - 1
  BY FS_Subset, FS_CardinalityType, FS_EmptySet, FS_RemoveElement
<1>2. 0 \in Good
  BY <1>1, SumEmpty
<1>3. ASSUME NEW n \in Nat, n \in Good PROVE n + 1 \in Good
  <2>1. \A T \in SUBSET S : Cardinality(T) <= n => IsSum(T)
    BY <1>3
  <2> HIDE DEF IsSum
  <2>2. ASSUME NEW T \in SUBSET S, Cardinality(T) <= n + 1, T # {} PROVE IsSum(T)
    <3>1. PICK y \in T :
            SumFunctionOnSet(f, T) = f[y] + SumFunctionOnSet(f, T \ {y})
      BY <1>1, <2>2, SumChosen
    <3>2. \A x \in T : IsSum(T \ {x})
      BY <1>1, <2>1, <2>2
    <3>3. SumFunctionOnSet(f, T) \in Int
      BY <3>1, <3>2 DEF IsSum
    <3>4. ASSUME NEW x \in T, x # y
          PROVE  SumFunctionOnSet(f, T) = f[x] + SumFunctionOnSet(f, T \ {x})
      <4>1. SumFunctionOnSet(f, T \ {y})
              = f[x] + SumFunctionOnSet(f, (T \ {y}) \ {x})
        BY <3>2, <3>4 DEF IsSum
      <4>2. SumFunctionOnSet(f, T \ {x})
              = f[y] + SumFunctionOnSet(f, (T \ {x}) \ {y})
        BY <3>2, <3>4 DEF IsSum
      <4>3. (T \ {y}) \ {x} = (T \ {x}) \ {y}
        OBVIOUS
      <4>4. SumFunctionOnSet(f, (T \ {x}) \ {y}) \in Int
        <5>1. (T \ {x}) \ {y} \in SUBSET S /\ Cardinality((T \ {x}) \ {y}) <= n
          <6>1. T \ {x} \in SUBSET S /\ y \in T \ {x}
            BY <3>4
          <6>2. Cardinality((T \ {x}) \ {y}) = Cardinality(T) - 1 - 1
            BY <1>1, <6>1
          <6>3. QED
            BY <1>1, <2>2, <6>2
        <5>2. QED
          BY <2>1, <5>1 DEF IsSum
      <4>5. f[x] \in Int /\ f[y] \in Int
        BY <3>1, <3>4
      <4> DEFINE rest == SumFunctionOnSet(f, (T \ {x}) \ {y})
      <4>6. /\ SumFunctionOnSet(f, T) = f[y] + (f[x] + rest)
            /\ SumFunctionOnSet(f, T \ {x}) = f[y] + rest
            /\ rest \in Int
        BY <3>1, <4>1, <4>2, <4>3, <4>4
      <4> HIDE DEF rest
      <4>7. QED
        BY <4>5, <4>6
    <3>5. QED
      BY <3>1, <3>3, <3>4 DEF IsSum
  <2>3. \A T \in SUBSET S : Cardinality(T) <= n + 1 => IsSum(T)
    BY <2>2, SumEmpty DEF IsSum
  <2>4. QED
    BY <2>3
<1>4. Cardinality(S) \in Good
  <2> HIDE DEF Good
  <2> QED BY <1>1, <1>2, <1>3, NatSetInduction
<1>5. QED
  BY <1>1, <1>4

\* A sum grows by the element that is added to its set.
LEMMA SumAdd ==
  ASSUME NEW f, NEW S, IsFiniteSet(S), NEW x, x \notin S,
         \A y \in S \union {x} : f[y] \in Int
  PROVE  SumFunctionOnSet(f, S \union {x}) = f[x] + SumFunctionOnSet(f, S)
<1>1. IsFiniteSet(S \union {x}) /\ (S \union {x}) \ {x} = S
  BY FS_AddElement
<1>2. QED
  BY <1>1, SumTake

\* Sums of natural numbers.
LEMMA SumNat ==
  ASSUME NEW f, NEW S, IsFiniteSet(S), \A x \in S : f[x] \in Nat
  PROVE  /\ SumFunctionOnSet(f, S) \in Nat
         /\ \A x \in S : f[x] <= SumFunctionOnSet(f, S)
<1> DEFINE Good == {T \in SUBSET S : SumFunctionOnSet(f, T) \in Nat}
<1>1. {} \in Good
  BY SumEmpty
<1>2. ASSUME NEW T \in Good, NEW x \in S \ T, T \subseteq S
      PROVE  T \union {x} \in Good
  BY <1>2, SumAdd, FS_Subset
<1>3. \A T \in SUBSET S : T \in Good
  <2>1. ASSUME NEW T \in SUBSET S PROVE T \in Good
    <3>1. IsFiniteSet(T) /\ \A U \in Good : \A x \in T \ U :
                              U \subseteq T => U \union {x} \in Good
      BY <1>2, FS_Subset
    <3> HIDE DEF Good
    <3>2. QED
      BY <1>1, <3>1, SubsetInduction
  <2>2. QED
    BY <2>1
<1>4. ASSUME NEW x \in S PROVE f[x] <= SumFunctionOnSet(f, S)
  <2>1. SumFunctionOnSet(f, S) = f[x] + SumFunctionOnSet(f, S \ {x})
    BY SumTake
  <2>2. SumFunctionOnSet(f, S \ {x}) \in Nat
    BY <1>3
  <2>3. QED
    BY <2>1, <2>2
<1>5. QED
  BY <1>3, <1>4

\* Sums of functions that agree on the set.
LEMMA SumSame ==
  ASSUME NEW f, NEW g, NEW S, IsFiniteSet(S), \A x \in S : f[x] \in Int,
         \A x \in S : g[x] = f[x]
  PROVE  SumFunctionOnSet(g, S) = SumFunctionOnSet(f, S)
<1> DEFINE Good == {T \in SUBSET S : SumFunctionOnSet(g, T) = SumFunctionOnSet(f, T)}
<1>1. {} \in Good
  BY SumEmpty
<1>2. ASSUME NEW T \in Good, NEW x \in S \ T
      PROVE  T \union {x} \in Good
  BY <1>2, SumAdd, FS_Subset
<1>3. S \in Good
  <2> HIDE DEF Good
  <2> QED BY <1>1, <1>2, SubsetInduction
<1>4. QED
  BY <1>3

\* The sum of all values of a function that is part of another.
LEMMA SumOfFunction ==
  ASSUME NEW S, IsFiniteSet(S), NEW f, \A x \in S : f[x] \in Int,
         NEW g, DOMAIN g = S, \A x \in S : g[x] = f[x]
  PROVE  SumFunction(g) = SumFunctionOnSet(f, S)
<1>1. SumFunction(g) = SumFunctionOnSet(g, S)
  BY DEF SumFunction
<1>2. QED
  BY <1>1, SumSame

\* Sums of functions that differ in one element of the set.
LEMMA SumChange ==
  ASSUME NEW f, NEW g, NEW S, IsFiniteSet(S), NEW x \in S,
         \A y \in S : f[y] \in Int /\ g[y] \in Int,
         \A y \in S \ {x} : g[y] = f[y]
  PROVE  SumFunctionOnSet(g, S) = SumFunctionOnSet(f, S) - f[x] + g[x]
<1>1. IsFiniteSet(S \ {x})
  BY FS_RemoveElement
<1>2. SumFunctionOnSet(g, S \ {x}) = SumFunctionOnSet(f, S \ {x})
  BY <1>1, SumSame
<1>3. /\ SumFunctionOnSet(f, S) = f[x] + SumFunctionOnSet(f, S \ {x})
      /\ SumFunctionOnSet(g, S) = g[x] + SumFunctionOnSet(g, S \ {x})
      /\ SumFunctionOnSet(f, S \ {x}) \in Int
  BY <1>1, SumTake
<1>4. QED
  BY <1>2, <1>3

\* What is taken from one element and given to another.
LEMMA SumTransfer ==
  ASSUME NEW f, NEW g, NEW S, IsFiniteSet(S), NEW x, NEW y, x # y, NEW q \in Int,
         \A z \in S : f[z] \in Int /\ g[z] \in Int,
         x \in S => g[x] = f[x] - q,
         y \in S => g[y] = f[y] + q,
         \A z \in S \ {x, y} : g[z] = f[z]
  PROVE  SumFunctionOnSet(g, S) = SumFunctionOnSet(f, S)
                                    - (IF x \in S THEN q ELSE 0)
                                    + (IF y \in S THEN q ELSE 0)
<1> DEFINE mid == [z \in S |-> IF z = x THEN g[z] ELSE f[z]]
<1>1. /\ \A z \in S : mid[z] \in Int
      /\ x \in S => mid[x] = g[x]
      /\ y \in S => mid[y] = f[y]
      /\ \A z \in S \ {x} : mid[z] = f[z]
      /\ \A z \in S \ {y} : g[z] = mid[z]
  OBVIOUS
<1> HIDE DEF mid
<1>2. /\ SumFunctionOnSet(f, S) \in Int
      /\ SumFunctionOnSet(mid, S) \in Int
  BY <1>1, SumTake
<1>3. SumFunctionOnSet(mid, S) = SumFunctionOnSet(f, S) - (IF x \in S THEN q ELSE 0)
  <2>1. CASE x \in S
    <3>1. SumFunctionOnSet(mid, S) = SumFunctionOnSet(f, S) - f[x] + mid[x]
      BY <1>1, <2>1, SumChange
    <3>2. f[x] \in Int /\ mid[x] = f[x] - q
      BY <1>1, <2>1
    <3>3. QED
      BY <1>2, <2>1, <3>1, <3>2
  <2>2. CASE x \notin S
    <3>1. \A z \in S : mid[z] = f[z]
      BY <1>1, <2>2
    <3>2. SumFunctionOnSet(mid, S) = SumFunctionOnSet(f, S)
      BY <3>1, SumSame
    <3>3. QED
      BY <1>2, <2>2, <3>2
  <2>3. QED
    BY <2>1, <2>2
<1>4. SumFunctionOnSet(g, S) = SumFunctionOnSet(mid, S) + (IF y \in S THEN q ELSE 0)
  <2>1. CASE y \in S
    <3>1. SumFunctionOnSet(g, S) = SumFunctionOnSet(mid, S) - mid[y] + g[y]
      BY <1>1, <2>1, SumChange
    <3>2. mid[y] \in Int /\ g[y] = mid[y] + q
      BY <1>1, <2>1
    <3>3. QED
      BY <1>2, <2>1, <3>1, <3>2
  <2>2. CASE y \notin S
    <3>1. \A z \in S : g[z] = mid[z]
      BY <1>1, <2>2
    <3>2. SumFunctionOnSet(g, S) = SumFunctionOnSet(mid, S)
      BY <1>1, <3>1, SumSame
    <3>3. QED
      BY <1>2, <2>2, <3>2
  <2>3. QED
    BY <2>1, <2>2
<1>5. QED
  BY <1>2, <1>3, <1>4

\* Sums of sums.
LEMMA SumPlus ==
  ASSUME NEW f, NEW g, NEW h, NEW S, IsFiniteSet(S),
         \A x \in S : f[x] \in Int /\ g[x] \in Int /\ h[x] = f[x] + g[x]
  PROVE  SumFunctionOnSet(h, S) = SumFunctionOnSet(f, S) + SumFunctionOnSet(g, S)
<1> DEFINE Good == {T \in SUBSET S : SumFunctionOnSet(h, T) =
                                      SumFunctionOnSet(f, T) + SumFunctionOnSet(g, T)}
<1>1. {} \in Good
  BY SumEmpty
<1>2. ASSUME NEW T \in Good, NEW x \in S \ T
      PROVE  T \union {x} \in Good
  <2>1. IsFiniteSet(T)
    BY FS_Subset
  <2>2. /\ SumFunctionOnSet(f, T \union {x}) = f[x] + SumFunctionOnSet(f, T)
        /\ SumFunctionOnSet(g, T \union {x}) = g[x] + SumFunctionOnSet(g, T)
        /\ SumFunctionOnSet(h, T \union {x}) = h[x] + SumFunctionOnSet(h, T)
    BY <2>1, SumAdd
  <2>3. SumFunctionOnSet(f, T) \in Int /\ SumFunctionOnSet(g, T) \in Int
    BY <2>1, SumTake
  <2>4. QED
    BY <2>2, <2>3
<1>3. S \in Good
  <2> HIDE DEF Good
  <2> QED BY <1>1, <1>2, SubsetInduction
<1>4. QED
  BY <1>3

\* Larger terms have the larger sum.
LEMMA SumMonotonic ==
  ASSUME NEW f, NEW g, NEW S, IsFiniteSet(S),
         \A x \in S : f[x] \in Int /\ g[x] \in Int /\ f[x] <= g[x]
  PROVE  SumFunctionOnSet(f, S) <= SumFunctionOnSet(g, S)
<1> DEFINE d == [x \in S |-> g[x] - f[x]]
<1>1. SumFunctionOnSet(d, S) \in Nat
  <2>1. \A x \in S : d[x] \in Nat
    OBVIOUS
  <2> HIDE DEF d
  <2> QED BY <2>1, SumNat
<1>2. SumFunctionOnSet(g, S) = SumFunctionOnSet(f, S) + SumFunctionOnSet(d, S)
  <2>1. \A x \in S : d[x] \in Int /\ g[x] = f[x] + d[x]
    OBVIOUS
  <2> HIDE DEF d
  <2> QED BY <2>1, SumPlus
<1>3. SumFunctionOnSet(f, S) \in Int
  BY SumTake
<1>4. QED
  BY <1>1, <1>2, <1>3

\* A sum of natural numbers is zero only if all of them are.
LEMMA SumZero ==
  ASSUME NEW f, NEW S, IsFiniteSet(S), \A x \in S : f[x] \in Nat
  PROVE  SumFunctionOnSet(f, S) = 0 <=> \A x \in S : f[x] = 0
<1>1. ASSUME \A x \in S : f[x] = 0 PROVE SumFunctionOnSet(f, S) = 0
  <2> DEFINE Good == {T \in SUBSET S : SumFunctionOnSet(f, T) = 0}
  <2>1. {} \in Good
    BY SumEmpty
  <2>2. ASSUME NEW T \in Good, NEW x \in S \ T PROVE T \union {x} \in Good
    BY <1>1, <2>2, SumAdd, FS_Subset
  <2>3. S \in Good
    <3> HIDE DEF Good
    <3> QED BY <2>1, <2>2, SubsetInduction
  <2>4. QED
    BY <2>3
<1>2. ASSUME SumFunctionOnSet(f, S) = 0, NEW x \in S PROVE f[x] = 0
  BY <1>2, SumNat
<1>3. QED
  BY <1>1, <1>2

\* Sums over two sets without a common element.
LEMMA SumDisjoint ==
  ASSUME NEW f, NEW S, NEW T, IsFiniteSet(S), IsFiniteSet(T), S \intersect T = {},
         \A x \in S \union T : f[x] \in Int
  PROVE  SumFunctionOnSet(f, S \union T) =
           SumFunctionOnSet(f, S) + SumFunctionOnSet(f, T)
<1> DEFINE Good == {U \in SUBSET T : SumFunctionOnSet(f, S \union U) =
                            SumFunctionOnSet(f, S) + SumFunctionOnSet(f, U)}
<1>0. SumFunctionOnSet(f, S) \in Int
  BY SumTake
<1>1. {} \in Good
  BY <1>0, SumEmpty
<1>2. ASSUME NEW U \in Good, NEW x \in T \ U PROVE U \union {x} \in Good
  <2>1. IsFiniteSet(U) /\ IsFiniteSet(S \union U)
    BY FS_Subset, FS_Union
  <2>2. /\ SumFunctionOnSet(f, U \union {x}) = f[x] + SumFunctionOnSet(f, U)
        /\ SumFunctionOnSet(f, (S \union U) \union {x})
             = f[x] + SumFunctionOnSet(f, S \union U)
    BY <2>1, SumAdd
  <2>3. SumFunctionOnSet(f, U) \in Int
    BY <2>1, SumTake
  <2>4. (S \union U) \union {x} = S \union (U \union {x})
    OBVIOUS
  <2>5. SumFunctionOnSet(f, S \union (U \union {x}))
          = SumFunctionOnSet(f, S) + SumFunctionOnSet(f, U \union {x})
    <3>1. f[x] \in Int /\ SumFunctionOnSet(f, S \union U) =
                            SumFunctionOnSet(f, S) + SumFunctionOnSet(f, U)
      OBVIOUS
    <3>2. SumFunctionOnSet(f, S \union (U \union {x}))
            = f[x] + SumFunctionOnSet(f, S \union U)
      BY <2>2, <2>4
    <3> HIDE DEF Good
    <3>3. QED
      BY <1>0, <2>2, <2>3, <3>1, <3>2
  <2>6. QED
    BY <2>5
<1>3. T \in Good
  <2> HIDE DEF Good
  <2> QED BY <1>1, <1>2, SubsetInduction
<1>4. QED
  BY <1>3

\* What lies outside a subset does not count if it is zero.
LEMMA SumSubset ==
  ASSUME NEW f, NEW S, IsFiniteSet(S), NEW T \in SUBSET S,
         \A x \in S : f[x] \in Int, \A x \in S \ T : f[x] = 0
  PROVE  SumFunctionOnSet(f, S) = SumFunctionOnSet(f, T)
<1>1. /\ IsFiniteSet(T) /\ IsFiniteSet(S \ T)
      /\ T \intersect (S \ T) = {} /\ T \union (S \ T) = S
  BY FS_Subset
<1>2. SumFunctionOnSet(f, S \ T) = 0
  <2>1. \A x \in S \ T : f[x] \in Nat
    OBVIOUS
  <2>2. QED
    BY <1>1, <2>1, SumZero
<1>3. SumFunctionOnSet(f, S) = SumFunctionOnSet(f, T) + SumFunctionOnSet(f, S \ T)
  BY <1>1, SumDisjoint
<1>4. SumFunctionOnSet(f, T) \in Int
  BY <1>1, SumTake
<1>5. QED
  BY <1>2, <1>3, <1>4

\* Part of a sum of natural numbers, and part of it and one more element.
LEMMA SumPart ==
  ASSUME NEW f, NEW S, IsFiniteSet(S), \A x \in S : f[x] \in Nat,
         NEW T \in SUBSET S
  PROVE  /\ SumFunctionOnSet(f, T) \in Nat
         /\ SumFunctionOnSet(f, T) <= SumFunctionOnSet(f, S)
         /\ \A x \in S \ T : SumFunctionOnSet(f, T) + f[x] <= SumFunctionOnSet(f, S)
<1>1. /\ IsFiniteSet(T) /\ IsFiniteSet(S \ T)
      /\ T \intersect (S \ T) = {} /\ T \union (S \ T) = S
  BY FS_Subset
<1>2. SumFunctionOnSet(f, S) = SumFunctionOnSet(f, T) + SumFunctionOnSet(f, S \ T)
  <2>1. \A x \in T \union (S \ T) : f[x] \in Int
    OBVIOUS
  <2>2. QED
    BY <1>1, <2>1, SumDisjoint
<1>3. SumFunctionOnSet(f, T) \in Nat
  BY <1>1, SumNat
<1>4. /\ SumFunctionOnSet(f, S \ T) \in Nat
      /\ \A x \in S \ T : f[x] <= SumFunctionOnSet(f, S \ T)
  <2>1. \A x \in S \ T : f[x] \in Nat
    OBVIOUS
  <2>2. QED
    BY <1>1, <2>1, SumNat
<1>5. QED
  BY <1>2, <1>3, <1>4

\* A sum may be taken over the elements that a one-to-one function maps to.
LEMMA SumImage ==
  ASSUME NEW f, NEW S, IsFiniteSet(S), NEW h, NEW T, NEW g,
         T = {g[x] : x \in S},
         \A x, y \in S : g[x] = g[y] => x = y,
         \A x \in S : f[x] \in Int /\ h[g[x]] = f[x]
  PROVE  SumFunctionOnSet(h, T) = SumFunctionOnSet(f, S)
<1> DEFINE Image(U) == {g[x] : x \in U}
           Good == {U \in SUBSET S : SumFunctionOnSet(h, Image(U)) = SumFunctionOnSet(f, U)}
<1>1. {} \in Good
  <2>1. Image({}) = {}
    OBVIOUS
  <2>2. QED
    BY <2>1, SumEmpty
<1>2. ASSUME NEW U \in Good, NEW x \in S \ U PROVE U \union {x} \in Good
  <2>1. /\ IsFiniteSet(U) /\ IsFiniteSet(Image(U))
        /\ g[x] \notin Image(U)
        /\ Image(U \union {x}) = Image(U) \union {g[x]}
    <3> DEFINE image == [y \in U |-> g[y]]
    <3>1. IsFiniteSet(U)
      BY FS_Subset
    <3>2. image \in Surjection(U, Image(U))
      <4>1. image \in [U -> Image(U)] /\ \A z \in Image(U) : \E y \in U : image[y] = z
        OBVIOUS
      <4> HIDE DEF image
      <4>2. QED
        BY <4>1 DEF Surjection
    <3>3. IsFiniteSet(Image(U))
      <4> HIDE DEF Image
      <4> QED BY <3>1, <3>2, FS_Surjection
    <3>4. g[x] \notin Image(U) /\ Image(U \union {x}) = Image(U) \union {g[x]}
      OBVIOUS
    <3>5. QED
      BY <3>1, <3>3, <3>4
  <2>2. \A y \in Image(U) \union {g[x]} : h[y] \in Int
    OBVIOUS
  <2>3. SumFunctionOnSet(h, Image(U) \union {g[x]})
          = h[g[x]] + SumFunctionOnSet(h, Image(U))
    <3> HIDE DEF Image
    <3> QED BY <2>1, <2>2, SumAdd
  <2>4. SumFunctionOnSet(f, U \union {x}) = f[x] + SumFunctionOnSet(f, U)
    BY <2>1, SumAdd
  <2>5. QED
    BY <2>1, <2>3, <2>4
<1>3. S \in Good
  <2> HIDE DEF Good
  <2> QED BY <1>1, <1>2, SubsetInduction
<1>4. QED
  BY <1>3

RankedBefore(S, rank, x) == {y \in S : rank[y] < rank[x]}

\* If no element, together with those ranked before it, exceeds a bound, then
\* all of them together do not: the last that is not zero decides.
LEMMA SumByRank ==
  ASSUME NEW f, NEW S, IsFiniteSet(S), \A x \in S : f[x] \in Nat,
         NEW rank, \A x \in S : rank[x] \in Nat,
         \A x, y \in S : rank[x] = rank[y] => x = y,
         NEW bound \in Nat,
         \A x \in S : f[x] > 0 =>
           f[x] + SumFunctionOnSet(f, RankedBefore(S, rank, x)) <= bound
  PROVE  SumFunctionOnSet(f, S) <= bound
<1> DEFINE Before(n) == {y \in S : rank[y] < n}
           Good == {n \in Nat : SumFunctionOnSet(f, Before(n)) <= bound}
<1>1. 0 \in Good
  <2>1. Before(0) = {}
    OBVIOUS
  <2> HIDE DEF Before
  <2>2. SumFunctionOnSet(f, Before(0)) = 0
    BY <2>1, SumEmpty
  <2>3. QED
    BY <2>2
<1>2. ASSUME NEW n \in Nat, n \in Good PROVE n + 1 \in Good
  <2>1. /\ IsFiniteSet(Before(n)) /\ Before(n) \subseteq S
        /\ SumFunctionOnSet(f, Before(n)) \in Nat
        /\ SumFunctionOnSet(f, Before(n)) <= bound
    BY <1>2, FS_Subset, SumNat
  <2>2. CASE \E x \in S : rank[x] = n
    <3>1. PICK x \in S : rank[x] = n
      BY <2>2
    <3>2. Before(n + 1) = Before(n) \union {x} /\ x \notin Before(n)
      BY <3>1
    <3>3. SumFunctionOnSet(f, Before(n + 1)) = f[x] + SumFunctionOnSet(f, Before(n))
      <4>1. \A y \in Before(n) \union {x} : f[y] \in Int
        OBVIOUS
      <4> HIDE DEF Before
      <4>2. QED
        BY <2>1, <3>2, <4>1, SumAdd
    <3>4. f[x] > 0 => f[x] + SumFunctionOnSet(f, Before(n)) <= bound
      BY <3>1 DEF RankedBefore
    <3>5. QED
      BY <2>1, <3>1, <3>3, <3>4
  <2>3. CASE ~ \E x \in S : rank[x] = n
    <3>1. Before(n + 1) = Before(n)
      BY <2>3
    <3>2. QED
      BY <2>1, <3>1
  <2>4. QED
    BY <2>2, <2>3
<1>3. \A n \in Nat : n \in Good
  <2> HIDE DEF Good
  <2> QED BY <1>1, <1>2, NatSetInduction
<1>4. /\ SumFunctionOnSet(rank, S) \in Nat
      /\ \A x \in S : rank[x] <= SumFunctionOnSet(rank, S)
  BY SumNat
<1> DEFINE last == SumFunctionOnSet(rank, S) + 1
<1>5. last \in Nat /\ Before(last) = S
  BY <1>4
<1>6. last \in Good
  BY <1>3, <1>5
<1>7. QED
  BY <1>5, <1>6

\* A sum may be taken group by group.
LEMMA SumGroup ==
  ASSUME NEW f, NEW A, IsFiniteSet(A), NEW K, IsFiniteSet(K), NEW key,
         \A a \in A : f[a] \in Int /\ key[a] \in K
  PROVE  SumFunctionOnSet(f, A) =
           SumFunctionOnSet([k \in K |-> SumFunctionOnSet(f, {a \in A : key[a] = k})], K)
<1> DEFINE Group(U) == [k \in K |-> SumFunctionOnSet(f, {a \in U : key[a] = k})]
           Good == {U \in SUBSET A : SumFunctionOnSet(f, U) = SumFunctionOnSet(Group(U), K)}
<1>1. {} \in Good
  <2>1. \A k \in K : Group({})[k] = 0
    <3>1. \A k : {a \in {} : key[a] = k} = {}
      OBVIOUS
    <3>2. QED
      BY <3>1, SumEmpty
  <2>2. SumFunctionOnSet(Group({}), K) = 0
    <3> HIDE DEF Group
    <3> QED BY <2>1, SumZero
  <2>3. QED
    BY <2>2, SumEmpty
<1>2. ASSUME NEW U \in Good, NEW x \in A \ U PROVE U \union {x} \in Good
  <2>1. IsFiniteSet(U) /\ \A k : IsFiniteSet({a \in U : key[a] = k})
    BY FS_Subset
  <2>2. \A k \in K : Group(U)[k] \in Int
    <3>1. ASSUME NEW k \in K PROVE SumFunctionOnSet(f, {a \in U : key[a] = k}) \in Int
      BY <2>1, SumTake
    <3>2. QED
      BY <3>1
  <2>3. \A k \in K \ {key[x]} : Group(U \union {x})[k] = Group(U)[k]
    <3>1. \A k \in K \ {key[x]} :
            {a \in U \union {x} : key[a] = k} = {a \in U : key[a] = k}
      OBVIOUS
    <3>2. QED
      BY <3>1
  <2>4. Group(U \union {x})[key[x]] = f[x] + Group(U)[key[x]]
    <3> DEFINE V == {a \in U : key[a] = key[x]}
    <3>1. {a \in U \union {x} : key[a] = key[x]} = V \union {x} /\ x \notin V
      OBVIOUS
    <3>2. IsFiniteSet(V) /\ \A a \in V \union {x} : f[a] \in Int
      BY <2>1
    <3> HIDE DEF V
    <3>3. SumFunctionOnSet(f, V \union {x}) = f[x] + SumFunctionOnSet(f, V)
      BY <3>1, <3>2, SumAdd
    <3>4. QED
      BY <3>1, <3>3 DEF V
  <2>5. \A k \in K : Group(U \union {x})[k] \in Int
    <3>1. f[x] \in Int /\ key[x] \in K
      OBVIOUS
    <3> HIDE DEF Group
    <3>2. Group(U \union {x})[key[x]] \in Int
      BY <2>2, <2>4, <3>1
    <3>3. \A k \in K \ {key[x]} : Group(U \union {x})[k] \in Int
      BY <2>2, <2>3
    <3>4. QED
      BY <3>2, <3>3
  <2>6. key[x] \in K /\ f[x] \in Int
    OBVIOUS
  <2>7. SumFunctionOnSet(f, U \union {x}) = f[x] + SumFunctionOnSet(f, U)
    BY <2>1, SumAdd
  <2>8. SumFunctionOnSet(f, U) = SumFunctionOnSet(Group(U), K)
    OBVIOUS
  <2> DEFINE old == Group(U)
             new == Group(U \union {x})
  <2>9. SumFunctionOnSet(old, K) \in Int
    <3> HIDE DEF old
    <3> QED BY <2>2, SumTake DEF old
  <2>10. SumFunctionOnSet(new, K) =
           SumFunctionOnSet(old, K) - old[key[x]] + new[key[x]]
    <3>1. /\ \A k \in K : old[k] \in Int /\ new[k] \in Int
          /\ \A k \in K \ {key[x]} : new[k] = old[k]
      BY <2>2, <2>3, <2>5
    <3> HIDE DEF old, new
    <3>2. QED
      BY <2>6, <3>1, SumChange
  <2>11. old[key[x]] \in Int /\ new[key[x]] = f[x] + old[key[x]]
    BY <2>2, <2>4, <2>6
  <2>12. SumFunctionOnSet(f, U \union {x}) = SumFunctionOnSet(new, K)
    <3>1. SumFunctionOnSet(f, U \union {x}) = f[x] + SumFunctionOnSet(old, K)
      BY <2>7, <2>8
    <3> HIDE DEF old, new
    <3>2. QED
      BY <2>6, <2>9, <2>10, <2>11, <3>1
  <2>13. QED
    BY <2>12
<1>3. A \in Good
  <2> HIDE DEF Good
  <2> QED BY <1>1, <1>2, SubsetInduction
<1>4. QED
  BY <1>3
=============================================================================
