------------------------------ MODULE Numbers ------------------------------
(* Facts about numbers that hold for every specification: the integer division of the contracts'  *)
(* shares and clocks, the least and the greatest member of a set, functions defined and searches  *)
(* made step by step, sums over finite sets.  The library defines a sum by a recursion over the   *)
(* subsets of the domain, whose result for every domain needs an induction; here it is one over   *)
(* the size of a set, by the least counterexample (LeastMember), so that no fact with an operator *)
(* for a parameter is used.                                                                       *)
EXTENDS Integers, FiniteSets, Functions, WellFoundedInduction, FiniteSetTheorems, TLAPS

\* The quotient is a natural number and the remainder is below the divisor.
LEMMA DivBounds ==
    ASSUME NEW a \in Nat, NEW b \in Nat \ {0}
    PROVE  a \div b \in Nat /\ (a \div b) * b <= a /\ a < (a \div b) * b + b
BY SMT

\* A number that reaches d * b has a quotient of at least d.
LEMMA DivAtLeast ==
    ASSUME NEW a \in Nat, NEW d \in Nat, NEW b \in Nat \ {0}, d * b <= a
    PROVE  d <= a \div b
<1> DEFINE q == a \div b
<1>1. q \in Nat /\ a < q * b + b
  BY DivBounds
<1>2. SUFFICES ASSUME q + 1 <= d PROVE FALSE
  BY <1>1
<1>3. (q + 1) * b <= d * b
  BY <1>1, <1>2
<1> QED BY <1>1, <1>3

\* A number that does not exceed d * b has a quotient of at most d.
LEMMA DivAtMost ==
    ASSUME NEW a \in Nat, NEW d \in Nat, NEW b \in Nat \ {0}, a <= d * b
    PROVE  a \div b <= d
<1> DEFINE q == a \div b
<1>1. q \in Nat /\ q * b <= a
  BY DivBounds
<1>2. SUFFICES ASSUME d + 1 <= q PROVE FALSE
  BY <1>1
<1>3. (d + 1) * b <= q * b
  BY <1>1, <1>2
<1>4. (d + 1) * b = d * b + b
  OBVIOUS
<1> QED BY <1>1, <1>3, <1>4

\* Division by a constant is monotone: a later epoch has no earlier day.
LEMMA DivMonotone ==
    ASSUME NEW a \in Nat, NEW c \in Nat, NEW b \in Nat \ {0}, a <= c
    PROVE  a \div b <= c \div b
<1>1. a \div b \in Nat /\ (a \div b) * b <= c
  BY DivBounds
<1> QED BY <1>1, DivAtLeast

\* A product of natural numbers is one.
LEMMA ProductType ==
    ASSUME NEW a \in Nat, NEW b \in Nat
    PROVE  a * b \in Nat
OBVIOUS

\* k parts of n of an amount are no more than the amount.
LEMMA ShareAtMost ==
    ASSUME NEW amount \in Nat, NEW n \in Nat \ {0}, NEW k \in 0..n
    PROVE  (k * amount) \div n \in 0..amount
<1>1. k * amount \in Nat /\ k * amount <= amount * n
  OBVIOUS
<1>2. (k * amount) \div n \in Nat /\ (k * amount) \div n <= amount
  BY <1>1, DivBounds, DivAtMost
<1> QED BY <1>2

\* A set of natural numbers that is not empty has a least member.
LEMMA LeastMember ==
    ASSUME NEW S \in SUBSET Nat, S # {}
    PROVE  \E x \in S : \A y \in S : x <= y
<1> DEFINE R == {pair \in Nat \X Nat : pair[1] < pair[2]}
<1>1. IsWellFoundedOn(R, Nat)
  BY NatLessThanWellFounded DEF OpToRel
<1>2. PICK x \in S : \A y \in S : <<y, x>> \notin R
  <2> HIDE DEF R
  <2> QED BY <1>1, WFMin
<1>3. ASSUME NEW y \in S PROVE x <= y
  <2>1. <<y, x>> \in Nat \X Nat
    OBVIOUS
  <2>2. ~(y < x)
    BY <1>2, <2>1
  <2> QED BY <2>2
<1> QED BY <1>3

\* A set of numbers below a bound that is not empty has a greatest member.
LEMMA GreatestMember ==
    ASSUME NEW n \in Nat, NEW S \in SUBSET (0..n), S # {}
    PROVE  \E x \in S : \A y \in S : y <= x
<1> DEFINE T == {n - x : x \in S}
<1>1. T \in SUBSET Nat /\ T # {}
  <2>1. ASSUME NEW x \in S PROVE n - x \in Nat
    OBVIOUS
  <2>2. T \subseteq Nat
    BY <2>1
  <2>3. PICK x : x \in S
    OBVIOUS
  <2>4. n - x \in T
    BY <2>3
  <2> QED BY <2>2, <2>4
<1>2. PICK t \in T : \A u \in T : t <= u
  BY <1>1, LeastMember
<1>3. PICK x \in S : t = n - x
  OBVIOUS
<1>4. ASSUME NEW y \in S PROVE y <= x
  <2>1. n - y \in T
    OBVIOUS
  <2>2. t <= n - y
    BY <1>2, <2>1
  <2>3. x \in Nat /\ y \in Nat /\ n - x <= n - y
    BY <1>3, <2>2
  <2> HIDE DEF T
  <2> QED BY <2>3
<1> QED BY <1>4

\* What holds of 0, and of the next number with every number, holds of all.
LEMMA StepByStep ==
    ASSUME NEW S, 0 \in S, \A k \in Nat : k \in S => k + 1 \in S
    PROVE  \A k \in Nat : k \in S
<1> DEFINE Open == Nat \ S
<1>1. SUFFICES ASSUME Open # {} PROVE FALSE
  OBVIOUS
<1>2. PICK k \in Open : \A j \in Open : k <= j
  BY <1>1, LeastMember
<1>3. k \in Nat /\ k - 1 \in Nat /\ k - 1 + 1 = k
  BY <1>2
<1>4. k - 1 \in S
  BY <1>2, <1>3
<1> QED BY <1>2, <1>3, <1>4

-----------------------------------------------------------------------------
(* A search: from r it goes on to next[r] until r is in Ends, where it returns result[r]; every step  *)
(* makes what is left, size[r], smaller.                                                              *)
IsSearch(g, D, Ends, result, next) == g = [r \in D |-> IF r \in Ends THEN result[r] ELSE g[next[r]]]

\* The search is a function of where it starts: the recursion has a solution.
LEMMA SearchExists ==
    ASSUME NEW D, NEW Ends, NEW result, NEW next \in [D -> D], NEW size \in [D -> Nat],
           NEW most \in Nat, \A r \in D : size[r] <= most, \A r \in D \ Ends : size[next[r]] < size[r]
    PROVE  \E g : IsSearch(g, D, Ends, result, next)
<1> DEFINE Body(g, r) == IF r \in Ends THEN result[r] ELSE g[next[r]]
           Upto(k) == {r \in D : size[r] <= k}
           Solved == {k \in Nat : \E g : \A r \in Upto(k) : g[r] = Body(g, r)}
<1>1. 0 \in Solved
  <2>1. \A r \in Upto(0) : r \in Ends
    OBVIOUS
  <2>2. \A r \in Upto(0) : [s \in D |-> result[s]][r] = Body([s \in D |-> result[s]], r)
    BY <2>1
  <2> QED BY <2>2
<1>2. ASSUME NEW k \in Solved PROVE k + 1 \in Solved
  <2>1. PICK g : \A r \in Upto(k) : g[r] = Body(g, r)
    OBVIOUS
  <2> DEFINE h == [r \in D |-> IF r \in Upto(k) THEN g[r] ELSE Body(g, r)]
  <2>2. ASSUME NEW r \in Upto(k + 1) PROVE h[r] = Body(g, r)
    BY <2>1
  <2>3. ASSUME NEW r \in Upto(k + 1), r \notin Ends PROVE h[next[r]] = g[next[r]]
    <3>1. next[r] \in Upto(k)
      BY <2>3
    <3> QED BY <3>1
  <2>4. \A r \in Upto(k + 1) : h[r] = Body(h, r)
    BY <2>2, <2>3
  <2>5. k + 1 \in Nat
    OBVIOUS
  <2> HIDE DEF h
  <2> QED BY <2>4, <2>5
<1>3. \A k \in Nat : k \in Solved
  <2> HIDE DEF Solved
  <2> QED BY <1>1, <1>2, StepByStep
<1>4. PICK g : \A r \in D : g[r] = Body(g, r)
  <2>1. most \in Solved
    <3> HIDE DEF Solved
    <3> QED BY <1>3
  <2> QED BY <2>1
<1> DEFINE h == [r \in D |-> g[r]]
<1>5. h = [r \in D |-> IF r \in Ends THEN result[r] ELSE h[next[r]]]
  <2>1. ASSUME NEW r \in D PROVE h[r] = IF r \in Ends THEN result[r] ELSE h[next[r]]
    BY <1>4
  <2> QED BY <2>1
<1>6. IsSearch(h, D, Ends, result, next)
  BY <1>5, Zenon DEF IsSearch
<1> HIDE DEF h
<1> QED BY <1>6

\* What holds where the search starts and is kept by every step holds where it ends.
LEMMA SearchKeeps ==
    ASSUME NEW D, NEW Ends, NEW result, NEW next \in [D -> D], NEW size \in [D -> Nat],
           \A r \in D \ Ends : size[next[r]] < size[r],
           NEW g, IsSearch(g, D, Ends, result, next),
           NEW Inv \in SUBSET D, \A r \in Inv \ Ends : next[r] \in Inv,
           NEW start \in Inv
    PROVE  \E r \in Inv \cap Ends : g[start] = result[r]
<1> DEFINE Lost == {r \in Inv : \A s \in Inv \cap Ends : g[r] # result[s]}
           Sizes == {size[r] : r \in Lost}
<1>1. SUFFICES ASSUME Lost # {} PROVE FALSE
  OBVIOUS
<1>2. PICK k \in Sizes : \A j \in Sizes : k <= j
  <2>1. Sizes \in SUBSET Nat /\ Sizes # {}
    BY <1>1
  <2> HIDE DEF Sizes
  <2> QED BY <2>1, LeastMember
<1>3. PICK r \in Lost : k = size[r]
  BY <1>2
<1>4. r \in D /\ g[r] = IF r \in Ends THEN result[r] ELSE g[next[r]]
  <2>1. r \in D
    OBVIOUS
  <2> QED BY <2>1, Zenon DEF IsSearch
<1>5. r \notin Ends /\ g[r] = g[next[r]] /\ next[r] \in Inv /\ size[next[r]] < size[r]
  BY <1>4
<1>6. next[r] \in Lost
  BY <1>5
<1>7. size[next[r]] \in Nat /\ size[r] \in Nat
  BY <1>4
<1>8. size[r] <= size[next[r]]
  BY <1>2, <1>3, <1>6
<1> QED BY <1>5, <1>7, <1>8
-----------------------------------------------------------------------------
(* Sums over finite sets *)

\* A family of parts of S that holds a part whenever it holds each of its parts with one element less
\* holds S itself.
LEMMA FiniteDescent ==
    ASSUME NEW S, IsFiniteSet(S), NEW P,
           ASSUME NEW T \in SUBSET S, \A x \in T : T \ {x} \in P PROVE T \in P
    PROVE  S \in P
<1> DEFINE Sizes == {k \in Nat : \E T \in SUBSET S : T \notin P /\ Cardinality(T) = k}
<1>1. SUFFICES ASSUME S \notin P PROVE FALSE
  OBVIOUS
<1>2. Cardinality(S) \in Sizes
  BY <1>1, FS_CardinalityType
<1>3. PICK k \in Sizes : \A j \in Sizes : k <= j
  BY <1>2, LeastMember
<1>4. PICK T \in SUBSET S : T \notin P /\ Cardinality(T) = k
  BY <1>3
<1>5. PICK x \in T : T \ {x} \notin P
  BY <1>4
<1>6. Cardinality(T \ {x}) = k - 1 /\ Cardinality(T \ {x}) \in Nat
  BY <1>4, FS_Subset, FS_RemoveElement, FS_CardinalityType
<1>7. k - 1 \in Sizes
  BY <1>5, <1>6
<1> QED BY <1>3, <1>7

\* The same, adding an element to a part that is in the family.
LEMMA FiniteInduction ==
    ASSUME NEW S, IsFiniteSet(S), NEW P, {} \in P,
           ASSUME NEW T \in SUBSET S, T \in P, NEW x \in S \ T PROVE T \cup {x} \in P
    PROVE  S \in P
<1>1. ASSUME NEW T \in SUBSET S, \A x \in T : T \ {x} \in P PROVE T \in P
  <2>1. CASE T = {}
    BY <2>1
  <2>2. ASSUME NEW x \in T PROVE T \in P
    <3>1. T \ {x} \in SUBSET S /\ T \ {x} \in P /\ x \in S \ (T \ {x})
      BY <1>1
    <3>2. (T \ {x}) \cup {x} \in P
      BY <3>1
    <3>3. (T \ {x}) \cup {x} = T
      OBVIOUS
    <3> QED BY <3>2, <3>3
  <2> QED BY <2>1, <2>2
<1> QED BY <1>1, FiniteDescent

-----------------------------------------------------------------------------
\* The recursion the library's sum stands for: pick an element, add its value to the sum of the rest.
Picked(s) == CHOOSE x \in s : TRUE
SumsUp(f, S, g) ==
    /\ DOMAIN g = SUBSET S
    /\ \A s \in SUBSET S : g[s] = IF s = {} THEN 0 ELSE f[Picked(s)] + g[s \ {Picked(s)}]
Partials(f, S) == CHOOSE g : g = [s \in SUBSET S |-> IF s = {} THEN 0 ELSE f[Picked(s)] + g[s \ {Picked(s)}]]

LEMMA SumIsPartial == ASSUME NEW f, NEW S PROVE SumFunctionOnSet(f, S) = Partials(f, S)[S]
BY Zenon DEF SumFunctionOnSet, FoldFunctionOnSet, MapThenFoldSet, Partials, Picked

LEMMA PickedIsMember == ASSUME NEW s, s # {} PROVE Picked(s) \in s
BY DEF Picked

\* Over the subsets of at most k elements the recursion has a solution, for every k.
LEMMA PartialsExist ==
    ASSUME NEW f, NEW S, IsFiniteSet(S)
    PROVE  SumsUp(f, S, Partials(f, S))
<1> DEFINE Below(k) == {s \in SUBSET S : Cardinality(s) <= k}
           Solved == {k \in Nat : \E g : g = [s \in Below(k) |-> IF s = {} THEN 0 ELSE f[Picked(s)] + g[s \ {Picked(s)}]]}
           Open == Nat \ Solved
<1>1. ASSUME NEW s \in SUBSET S
      PROVE  IsFiniteSet(s) /\ Cardinality(s) \in Nat /\ (Cardinality(s) = 0 <=> s = {})
  BY FS_Subset, FS_CardinalityType, FS_EmptySet
<1>2. ASSUME NEW s \in SUBSET S, s # {}
      PROVE  s \ {Picked(s)} \in SUBSET S /\ Cardinality(s \ {Picked(s)}) = Cardinality(s) - 1
  BY <1>1, <1>2, PickedIsMember, FS_RemoveElement
<1>3. 0 \in Solved
  <2> DEFINE g == [s \in Below(0) |-> 0]
  <2>1. \A s \in Below(0) : s = {}
    BY <1>1
  <2>2. g = [s \in Below(0) |-> IF s = {} THEN 0 ELSE f[Picked(s)] + g[s \ {Picked(s)}]]
    BY <2>1
  <2> QED BY <2>2
<1>4. ASSUME NEW k \in Solved PROVE k + 1 \in Solved
  <2>1. PICK g : g = [s \in Below(k) |-> IF s = {} THEN 0 ELSE f[Picked(s)] + g[s \ {Picked(s)}]]
    OBVIOUS
  <2> DEFINE h == [s \in Below(k + 1) |-> IF s = {} THEN 0 ELSE f[Picked(s)] + g[s \ {Picked(s)}]]
  <2>2. ASSUME NEW s \in Below(k) PROVE h[s] = g[s]
    <3>1. s \in Below(k + 1)
      BY <1>1
    <3>2. g[s] = IF s = {} THEN 0 ELSE f[Picked(s)] + g[s \ {Picked(s)}]
      BY <2>1, Zenon
    <3> QED BY <3>1, <3>2
  <2>3. ASSUME NEW s \in Below(k + 1), s # {} PROVE h[s \ {Picked(s)}] = g[s \ {Picked(s)}]
    <3>1. s \ {Picked(s)} \in Below(k)
      BY <1>1, <1>2, <2>3
    <3> QED BY <2>2, <3>1
  <2>4. h = [s \in Below(k + 1) |-> IF s = {} THEN 0 ELSE f[Picked(s)] + h[s \ {Picked(s)}]]
    BY <2>3
  <2>5. k + 1 \in Nat
    OBVIOUS
  <2> HIDE DEF h
  <2> QED BY <2>4, <2>5
<1>5. Open = {}
  <2>1. SUFFICES ASSUME Open # {} PROVE FALSE
    OBVIOUS
  <2>2. PICK k \in Open : \A j \in Open : k <= j
    <3> HIDE DEF Solved
    <3> QED BY <2>1, LeastMember
  <2>3. k # 0 /\ k \in Nat
    BY <1>3
  <2>4. k - 1 \in Solved
    <3> HIDE DEF Solved
    <3> QED BY <2>2, <2>3
  <2>5. k - 1 + 1 \in Solved
    BY <1>4, <2>4
  <2> HIDE DEF Solved
  <2> QED BY <2>3, <2>5
<1>6. Cardinality(S) \in Solved
  BY <1>1, <1>5
<1>7. Below(Cardinality(S)) = SUBSET S
  BY FS_Subset
<1>8. \E g : g = [s \in SUBSET S |-> IF s = {} THEN 0 ELSE f[Picked(s)] + g[s \ {Picked(s)}]]
  BY <1>6, <1>7
<1>9. Partials(f, S) = [s \in SUBSET S |-> IF s = {} THEN 0 ELSE f[Picked(s)] + Partials(f, S)[s \ {Picked(s)}]]
  BY <1>8, Zenon DEF Partials
<1> QED BY <1>9, Zenon DEF SumsUp
\* A solution over S restricts to one over any part of S.
LEMMA PartialsAgree ==
    ASSUME NEW f, NEW S, IsFiniteSet(S), NEW T \in SUBSET S
    PROVE  Partials(f, T)[T] = Partials(f, S)[T]
<1> DEFINE g == Partials(f, S)
           h == Partials(f, T)
           Same == {s \in SUBSET T : h[s] = g[s]}
<1>1. SumsUp(f, S, g) /\ SumsUp(f, T, h) /\ IsFiniteSet(T)
  BY PartialsExist, FS_Subset
<1> HIDE DEF g, h
<1>2. ASSUME NEW s \in SUBSET T, \A x \in s : s \ {x} \in Same PROVE s \in Same
  <2>1. s \in SUBSET S
    OBVIOUS
  <2>2. CASE s = {}
    BY <1>1, <2>1, <2>2 DEF SumsUp
  <2>3. CASE s # {}
    <3>1. h[s \ {Picked(s)}] = g[s \ {Picked(s)}]
      BY <1>2, <2>3, PickedIsMember
    <3>2. g[s] = f[Picked(s)] + g[s \ {Picked(s)}] /\ h[s] = f[Picked(s)] + h[s \ {Picked(s)}]
      BY <1>1, <2>1, <2>3 DEF SumsUp
    <3> QED BY <3>1, <3>2
  <2> QED BY <2>2, <2>3
<1>3. T \in Same
  <2> HIDE DEF Same
  <2> QED BY <1>1, <1>2, FiniteDescent
<1> QED BY <1>3 DEF g, h

\* The sum over nothing is zero; over anything else, the picked value and the sum of the rest.
LEMMA SumEmpty == ASSUME NEW f PROVE SumFunctionOnSet(f, {}) = 0
<1>1. Partials(f, {})[{}] = 0
  BY FS_EmptySet, PartialsExist DEF SumsUp
<1> QED BY <1>1, SumIsPartial

LEMMA SumPicked ==
    ASSUME NEW f, NEW s, IsFiniteSet(s), s # {}
    PROVE  SumFunctionOnSet(f, s) = f[Picked(s)] + SumFunctionOnSet(f, s \ {Picked(s)})
<1>1. SumsUp(f, s, Partials(f, s))
  BY PartialsExist
<1>2. Partials(f, s)[s] = f[Picked(s)] + Partials(f, s)[s \ {Picked(s)}]
  BY <1>1 DEF SumsUp
<1>3. s \ {Picked(s)} \in SUBSET s
  OBVIOUS
<1>4. Partials(f, s \ {Picked(s)})[s \ {Picked(s)}] = Partials(f, s)[s \ {Picked(s)}]
  BY <1>3, PartialsAgree
<1> QED BY <1>2, <1>4, SumIsPartial

-----------------------------------------------------------------------------
\* The sum of integers is one.
LEMMA SumInt ==
    ASSUME NEW S, IsFiniteSet(S), NEW f, \A y \in S : f[y] \in Int
    PROVE  SumFunctionOnSet(f, S) \in Int
<1> DEFINE P == {T \in SUBSET S : SumFunctionOnSet(f, T) \in Int}
<1>1. ASSUME NEW T \in SUBSET S, \A x \in T : T \ {x} \in P PROVE T \in P
  <2>1. CASE T = {}
    BY <2>1, SumEmpty
  <2>2. CASE T # {}
    <3>1. Picked(T) \in T /\ f[Picked(T)] \in Int
      BY <2>2, PickedIsMember
    <3>2. SumFunctionOnSet(f, T \ {Picked(T)}) \in Int
      BY <1>1, <3>1
    <3>3. SumFunctionOnSet(f, T) = f[Picked(T)] + SumFunctionOnSet(f, T \ {Picked(T)})
      BY <2>2, SumPicked, FS_Subset
    <3> QED BY <3>1, <3>2, <3>3
  <2> QED BY <2>1, <2>2
<1>2. S \in P
  <2> HIDE DEF P
  <2> QED BY <1>1, FiniteDescent
<1> QED BY <1>2

\* Any value can be taken out of a sum.
LEMMA SumTakeOut ==
    ASSUME NEW S, IsFiniteSet(S), NEW f, \A y \in S : f[y] \in Int, NEW x \in S
    PROVE  SumFunctionOnSet(f, S) = f[x] + SumFunctionOnSet(f, S \ {x})
<1> DEFINE Sum(s) == SumFunctionOnSet(f, s)
           P == {T \in SUBSET S : \A y \in T : Sum(T) = f[y] + Sum(T \ {y})}
<1>1. ASSUME NEW T \in SUBSET S PROVE Sum(T) \in Int /\ IsFiniteSet(T)
  BY SumInt, FS_Subset
<1>2. ASSUME NEW T \in SUBSET S, \A y \in T : T \ {y} \in P PROVE T \in P
  <2>1. SUFFICES ASSUME NEW y \in T PROVE Sum(T) = f[y] + Sum(T \ {y})
    OBVIOUS
  <2> DEFINE z == Picked(T)
  <2>2. z \in T /\ Sum(T) = f[z] + Sum(T \ {z})
    BY <1>1, SumPicked, PickedIsMember
  <2> HIDE DEF z
  <2>3. CASE y = z
    BY <2>2, <2>3
  <2>4. CASE y # z
    <3>1. Sum(T \ {z}) = f[y] + Sum((T \ {z}) \ {y})
      BY <1>2, <2>2, <2>4
    <3>2. Sum(T \ {y}) = f[z] + Sum((T \ {y}) \ {z})
      BY <1>2, <2>2, <2>4
    <3>3. (T \ {z}) \ {y} = (T \ {y}) \ {z}
      OBVIOUS
    <3> DEFINE rest == Sum((T \ {y}) \ {z})
    <3>4. rest \in Int /\ f[y] \in Int /\ f[z] \in Int
      BY <1>1, <2>2
    <3>5. Sum(T) = f[z] + (f[y] + rest) /\ Sum(T \ {y}) = f[z] + rest
      BY <2>2, <3>1, <3>2, <3>3
    <3> HIDE DEF Sum, rest
    <3> QED BY <3>4, <3>5
  <2> QED BY <2>3, <2>4
<1>3. S \in P
  <2> HIDE DEF P
  <2> QED BY <1>2, FiniteDescent
<1> QED BY <1>3
\* Adding an element to a set adds its value to the sum.
LEMMA SumAdd ==
    ASSUME NEW S, IsFiniteSet(S), NEW f, \A y \in S : f[y] \in Int,
           NEW T \in SUBSET S, NEW x \in S \ T
    PROVE  /\ SumFunctionOnSet(f, T) \in Int /\ f[x] \in Int
           /\ SumFunctionOnSet(f, T \cup {x}) = f[x] + SumFunctionOnSet(f, T)
<1>1. IsFiniteSet(T) /\ IsFiniteSet(T \cup {x})
  BY FS_Subset, FS_AddElement
<1>2. (T \cup {x}) \ {x} = T /\ x \in T \cup {x} /\ \A y \in T \cup {x} : f[y] \in Int
  OBVIOUS
<1>3. SumFunctionOnSet(f, T \cup {x}) = f[x] + SumFunctionOnSet(f, (T \cup {x}) \ {x})
  BY <1>1, <1>2, SumTakeOut
<1> QED BY <1>1, <1>2, <1>3, SumInt

\* Functions that agree on a set have the same sum over it.
LEMMA SumSame ==
    ASSUME NEW S, IsFiniteSet(S), NEW f, NEW g, \A y \in S : f[y] \in Int /\ f[y] = g[y]
    PROVE  SumFunctionOnSet(f, S) = SumFunctionOnSet(g, S)
<1> DEFINE P == {T \in SUBSET S : SumFunctionOnSet(f, T) = SumFunctionOnSet(g, T)}
<1>1. {} \in P
  BY SumEmpty
<1>2. ASSUME NEW T \in SUBSET S, T \in P, NEW x \in S \ T PROVE T \cup {x} \in P
  <2>1. SumFunctionOnSet(f, T \cup {x}) = f[x] + SumFunctionOnSet(f, T)
    BY SumAdd
  <2>2. SumFunctionOnSet(g, T \cup {x}) = g[x] + SumFunctionOnSet(g, T)
    <3>1. \A y \in S : g[y] \in Int
      OBVIOUS
    <3> QED BY <3>1, SumAdd
  <2> QED BY <1>2, <2>1, <2>2
<1>3. S \in P
  <2> HIDE DEF P
  <2> QED BY <1>1, <1>2, FiniteInduction
<1> QED BY <1>3

\* The sum of the sums of two functions is the sum of their sum.
LEMMA SumPlus ==
    ASSUME NEW S, IsFiniteSet(S), NEW f, NEW g, NEW h,
           \A y \in S : f[y] \in Int /\ g[y] \in Int /\ h[y] = f[y] + g[y]
    PROVE  SumFunctionOnSet(h, S) = SumFunctionOnSet(f, S) + SumFunctionOnSet(g, S)
<1> DEFINE P == {T \in SUBSET S : SumFunctionOnSet(h, T) = SumFunctionOnSet(f, T) + SumFunctionOnSet(g, T)}
<1>f. \A y \in S : f[y] \in Int
  OBVIOUS
<1>g. \A y \in S : g[y] \in Int
  OBVIOUS
<1>h. \A y \in S : h[y] \in Int
  OBVIOUS
<1>1. {} \in P
  BY SumEmpty
<1>2. ASSUME NEW T \in SUBSET S, T \in P, NEW x \in S \ T PROVE T \cup {x} \in P
  <2>1. /\ SumFunctionOnSet(f, T) \in Int /\ f[x] \in Int
        /\ SumFunctionOnSet(f, T \cup {x}) = f[x] + SumFunctionOnSet(f, T)
    BY <1>f, SumAdd
  <2>2. /\ SumFunctionOnSet(g, T) \in Int /\ g[x] \in Int
        /\ SumFunctionOnSet(g, T \cup {x}) = g[x] + SumFunctionOnSet(g, T)
    BY <1>g, SumAdd
  <2>3. SumFunctionOnSet(h, T \cup {x}) = h[x] + SumFunctionOnSet(h, T)
    BY <1>h, SumAdd
  <2>4. SumFunctionOnSet(h, T) = SumFunctionOnSet(f, T) + SumFunctionOnSet(g, T) /\ h[x] = f[x] + g[x]
    BY <1>2
  <2>5. SumFunctionOnSet(h, T \cup {x}) = SumFunctionOnSet(f, T \cup {x}) + SumFunctionOnSet(g, T \cup {x})
    BY <2>1, <2>2, <2>3, <2>4
  <2> QED BY <2>5
<1>3. S \in P
  <2> HIDE DEF P
  <2> QED BY <1>1, <1>2, FiniteInduction
<1> QED BY <1>3

\* A function that is nowhere above another one has no larger sum.
LEMMA SumMonotone ==
    ASSUME NEW S, IsFiniteSet(S), NEW f, NEW g,
           \A y \in S : f[y] \in Int /\ g[y] \in Int /\ f[y] <= g[y]
    PROVE  SumFunctionOnSet(f, S) <= SumFunctionOnSet(g, S)
<1> DEFINE P == {T \in SUBSET S : SumFunctionOnSet(f, T) <= SumFunctionOnSet(g, T)}
<1>1. {} \in P
  BY SumEmpty
<1>2. ASSUME NEW T \in SUBSET S, T \in P, NEW x \in S \ T PROVE T \cup {x} \in P
  <2>1. /\ SumFunctionOnSet(f, T) \in Int /\ f[x] \in Int
        /\ SumFunctionOnSet(f, T \cup {x}) = f[x] + SumFunctionOnSet(f, T)
    BY SumAdd
  <2>2. /\ SumFunctionOnSet(g, T) \in Int /\ g[x] \in Int
        /\ SumFunctionOnSet(g, T \cup {x}) = g[x] + SumFunctionOnSet(g, T)
    BY SumAdd
  <2>3. SumFunctionOnSet(f, T) <= SumFunctionOnSet(g, T) /\ f[x] <= g[x]
    BY <1>2
  <2>4. SumFunctionOnSet(f, T \cup {x}) <= SumFunctionOnSet(g, T \cup {x})
    BY <2>1, <2>2, <2>3
  <2> QED BY <2>4
<1>3. S \in P
  <2> HIDE DEF P
  <2> QED BY <1>1, <1>2, FiniteInduction
<1> QED BY <1>3

\* The sum of zeros is zero, and that of natural numbers is one, no value above it.
LEMMA SumZero ==
    ASSUME NEW S, IsFiniteSet(S), NEW f, \A y \in S : f[y] = 0
    PROVE  SumFunctionOnSet(f, S) = 0
<1>0. \A y \in S : f[y] \in Int /\ f[y] = f[y] + f[y]
  OBVIOUS
<1>1. SumFunctionOnSet(f, S) = SumFunctionOnSet(f, S) + SumFunctionOnSet(f, S)
  BY ONLY IsFiniteSet(S), <1>0, SumPlus
<1>2. SumFunctionOnSet(f, S) \in Int
  BY ONLY IsFiniteSet(S), <1>0, SumInt
<1>3. \A n \in Int : n = n + n => n = 0
  OBVIOUS
<1> QED BY ONLY <1>1, <1>2, <1>3

LEMMA SumNat ==
    ASSUME NEW S, IsFiniteSet(S), NEW f, \A y \in S : f[y] \in Nat
    PROVE  /\ SumFunctionOnSet(f, S) \in Nat
           /\ \A x \in S : f[x] <= SumFunctionOnSet(f, S)
<1>1. ASSUME NEW T \in SUBSET S PROVE SumFunctionOnSet(f, T) \in Nat
  <2> DEFINE zero == [y \in S |-> 0]
  <2>1. IsFiniteSet(T)
    BY FS_Subset
  <2>2. SumFunctionOnSet(zero, T) = 0
    BY <2>1, SumZero
  <2>3. \A y \in T : zero[y] \in Int /\ f[y] \in Int /\ zero[y] <= f[y]
    OBVIOUS
  <2> HIDE DEF zero
  <2>4. SumFunctionOnSet(zero, T) <= SumFunctionOnSet(f, T)
    BY <2>1, <2>3, SumMonotone
  <2>5. SumFunctionOnSet(f, T) \in Int
    BY <2>1, <2>3, SumInt
  <2> QED BY <2>2, <2>4, <2>5
<1>2. ASSUME NEW x \in S PROVE f[x] <= SumFunctionOnSet(f, S)
  <2>1. SumFunctionOnSet(f, S) = f[x] + SumFunctionOnSet(f, S \ {x})
    <3>1. \A y \in S : f[y] \in Int
      OBVIOUS
    <3> QED BY <3>1, SumTakeOut
  <2>2. SumFunctionOnSet(f, S \ {x}) \in Nat /\ f[x] \in Nat
    BY <1>1
  <2> QED BY <2>1, <2>2
<1> QED BY <1>1, <1>2

\* Two functions that differ in one place only have sums that differ by as much.
LEMMA SumDiffersAt ==
    ASSUME NEW S, IsFiniteSet(S), NEW x \in S, NEW f, NEW g,
           \A y \in S : f[y] \in Int /\ g[y] \in Int,
           \A y \in S \ {x} : g[y] = f[y]
    PROVE  SumFunctionOnSet(g, S) = SumFunctionOnSet(f, S) - f[x] + g[x]
<1>1. IsFiniteSet(S \ {x})
  BY FS_RemoveElement
<1>2. SumFunctionOnSet(g, S \ {x}) = SumFunctionOnSet(f, S \ {x})
  BY <1>1, SumSame
<1>3. SumFunctionOnSet(f, S) = f[x] + SumFunctionOnSet(f, S \ {x})
  BY SumTakeOut
<1>4. SumFunctionOnSet(g, S) = g[x] + SumFunctionOnSet(g, S \ {x})
  BY SumTakeOut
<1>5. SumFunctionOnSet(f, S \ {x}) \in Int /\ f[x] \in Int /\ g[x] \in Int
  BY <1>1, SumInt
<1> QED BY <1>2, <1>3, <1>4, <1>5

\* A sum over part of a domain is one over all of it with the rest at zero.
LEMMA SumOfPart ==
    ASSUME NEW S, IsFiniteSet(S), NEW U \in SUBSET S, NEW f, \A y \in S : f[y] \in Int
    PROVE  SumFunctionOnSet(f, U) = SumFunctionOnSet([y \in S |-> IF y \in U THEN f[y] ELSE 0], S)
<1> DEFINE g == [y \in S |-> IF y \in U THEN f[y] ELSE 0]
           P == {T \in SUBSET S : SumFunctionOnSet(f, T \cap U) = SumFunctionOnSet(g, T)}
<1>0. \A y \in S : g[y] \in Int /\ g[y] = IF y \in U THEN f[y] ELSE 0
  OBVIOUS
<1> HIDE DEF g
<1>1. {} \in P
  <2>1. {} \cap U = {}
    OBVIOUS
  <2> QED BY <2>1, SumEmpty
<1>2. ASSUME NEW T \in SUBSET S, T \in P, NEW x \in S \ T PROVE T \cup {x} \in P
  <2>1. SumFunctionOnSet(g, T \cup {x}) = g[x] + SumFunctionOnSet(g, T) /\ SumFunctionOnSet(g, T) \in Int
    BY <1>0, SumAdd
  <2>2. CASE x \in U
    <3>1. (T \cup {x}) \cap U = (T \cap U) \cup {x} /\ x \in S \ (T \cap U) /\ T \cap U \in SUBSET S
      BY <2>2
    <3>2. SumFunctionOnSet(f, (T \cap U) \cup {x}) = f[x] + SumFunctionOnSet(f, T \cap U)
      BY <3>1, SumAdd
    <3>3. SumFunctionOnSet(f, (T \cup {x}) \cap U) = SumFunctionOnSet(g, T \cup {x})
      BY <1>0, <1>2, <2>1, <2>2, <3>1, <3>2
    <3> QED BY <3>3
  <2>3. CASE x \notin U
    <3>1. (T \cup {x}) \cap U = T \cap U
      BY <2>3
    <3>2. SumFunctionOnSet(f, T \cap U) = SumFunctionOnSet(g, T) /\ g[x] = 0
      BY <1>0, <1>2, <2>3
    <3>3. SumFunctionOnSet(g, T \cup {x}) = SumFunctionOnSet(g, T)
      BY <2>1, <3>2
    <3> QED BY <3>1, <3>2, <3>3
  <2> QED BY <2>2, <2>3
<1>3. S \in P
  <2> HIDE DEF P
  <2> QED BY <1>1, <1>2, FiniteInduction
<1>4. S \cap U = U
  OBVIOUS
<1>5. SumFunctionOnSet(f, U) = SumFunctionOnSet(g, S)
  BY <1>3, <1>4
<1> QED BY <1>5 DEF g
\* Shares of the parts of a whole, each rounded down, are together no more than the share of the whole.
LEMMA SumOfShares ==
    ASSUME NEW S, IsFiniteSet(S), NEW f, NEW g, NEW r \in Nat, NEW n \in Nat \ {0},
           \A y \in S : f[y] \in Nat, \A y \in S : g[y] \in Int,
           \A y \in S : g[y] <= (f[y] * r) \div n
    PROVE  SumFunctionOnSet(g, S) <= (SumFunctionOnSet(f, S) * r) \div n
<1> DEFINE P == {T \in SUBSET S : SumFunctionOnSet(g, T) * n <= SumFunctionOnSet(f, T) * r}
<1>1. {} \in P
  BY SumEmpty
<1>2. \A y \in S : f[y] \in Int
  OBVIOUS
<1>3. ASSUME NEW T \in SUBSET S, T \in P, NEW x \in S \ T PROVE T \cup {x} \in P
  <2> DEFINE F == SumFunctionOnSet(f, T)
             G == SumFunctionOnSet(g, T)
             a == f[x]
             b == g[x]
  <2>1. F \in Int /\ SumFunctionOnSet(f, T \cup {x}) = a + F
    BY SMTT(30), <1>2, SumAdd
  <2>2. G \in Int /\ SumFunctionOnSet(g, T \cup {x}) = b + G
    BY ONLY IsFiniteSet(S), \A y \in S : g[y] \in Int, T \in SUBSET S, x \in S \ T, SumAdd
  <2>3. a \in Nat /\ b \in Int /\ b <= (a * r) \div n
    OBVIOUS
  <2>4. G * n <= F * r
    BY <1>3
  <2> HIDE DEF F, G, a, b
  <2>5. a * r \in Nat
    BY <2>3
  <2>6. (a * r) \div n \in Nat /\ ((a * r) \div n) * n <= a * r
    BY <2>5, DivBounds
  <2> DEFINE q == (a * r) \div n
  <2>7. b * n <= q * n
    <3> HIDE DEF q
    <3> QED BY <2>3, <2>6 DEF q
  <2>8. b * n <= a * r
    BY <2>3, <2>5, <2>6, <2>7
  <2>9. (b + G) * n = b * n + G * n /\ (a + F) * r = a * r + F * r
    BY <2>1, <2>2, <2>3
  <2>10. (b + G) * n <= (a + F) * r
    BY <2>1, <2>2, <2>3, <2>4, <2>8, <2>9
  <2> QED BY <2>1, <2>2, <2>10
<1>4. S \in P
  <2> HIDE DEF P
  <2> QED BY <1>1, <1>3, FiniteInduction
<1>5. SumFunctionOnSet(g, S) \in Int /\ SumFunctionOnSet(f, S) \in Nat
  BY SumInt, SumNat
<1>6. SumFunctionOnSet(f, S) * r \in Nat
  BY <1>5
<1> DEFINE F == SumFunctionOnSet(f, S)
           G == SumFunctionOnSet(g, S)
<1>7. G * n <= F * r
  BY <1>4
<1> HIDE DEF F, G
<1>8. F * r \in Nat /\ G \in Int
  BY <1>5, <1>6 DEF F, G
<1>9. G <= (F * r) \div n
  <2> DEFINE w == F * r
  <2> HIDE DEF w
  <2>1. w \in Nat /\ G * n <= w
    BY <1>7, <1>8 DEF w
  <2>2. CASE G \in Nat
    BY <2>1, <2>2, DivAtLeast DEF w
  <2>3. CASE G < 0
    <3>1. w \div n \in Nat
      BY <2>1, DivBounds
    <3> QED BY <1>8, <2>3, <3>1 DEF w
  <2> QED BY <1>8, <2>2, <2>3
<1> QED BY <1>9 DEF F, G
\* One figure of many changes: so does their sum, by as much.
LEMMA SumMoves ==
    ASSUME NEW S, IsFiniteSet(S), NEW f \in [S -> Nat], NEW x \in S, NEW n \in Nat
    PROVE  /\ SumFunction(f) \in Nat /\ f[x] <= SumFunction(f)
           /\ SumFunction([f EXCEPT ![x] = n]) = SumFunction(f) - f[x] + n
<1> DEFINE g == [f EXCEPT ![x] = n]
<1>1. /\ \A y \in S : f[y] \in Int /\ g[y] \in Int
      /\ \A y \in S \ {x} : g[y] = f[y]
      /\ g[x] = n /\ DOMAIN g = S /\ DOMAIN f = S
  OBVIOUS
<1>2. \A y \in S : f[y] \in Nat
  OBVIOUS
<1> HIDE DEF g
<1>3. SumFunctionOnSet(g, S) = SumFunctionOnSet(f, S) - f[x] + g[x]
  BY <1>1, SumDiffersAt
<1>4. SumFunctionOnSet(f, S) \in Nat /\ \A y \in S : f[y] <= SumFunctionOnSet(f, S)
  BY <1>2, SumNat
<1> QED BY <1>1, <1>3, <1>4 DEF SumFunction, g

LEMMA SumOfNone ==
    ASSUME NEW S, IsFiniteSet(S), NEW f, DOMAIN f = S, \A x \in S : f[x] = 0
    PROVE  SumFunction(f) = 0
BY SumZero DEF SumFunction

-----------------------------------------------------------------------------
(* Counting *)

\* The members of a set whose value is one of T are counted value by value.
LEMMA CardinalityOfParts ==
    ASSUME NEW A, IsFiniteSet(A), NEW g, NEW T, IsFiniteSet(T),
           NEW c, \A k \in T : c[k] = Cardinality({x \in A : g[x] = k})
    PROVE  Cardinality({x \in A : g[x] \in T}) = SumFunctionOnSet(c, T)
<1> DEFINE In(U) == {x \in A : g[x] \in U}
           At(k) == {x \in A : g[x] = k}
           P == {U \in SUBSET T : Cardinality(In(U)) = SumFunctionOnSet(c, U)}
<1>1. \A k \in T : c[k] \in Int
  <2>1. ASSUME NEW k \in T PROVE c[k] \in Int
    <3>1. IsFiniteSet(At(k))
      BY FS_Subset
    <3>2. Cardinality(At(k)) \in Nat
      <4> HIDE DEF At
      <4> QED BY <3>1, FS_CardinalityType
    <3> QED BY <3>2
  <2> QED BY <2>1
<1>2. {} \in P
  <2>1. In({}) = {}
    OBVIOUS
  <2> QED BY <2>1, SumEmpty, FS_EmptySet
<1>3. ASSUME NEW U \in SUBSET T, U \in P, NEW k \in T \ U PROVE U \cup {k} \in P
  <2>1. In(U \cup {k}) = In(U) \cup At(k) /\ In(U) \cap At(k) = {}
    OBVIOUS
  <2>2. IsFiniteSet(In(U)) /\ IsFiniteSet(At(k))
    BY FS_Subset
  <2>3. Cardinality(In(U) \cap At(k)) = 0
    BY <2>1, FS_EmptySet
  <2>4. Cardinality(In(U)) \in Nat /\ Cardinality(At(k)) \in Nat
    BY <2>2, FS_CardinalityType
  <2>5. Cardinality(In(U \cup {k})) = Cardinality(In(U)) + Cardinality(At(k)) - 0
    <3> HIDE DEF In, At
    <3> QED BY <2>1, <2>2, <2>3, FS_Union
  <2>6. SumFunctionOnSet(c, U \cup {k}) = c[k] + SumFunctionOnSet(c, U)
    BY <1>1, SumAdd
  <2>7. Cardinality(In(U)) = SumFunctionOnSet(c, U) /\ c[k] = Cardinality(At(k))
    BY <1>3
  <2>8. Cardinality(In(U \cup {k})) = SumFunctionOnSet(c, U \cup {k})
    <3> HIDE DEF In, At
    <3> QED BY <2>4, <2>5, <2>6, <2>7
  <2> QED BY <2>8
<1>4. T \in P
  <2> HIDE DEF P
  <2> QED BY <1>2, <1>3, FiniteInduction
<1> QED BY <1>4

\* A sum of figures each cut off at a limit is the sum of the figures, or both reach the limit.
LEMMA SumOfCutOff ==
    ASSUME NEW S, IsFiniteSet(S), NEW c, NEW s, NEW limit \in Nat, \A y \in S : c[y] \in Nat,
           \A y \in S : s[y] = IF c[y] <= limit THEN c[y] ELSE limit
    PROVE  \/ SumFunctionOnSet(s, S) = SumFunctionOnSet(c, S)
           \/ limit <= SumFunctionOnSet(s, S) /\ limit <= SumFunctionOnSet(c, S)
<1> DEFINE P == {T \in SUBSET S : \/ SumFunctionOnSet(s, T) = SumFunctionOnSet(c, T)
                                  \/ /\ limit <= SumFunctionOnSet(s, T)
                                     /\ limit <= SumFunctionOnSet(c, T)}
<1>1. {} \in P
  BY SumEmpty
<1>2. \A y \in S : s[y] \in Nat
  OBVIOUS
<1>3. ASSUME NEW T \in SUBSET S, T \in P, NEW x \in S \ T PROVE T \cup {x} \in P
  <2>1. SumFunctionOnSet(s, T \cup {x}) = s[x] + SumFunctionOnSet(s, T)
    BY <1>2, SumAdd
  <2>2. SumFunctionOnSet(c, T \cup {x}) = c[x] + SumFunctionOnSet(c, T)
    <3>1. \A y \in S : c[y] \in Int
      OBVIOUS
    <3> QED BY ONLY IsFiniteSet(S), <3>1, T \in SUBSET S, x \in S \ T, SumAdd
  <2>3. SumFunctionOnSet(s, T) \in Nat /\ SumFunctionOnSet(c, T) \in Nat
    <3>1. IsFiniteSet(T)
      BY FS_Subset
    <3>2. SumFunctionOnSet(s, T) \in Nat
      BY <1>2, <3>1, SumNat
    <3>3. SumFunctionOnSet(c, T) \in Nat
      BY <3>1, SumNat
    <3> QED BY <3>2, <3>3
  <2>4. \/ SumFunctionOnSet(s, T) = SumFunctionOnSet(c, T)
        \/ limit <= SumFunctionOnSet(s, T) /\ limit <= SumFunctionOnSet(c, T)
    BY <1>3
  <2>5. c[x] \in Nat /\ s[x] = IF c[x] <= limit THEN c[x] ELSE limit
    OBVIOUS
  <2>6. \/ SumFunctionOnSet(s, T \cup {x}) = SumFunctionOnSet(c, T \cup {x})
        \/ /\ limit <= SumFunctionOnSet(s, T \cup {x})
           /\ limit <= SumFunctionOnSet(c, T \cup {x})
    BY <2>1, <2>2, <2>3, <2>4, <2>5
  <2> QED BY <2>6
<1>4. S \in P
  <2> HIDE DEF P
  <2> QED BY <1>1, <1>3, FiniteInduction
<1> QED BY <1>4

-----------------------------------------------------------------------------
(* Moving a domain *)

\* The sum does not depend on what the elements are called.
LEMMA SumRenamed ==
    ASSUME NEW S, IsFiniteSet(S), NEW h, NEW f, NEW g,
           \A x \in S : \A y \in S : h[x] = h[y] => x = y,
           \A x \in S : f[h[x]] \in Int /\ g[x] = f[h[x]]
    PROVE  SumFunctionOnSet(g, S) = SumFunctionOnSet(f, {h[x] : x \in S})
<1> DEFINE To(T) == {h[x] : x \in T}
           P == {T \in SUBSET S : SumFunctionOnSet(g, T) = SumFunctionOnSet(f, To(T))}
<1>1. IsFiniteSet(To(S))
  <2> DEFINE e == [x \in S |-> h[x]]
  <2>1. e \in Surjection(S, To(S))
    BY DEF Surjection
  <2> HIDE DEF e, To
  <2> QED BY <2>1, FS_Surjection
<1>2. \A z \in To(S) : f[z] \in Int
  OBVIOUS
<1>3. \A x \in S : g[x] \in Int
  OBVIOUS
<1>4. {} \in P
  <2>1. To({}) = {}
    OBVIOUS
  <2> QED BY <2>1, SumEmpty
<1>5. ASSUME NEW T \in SUBSET S, T \in P, NEW x \in S \ T PROVE T \cup {x} \in P
  <2>1. To(T) \in SUBSET To(S) /\ h[x] \in To(S) \ To(T) /\ To(T \cup {x}) = To(T) \cup {h[x]}
    OBVIOUS
  <2>2. SumFunctionOnSet(g, T \cup {x}) = g[x] + SumFunctionOnSet(g, T)
    BY ONLY IsFiniteSet(S), <1>3, T \in SUBSET S, x \in S \ T, SumAdd
  <2>3. SumFunctionOnSet(f, To(T) \cup {h[x]}) = f[h[x]] + SumFunctionOnSet(f, To(T))
    <3> DEFINE U == To(T)
               W == To(S)
               z == h[x]
    <3>1. IsFiniteSet(W) /\ U \in SUBSET W /\ z \in W \ U /\ \A y \in W : f[y] \in Int
      BY <1>1, <1>2, <2>1
    <3> HIDE DEF U, W, z
    <3>2. SumFunctionOnSet(f, U \cup {z}) = f[z] + SumFunctionOnSet(f, U)
      BY ONLY <3>1, SumAdd
    <3> QED BY <3>2 DEF U, z
  <2>4. g[x] = f[h[x]] /\ SumFunctionOnSet(g, T) = SumFunctionOnSet(f, To(T))
    BY <1>5
  <2> HIDE DEF To
  <2> QED BY <2>1, <2>2, <2>3, <2>4
<1>6. S \in P
  <2> HIDE DEF P
  <2> QED BY <1>4, <1>5, FiniteInduction
<1> QED BY <1>6

\* The sum over a sequence is its first figure and the sum over the rest.
LEMMA SumFirst ==
    ASSUME NEW n \in Nat, NEW f, NEW g, \A i \in 1..n + 1 : f[i] \in Int,
           \A i \in 1..n : g[i] = f[i + 1]
    PROVE  SumFunctionOnSet(f, 1..n + 1) = f[1] + SumFunctionOnSet(g, 1..n)
<1> DEFINE h == [i \in 1..n |-> i + 1]
<1>1. IsFiniteSet(1..n) /\ IsFiniteSet(1..n + 1) /\ 1 \in 1..n + 1
  BY FS_Interval
<1>2. {h[i] : i \in 1..n} = (1..n + 1) \ {1}
  <2>1. ASSUME NEW j \in (1..n + 1) \ {1} PROVE j - 1 \in 1..n /\ h[j - 1] = j
    OBVIOUS
  <2>2. ASSUME NEW i \in 1..n PROVE h[i] \in (1..n + 1) \ {1}
    OBVIOUS
  <2> HIDE DEF h
  <2> QED BY <2>1, <2>2
<1>3. SumFunctionOnSet(g, 1..n) = SumFunctionOnSet(f, {h[i] : i \in 1..n})
  <2>1. \A i \in 1..n : \A j \in 1..n : h[i] = h[j] => i = j
    OBVIOUS
  <2>2. \A i \in 1..n : f[h[i]] \in Int /\ g[i] = f[h[i]]
    OBVIOUS
  <2> DEFINE S == 1..n
  <2> HIDE DEF h, S
  <2>3. /\ IsFiniteSet(S) /\ \A i \in S : \A j \in S : h[i] = h[j] => i = j
        /\ \A i \in S : f[h[i]] \in Int /\ g[i] = f[h[i]]
    BY <1>1, <2>1, <2>2 DEF S
  <2>4. SumFunctionOnSet(g, S) = SumFunctionOnSet(f, {h[i] : i \in S})
    BY ONLY <2>3, SumRenamed
  <2> QED BY <2>4 DEF S
<1>4. SumFunctionOnSet(f, 1..n + 1) = f[1] + SumFunctionOnSet(f, (1..n + 1) \ {1})
  BY <1>1, SumTakeOut
<1> QED BY <1>2, <1>3, <1>4

-----------------------------------------------------------------------------
\* A sum of multiples is the multiple of the sum.
LEMMA SumTimes ==
    ASSUME NEW S, IsFiniteSet(S), NEW f, NEW g, NEW n \in Int, \A y \in S : f[y] \in Int /\ g[y] = n * f[y]
    PROVE  SumFunctionOnSet(g, S) = n * SumFunctionOnSet(f, S)
<1> DEFINE P == {T \in SUBSET S : SumFunctionOnSet(g, T) = n * SumFunctionOnSet(f, T)}
<1>1. {} \in P
  BY SumEmpty
<1>2. \A y \in S : f[y] \in Int
  OBVIOUS
<1>3. \A y \in S : g[y] \in Int
  OBVIOUS
<1>4. ASSUME NEW T \in SUBSET S, T \in P, NEW x \in S \ T PROVE T \cup {x} \in P
  <2>1. SumFunctionOnSet(f, T) \in Int /\ SumFunctionOnSet(f, T \cup {x}) = f[x] + SumFunctionOnSet(f, T)
    BY ONLY IsFiniteSet(S), <1>2, T \in SUBSET S, x \in S \ T, SumAdd
  <2>2. SumFunctionOnSet(g, T \cup {x}) = g[x] + SumFunctionOnSet(g, T)
    BY ONLY IsFiniteSet(S), <1>3, T \in SUBSET S, x \in S \ T, SumAdd
  <2>3. g[x] = n * f[x] /\ SumFunctionOnSet(g, T) = n * SumFunctionOnSet(f, T) /\ f[x] \in Int
    BY <1>4
  <2>4. n * f[x] + n * SumFunctionOnSet(f, T) = n * (f[x] + SumFunctionOnSet(f, T))
    BY <2>1, <2>3
  <2> QED BY <2>1, <2>2, <2>3, <2>4
<1>5. S \in P
  <2> HIDE DEF P
  <2> QED BY <1>1, <1>4, FiniteInduction
<1> QED BY <1>5

\* A sum over two sets that share nothing is the sum of their sums.
LEMMA SumOfUnion ==
    ASSUME NEW S, NEW T, IsFiniteSet(S), IsFiniteSet(T), S \cap T = {}, NEW f, \A y \in S \cup T : f[y] \in Int
    PROVE  SumFunctionOnSet(f, S \cup T) = SumFunctionOnSet(f, S) + SumFunctionOnSet(f, T)
<1> DEFINE U == S \cup T
           g == [y \in U |-> IF y \in S THEN f[y] ELSE 0]
           h == [y \in U |-> IF y \in T THEN f[y] ELSE 0]
<1>1. IsFiniteSet(U)
  BY FS_Union
<1>2. S \in SUBSET U /\ T \in SUBSET U /\ \A y \in U : f[y] \in Int
  OBVIOUS
<1>3. \A y \in U : g[y] \in Int /\ h[y] \in Int /\ f[y] = g[y] + h[y]
  OBVIOUS
<1>4. SumFunctionOnSet(f, S) = SumFunctionOnSet(g, U) /\ SumFunctionOnSet(f, T) = SumFunctionOnSet(h, U)
  <2> HIDE DEF U
  <2>1. SumFunctionOnSet(f, S) = SumFunctionOnSet(g, U)
    BY <1>1, <1>2, SumOfPart DEF g
  <2>2. SumFunctionOnSet(f, T) = SumFunctionOnSet(h, U)
    BY <1>1, <1>2, SumOfPart DEF h
  <2> QED BY <2>1, <2>2
<1> HIDE DEF g, h, U
<1>5. SumFunctionOnSet(f, U) = SumFunctionOnSet(g, U) + SumFunctionOnSet(h, U)
  BY <1>1, <1>3, SumPlus
<1> QED BY <1>4, <1>5 DEF U

\* Products grow with their factors, and a positive factor can be left out.
LEMMA TimesMonotone ==
    ASSUME NEW a \in Int, NEW b \in Int, NEW c \in Nat, a <= b
    PROVE  a * c <= b * c /\ c * a <= c * b
OBVIOUS

LEMMA TimesCancel ==
    ASSUME NEW a \in Int, NEW b \in Int, NEW c \in Nat \ {0}
    PROVE  (a * c <= b * c => a <= b) /\ (a * c < b * c => a < b)
<1>1. CASE a > b
  <2>1. (a - b) * c >= 1 * c
    BY <1>1
  <2>2. (a - b) * c = a * c - b * c
    OBVIOUS
  <2> QED BY <2>1, <2>2
<1>2. CASE a = b
  BY <1>2
<1> QED BY <1>1, <1>2

\* A pot of pot out of headroom shrinks a product p to q, rounded down.  Z, in units of D, is the product's
\* part of the debts: what fitted the headroom fits what is left of it, ...
LEMMA ShrunkFits ==
    ASSUME NEW p \in Nat, NEW q \in Nat, NEW H \in Nat \ {0}, NEW left \in Nat, NEW Z \in Nat, NEW D \in Nat,
           q * H <= p * left, p * Z <= H * D
    PROVE  q * Z <= left * D
<1>1. (q * H) * Z <= (p * left) * Z
  BY TimesMonotone
<1>2. (p * Z) * left <= (H * D) * left
  BY TimesMonotone
<1>3. (q * H) * Z = (q * Z) * H /\ (p * left) * Z = (p * Z) * left /\ (H * D) * left = (left * D) * H
  OBVIOUS
<1>4. q * Z \in Int /\ left * D \in Int
  OBVIOUS
<1>5. (q * Z) * H <= (left * D) * H
  <2>1. (q * Z) * H \in Int /\ (p * Z) * left \in Int /\ (left * D) * H \in Int
    OBVIOUS
  <2> QED BY <1>1, <1>2, <1>3, <2>1
<1> QED BY <1>4, <1>5, TimesCancel

\* ... and what filled it but for k units and one in R for each earlier pot, still fills it, one more in R.
LEMMA ShrunkFills ==
    ASSUME NEW p \in Nat, NEW q \in Nat, NEW H \in Nat \ {0}, NEW left \in 0..H, NEW Z \in Nat, NEW D \in Nat,
           NEW R \in Nat, NEW k \in Nat, NEW l \in Nat,
           p * left <= (q + 1) * H, R * Z <= D, H * D * R <= (p * Z + k * D) * R + l * D
    PROVE  left * D * R <= (q * Z + k * D) * R + (l + 1) * D
<1> DEFINE A == (q * Z + k * D) * R + (l + 1) * D
           B == left * D * R
           loss == k * D * R + l * D
<1>1. p * Z * R * left <= (q + 1) * H * Z * R
  <2>1. Z * R \in Nat /\ p * left \in Int /\ (q + 1) * H \in Int
    OBVIOUS
  <2>2. (p * left) * (Z * R) <= ((q + 1) * H) * (Z * R)
    BY <2>1, TimesMonotone
  <2>3. (p * left) * (Z * R) = p * Z * R * left /\ ((q + 1) * H) * (Z * R) = (q + 1) * H * Z * R
    OBVIOUS
  <2> QED BY <2>2, <2>3
<1>2. H * (R * Z) <= H * D
  BY TimesMonotone
<1>3. H * D * R - loss <= p * Z * R
  OBVIOUS
<1>4. (H * D * R - loss) * left <= p * Z * R * left
  <2>1. H * D * R - loss \in Int /\ p * Z * R \in Int
    OBVIOUS
  <2> HIDE DEF loss
  <2> QED BY <1>3, <2>1, TimesMonotone
<1>5. loss \in Nat /\ loss * left <= loss * H
  <2>1. loss \in Nat
    OBVIOUS
  <2> HIDE DEF loss
  <2> QED BY <2>1, TimesMonotone
<1>6. A * H = (q + 1) * H * Z * R - H * (R * Z) + H * D + loss * H
  OBVIOUS
<1>7. B * H = (H * D * R - loss) * left + loss * left
  OBVIOUS
<1>8. B * H <= A * H
  <2> DEFINE a1 == (q + 1) * H * Z * R
             a2 == H * (R * Z)
             a3 == H * D
             a4 == loss * H
             a5 == loss * left
             a6 == (H * D * R - loss) * left
             a7 == p * Z * R * left
  <2>1. a1 \in Int /\ a2 \in Int /\ a3 \in Int /\ a4 \in Int /\ a5 \in Int /\ a6 \in Int /\ a7 \in Int
    OBVIOUS
  <2>2. a7 <= a1 /\ a2 <= a3 /\ a6 <= a7 /\ a5 <= a4 /\ A * H = a1 - a2 + a3 + a4 /\ B * H = a6 + a5
    BY <1>1, <1>2, <1>4, <1>5, <1>6, <1>7
  <2> HIDE DEF a1, a2, a3, a4, a5, a6, a7, A, B, loss
  <2> QED BY <2>1, <2>2
<1>9. A \in Int /\ B \in Int
  OBVIOUS
<1> HIDE DEF A, B
<1>10. B <= A
  BY <1>8, <1>9, TimesCancel
<1> QED BY <1>10 DEF A, B

\* The members of a part are counted by a function that is 1 on them.
LEMMA SumCounts ==
    ASSUME NEW S, IsFiniteSet(S), NEW U \in SUBSET S, NEW c, \A y \in S : c[y] = IF y \in U THEN 1 ELSE 0
    PROVE  SumFunctionOnSet(c, S) = Cardinality(U) /\ Cardinality(U) \in Nat
<1> DEFINE P == {T \in SUBSET S : SumFunctionOnSet(c, T) = Cardinality(T \cap U)}
<1>1. \A y \in S : c[y] \in Int
  OBVIOUS
<1>2. {} \in P
  <2>1. {} \cap U = {} /\ Cardinality({}) = 0
    BY FS_EmptySet
  <2> QED BY <2>1, SumEmpty
<1>3. ASSUME NEW T \in SUBSET S, T \in P, NEW x \in S \ T PROVE T \cup {x} \in P
  <2>1. SumFunctionOnSet(c, T \cup {x}) = c[x] + SumFunctionOnSet(c, T)
    BY ONLY IsFiniteSet(S), <1>1, T \in SUBSET S, x \in S \ T, SumAdd
  <2>2. IsFiniteSet(T \cap U) /\ Cardinality(T \cap U) \in Nat
    BY FS_Subset, FS_CardinalityType
  <2>3. SumFunctionOnSet(c, T) = Cardinality(T \cap U)
    BY <1>3
  <2>4. CASE x \in U
    <3>1. (T \cup {x}) \cap U = (T \cap U) \cup {x} /\ x \notin T \cap U /\ c[x] = 1
      BY <2>4
    <3>2. Cardinality((T \cap U) \cup {x}) = Cardinality(T \cap U) + 1
      BY <2>2, <3>1, FS_AddElement
    <3>3. SumFunctionOnSet(c, T \cup {x}) = Cardinality((T \cup {x}) \cap U)
      <4>1. SumFunctionOnSet(c, T \cup {x}) = Cardinality(T \cap U) + 1
        BY <2>1, <2>2, <2>3, <3>1
      <4>2. Cardinality((T \cup {x}) \cap U) = Cardinality(T \cap U) + 1
        BY ONLY <3>1, <3>2
      <4> QED BY <4>1, <4>2
    <3> QED BY <3>3
  <2>5. CASE x \notin U
    <3>1. (T \cup {x}) \cap U = T \cap U /\ c[x] = 0
      BY <2>5
    <3>2. SumFunctionOnSet(c, T \cup {x}) = Cardinality((T \cup {x}) \cap U)
      BY <2>1, <2>2, <2>3, <3>1
    <3> QED BY <3>2
  <2> QED BY <2>4, <2>5
<1>4. S \in P
  BY <1>2, <1>3, FiniteInduction
<1>5. S \cap U = U /\ IsFiniteSet(U)
  BY FS_Subset
<1> QED BY <1>4, <1>5, FS_CardinalityType

\* A function that is zero but in one place sums up to what it is there.
LEMMA SumOfOne ==
    ASSUME NEW S, IsFiniteSet(S), NEW x \in S, NEW n \in Int, NEW f, \A y \in S : f[y] = IF y = x THEN n ELSE 0
    PROVE  SumFunctionOnSet(f, S) = n
<1>1. \A y \in S : f[y] \in Int
  OBVIOUS
<1>2. SumFunctionOnSet(f, S) = f[x] + SumFunctionOnSet(f, S \ {x})
  BY <1>1, SumTakeOut
<1>3. IsFiniteSet(S \ {x}) /\ \A y \in S \ {x} : f[y] = 0
  BY FS_Subset
<1>4. SumFunctionOnSet(f, S \ {x}) = 0
  BY ONLY <1>3, SumZero
<1> QED BY <1>2, <1>4
=============================================================================
