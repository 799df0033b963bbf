---------------------------- MODULE Sums_proofs ----------------------------
(***************************************************************************)
(* What a total is, for every finite set.  A total is a fold, that is, a   *)
(* recursive function over the subsets of the set; that there is such a    *)
(* function, and that the order it takes the elements in does not matter,  *)
(* is shown by induction.  The induction theorems of the library have an   *)
(* operator for a parameter; the two stated first have a set, and follow   *)
(* from the existence of minimal elements.                                 *)
(***************************************************************************)
EXTENDS Sums, FiniteSetTheorems, WellFoundedInduction, TLAPS

\* A set of numbers with 0 and with every successor holds all of them.
LEMMA NatSetInduction ==
  ASSUME NEW Q \in SUBSET Nat, 0 \in Q, \A n \in Q : n + 1 \in Q
  PROVE  Q = Nat
<1> SUFFICES ASSUME Nat \ Q # {} PROVE FALSE
  OBVIOUS
<1>1. PICK m \in Nat \ Q : \A k \in Nat \ Q : ~ (<<k, m>> \in OpToRel(<, Nat))
  BY NatLessThanWellFounded, WFMin, Zenon
<1>2. m - 1 \in Nat
  OBVIOUS
<1>3. <<m - 1, m>> \in OpToRel(<, Nat)
  <2>1. m - 1 < m
    BY <1>2
  <2> QED
    BY <1>2, <2>1, Zenon DEF OpToRel
<1>4. m - 1 \in Q
  BY <1>1, <1>2, <1>3, Zenon
<1> QED
  BY <1>4

\* A set of subsets of a finite set that holds every set whose proper subsets it
\* holds, holds them all.
LEMMA SubsetInduction ==
  ASSUME NEW S, IsFiniteSet(S), NEW Q \in SUBSET SUBSET S,
         \A T \in SUBSET S : (\A U \in SUBSET T : U # T => U \in Q) => T \in Q
  PROVE  Q = SUBSET S
<1> DEFINE R == StrictSubsetOrdering(S)
           Rest == (SUBSET S) \ Q
<1> SUFFICES ASSUME Rest # {} PROVE FALSE
  OBVIOUS
<1>1. IsWellFoundedOn(R, SUBSET S)
  <2>1. FiniteSubsetsOf(S) = SUBSET S
    BY FS_FiniteSubsetsOfFinite
  <2>2. IsWellFoundedOn(R, FiniteSubsetsOf(S))
    BY FS_StrictSubsetOrderingWellFounded
  <2> QED
    BY <2>1, <2>2
<1>2. PICK T \in Rest : \A U \in Rest : ~ (<<U, T>> \in R)
  <2>1. Rest \subseteq SUBSET S
    OBVIOUS
  <2> HIDE DEF R, Rest
  <2> QED BY <1>1, <2>1, WFMin
<1>3. ASSUME NEW U \in SUBSET T, U # T PROVE U \in Q
  <2>1. <<U, T>> \in R
    BY <1>3 DEF StrictSubsetOrdering
  <2> QED
    BY <2>1, <1>2
<1> QED
  BY <1>2, <1>3

-----------------------------------------------------------------------------

\* The element a sum takes first, the equation it satisfies, and the function that
\* Total picks.
Summand(T) == CHOOSE x \in T : TRUE
Step(f, g, T) == IF T = {} THEN 0 ELSE f[Summand(T)] + g[T \ {Summand(T)}]
Sums(f, S, g) == g = [T \in SUBSET S |-> Step(f, g, T)]
Sum(f, S) == CHOOSE g : Sums(f, S, g)

\* A total is the value of that function at the whole set.
LEMMA TotalIsChosen ==
  ASSUME NEW f, NEW S
  PROVE  Total(f, S) = Sum(f, S)[S]
  BY DEF Total, MapThenFoldSet, Sum, Sums, Step, Summand

\* A set that is not empty has a first element.
LEMMA SummandIn == ASSUME NEW T, T # {} PROVE Summand(T) \in T
  BY DEF Summand

\* The equation has a solution: one that holds for sets of up to n elements gives
\* one that holds for sets of up to n + 1.
LEMMA SumExists ==
  ASSUME NEW f, NEW S, IsFiniteSet(S)
  PROVE  Sums(f, S, Sum(f, S))
<1> DEFINE Upto(n, g) == \A T \in SUBSET S : Cardinality(T) <= n => g[T] = Step(f, g, T)
           Q == {n \in Nat : \E g : Upto(n, g)}
<1>0. \A T \in SUBSET S : /\ IsFiniteSet(T) /\ Cardinality(T) \in Nat
                          /\ Cardinality(T) = 0 <=> T = {}
  BY FS_Subset, FS_CardinalityType, FS_EmptySet
<1>1. 0 \in Q
  <2>1. ASSUME NEW T \in SUBSET S, Cardinality(T) <= 0 PROVE T = {}
    BY <1>0, <2>1
  <2>2. Upto(0, [T \in SUBSET S |-> 0])
    BY <2>1 DEF Step
  <2> QED
    BY <2>2
<1>2. ASSUME NEW n \in Q PROVE n + 1 \in Q
  <2>1. PICK g : Upto(n, g)
    OBVIOUS
  <2> DEFINE h == [T \in SUBSET S |-> Step(f, g, T)]
  <2>2. ASSUME NEW T \in SUBSET S, Cardinality(T) <= n + 1
        PROVE  h[T] = Step(f, h, T)
    <3>1. CASE T = {}
      BY <3>1 DEF Step
    <3>2. CASE T # {}
      <4> DEFINE U == T \ {Summand(T)}
      <4>1. U \in SUBSET S /\ Cardinality(U) = Cardinality(T) - 1
        BY <3>2, <1>0, SummandIn, FS_RemoveElement
      <4>2. Cardinality(U) <= n
        BY <4>1, <2>2, <1>0
      <4>3. h[U] = g[U]
        BY <2>1, <4>1, <4>2
      <4> QED
        BY <4>3, <3>2 DEF Step
    <3> QED BY <3>1, <3>2
  <2>3. Upto(n + 1, h)
    BY <2>2
  <2> HIDE DEF Upto
  <2> QED
    BY <2>3
<1>3. Q = Nat
  <2> HIDE DEF Q
  <2>1. Q \in SUBSET Nat
    BY DEF Q
  <2> QED BY <1>1, <1>2, <2>1, NatSetInduction
<1>4. PICK g : Upto(Cardinality(S), g)
  BY <1>3, <1>0
<1> DEFINE h == [T \in SUBSET S |-> Step(f, g, T)]
<1>5. ASSUME NEW T \in SUBSET S PROVE Step(f, g, T) = g[T] /\ h[T] = g[T]
  <2>1. Cardinality(T) <= Cardinality(S)
    BY FS_Subset
  <2> QED
    BY <2>1, <1>4
<1>6. ASSUME NEW T \in SUBSET S PROVE Step(f, h, T) = Step(f, g, T)
  <2>1. CASE T = {}
    BY <2>1 DEF Step
  <2>2. CASE T # {}
    BY <2>2, <1>5 DEF Step
  <2> QED BY <2>1, <2>2
<1>7. Sums(f, S, h)
  BY <1>6 DEF Sums
<1> HIDE DEF h
<1> QED
  BY <1>7 DEF Sum

\* The equation, at one set.
LEMMA SumStep ==
  ASSUME NEW f, NEW S, IsFiniteSet(S), NEW T \in SUBSET S
  PROVE  Sum(f, S)[T] = Step(f, Sum(f, S), T)
<1> DEFINE g == Sum(f, S)
<1>0. Sums(f, S, g)
  BY SumExists
<1> HIDE DEF g
<1>1. g = [U \in SUBSET S |-> Step(f, g, U)]
  BY <1>0 DEF Sums
<1>2. g[T] = Step(f, g, T)
  BY <1>1
<1> QED
  BY <1>2 DEF g

\* Two functions are summed alike over a set on which they agree, whatever larger
\* sets the sums are started from.
LEMMA SumsAgree ==
  ASSUME NEW f, NEW g, NEW S, NEW U, IsFiniteSet(S), IsFiniteSet(U),
         NEW T \in SUBSET (S \cap U), \A x \in T : f[x] = g[x]
  PROVE  Sum(f, S)[T] = Sum(g, U)[T]
<1> DEFINE Q == {X \in SUBSET T : Sum(f, S)[X] = Sum(g, U)[X]}
<1>1. ASSUME NEW X \in SUBSET T, \A Y \in SUBSET X : Y # X => Y \in Q
      PROVE  X \in Q
  <2>1. /\ Sum(f, S)[X] = Step(f, Sum(f, S), X)
        /\ Sum(g, U)[X] = Step(g, Sum(g, U), X)
    BY SumStep
  <2>2. CASE X = {}
    BY <2>1, <2>2 DEF Step
  <2>3. CASE X # {}
    <3>1. Summand(X) \in X
      BY <2>3, SummandIn
    <3>2. X \ {Summand(X)} \in Q
      BY <3>1, <1>1
    <3> QED
      BY <2>1, <2>3, <3>1, <3>2 DEF Step
  <2> QED
    BY <2>2, <2>3
<1>2. IsFiniteSet(T)
  BY FS_Subset
<1>3. Q = SUBSET T
  <2>1. Q \in SUBSET SUBSET T
    OBVIOUS
  <2> HIDE DEF Q
  <2> QED
    BY <1>1, <1>2, <2>1, SubsetInduction
<1> QED
  BY <1>3

-----------------------------------------------------------------------------

\* The total over no element.
LEMMA TotalOfNothing == ASSUME NEW f PROVE Total(f, {}) = 0
BY TotalIsChosen, SumStep, FS_EmptySet DEF Step

\* Equal summands have equal totals.
LEMMA TotalAgrees ==
  ASSUME NEW f, NEW g, NEW S, IsFiniteSet(S), \A x \in S : f[x] = g[x]
  PROVE  Total(f, S) = Total(g, S)
BY SumsAgree, TotalIsChosen

\* The equation, for totals.
LEMMA TotalStep ==
  ASSUME NEW f, NEW S, IsFiniteSet(S), S # {}
  PROVE  Total(f, S) = f[Summand(S)] + Total(f, S \ {Summand(S)})
<1> DEFINE U == S \ {Summand(S)}
<1>1. IsFiniteSet(U) /\ U \in SUBSET (S \cap U)
  BY FS_Subset
<1>2. Sum(f, S)[U] = Sum(f, U)[U]
  BY <1>1, SumsAgree
<1>3. Sum(f, S)[S] = f[Summand(S)] + Sum(f, S)[U]
  BY SumStep DEF Step
<1> QED
  BY <1>2, <1>3, TotalIsChosen

\* Integers have an integer total.
LEMMA TotalInt ==
  ASSUME NEW f, NEW S, IsFiniteSet(S), \A x \in S : f[x] \in Int
  PROVE  Total(f, S) \in Int
<1> DEFINE Q == {T \in SUBSET S : Total(f, T) \in Int}
<1>1. ASSUME NEW T \in SUBSET S, \A U \in SUBSET T : U # T => U \in Q
      PROVE  T \in Q
  <2>1. CASE T = {}
    BY <2>1, TotalOfNothing
  <2>2. CASE T # {}
    <3>1. Summand(T) \in T /\ IsFiniteSet(T)
      BY <2>2, SummandIn, FS_Subset
    <3>2. T \ {Summand(T)} \in Q /\ f[Summand(T)] \in Int
      BY <3>1, <1>1
    <3>3. Total(f, T) = f[Summand(T)] + Total(f, T \ {Summand(T)})
      BY <2>2, <3>1, TotalStep
    <3> QED
      BY <3>2, <3>3
  <2> QED
    BY <2>1, <2>2
<1>2. Q = SUBSET S
  <2>1. Q \in SUBSET SUBSET S
    OBVIOUS
  <2> HIDE DEF Q
  <2> QED
    BY <1>1, <2>1, SubsetInduction
<1> QED
  BY <1>2

\* A total is that of any one element and the rest.
LEMMA TotalSplit ==
  ASSUME NEW f, NEW S, IsFiniteSet(S), \A x \in S : f[x] \in Int, NEW a \in S
  PROVE  Total(f, S) = f[a] + Total(f, S \ {a})
<1> DEFINE Q == {T \in SUBSET S : \A b \in T : Total(f, T) = f[b] + Total(f, T \ {b})}
<1>1. ASSUME NEW T \in SUBSET S, \A U \in SUBSET T : U # T => U \in Q
      PROVE  T \in Q
  <2> SUFFICES ASSUME NEW b \in T PROVE Total(f, T) = f[b] + Total(f, T \ {b})
    OBVIOUS
  <2> DEFINE c == Summand(T)
             Both == T \ {b, c}
  <2>1. c \in T /\ IsFiniteSet(T)
    BY SummandIn, FS_Subset
  <2>2. Total(f, T) = f[c] + Total(f, T \ {c})
    BY <2>1, TotalStep
  <2>3. CASE b = c
    BY <2>2, <2>3
  <2>4. CASE b # c
    <3> HIDE DEF c
    <3>1. T \ {b} \in Q /\ T \ {c} \in Q
      BY <1>1, <2>1
    <3>2. c \in T \ {b} /\ b \in T \ {c}
      BY <2>1, <2>4
    <3>3. (T \ {b}) \ {c} = Both /\ (T \ {c}) \ {b} = Both
      OBVIOUS
    <3>4. Total(f, T \ {b}) = f[c] + Total(f, (T \ {b}) \ {c})
      BY <3>1, <3>2
    <3>5. Total(f, T \ {c}) = f[b] + Total(f, (T \ {c}) \ {b})
      BY <3>1, <3>2
    <3>6. Total(f, Both) \in Int
      BY <2>1, FS_Subset, TotalInt
    <3>7. f[b] \in Int /\ f[c] \in Int
      BY <2>1
    <3> HIDE DEF Both, Q
    <3> QED
      BY <2>2, <3>3, <3>4, <3>5, <3>6, <3>7
  <2> QED
    BY <2>3, <2>4
<1>2. Q = SUBSET S
  <2>1. Q \in SUBSET SUBSET S
    OBVIOUS
  <2> HIDE DEF Q
  <2> QED
    BY <1>1, <2>1, SubsetInduction
<1> QED
  BY <1>2

\* One more element adds its summand.
LEMMA TotalAdd ==
  ASSUME NEW f, NEW S, IsFiniteSet(S), NEW a, a \notin S,
         \A x \in S \cup {a} : f[x] \in Int
  PROVE  Total(f, S \cup {a}) = Total(f, S) + f[a]
<1>1. IsFiniteSet(S \cup {a}) /\ (S \cup {a}) \ {a} = S
  BY FS_AddElement
<1>2. Total(f, S \cup {a}) = f[a] + Total(f, S)
  BY <1>1, TotalSplit
<1> QED
  BY <1>2, TotalInt

\* A change of one summand changes the total by as much.
LEMMA TotalUpdate ==
  ASSUME NEW f, NEW g, NEW S, IsFiniteSet(S), NEW a \in S,
         \A x \in S : f[x] \in Int /\ g[x] \in Int,
         \A x \in S : x # a => g[x] = f[x]
  PROVE  Total(g, S) = Total(f, S) - f[a] + g[a]
<1>1. IsFiniteSet(S \ {a}) /\ Total(f, S \ {a}) \in Int
  BY FS_RemoveElement, TotalInt
<1>2. Total(g, S \ {a}) = Total(f, S \ {a})
  BY <1>1, TotalAgrees
<1>3. Total(f, S) = f[a] + Total(f, S \ {a}) /\ Total(g, S) = g[a] + Total(g, S \ {a})
  BY TotalSplit
<1>4. f[a] \in Int /\ g[a] \in Int
  OBVIOUS
<1> QED
  BY ONLY <1>1, <1>2, <1>3, <1>4

\* What one summand loses and another gains leaves the total alone, the same one
\* included.
LEMMA TotalMoved ==
  ASSUME NEW f, NEW g, NEW S, IsFiniteSet(S), NEW a \in S, NEW b \in S, NEW n \in Int,
         \A x \in S : f[x] \in Int /\ g[x] \in Int,
         \A x \in S : x # a /\ x # b => g[x] = f[x],
         a = b => g[a] = f[a],
         a # b => g[a] = f[a] - n /\ g[b] = f[b] + n
  PROVE  Total(g, S) = Total(f, S)
<1>1. CASE a = b
  BY <1>1, TotalAgrees
<1>2. CASE a # b
  <2> DEFINE R == S \ {a}
             U == R \ {b}
  <2>1. b \in R /\ IsFiniteSet(R) /\ IsFiniteSet(U)
    BY <1>2, FS_RemoveElement
  <2>2. Total(f, U) \in Int /\ Total(g, U) = Total(f, U)
    BY <2>1, TotalInt, TotalAgrees
  <2>3. Total(f, S) = f[a] + Total(f, R) /\ Total(g, S) = g[a] + Total(g, R)
    BY TotalSplit
  <2>4. Total(f, R) = f[b] + Total(f, U) /\ Total(g, R) = g[b] + Total(g, U)
    BY <2>1, TotalSplit
  <2>5. f[a] \in Int /\ f[b] \in Int /\ g[a] = f[a] - n /\ g[b] = f[b] + n
    BY <1>2
  <2> HIDE DEF U, R
  <2> QED
    BY <2>2, <2>3, <2>4, <2>5
<1> QED
  BY <1>1, <1>2

\* Sets without a common element add up.
LEMMA TotalUnion ==
  ASSUME NEW f, NEW S, IsFiniteSet(S), NEW U, IsFiniteSet(U), S \cap U = {},
         \A x \in S \cup U : f[x] \in Int
  PROVE  Total(f, S \cup U) = Total(f, S) + Total(f, U)
<1> DEFINE Q == {T \in SUBSET S : Total(f, T \cup U) = Total(f, T) + Total(f, U)}
<1>1. ASSUME NEW T \in SUBSET S, \A V \in SUBSET T : V # T => V \in Q
      PROVE  T \in Q
  <2>0. Total(f, U) \in Int
    BY TotalInt
  <2>1. CASE T = {}
    <3>1. T \cup U = U
      BY <2>1
    <3> QED
      BY <2>0, <2>1, <3>1, TotalOfNothing
  <2>2. CASE T # {}
    <3>1. PICK a \in T : TRUE
      BY <2>2
    <3> DEFINE V == T \ {a}
    <3>2. V \in Q /\ IsFiniteSet(T) /\ IsFiniteSet(V)
      BY <1>1, FS_Subset
    <3>3. IsFiniteSet(T \cup U) /\ (T \cup U) \ {a} = V \cup U
      BY <3>2, FS_Union
    <3>4. Total(f, T) = f[a] + Total(f, V)
      BY <3>2, TotalSplit
    <3>5. Total(f, T \cup U) = f[a] + Total(f, V \cup U)
      BY <3>3, TotalSplit
    <3>6. Total(f, V) \in Int /\ f[a] \in Int
      BY <3>2, TotalInt
    <3>7. Total(f, V \cup U) = Total(f, V) + Total(f, U)
      BY <3>2
    <3> HIDE DEF V
    <3> QED
      BY <2>0, <3>4, <3>5, <3>6, <3>7
  <2> QED
    BY <2>1, <2>2
<1>2. Q = SUBSET S
  <2>1. Q \in SUBSET SUBSET S
    OBVIOUS
  <2> HIDE DEF Q
  <2> QED
    BY <1>1, <2>1, SubsetInduction
<1> QED
  BY <1>2

\* Equal summands make a product.
LEMMA TotalOfConstant ==
  ASSUME NEW f, NEW S, IsFiniteSet(S), NEW n \in Int, \A x \in S : f[x] = n
  PROVE  Total(f, S) = Cardinality(S) * n
<1> DEFINE Q == {T \in SUBSET S : Total(f, T) = Cardinality(T) * n}
<1>1. ASSUME NEW T \in SUBSET S, \A V \in SUBSET T : V # T => V \in Q
      PROVE  T \in Q
  <2>1. CASE T = {}
    BY <2>1, TotalOfNothing, FS_EmptySet
  <2>2. CASE T # {}
    <3>1. PICK a \in T : TRUE
      BY <2>2
    <3> DEFINE V == T \ {a}
    <3>2. V \in Q /\ IsFiniteSet(T)
      BY <1>1, FS_Subset
    <3>3. Cardinality(V) = Cardinality(T) - 1 /\ Cardinality(T) \in Nat
      BY <3>2, FS_RemoveElement, FS_CardinalityType
    <3>4. Total(f, T) = n + Total(f, V)
      BY <3>2, TotalSplit
    <3>5. Total(f, V) = (Cardinality(T) - 1) * n
      BY <3>2, <3>3
    <3>6. \A k \in Int : n + (k - 1) * n = k * n
      OBVIOUS
    <3> QED
      BY <3>3, <3>4, <3>5, <3>6
  <2> QED
    BY <2>1, <2>2
<1>2. Q = SUBSET S
  <2>1. Q \in SUBSET SUBSET S
    OBVIOUS
  <2> HIDE DEF Q
  <2> QED
    BY <1>1, <2>1, SubsetInduction
<1> QED
  BY <1>2

\* What is zero need not be counted.
LEMMA TotalOfPart ==
  ASSUME NEW f, NEW S, IsFiniteSet(S), NEW T, T \subseteq S, \A x \in S : f[x] \in Int,
         \A x \in S : x \notin T => f[x] = 0
  PROVE  Total(f, S) = Total(f, T)
<1> DEFINE U == S \ T
<1>1. IsFiniteSet(T) /\ IsFiniteSet(U) /\ T \cap U = {} /\ T \cup U = S
  BY FS_Subset
<1>2. \A x \in T \cup U : f[x] \in Int
  BY <1>1
<1>3. \A x \in U : f[x] = 0
  OBVIOUS
<1> HIDE DEF U
<1>4. Total(f, T \cup U) = Total(f, T) + Total(f, U)
  BY <1>1, <1>2, TotalUnion
<1>5. Total(f, U) = Cardinality(U) * 0 /\ Cardinality(U) \in Nat
  BY <1>1, <1>3, TotalOfConstant, FS_CardinalityType
<1>6. Total(f, T) \in Int
  BY <1>1, <1>2, TotalInt
<1>7. Total(f, S) = Total(f, T) + Total(f, U)
  BY <1>1, <1>4
<1> QED
  BY ONLY <1>5, <1>6, <1>7

\* Natural numbers have a natural total.
LEMMA TotalNat ==
  ASSUME NEW f, NEW S, IsFiniteSet(S), \A x \in S : f[x] \in Nat
  PROVE  Total(f, S) \in Nat
<1> DEFINE Q == {T \in SUBSET S : Total(f, T) \in Nat}
<1>1. ASSUME NEW T \in SUBSET S, \A V \in SUBSET T : V # T => V \in Q
      PROVE  T \in Q
  <2>1. CASE T = {}
    BY <2>1, TotalOfNothing
  <2>2. CASE T # {}
    <3>1. PICK a \in T : TRUE
      BY <2>2
    <3>2. T \ {a} \in Q /\ IsFiniteSet(T)
      BY <1>1, FS_Subset
    <3>3. Total(f, T) = f[a] + Total(f, T \ {a})
      BY <3>2, TotalSplit
    <3> QED
      BY <3>2, <3>3
  <2> QED
    BY <2>1, <2>2
<1>2. Q = SUBSET S
  <2>1. Q \in SUBSET SUBSET S
    OBVIOUS
  <2> HIDE DEF Q
  <2> QED
    BY <1>1, <2>1, SubsetInduction
<1> QED
  BY <1>2

\* No natural summand exceeds the total.
LEMMA TotalBounds ==
  ASSUME NEW f, NEW S, IsFiniteSet(S), \A x \in S : f[x] \in Nat, NEW a \in S
  PROVE  f[a] <= Total(f, S)
<1>1. IsFiniteSet(S \ {a}) /\ Total(f, S \ {a}) \in Nat
  BY FS_RemoveElement, TotalNat
<1>2. Total(f, S) = f[a] + Total(f, S \ {a})
  BY TotalSplit
<1> QED
  BY <1>1, <1>2

\* Summands counted under other names add up to the same.
LEMMA TotalImage ==
  ASSUME NEW f, NEW g, NEW S, NEW T, NEW h, IsFiniteSet(S),
         \A x \in S : f[x] \in Int /\ h[x] \in T /\ g[h[x]] = f[x],
         \A x \in S, y \in S : h[x] = h[y] => x = y,
         \A y \in T : \E x \in S : h[x] = y
  PROVE  Total(g, T) = Total(f, S)
<1> DEFINE Image(X) == {h[x] : x \in X}
           Q == {X \in SUBSET S : IsFiniteSet(Image(X)) /\ Total(g, Image(X)) = Total(f, X)}
<1>1. ASSUME NEW X \in SUBSET S, \A V \in SUBSET X : V # X => V \in Q
      PROVE  X \in Q
  <2>1. CASE X = {}
    <3>1. Image(X) = {}
      BY <2>1
    <3>2. IsFiniteSet(Image(X)) /\ Total(g, Image(X)) = Total(f, X)
      BY <2>1, <3>1, FS_EmptySet, TotalOfNothing
    <3> QED
      BY <3>2
  <2>2. CASE X # {}
    <3>1. PICK a \in X : TRUE
      BY <2>2
    <3> DEFINE V == X \ {a}
    <3>2. V \in Q
      BY <1>1, <3>1
    <3>3. IsFiniteSet(X) /\ \A x \in X : f[x] \in Int
      BY FS_Subset
    <3>4. Total(f, X) = f[a] + Total(f, V)
      BY <3>1, <3>3, TotalSplit
    <3>5. Image(X) = Image(V) \cup {h[a]} /\ h[a] \notin Image(V)
      BY <3>1
    <3>6. \A y \in Image(V) \cup {h[a]} : g[y] \in Int
      BY <3>1
    <3>7. IsFiniteSet(Image(V)) /\ Total(g, Image(V)) = Total(f, V) /\ Total(f, V) \in Int
      <4>1. IsFiniteSet(V) /\ \A x \in V : f[x] \in Int
        BY <3>3, FS_Subset
      <4>2. Total(f, V) \in Int
        BY <4>1, TotalInt
      <4> QED
        BY <3>2, <4>2
    <3>8. IsFiniteSet(Image(X))
      <4> DEFINE I == Image(V)
      <4> HIDE DEF I, Image, V
      <4>1. IsFiniteSet(I \cup {h[a]})
        BY <3>7, FS_AddElement DEF I
      <4> QED
        BY <3>5, <4>1 DEF I
    <3>9. Total(g, Image(X)) = Total(g, Image(V)) + g[h[a]]
      <4> DEFINE I == Image(V)
      <4> HIDE DEF I, Image, V
      <4>1. Total(g, I \cup {h[a]}) = Total(g, I) + g[h[a]]
        BY <3>5, <3>6, <3>7, TotalAdd DEF I
      <4> QED
        BY <3>5, <4>1 DEF I
    <3>10. g[h[a]] = f[a] /\ f[a] \in Int
      BY <3>1
    <3> HIDE DEF Image, V
    <3>11. Total(g, Image(X)) = Total(f, X)
      BY <3>4, <3>7, <3>9, <3>10
    <3> QED
      BY <3>8, <3>11
  <2> QED
    BY <2>1, <2>2
<1>2. Q = SUBSET S
  <2> HIDE DEF Q
  <2>1. Q \in SUBSET SUBSET S
    BY DEF Q
  <2> QED
    BY <1>1, <2>1, SubsetInduction
<1>3. S \in Q
  BY <1>2
<1>4. Image(S) = T
  OBVIOUS
<1> QED
  BY <1>3, <1>4
=============================================================================
