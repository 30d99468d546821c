---------------------------- MODULE TicketSaleProofs ----------------------------
(***************************************************************************)
(* What the values of TicketSale may be, over any number of brackets and   *)
(* sales, whatever is lost and however often the process stops; with the   *)
(* sums over finite sets it counts with, the few things a check of a       *)
(* bracket can come to there (StepShape), which the proofs about shares    *)
(* rest on, and that no bracket's shares are left with neither an exit nor *)
(* a sale (NeverNeither).                                                  *)
(***************************************************************************)
EXTENDS TicketSale, FiniteSetTheorems, WellFoundedInduction, TLAPS

USE RulesAssumption, SaleAssumption

------------------------------------------------------------------------------
(* Sums over finite sets. *)

\* A set of numbers has a least one.
LEMMA Least ==
  ASSUME NEW S \in SUBSET Nat, S # {}
  PROVE  \E n \in S : \A m \in S : n <= m
<1> DEFINE R == {p \in Nat \X Nat : p[1] < p[2]}
<1>1. IsWellFoundedOn(R, Nat)
  <2>1. R = OpToRel(<, Nat)
    BY DEF OpToRel
  <2> QED BY <2>1, NatLessThanWellFounded
<1> HIDE DEF R
<1>2. PICK x \in S : \A y \in S : ~(<<y, x>> \in R)
  BY <1>1, WFMin
<1>3. \A y \in S : x <= y
  <2> SUFFICES ASSUME NEW y \in S PROVE x <= y
    OBVIOUS
  <2>1. x \in Nat /\ y \in Nat
    OBVIOUS
  <2>2. ~(y < x)
    BY <1>2, <2>1 DEF R
  <2> QED BY <2>1, <2>2
<1> QED BY <1>3

\* Among sets of members of a finite set there is one that no other is a part of.
LEMMA SmallestSet ==
  ASSUME NEW S, IsFiniteSet(S), NEW P \in SUBSET SUBSET S, P # {}
  PROVE  \E U \in P : IsFiniteSet(U) /\ \A V \in SUBSET U : V # U => V \notin P
<1> DEFINE N == {Cardinality(U) : U \in P}
<1>1. \A U \in SUBSET S : IsFiniteSet(U) /\ Cardinality(U) \in Nat
  BY FS_Subset, FS_CardinalityType
<1>2. N \in SUBSET Nat /\ N # {}
  BY <1>1
<1>3. PICK n \in N : \A m \in N : n <= m
  BY <1>2, Least
<1>4. PICK U \in P : Cardinality(U) = n
  OBVIOUS
<1>5. ASSUME NEW V \in SUBSET U, V # U PROVE V \notin P
  <2>1. Cardinality(V) < Cardinality(U)
    BY <1>1, <1>5, FS_Subset
  <2>2. V \in P => n <= Cardinality(V)
    BY <1>3
  <2>3. Cardinality(V) \in Nat
    BY <1>1
  <2> QED BY <1>1, <1>2, <1>4, <2>1, <2>2, <2>3
<1> QED BY <1>1, <1>4, <1>5

------------------------------------------------------------------------------
Body(f, g, T) == IF T = {} THEN 0 ELSE LET x == CHOOSE x \in T : TRUE IN f[x] + g[T \ {x}]
Adds(f, g, S) == g = [T \in SUBSET S |-> Body(f, g, T)]

\* The sum is the function the fold of the community modules chooses, at the whole set.
LEMMA SumIs == ASSUME NEW f, NEW S PROVE SumOf(f, S) = (CHOOSE g : Adds(f, g, S))[S]
BY DEF SumOf, MapThenSumSet, MapThenFoldSet, Adds, Body

\* Two such functions agree on every set they both sum over: there is one of them.
LEMMA AddsOne ==
  ASSUME NEW f, NEW g, NEW h, NEW S, NEW T, IsFiniteSet(S), Adds(f, g, S), Adds(f, h, T)
  PROVE  \A U \in (SUBSET S) \cap (SUBSET T) : g[U] = h[U]
<1> DEFINE P == {U \in (SUBSET S) \cap (SUBSET T) : g[U] # h[U]}
<1> SUFFICES ASSUME P # {} PROVE FALSE
  OBVIOUS
<1>1. P \in SUBSET SUBSET S
  OBVIOUS
<1>2. PICK U \in P : \A V \in SUBSET U : V # U => V \notin P
  <2> HIDE DEF P
  <2> QED BY <1>1, SmallestSet
<1>3. g[U] = Body(f, g, U) /\ h[U] = Body(f, h, U)
  BY DEF Adds
<1>4. CASE U = {}
  BY <1>3, <1>4 DEF Body
<1>5. CASE U # {}
  <2> DEFINE x == CHOOSE x \in U : TRUE
  <2>1. x \in U
    BY <1>5
  <2>2. g[U \ {x}] = h[U \ {x}]
    BY <1>2, <2>1
  <2> QED BY <1>3, <1>5, <2>2 DEF Body
<1> QED BY <1>4, <1>5

\* The sum is defined: there is a function that adds.
LEMMA AddsDefined ==
  ASSUME NEW f, NEW S, IsFiniteSet(S)
  PROVE  \E g : Adds(f, g, S)
<1> DEFINE P == {T \in SUBSET S : \A g : ~Adds(f, g, T)}
<1> SUFFICES ASSUME P # {} PROVE FALSE
  OBVIOUS
<1>1. P \in SUBSET SUBSET S
  OBVIOUS
<1>2. PICK U \in P : IsFiniteSet(U) /\ \A V \in SUBSET U : V # U => V \notin P
  <2> HIDE DEF P
  <2> QED BY <1>1, SmallestSet
<1> DEFINE W(T) == (CHOOSE g : Adds(f, g, T))[T]
           h == [T \in SUBSET U |-> IF T = {} THEN 0 ELSE f[CHOOSE x \in T : TRUE] + W(T \ {CHOOSE x \in T : TRUE})]
<1>3. ASSUME NEW V \in SUBSET U, V # U
      PROVE  \A T \in SUBSET V : (CHOOSE g : Adds(f, g, V))[T] = W(T)
  <2> DEFINE k(T) == CHOOSE g : Adds(f, g, T)
  <2>1. ASSUME NEW T \in SUBSET V PROVE Adds(f, k(T), T)
    <3>1. T \notin P
      BY <1>2, <1>3
    <3> QED BY <3>1
  <2>2. Adds(f, k(V), V) /\ IsFiniteSet(V)
    BY <2>1, <1>2, FS_Subset
  <2> HIDE DEF k
  <2>3. ASSUME NEW T \in SUBSET V PROVE k(V)[T] = k(T)[T]
    BY <2>1, <2>2, AddsOne
  <2> QED BY <2>3 DEF k
<1>4. ASSUME NEW V \in SUBSET U, V # U PROVE W(V) = h[V]
  <2> DEFINE k == CHOOSE g : Adds(f, g, V)
  <2>1. Adds(f, k, V)
    BY <1>2, <1>4
  <2>2. \A T \in SUBSET V : k[T] = W(T)
    BY <1>3, <1>4
  <2> HIDE DEF k, W
  <2>3. W(V) = Body(f, k, V)
    BY <2>1, <2>2 DEF Adds
  <2>4. V # {} => k[V \ {CHOOSE x \in V : TRUE}] = W(V \ {CHOOSE x \in V : TRUE})
    BY <2>2
  <2> QED BY <2>3, <2>4 DEF Body
<1> HIDE DEF W
<1>5. Adds(f, h, U)
  <2>1. ASSUME NEW T \in SUBSET U PROVE h[T] = Body(f, h, T)
    <3>1. CASE T = {}
      BY <3>1 DEF Body
    <3>2. CASE T # {}
      <4> DEFINE x == CHOOSE x \in T : TRUE
      <4>1. x \in T
        BY <3>2
      <4> HIDE DEF x
      <4>2. W(T \ {x}) = h[T \ {x}]
        BY <4>1, <1>4
      <4>3. h[T] = f[x] + W(T \ {x})
        BY <3>2 DEF x
      <4>4. Body(f, h, T) = f[x] + h[T \ {x}]
        BY <3>2 DEF x, Body
      <4> QED BY <4>2, <4>3, <4>4
    <3> QED BY <3>1, <3>2
  <2>2. h = [T \in SUBSET U |-> h[T]]
    OBVIOUS
  <2> HIDE DEF h
  <2>3. [T \in SUBSET U |-> h[T]] = [T \in SUBSET U |-> Body(f, h, T)]
    BY <2>1
  <2> QED BY <2>2, <2>3 DEF Adds
<1> QED BY <1>5, <1>2

\* Without the member first taken.
LEMMA SumUnfolds ==
  ASSUME NEW f, NEW S, IsFiniteSet(S)
  PROVE  SumOf(f, S) = IF S = {} THEN 0 ELSE LET x == CHOOSE x \in S : TRUE IN f[x] + SumOf(f, S \ {x})
<1> DEFINE g(T) == CHOOSE g : Adds(f, g, T)
           x == CHOOSE x \in S : TRUE
<1>1. \A T \in SUBSET S : IsFiniteSet(T) /\ Adds(f, g(T), T) /\ SumOf(f, T) = g(T)[T]
  BY AddsDefined, FS_Subset, SumIs
<1> HIDE DEF g, x
<1>2. SumOf(f, S) = Body(f, g(S), S)
  BY <1>1 DEF Adds
<1>3. g(S)[S \ {x}] = g(S \ {x})[S \ {x}]
  BY <1>1, AddsOne
<1> QED BY <1>1, <1>2, <1>3 DEF Body, x

\* The sum over nothing is 0.
LEMMA SumNone == ASSUME NEW f PROVE SumOf(f, {}) = 0
BY SumUnfolds, FS_EmptySet

\* A sum of integers is an integer.
LEMMA SumType ==
  ASSUME NEW f, NEW S, IsFiniteSet(S), \A x \in S : f[x] \in Int
  PROVE  SumOf(f, S) \in Int
<1> DEFINE P == {T \in SUBSET S : SumOf(f, T) \notin Int}
<1> SUFFICES ASSUME P # {} PROVE FALSE
  OBVIOUS
<1>1. PICK U \in P : IsFiniteSet(U) /\ \A V \in SUBSET U : V # U => V \notin P
  <2>1. P \in SUBSET SUBSET S
    OBVIOUS
  <2> HIDE DEF P
  <2> QED BY <2>1, SmallestSet
<1>2. U # {}
  BY SumNone
<1> DEFINE x == CHOOSE x \in U : TRUE
<1>3. x \in U
  BY <1>2
<1> HIDE DEF x
<1>4. SumOf(f, U \ {x}) \in Int
  BY <1>1, <1>3
<1>5. SumOf(f, U) = f[x] + SumOf(f, U \ {x})
  BY <1>1, <1>2, SumUnfolds DEF x
<1> QED BY <1>3, <1>4, <1>5

\* Any member may be taken first.
LEMMA SumWithout ==
  ASSUME NEW f, NEW S, IsFiniteSet(S), \A x \in S : f[x] \in Int, NEW a \in S
  PROVE  SumOf(f, S) = f[a] + SumOf(f, S \ {a})
<1> DEFINE P == {T \in SUBSET S : \E b \in T : SumOf(f, T) # f[b] + SumOf(f, T \ {b})}
<1> SUFFICES ASSUME P # {} PROVE FALSE
  OBVIOUS
<1>1. PICK U \in P : IsFiniteSet(U) /\ \A V \in SUBSET U : V # U => V \notin P
  <2>1. P \in SUBSET SUBSET S
    OBVIOUS
  <2> HIDE DEF P
  <2> QED BY <2>1, SmallestSet
<1>2. PICK b \in U : SumOf(f, U) # f[b] + SumOf(f, U \ {b})
  OBVIOUS
<1> DEFINE x == CHOOSE x \in U : TRUE
<1>3. x \in U
  BY <1>2
<1> HIDE DEF x
<1>4. SumOf(f, U) = f[x] + SumOf(f, U \ {x})
  BY <1>1, <1>2, SumUnfolds DEF x
<1>5. x # b
  BY <1>2, <1>4
<1>6. SumOf(f, U \ {x}) = f[b] + SumOf(f, (U \ {x}) \ {b})
  BY <1>1, <1>3, <1>5
<1>7. SumOf(f, U \ {b}) = f[x] + SumOf(f, (U \ {b}) \ {x})
  BY <1>1, <1>3, <1>5
<1>8. SumOf(f, (U \ {x}) \ {b}) = SumOf(f, (U \ {b}) \ {x})
  <2>1. (U \ {x}) \ {b} = (U \ {b}) \ {x}
    OBVIOUS
  <2> QED BY <2>1, Zenon
<1>9. SumOf(f, (U \ {b}) \ {x}) \in Int
  BY SumType, <1>1, FS_Subset
<1>10. f[x] \in Int /\ f[b] \in Int
  BY <1>2, <1>3
<1> QED BY <1>2, <1>4, <1>6, <1>7, <1>8, <1>9, <1>10

\* Two sums compared: member by member.
LEMMA SumLeq ==
  ASSUME NEW f, NEW g, NEW S, IsFiniteSet(S), \A x \in S : f[x] \in Int /\ g[x] \in Int /\ f[x] <= g[x]
  PROVE  SumOf(f, S) <= SumOf(g, S)
<1> DEFINE P == {T \in SUBSET S : ~(SumOf(f, T) <= SumOf(g, T))}
<1> SUFFICES ASSUME P # {} PROVE FALSE
  OBVIOUS
<1>1. PICK U \in P : IsFiniteSet(U) /\ \A V \in SUBSET U : V # U => V \notin P
  <2>1. P \in SUBSET SUBSET S
    OBVIOUS
  <2> HIDE DEF P
  <2> QED BY <2>1, SmallestSet
<1>2. U # {}
  BY SumNone
<1>3. PICK a \in U : TRUE
  BY <1>2
<1>4. SumOf(f, U) = f[a] + SumOf(f, U \ {a}) /\ SumOf(g, U) = g[a] + SumOf(g, U \ {a})
  BY <1>1, SumWithout
<1>5. SumOf(f, U \ {a}) <= SumOf(g, U \ {a})
  BY <1>1
<1>6. SumOf(f, U \ {a}) \in Int /\ SumOf(g, U \ {a}) \in Int
  BY <1>1, SumType, FS_Subset
<1>7. f[a] \in Int /\ g[a] \in Int /\ f[a] <= g[a]
  OBVIOUS
<1>8. SumOf(f, U) <= SumOf(g, U)
  BY <1>4, <1>5, <1>6, <1>7
<1> QED BY <1>8

\* A sum is of the values alone: functions that agree on the set have the same.
LEMMA SumSame ==
  ASSUME NEW f, NEW g, NEW S, IsFiniteSet(S), \A x \in S : f[x] \in Int /\ g[x] = f[x]
  PROVE  SumOf(g, S) = SumOf(f, S)
<1>1. SumOf(f, S) <= SumOf(g, S) /\ SumOf(g, S) <= SumOf(f, S)
  <2>1. \A x \in S : f[x] \in Int /\ g[x] \in Int /\ f[x] <= g[x] /\ g[x] <= f[x]
    OBVIOUS
  <2> QED BY <2>1, SumLeq
<1>2. SumOf(f, S) \in Int /\ SumOf(g, S) \in Int
  BY SumType
<1> QED BY <1>1, <1>2

\* One member changed.
LEMMA SumChanged ==
  ASSUME NEW f, NEW g, NEW S, IsFiniteSet(S), NEW a \in S, g[a] \in Int,
         \A x \in S : f[x] \in Int /\ (x # a => g[x] = f[x])
  PROVE  SumOf(g, S) = SumOf(f, S) + (g[a] - f[a])
<1>1. \A x \in S : g[x] \in Int
  OBVIOUS
<1>2. SumOf(f, S) = f[a] + SumOf(f, S \ {a}) /\ SumOf(g, S) = g[a] + SumOf(g, S \ {a})
  BY <1>1, SumWithout
<1>3. SumOf(g, S \ {a}) = SumOf(f, S \ {a}) /\ SumOf(f, S \ {a}) \in Int
  BY SumSame, SumType, FS_Subset
<1>4. f[a] \in Int
  OBVIOUS
<1> QED BY <1>2, <1>3, <1>4

\* Sums added.
LEMMA SumPlus ==
  ASSUME NEW f, NEW g, NEW h, NEW S, IsFiniteSet(S),
         \A x \in S : f[x] \in Int /\ g[x] \in Int /\ h[x] = f[x] + g[x]
  PROVE  SumOf(h, S) = SumOf(f, S) + SumOf(g, S)
<1> DEFINE P == {T \in SUBSET S : SumOf(h, T) # SumOf(f, T) + SumOf(g, T)}
<1> SUFFICES ASSUME P # {} PROVE FALSE
  OBVIOUS
<1>1. PICK U \in P : IsFiniteSet(U) /\ \A V \in SUBSET U : V # U => V \notin P
  <2>1. P \in SUBSET SUBSET S
    OBVIOUS
  <2> HIDE DEF P
  <2> QED BY <2>1, SmallestSet
<1>2. U # {}
  <2>1. SumOf(h, {}) = SumOf(f, {}) + SumOf(g, {})
    BY SumNone
  <2> QED BY <2>1
<1>3. PICK a \in U : TRUE
  BY <1>2
<1>4. SumOf(f, U) = f[a] + SumOf(f, U \ {a}) /\ SumOf(g, U) = g[a] + SumOf(g, U \ {a})
  BY <1>1, SumWithout
<1>5. SumOf(h, U) = h[a] + SumOf(h, U \ {a})
  BY <1>1, SumWithout
<1>6. SumOf(h, U \ {a}) = SumOf(f, U \ {a}) + SumOf(g, U \ {a})
  BY <1>1
<1>7. SumOf(f, U \ {a}) \in Int /\ SumOf(g, U \ {a}) \in Int
  BY <1>1, SumType, FS_Subset
<1>8. f[a] \in Int /\ g[a] \in Int /\ h[a] = f[a] + g[a]
  OBVIOUS
<1>9. SumOf(h, U) = SumOf(f, U) + SumOf(g, U)
  BY <1>4, <1>5, <1>6, <1>7, <1>8
<1> QED BY <1>9

\* Every member the same.
LEMMA SumConstant ==
  ASSUME NEW f, NEW S, IsFiniteSet(S), NEW c \in Int, \A x \in S : f[x] = c
  PROVE  SumOf(f, S) = c * Cardinality(S)
<1> DEFINE P == {T \in SUBSET S : SumOf(f, T) # c * Cardinality(T)}
<1> SUFFICES ASSUME P # {} PROVE FALSE
  OBVIOUS
<1>1. PICK U \in P : IsFiniteSet(U) /\ \A V \in SUBSET U : V # U => V \notin P
  <2>1. P \in SUBSET SUBSET S
    OBVIOUS
  <2> HIDE DEF P
  <2> QED BY <2>1, SmallestSet
<1>2. U # {}
  <2>1. SumOf(f, {}) = c * Cardinality({})
    BY SumNone, FS_EmptySet
  <2> QED BY <2>1
<1>3. PICK a \in U : TRUE
  BY <1>2
<1>4. SumOf(f, U) = c + SumOf(f, U \ {a})
  BY <1>1, SumWithout
<1>5. SumOf(f, U \ {a}) = c * Cardinality(U \ {a})
  BY <1>1
<1>6. Cardinality(U \ {a}) = Cardinality(U) - 1 /\ Cardinality(U) \in Nat
  BY <1>1, FS_RemoveElement, FS_CardinalityType
<1>7. SumOf(f, U) = c * Cardinality(U)
  <2>1. \A n \in Nat : c + c * (n - 1) = c * n
    OBVIOUS
  <2> QED BY <1>4, <1>5, <1>6, <2>1
<1> QED BY <1>7

\* Members that add nothing.
LEMMA SumOfPart ==
  ASSUME NEW f, NEW S, IsFiniteSet(S), NEW T \in SUBSET S, \A x \in S : f[x] \in Int,
         \A x \in S \ T : f[x] = 0
  PROVE  SumOf(f, S) = SumOf(f, T)
<1> DEFINE P == {V \in SUBSET S : SumOf(f, V) # SumOf(f, V \cap T)}
<1> SUFFICES ASSUME P # {} PROVE FALSE
  <2>1. S \notin P
    OBVIOUS
  <2> QED BY <2>1
<1>1. PICK U \in P : IsFiniteSet(U) /\ \A V \in SUBSET U : V # U => V \notin P
  <2>1. P \in SUBSET SUBSET S
    OBVIOUS
  <2> HIDE DEF P
  <2> QED BY <2>1, SmallestSet
<1>2. PICK a \in U : a \notin T
  <2>1. U # U \cap T
    OBVIOUS
  <2> QED BY <2>1
<1>3. SumOf(f, U) = f[a] + SumOf(f, U \ {a})
  BY <1>1, SumWithout
<1>4. SumOf(f, U \ {a}) = SumOf(f, (U \ {a}) \cap T)
  BY <1>1
<1>5. SumOf(f, (U \ {a}) \cap T) = SumOf(f, U \cap T)
  <2>1. (U \ {a}) \cap T = U \cap T
    BY <1>2
  <2> QED BY <2>1, Zenon
<1>6. SumOf(f, U \cap T) \in Int
  BY <1>1, SumType, FS_Subset
<1>7. f[a] = 0
  BY <1>2
<1>8. SumOf(f, U) = SumOf(f, U \cap T)
  BY <1>3, <1>4, <1>5, <1>6, <1>7
<1> QED BY <1>8

\* Of members that are never less than nothing, a part is never more than the whole.
LEMMA SumPart ==
  ASSUME NEW f, NEW S, IsFiniteSet(S), \A x \in S : f[x] \in Int /\ f[x] >= 0, NEW T \in SUBSET S
  PROVE  SumOf(f, T) <= SumOf(f, S) /\ SumOf(f, S) >= 0
<1> DEFINE g == [x \in S |-> IF x \in T THEN f[x] ELSE 0]
<1>1. SumOf(g, S) = SumOf(g, T)
  <2>1. \A x \in S : g[x] \in Int /\ (x \in S \ T => g[x] = 0)
    OBVIOUS
  <2> HIDE DEF g
  <2> QED BY <2>1, SumOfPart
<1>2. SumOf(g, T) = SumOf(f, T)
  <2>1. IsFiniteSet(T) /\ \A x \in T : f[x] \in Int /\ g[x] = f[x]
    BY FS_Subset
  <2> HIDE DEF g
  <2> QED BY <2>1, SumSame
<1>3. SumOf(g, S) <= SumOf(f, S)
  <2>1. \A x \in S : g[x] \in Int /\ f[x] \in Int /\ g[x] <= f[x]
    OBVIOUS
  <2> HIDE DEF g
  <2> QED BY <2>1, SumLeq
<1>4. SumOf(f, S) >= 0
  <2> DEFINE z == [x \in S |-> 0]
  <2>1. SumOf(z, S) = 0 * Cardinality(S) /\ Cardinality(S) \in Nat
    <3>1. \A x \in S : z[x] = 0
      OBVIOUS
    <3> HIDE DEF z
    <3>2. SumOf(z, S) = 0 * Cardinality(S)
      BY <3>1, 0 \in Int, SumConstant
    <3> QED BY <3>2, FS_CardinalityType
  <2>2. \A x \in S : z[x] \in Int /\ f[x] \in Int /\ z[x] <= f[x]
    OBVIOUS
  <2> HIDE DEF z
  <2>3. SumOf(z, S) <= SumOf(f, S)
    BY <2>2, SumLeq
  <2>4. SumOf(f, S) \in Int
    BY SumType
  <2> QED BY <2>1, <2>3, <2>4
<1> HIDE DEF g
<1> QED BY <1>1, <1>2, <1>3, <1>4

\* A finite set of numbers has a greatest one.
LEMMA Greatest ==
  ASSUME NEW S \in SUBSET Nat, IsFiniteSet(S), S # {}
  PROVE  \E n \in S : \A m \in S : m <= n
<1> DEFINE Has(T) == \E n \in T : \A m \in T : m <= n
           P == {T \in SUBSET S : T # {} /\ ~Has(T)}
<1> SUFFICES ASSUME P # {} PROVE FALSE
  OBVIOUS
<1>1. PICK U \in P : IsFiniteSet(U) /\ \A V \in SUBSET U : V # U => V \notin P
  <2>1. P \in SUBSET SUBSET S
    OBVIOUS
  <2> HIDE DEF P
  <2> QED BY <2>1, SmallestSet
<1>2. PICK a \in U : TRUE
  OBVIOUS
<1>3. a \in Nat /\ U \subseteq Nat /\ ~Has(U)
  OBVIOUS
<1>4. CASE U = {a}
  <2>1. Has(U)
    BY <1>3, <1>4
  <2> QED BY <2>1, <1>3
<1>5. CASE U # {a}
  <2>1. U \ {a} # {} /\ U \ {a} \in SUBSET S /\ U \ {a} \notin P
    <3>1. U \ {a} # {} /\ U \ {a} # U /\ U \ {a} \in SUBSET U /\ U \in SUBSET S
      BY <1>2, <1>5
    <3> QED BY <1>1, <3>1
  <2>2. PICK n \in U \ {a} : \A m \in U \ {a} : m <= n
    BY <2>1
  <2>3. n \in Nat
    BY <1>3
  <2>4. Has(U)
    <3>1. CASE a <= n
      BY <2>2, <3>1
    <3>2. CASE ~(a <= n)
      <4>1. \A m \in U : m <= a
        BY <1>3, <2>2, <2>3, <3>2
      <4> QED BY <4>1, <1>2
    <3> QED BY <3>1, <3>2
  <2> QED BY <2>4, <1>3
<1> QED BY <1>4, <1>5

\* Taking from one member after another, from each no more than is still wanted, takes all
\* that is wanted or all there is.
LEMMA Greedy ==
  ASSUME NEW G \in SUBSET Nat, IsFiniteSet(G), NEW q, \A x \in G : q[x] \in Int /\ q[x] >= 0,
         NEW n \in Nat, NEW f,
         \A x \in G : LET left == n - SumOf(q, {c \in G : c < x})
                      IN  f[x] = IF left > 0 THEN AtMost(q[x], left) ELSE 0
  PROVE  SumOf(f, G) = AtMost(n, SumOf(q, G))
<1> DEFINE Under(D) == \A x \in D : \A c \in G : c < x => c \in D
           P == {D \in SUBSET G : Under(D) /\ SumOf(f, D) # AtMost(n, SumOf(q, D))}
<1> SUFFICES ASSUME P # {} PROVE FALSE
  <2>1. G \notin P /\ Under(G)
    OBVIOUS
  <2> QED BY <2>1
<1>1. PICK U \in P : IsFiniteSet(U) /\ \A V \in SUBSET U : V # U => V \notin P
  <2>1. P \in SUBSET SUBSET G
    OBVIOUS
  <2> HIDE DEF P
  <2> QED BY <2>1, SmallestSet
<1>2. U \in SUBSET G /\ Under(U) /\ SumOf(f, U) # AtMost(n, SumOf(q, U))
  OBVIOUS
<1>3. U # {}
  <2>1. SumOf(f, {}) = AtMost(n, SumOf(q, {}))
    BY SumNone DEF AtMost
  <2> QED BY <2>1, <1>2
<1>4. PICK a \in U : \A m \in U : m <= a
  BY <1>1, <1>2, <1>3, Greatest
<1> DEFINE R == U \ {a}
           left == n - SumOf(q, R)
<1>5. {c \in G : c < a} = R
  <2>1. \A c \in G : c < a => c \in R
    BY <1>2, <1>4
  <2>2. \A c \in R : c \in G /\ c < a
    BY <1>2, <1>4
  <2> QED BY <2>1, <2>2
<1>6. SumOf(f, R) = AtMost(n, SumOf(q, R))
  <2>1. Under(R)
    BY <1>2, <1>4
  <2>2. R \in SUBSET U /\ R # U /\ R \in SUBSET G
    BY <1>4
  <2> QED BY <1>1, <2>1, <2>2
<1>7. f[a] = IF left > 0 THEN AtMost(q[a], left) ELSE 0
  BY <1>5, <1>2
<1>8. SumOf(q, R) \in Int /\ SumOf(q, R) >= 0 /\ q[a] \in Int /\ q[a] >= 0
  BY <1>1, <1>2, SumType, SumPart, FS_Subset
<1>9. SumOf(q, U) = q[a] + SumOf(q, R)
  <2>1. \A x \in U : q[x] \in Int
    BY <1>2
  <2> HIDE DEF P
  <2> QED BY <1>1, <2>1, SumWithout
<1>10. SumOf(f, U) = f[a] + SumOf(f, R)
  <2>1. ASSUME NEW x \in U PROVE f[x] \in Int
    <3>1. IsFiniteSet({c \in G : c < x}) /\ \A c \in {c \in G : c < x} : q[c] \in Int
      BY FS_Subset
    <3>2. SumOf(q, {c \in G : c < x}) \in Int
      BY <3>1, SumType
    <3>3. x \in G /\ q[x] \in Int
      BY <1>2
    <3> QED BY <3>2, <3>3 DEF AtMost
  <2> HIDE DEF P
  <2> QED BY <1>1, <2>1, SumWithout
<1> HIDE DEF R, P
<1>11. SumOf(f, U) = AtMost(n, SumOf(q, U))
  BY <1>6, <1>7, <1>8, <1>9, <1>10 DEF AtMost
<1> QED BY <1>2, <1>11
------------------------------------------------------------------------------
(* The types. *)

StopLeg  == [level |-> StopLevel, trail |-> 0, high |-> 0]
Phase_   == {"guarding", "firing", "closing-for-sale", "selling", "to-market", "ended"}
Own_     == {"stop", "market"}
Role_    == Own_ \cup {"sale"}
Outcome_ == {"none", "stopped", "sold from the ticket"}
Refusal_ == [role : Role_ \cup {"none"}, class : RefusalClass \cup {"none"}, key : {0, 1}, tries : Nat]
Bracket_ ==
  [phase : Phase_, quantity : Int, stop : {StopLeg}, target : {0}, exit : Orders \cup {NoOne},
   role : Role_ \cup {"none"}, at_price : Int, at_qty : Int, refused : Refusal_, entry_filled : {Part},
   off_broker : BOOLEAN, outcome : Outcome_, sale : Int]

Fold_   == [state : OrderState \cup {"unwritten"}, broker_id : BOOLEAN, filled : Nat]
Order_  == [fold : Fold_, asked : BOOLEAN]
Broker_ == [status : {"open", "filled", "cancelled", "not-found"}, filled : Nat, quantity : Nat, cancelling : BOOLEAN]
Share_  == UNION {[D -> Int] : D \in SUBSET Brackets}
Seller_ == [at : SellerStep, quantity : Nat, share : Share_, todo : SUBSET Brackets, clear : BOOLEAN]

\* A bracket's exit is its own order, or a sale.
ExitIs(b, e, role) ==
  \/ e = NoOne /\ role = "none"
  \/ e = b /\ role \in Own_
  \/ e \in Sales /\ role = "sale"

Types ==
  /\ bracket \in [Brackets -> Bracket_]
  /\ \A b \in Brackets : ExitIs(b, bracket[b].exit, bracket[b].role)
  /\ order \in [Orders -> Order_]
  /\ \A o \in Orders : State(o) = "unwritten" => order[o] = Unwritten
  /\ broker \in [Orders -> Broker_] /\ \A o \in Orders : broker[o].filled <= broker[o].quantity
  /\ seller \in [Sales -> Seller_] /\ \A s \in Sales : seller[s].todo \subseteq DOMAIN seller[s].share
  /\ selling \subseteq Brackets /\ sold \in Nat /\ crashes \in 0 .. MaxCrashes

------------------------------------------------------------------------------
(* What the rules decide for a bracket with a fixed stop, no target and an entry filled. *)

\* What such a bracket is handed.
Exit_ == [id : Orders, role : Role_, cancel_asked : BOOLEAN, price : {0}, quantity : {0},
          fold : [state : OrderState \cup {"unwritten"}, broker_id : BOOLEAN, filled : Int]]
Sees(b, seen) ==
  /\ IF HasExit(b) THEN seen.exit \in Exit_ /\ seen.exit.id = b.exit /\ seen.exit.role = b.role
                   ELSE seen.exit = NoExit
  /\ seen.closed = FALSE /\ seen.key = 1 /\ seen.waited = TRUE /\ seen.lapses = FALSE /\ seen.class = "unknown"
  /\ seen.entry = [state |-> "filled", broker_id |-> TRUE, filled |-> Part]

\* A step of it is one of these.
Places(b, d) ==
  /\ ~HasExit(b) /\ b.phase \in {"guarding", "to-market"} /\ b.quantity > 0
  /\ \E role \in Own_, price \in Int : d = Sends(<<>>, PlaceOf(role, price, b.quantity))
Cancels(b, d) ==
  /\ HasExit(b)
  /\ \/ d = Sends(<<>>, CancelOf(b.exit))
     \/ d = Sends(<<Ev("cancel-asked")>>, CancelOf(b.exit))
     \/ b.phase = "selling" /\ d = Sends(<<Moved("to-market"), Ev("cancel-asked")>>, CancelOf(b.exit))
Clears(b, x, seen, d) ==
  /\ HasExit(b) /\ x.fold.state \in Ended /\ b.phase # "ended"
  /\ d = Records(ExitEnded(b, x, seen))
Drops(b, seen, d) == b.phase = "closing-for-sale" /\ ~seen.selling /\ d = Records(<<Ev("sale-dropped")>>)
Returns(b, d) ==
  ~HasExit(b) /\ b.phase \in {"firing", "selling"} /\ d = Records(<<Moved("guarding")>>)
Resizes(b, d) == HasExit(b) /\ \E n \in Int : d = Sends(<<>>, ResizeOf(b.exit, n))

Shape(b, seen, d) ==
  \/ d = Nothing
  \/ Places(b, d) \/ Cancels(b, d) \/ Clears(b, seen.exit, seen, d) \/ Drops(b, seen, d) \/ Returns(b, d) \/ Resizes(b, d)

\* A sell is for the bracket's shares, and asked only where there are any.
LEMMA PlaceShape ==
  ASSUME NEW b, NEW seen, ~HasExit(b), b.phase \in {"guarding", "to-market"}, NEW role \in Own_, NEW price \in Int
  PROVE  Place(b, seen, role, price) = Nothing \/ Places(b, Place(b, seen, role, price))
BY DEF Place, Places

\* With no exit: a sell, a way back to guarding, or nothing.
LEMMA BareShape ==
  ASSUME NEW b \in Bracket_, NEW seen, ~HasExit(b), b.phase # "ended"
  PROVE  LET d == DecideBare(b, seen) IN d = Nothing \/ Places(b, d) \/ Returns(b, d)
<1>1. b.target = 0 /\ b.stop.level \in Int /\ 0 \in Int /\ b.phase \in Phase_
  BY DEF Bracket_, StopLeg
<1>2. b.phase \in {"guarding", "to-market"} =>
         \A role \in Own_, price \in Int : Place(b, seen, role, price) = Nothing \/ Places(b, Place(b, seen, role, price))
  BY PlaceShape
<1>3. "market" \in Own_ /\ "stop" \in Own_
  BY DEF Own_
<1>4. CASE b.phase = "guarding"
  <2>1. DecideBare(b, seen) = Unguarded(b, seen)
    BY <1>4 DEF DecideBare
  <2>2. ~AtTarget(b, seen)
    BY <1>1 DEF AtTarget
  <2>3. Unguarded(b, seen) \in {Nothing, Place(b, seen, "market", 0), Place(b, seen, "stop", b.stop.level)}
    BY <2>2 DEF Unguarded
  <2> QED BY <2>1, <2>3, <1>1, <1>2, <1>3, <1>4
<1>5. CASE b.phase \in {"firing", "selling"}
  BY <1>5 DEF DecideBare, Returns
<1>6. CASE b.phase = "to-market"
  BY <1>6, <1>1, <1>2, <1>3 DEF DecideBare
<1>7. CASE b.phase = "closing-for-sale"
  BY <1>7 DEF DecideBare
<1> QED BY <1>1, <1>4, <1>5, <1>6, <1>7 DEF Phase_

\* With an exit held: its cancel, a change of it, or nothing.
LEMMA HeldShape ==
  ASSUME NEW b \in Bracket_, NEW seen, Sees(b, seen), HasExit(b), b.phase # "ended"
  PROVE  LET d == DecideHeld(b, seen.exit, seen) IN d = Nothing \/ Cancels(b, d) \/ Resizes(b, d)
<1> DEFINE x == seen.exit
<1>1. x.id = b.exit /\ b.target = 0 /\ b.phase \in Phase_ /\ b.quantity \in Int
  BY DEF Sees, Bracket_
<1>2. Cancels(b, CancelExit(x)) /\ Cancels(b, Sends(<<>>, CancelOf(x.id)))
  BY <1>1 DEF Cancels, CancelExit
<1>3. AskAgain(x, seen) = Nothing \/ Cancels(b, AskAgain(x, seen))
  BY <1>2 DEF AskAgain
<1>4. b.phase = "selling" => Cancels(b, CancelTo(x, "to-market"))
  BY <1>1 DEF Cancels, CancelTo
<1>5. LET d == KeepAt(b, x, seen) IN d = Nothing \/ Cancels(b, d) \/ Resizes(b, d)
  BY <1>1, <1>2 DEF KeepAt, Resize, Resizes
<1>6. LET d == DecideResting(b, x, seen) IN d = Nothing \/ Cancels(b, d) \/ Resizes(b, d)
  <2>1. CASE b.phase = "guarding"
    <3>1. ~AtTarget(b, seen)
      BY <1>1 DEF AtTarget
    <3>2. DecideResting(b, x, seen) = KeepAt(b, x, seen)
      BY <2>1, <3>1 DEF DecideResting
    <3> QED BY <3>2, <1>5
  <2>2. CASE b.phase \in {"to-market", "closing-for-sale"}
    BY <2>2, <1>2 DEF DecideResting
  <2>3. CASE b.phase = "selling"
    <3>1. DecideResting(b, x, seen) \in {CancelTo(x, "to-market"), Nothing}
      BY <2>3 DEF DecideResting
    <3> QED BY <3>1, <1>4, <2>3
  <2>4. CASE b.phase = "firing"
    BY <2>4 DEF DecideResting
  <2> QED BY <1>1, <2>1, <2>2, <2>3, <2>4 DEF Phase_
<1>7. DecideHeld(b, x, seen) \in {Nothing, AskAgain(x, seen), DecideResting(b, x, seen)}
  BY <1>1 DEF DecideHeld, Phase_
<1> QED BY <1>3, <1>6, <1>7

\* Whatever such a bracket is handed, what it decides has one of the shapes.
LEMMA DecideShape ==
  ASSUME NEW b \in Bracket_, NEW seen, Sees(b, seen)
  PROVE  Shape(b, seen, Decide(b, seen))
<1> DEFINE x == seen.exit  d == Decide(b, seen)
<1>1. /\ b.phase \in Phase_ /\ b.entry_filled = Part /\ b.stop = StopLeg /\ Part \in Nat
      /\ seen.entry.state = "filled" /\ seen.entry.filled = Part
  BY DEF Bracket_, Sees
<1>2. ~(Stopped(b) /\ seen.entry.state \in Resting) /\ ~(seen.entry.filled > b.entry_filled)
  BY <1>1 DEF Resting
<1>3. HasExit(b) <=> x # NoExit
  <2>1. HasExit(b) => x.id # NoOne
    BY DEF Sees, HasExit
  <2> QED BY <2>1 DEF Sees, NoExit
<1>4. CASE b.phase = "ended"
  BY <1>2, <1>4 DEF Decide, Shape
<1>5. CASE b.phase # "ended" /\ x # NoExit /\ x.fold.state \in Ended
  <2>1. d = Records(ExitEnded(b, x, seen))
    BY <1>1, <1>2, <1>3, <1>5 DEF Decide, Phase_
  <2> QED BY <2>1, <1>3, <1>5 DEF Shape, Clears
<1>6. CASE b.phase # "ended" /\ ~(x # NoExit /\ x.fold.state \in Ended)
  <2>1. ~(x # NoExit /\ ByHand(b, x))
    <3>1. x # NoExit => x.price = 0 /\ x.quantity = 0
      BY <1>3 DEF Sees, Exit_
    <3> QED BY <3>1 DEF ByHand, HandPrice, HandQty
  <2>2. ~Trails(b, seen)
    BY <1>1 DEF Trails, StopLeg
  <2>3. d = IF b.phase = "closing-for-sale" /\ ~seen.selling /\ (x # NoExit => ~WaitingOn(x))
            THEN Records(<<Ev("sale-dropped")>>)
            ELSE IF x = NoExit THEN DecideBare(b, seen) ELSE DecideHeld(b, x, seen)
    BY <1>1, <1>2, <1>3, <1>6, <2>1, <2>2 DEF Decide, Phase_, Sees
  <2>4. CASE b.phase = "closing-for-sale" /\ ~seen.selling /\ (x # NoExit => ~WaitingOn(x))
    BY <2>3, <2>4 DEF Shape, Drops
  <2>5. CASE ~(b.phase = "closing-for-sale" /\ ~seen.selling /\ (x # NoExit => ~WaitingOn(x))) /\ x = NoExit
    BY <2>3, <2>5, <1>3, <1>6, BareShape DEF Shape
  <2>6. CASE ~(b.phase = "closing-for-sale" /\ ~seen.selling /\ (x # NoExit => ~WaitingOn(x))) /\ x # NoExit
    BY <2>3, <2>6, <1>3, <1>6, HeldShape DEF Shape
  <2> QED BY <2>4, <2>5, <2>6
<1> QED BY <1>4, <1>5, <1>6

------------------------------------------------------------------------------
(* What the events make of such a bracket. *)

\* How a bracket stands: its exit, its shares, and its phase.
Stands(c, e, role, q, a, phase) ==
  /\ c \in Bracket_
  /\ c.exit = e /\ c.role = role /\ c.quantity = q /\ c.at_qty = a /\ c.phase = phase

\* The events of a step, taken one after another.
LEMMA AfterEvents ==
  ASSUME NEW b
  PROVE  AfterAll(b, <<>>) = b /\ \A e : AfterAll(b, <<e>>) = After(b, e)
BY DEF AfterAll, AfterOne

\* And of a step of two events, or of three.
LEMMA AfterTwo ==
  ASSUME NEW b, NEW e, NEW f
  PROVE  AfterAll(b, <<e, f>>) = After(After(b, e), f)
BY DEF AfterAll, AfterOne

\* After three events is after each in turn.
LEMMA AfterThree ==
  ASSUME NEW b, NEW e, NEW f, NEW g
  PROVE  AfterAll(b, <<e, f, g>>) = After(After(After(b, e), f), g)
BY DEF AfterAll, AfterOne

\* A cancel asked for changes nothing.
LEMMA AfterAsked == ASSUME NEW b PROVE After(b, Ev("cancel-asked")) = b
BY DEF After, Move, Ev

\* The phase moves on.
LEMMA AfterMoved ==
  ASSUME NEW b \in Bracket_, NEW p \in Phase_
  PROVE  Stands(After(b, Moved(p)), b.exit, b.role, b.quantity, b.at_qty,
                IF <<b.phase, p>> \in PhaseMoves THEN p ELSE b.phase)
<1>1. After(b, Moved(p)) = IF <<b.phase, p>> \in PhaseMoves THEN [b EXCEPT !.phase = p] ELSE b
  BY DEF After, IsMove, Move, Moved
<1> QED BY <1>1 DEF Stands, Bracket_

\* The sale is dropped.
LEMMA AfterDropped ==
  ASSUME NEW b \in Bracket_
  PROVE  Stands(After(b, Ev("sale-dropped")), b.exit, b.role, b.quantity, b.at_qty,
                IF b.phase = "closing-for-sale" THEN "guarding" ELSE b.phase)
<1> DEFINE c == [b EXCEPT !.sale = 0, !.phase = "guarding"]
<1>1. After(b, Ev("sale-dropped")) = IF b.phase = "closing-for-sale" THEN c ELSE b
  BY DEF After, IsMove, Move, OnSaleDropped, Ev
<1>2. c \in Bracket_ /\ c.exit = b.exit /\ c.role = b.role /\ c.quantity = b.quantity /\ c.at_qty = b.at_qty /\ c.phase = "guarding"
  BY 0 \in Int DEF Bracket_, Phase_
<1> HIDE DEF c
<1> QED BY <1>1, <1>2 DEF Stands

\* The bracket ends, with no exit there.
LEMMA AfterEnded ==
  ASSUME NEW b \in Bracket_, ~HasExit(b), NEW o \in Outcome_
  PROVE  Stands(After(b, EndedAs(o)), b.exit, b.role, b.quantity, b.at_qty, "ended")
<1> DEFINE c == [b EXCEPT !.outcome = o, !.sale = 0, !.phase = "ended"]
<1>1. After(b, EndedAs(o)) = IF b.phase # "ended" THEN c ELSE b
  BY DEF After, IsMove, Move, OnEnded, EndedAs, Bracket_, Phase_
<1>2. c \in Bracket_ /\ c.exit = b.exit /\ c.role = b.role /\ c.quantity = b.quantity /\ c.at_qty = b.at_qty /\ c.phase = "ended"
  BY 0 \in Int DEF Bracket_, Phase_
<1> HIDE DEF c
<1> QED BY <1>1, <1>2 DEF Stands

\* The broker cancelled its exit.
LEMMA AfterOffBroker ==
  ASSUME NEW b \in Bracket_
  PROVE  Stands(After(b, OffBroker), b.exit, b.role, b.quantity, b.at_qty, b.phase)
<1>1. After(b, OffBroker) \in {b, [b EXCEPT !.off_broker = TRUE]}
  BY DEF After, Move, OffBroker, Ev
<1> QED BY <1>1 DEF Stands, Bracket_

\* Its exit was rejected, and is gone.
LEMMA AfterRefused ==
  ASSUME NEW b \in Bracket_, ~HasExit(b), NEW role \in Role_, NEW class \in RefusalClass, NEW key \in {0, 1}
  PROVE  Stands(After(b, RefusedAs(role, class, key)), b.exit, b.role, b.quantity, b.at_qty,
                IF b.phase = "firing" THEN "guarding" ELSE b.phase)
<1> DEFINE as == IF role = "market" /\ class = "invalid" THEN "unknown" ELSE class
           again == b.refused.role = role /\ b.refused.class = as
           tries == IF again THEN AtMost(b.refused.tries + 1, UnknownTries) ELSE 1
           refused == [role |-> role, class |-> as, key |-> key, tries |-> tries]
           phase == IF b.phase = "firing" THEN "guarding" ELSE b.phase
           c == [b EXCEPT !.refused = refused, !.phase = phase]
<1>1. After(b, RefusedAs(role, class, key)) = IF Live(b) THEN c ELSE b
  BY DEF After, IsMove, Move, OnRefused, RefusedAs, HasExit
<1>2. tries \in Nat
  BY DEF AtMost, Bracket_, Refusal_
<1>3. as \in RefusalClass
  BY DEF RefusalClass
<1>4. refused \in Refusal_
  <2> HIDE DEF tries, as
  <2> QED BY <1>2, <1>3 DEF Refusal_
<1>5. phase \in Phase_
  BY DEF Bracket_, Phase_
<1>6. ~Live(b) => phase = b.phase
  BY DEF Live
<1> HIDE DEF refused, phase
<1>7. c \in Bracket_ /\ c.exit = b.exit /\ c.role = b.role /\ c.quantity = b.quantity /\ c.at_qty = b.at_qty /\ c.phase = phase
  BY <1>4, <1>5 DEF Bracket_
<1> HIDE DEF c
<1>8. Stands(After(b, RefusedAs(role, class, key)), b.exit, b.role, b.quantity, b.at_qty, phase)
  BY <1>1, <1>6, <1>7 DEF Stands
<1> QED BY <1>8 DEF phase

\* Its exit is over, and the shares it sold with it.
LEMMA AfterCleared ==
  ASSUME NEW b \in Bracket_, HasExit(b), NEW n \in Int
  PROVE  Stands(After(b, Cleared(n)), NoOne, "none", b.quantity - n, 0,
                IF b.role = "sale" /\ b.quantity - n <= 0 THEN "ended"
                ELSE IF (b.role = "sale" /\ b.phase = "selling") \/ (b.role = "market" /\ b.phase = "firing")
                     THEN "guarding" ELSE b.phase)
<1> DEFINE rest == b.quantity - n
           sold_ == b.role = "sale" /\ rest <= 0
           refused == IF n > 0 THEN NoRefusal ELSE b.refused
           outcome == IF sold_ THEN "sold from the ticket" ELSE b.outcome
           phase == IF sold_ THEN "ended"
                    ELSE IF (b.role = "sale" /\ b.phase = "selling") \/ (b.role = "market" /\ b.phase = "firing")
                         THEN "guarding" ELSE b.phase
           c == [b EXCEPT !.exit = NoOne, !.role = "none", !.at_price = 0, !.at_qty = 0, !.quantity = rest,
                          !.refused = refused, !.outcome = outcome, !.phase = phase]
<1>1. After(b, Cleared(n)) = c
  <2> DEFINE casewise == CASE sold_ -> "ended"
                           [] ~sold_ /\ b.role = "sale" /\ b.phase = "selling" -> "guarding"
                           [] b.role = "market" /\ b.phase = "firing" -> "guarding"
                           [] OTHER -> b.phase
  <2>1. casewise = phase
    <3>1. CASE b.role = "sale"
      <4>1. CASE rest <= 0
        BY <3>1, <4>1
      <4>2. CASE ~(rest <= 0)
        <5>1. ~sold_
          BY <4>2
        <5>2. b.role # "market" /\ (b.role = "sale") = TRUE
          BY <3>1
        <5> HIDE DEF sold_
        <5> QED BY <5>1, <5>2
      <4> QED BY <4>1, <4>2
    <3>2. CASE b.role # "sale"
      <4>1. casewise = CASE b.role = "market" /\ b.phase = "firing" -> "guarding" [] OTHER -> b.phase
        BY <3>2
      <4> QED BY <4>1, <3>2
    <3> QED BY <3>1, <3>2
  <2>2. After(b, Cleared(n)) = OnCleared(b, Cleared(n)) /\ Cleared(n).filled = n
    BY DEF After, IsMove, Move, Cleared
  <2>3. OnCleared(b, Cleared(n)) =
          [b EXCEPT !.exit = NoOne, !.role = "none", !.at_price = 0, !.at_qty = 0, !.quantity = rest,
                    !.refused = refused, !.outcome = outcome, !.phase = casewise]
    BY <2>2 DEF OnCleared
  <2> HIDE DEF casewise, phase, refused, outcome
  <2> QED BY <2>1, <2>2, <2>3
<1>2. refused \in Refusal_
  BY DEF NoRefusal, Refusal_, Bracket_
<1>3. outcome \in Outcome_ /\ phase \in Phase_ /\ rest \in Int /\ 0 \in Int
  <2>1. b.outcome \in Outcome_ /\ b.phase \in Phase_ /\ b.quantity \in Int
    BY DEF Bracket_
  <2>2. outcome \in Outcome_
    BY <2>1 DEF Outcome_
  <2>3. phase \in Phase_
    BY <2>1 DEF Phase_
  <2>4. rest \in Int
    BY <2>1
  <2> HIDE DEF outcome, phase, rest
  <2> QED BY <2>2, <2>3, <2>4
<1>4. phase = IF b.role = "sale" /\ b.quantity - n <= 0 THEN "ended"
              ELSE IF (b.role = "sale" /\ b.phase = "selling") \/ (b.role = "market" /\ b.phase = "firing")
                   THEN "guarding" ELSE b.phase
  OBVIOUS
<1> HIDE DEF refused, outcome, phase
<1>5. c \in Bracket_ /\ c.exit = NoOne /\ c.role = "none" /\ c.quantity = rest /\ c.at_qty = 0 /\ c.phase = phase
  BY <1>2, <1>3 DEF Bracket_
<1> HIDE DEF c
<1> QED BY <1>1, <1>4, <1>5 DEF Stands

\* Its own exit went out.
LEMMA AfterPlaced ==
  ASSUME NEW b \in Bracket_, ~HasExit(b), b.phase # "ended",
         NEW role \in Own_, NEW o \in Orders, NEW price \in Int, NEW n \in Int
  PROVE  Stands(After(b, Placed(role, o, price, n)), o, role, b.quantity, n,
                IF role = "market" THEN "firing" ELSE b.phase)
<1> DEFINE refused == IF b.refused.role = role THEN b.refused ELSE NoRefusal
           phase == IF role = "market" THEN "firing" ELSE b.phase
           c == [b EXCEPT !.exit = o, !.role = role, !.at_price = price, !.at_qty = n, !.refused = refused, !.phase = phase]
<1>1. After(b, Placed(role, o, price, n)) = c
  BY DEF After, IsMove, Move, OnPlaced, Placed, Bracket_, Phase_, Own_
<1>2. refused \in Refusal_ /\ phase \in Phase_ /\ o \in Orders \cup {NoOne} /\ role \in Role_ \cup {"none"}
  BY DEF NoRefusal, Refusal_, Bracket_, Phase_, Role_
<1>3. phase = IF role = "market" THEN "firing" ELSE b.phase
  OBVIOUS
<1> HIDE DEF refused, phase
<1>4. c \in Bracket_ /\ c.exit = o /\ c.role = role /\ c.quantity = b.quantity /\ c.at_qty = n /\ c.phase = phase
  BY <1>2 DEF Bracket_
<1> HIDE DEF c
<1> QED BY <1>1, <1>3, <1>4 DEF Stands

\* A sale was asked of it.
LEMMA AfterSaleAsked ==
  ASSUME NEW b \in Bracket_, NEW n \in Int
  PROVE  Stands(After(b, SaleAsked(n)), b.exit, b.role, b.quantity, b.at_qty,
                IF b.phase \in {"ended", "selling"} THEN b.phase ELSE "closing-for-sale")
<1> DEFINE c == [b EXCEPT !.sale = n, !.phase = "closing-for-sale"]
<1>1. After(b, SaleAsked(n)) = IF b.phase \in {"ended", "selling", "closing-for-sale"} THEN b ELSE c
  BY DEF After, IsMove, Move, SaleAsked, Bracket_, Phase_
<1>2. c \in Bracket_ /\ c.exit = b.exit /\ c.role = b.role /\ c.quantity = b.quantity /\ c.at_qty = b.at_qty
      /\ c.phase = "closing-for-sale"
  BY DEF Bracket_, Phase_
<1> HIDE DEF c
<1> QED BY <1>1, <1>2 DEF Stands

\* The sale is its exit.
LEMMA AfterSaleSent ==
  ASSUME NEW b \in Bracket_, NEW s \in Sales, NEW n \in Int
  PROVE  IF b.phase = "closing-for-sale" /\ ~HasExit(b)
         THEN Stands(After(b, SaleSent(s, n)), s, "sale", b.quantity, n, "selling")
         ELSE After(b, SaleSent(s, n)) = b
<1> DEFINE c == [b EXCEPT !.sale = 0, !.exit = s, !.role = "sale", !.at_price = 0, !.at_qty = n, !.phase = "selling"]
<1>1. After(b, SaleSent(s, n)) = IF b.phase = "closing-for-sale" /\ ~HasExit(b) THEN c ELSE b
  BY DEF After, IsMove, Move, SaleSent
<1>2. c \in Bracket_ /\ c.exit = s /\ c.role = "sale" /\ c.quantity = b.quantity /\ c.at_qty = n /\ c.phase = "selling"
  BY 0 \in Int DEF Bracket_, Phase_, Role_, Orders
<1> HIDE DEF c
<1> QED BY <1>1, <1>2 DEF Stands

\* Its exit ended, and what that means for it.
LEMMA AfterExitEnded ==
  ASSUME NEW b \in Bracket_, HasExit(b), b.phase # "ended", NEW x \in Exit_, x.role = b.role,
         NEW seen, seen.class = "unknown", seen.key = 1
  PROVE  LET n == x.fold.filled
             c == AfterAll(b, ExitEnded(b, x, seen))
         IN  /\ Stands(c, NoOne, "none", b.quantity - n, 0, c.phase)
             /\ b.role = "sale" => c.phase = IF b.quantity - n <= 0 THEN "ended"
                                             ELSE IF b.phase = "selling" THEN "guarding" ELSE b.phase
             /\ b.role # "sale" => IF x.fold.state = "filled" THEN c.phase = "ended"
                                                               ELSE c.phase \in {b.phase, "guarding"}
<1> DEFINE n == x.fold.filled
           c == AfterAll(b, ExitEnded(b, x, seen))
           d == After(b, Cleared(n))
           over == EndedAs(OutcomeOf(x.role))
<1>1. n \in Int /\ x.role \in Role_ /\ b.phase # "closing"
  BY DEF Exit_, Bracket_, Phase_
<1>2. OutcomeOf(x.role) \in Outcome_
  BY <1>1 DEF OutcomeOf, Outcome_, Role_, Own_
<1>3. Stands(d, NoOne, "none", b.quantity - n, 0,
                IF b.role = "sale" /\ b.quantity - n <= 0 THEN "ended"
                ELSE IF (b.role = "sale" /\ b.phase = "selling") \/ (b.role = "market" /\ b.phase = "firing")
                     THEN "guarding" ELSE b.phase)
  BY <1>1, AfterCleared
<1>4. d \in Bracket_ /\ ~HasExit(d)
  BY <1>3 DEF Stands, HasExit
<1> HIDE DEF d, n
<1>5. CASE b.role = "sale"
  <2>1. ExitEnded(b, x, seen) = <<Cleared(n)>>
    BY <1>5 DEF ExitEnded, n
  <2>2. c = d
    BY <2>1, AfterEvents DEF d
  <2> HIDE DEF c
  <2>3. c.phase = IF b.quantity - n <= 0 THEN "ended"
                                       ELSE IF b.phase = "selling" THEN "guarding" ELSE b.phase
    <3>1. d.phase = IF b.role = "sale" /\ b.quantity - n <= 0 THEN "ended"
                    ELSE IF (b.role = "sale" /\ b.phase = "selling") \/ (b.role = "market" /\ b.phase = "firing")
                         THEN "guarding" ELSE b.phase
      BY <1>3 DEF Stands
    <3>2. b.role # "market"
      BY <1>5
    <3> QED BY <3>1, <3>2, <2>2, <1>5
  <2>4. Stands(c, NoOne, "none", b.quantity - n, 0, c.phase)
    BY <2>2, <1>3 DEF Stands
  <2> QED BY <2>3, <2>4, <1>5 DEF n, c
<1>6. CASE b.role # "sale" /\ x.fold.state = "filled" /\ b.phase = "closing-for-sale"
  <2> DEFINE e == After(d, Ev("sale-dropped"))
  <2>1. ExitEnded(b, x, seen) = <<Cleared(n), Ev("sale-dropped"), over>>
    BY <1>6, <1>1 DEF ExitEnded, n
  <2>2. c = After(e, over)
    BY <2>1, AfterThree DEF d
  <2>3. Stands(e, NoOne, "none", b.quantity - n, 0, e.phase)
    BY <1>3, <1>4, AfterDropped DEF Stands
  <2> HIDE DEF e, c
  <2>4. Stands(c, NoOne, "none", b.quantity - n, 0, "ended")
    BY <2>2, <2>3, <1>2, AfterEnded DEF Stands, HasExit
  <2> QED BY <2>4, <1>6 DEF Stands, n, c
<1>7. CASE b.role # "sale" /\ x.fold.state = "filled" /\ b.phase # "closing-for-sale"
  <2>1. ExitEnded(b, x, seen) = <<Cleared(n), over>>
    BY <1>7, <1>1 DEF ExitEnded, n
  <2>2. c = After(d, over)
    BY <2>1, AfterTwo DEF d
  <2> HIDE DEF c
  <2>3. Stands(c, NoOne, "none", b.quantity - n, 0, "ended")
    BY <2>2, <1>3, <1>4, <1>2, AfterEnded DEF Stands
  <2> QED BY <2>3, <1>7 DEF Stands, n, c
<1>8. CASE b.role # "sale" /\ x.fold.state # "filled"
  <2>1. ExitEnded(b, x, seen) \in {<<Cleared(n)>>, <<Cleared(n), OffBroker>>, <<Cleared(n), RefusedAs(x.role, seen.class, seen.key)>>}
    BY <1>8, <1>1 DEF ExitEnded, n
  <2>2. c \in {d, After(d, OffBroker), After(d, RefusedAs(x.role, "unknown", 1))}
    <3>1. AfterAll(b, <<Cleared(n)>>) = d
      BY AfterEvents DEF d
    <3>2. AfterAll(b, <<Cleared(n), OffBroker>>) = After(d, OffBroker)
      BY AfterTwo DEF d
    <3>3. AfterAll(b, <<Cleared(n), RefusedAs(x.role, seen.class, seen.key)>>) = After(d, RefusedAs(x.role, "unknown", 1))
      BY AfterTwo DEF d
    <3> QED BY <2>1, <3>1, <3>2, <3>3
  <2>3. Stands(After(d, OffBroker), NoOne, "none", b.quantity - n, 0, d.phase)
    BY <1>3, <1>4, AfterOffBroker DEF Stands
  <2>4. Stands(After(d, RefusedAs(x.role, "unknown", 1)), NoOne, "none", b.quantity - n, 0,
               IF d.phase = "firing" THEN "guarding" ELSE d.phase)
    <3>1. "unknown" \in RefusalClass
      BY DEF RefusalClass
    <3> QED BY <3>1, <1>1, <1>3, <1>4, AfterRefused DEF Stands
  <2>5. d.phase \in {b.phase, "guarding"}
    BY <1>3, <1>8 DEF Stands
  <2> HIDE DEF c
  <2>6. Stands(c, NoOne, "none", b.quantity - n, 0, c.phase) /\ c.phase \in {b.phase, "guarding"}
    BY <2>2, <2>3, <2>4, <2>5, <1>3 DEF Stands
  <2> QED BY <2>6, <1>8 DEF n, c
<1> QED BY <1>5, <1>6, <1>7, <1>8

------------------------------------------------------------------------------
(* A bracket's step. *)

\* What a bracket sold of a sale is a number of shares.
LEMMA PartType ==
  ASSUME Types, NEW b \in Brackets, NEW s \in Sales
  PROVE  PartOf(s, b) \in Int
<1> DEFINE holders == {c \in Brackets : bracket[c].exit = s}
           me      == Min({c \in holders : bracket[c] = bracket[b]})
           before  == {c \in holders : c < me}
           qty     == [c \in holders |-> bracket[c].at_qty]
           filled  == order[s].fold.filled
           taken   == SumOf(qty, before)
<1>1. \A c \in Brackets : bracket[c].at_qty \in Int
  BY DEF Types, Bracket_
<1>2. filled \in Int
  BY DEF Types, Order_, Fold_, Orders
<1>3. IsFiniteSet(before) /\ \A c \in before : qty[c] \in Int
  <2>1. IsFiniteSet(Brackets)
    BY FS_Subset DEF SaleAssumption, Orders
  <2> QED BY <2>1, <1>1, FS_Subset
<1>4. taken \in Int
  <2> HIDE DEF before, qty
  <2> QED BY <1>3, SumType
<1>5. PartOf(s, b) = AtMost(filled - AtMost(taken, filled), bracket[b].at_qty)
  BY DEF PartOf
<1> HIDE DEF taken, filled
<1> QED BY <1>1, <1>2, <1>4, <1>5 DEF AtMost

\* What a check is handed fits the bracket.
LEMMA SeenFits ==
  ASSUME Types, NEW b \in Brackets, NEW shown
  PROVE  Sees(bracket[b], SeenBy(b, shown))
<1> DEFINE x == bracket[b].exit
<1>1. ExitOf(b) = NoExit \/ HasExit(bracket[b])
  BY DEF ExitOf
<1>2. CASE HasExit(bracket[b])
  <2>1. x \in Orders /\ bracket[b].role \in Role_
    BY <1>2 DEF Types, Bracket_, ExitIs, HasExit, Orders, Role_
  <2>2. order[x] \in Order_ /\ order[x].fold \in Fold_ /\ order[x].asked \in BOOLEAN
    BY <2>1 DEF Types, Order_
  <2>3. x \in Sales => PartOf(x, b) \in Int
    BY PartType
  <2> DEFINE fold == IF x \in Sales THEN [order[x].fold EXCEPT !.filled = PartOf(x, b)] ELSE order[x].fold
  <2>4. fold \in [state : OrderState \cup {"unwritten"}, broker_id : BOOLEAN, filled : Int]
    BY <2>2, <2>3 DEF Fold_
  <2>5. ExitOf(b) = [id |-> x, role |-> bracket[b].role, cancel_asked |-> order[x].asked, price |-> 0,
                     quantity |-> 0, fold |-> fold]
    BY <1>2 DEF ExitOf
  <2> HIDE DEF fold
  <2>6. ExitOf(b) \in Exit_ /\ ExitOf(b).id = x /\ ExitOf(b).role = bracket[b].role
    BY <2>1, <2>2, <2>4, <2>5 DEF Exit_
  <2> QED BY <1>2, <2>6 DEF Sees, SeenBy
<1>3. CASE ~HasExit(bracket[b])
  BY <1>3 DEF Sees, SeenBy, ExitOf
<1> QED BY <1>2, <1>3

Becomes(b, c)    == bracket' = [bracket EXCEPT ![b] = c]
SameOrders       == UNCHANGED <<order, broker>>
Still(b)         == bracket' = bracket /\ SameOrders
PlacedStep(b)    ==
  LET old == bracket[b] IN
  /\ ~HasExit(old) /\ old.phase \in {"guarding", "to-market"} /\ old.quantity > 0 /\ State(b) \notin InFlight
  /\ \E role \in Own_ : \E c :
       /\ Stands(c, b, role, old.quantity, old.quantity, IF role = "market" THEN "firing" ELSE old.phase)
       /\ Becomes(b, c)
  /\ order' = [order EXCEPT ![b] = [Unwritten EXCEPT !.fold = Apply(Start(FALSE), Accepted)]]
  /\ broker' = [broker EXCEPT ![b] = Open(old.quantity)]
CancelledStep(b) ==
  LET old == bracket[b] IN
  /\ HasExit(old)
  /\ \E c : /\ Stands(c, old.exit, old.role, old.quantity, old.at_qty, c.phase)
            /\ c.phase = old.phase \/ (old.phase = "selling" /\ c.phase = "to-market")
            /\ Becomes(b, c)
  /\ SameOrders \/ (State(old.exit) \in Resting \cup {"cancelling"} /\ CancelOrder(old.exit))
Sold(b) == IF bracket[b].exit \in Sales THEN PartOf(bracket[b].exit, b) ELSE order[bracket[b].exit].fold.filled
ClearedStep(b)   ==
  LET old == bracket[b] IN
  /\ HasExit(old) /\ State(old.exit) \in Ended /\ old.phase # "ended"
  /\ \E c : /\ Stands(c, NoOne, "none", old.quantity - Sold(b), 0, c.phase)
            /\ old.role = "sale" => c.phase = IF old.quantity - Sold(b) <= 0 THEN "ended"
                                              ELSE IF old.phase = "selling" THEN "guarding" ELSE old.phase
            /\ old.role # "sale" => IF State(old.exit) = "filled" THEN c.phase = "ended"
                                                                ELSE c.phase \in {old.phase, "guarding"}
            /\ Becomes(b, c)
  /\ SameOrders
EasedStep(b)     ==
  LET old == bracket[b] IN
  /\ \/ old.phase = "closing-for-sale" /\ b \notin selling
     \/ ~HasExit(old) /\ old.phase \in {"firing", "selling"}
  /\ \E c : /\ Stands(c, old.exit, old.role, old.quantity, old.at_qty, "guarding")
            /\ Becomes(b, c)
  /\ SameOrders

\* A check's step does one of these.
LEMMA StepShape ==
  ASSUME Types, NEW b \in Brackets, NEW shown, Step(b, shown)
  PROVE  /\ UNCHANGED <<seller, selling, sold, crashes>>
         /\ Still(b) \/ PlacedStep(b) \/ CancelledStep(b) \/ ClearedStep(b) \/ EasedStep(b)
<1> DEFINE old == bracket[b]  seen == SeenBy(b, shown)  d == Decide(old, seen)
<1>1. old \in Bracket_ /\ ExitIs(b, old.exit, old.role) /\ b \in Orders /\ bracket = [bracket EXCEPT ![b] = old]
  BY DEF Types, Orders
<1>2. Sees(old, seen)
  BY SeenFits
<1>3. Shape(old, seen, d)
  BY <1>1, <1>2, DecideShape
<1>4. /\ d # Nothing
      /\ CASE d.request.kind = "place"  -> PlaceExit(b, d)
           [] d.request.kind = "cancel" -> CancelExitOf(b, d)
           [] OTHER -> Becomes(b, AfterAll(old, d.events)) /\ SameOrders
      /\ UNCHANGED <<seller, selling, sold, crashes>>
  BY DEF Step, Becomes, SameOrders
<1>5. seen.selling = (b \in selling) /\ seen.exit = ExitOf(b) /\ seen.class = "unknown" /\ seen.key = 1
  BY DEF SeenBy
<1>6. HasExit(old) => /\ seen.exit \in Exit_ /\ seen.exit.role = old.role
                      /\ seen.exit.fold.state = State(old.exit) /\ seen.exit.fold.filled = Sold(b)
  <2> SUFFICES ASSUME HasExit(old) PROVE seen.exit.fold.state = State(old.exit) /\ seen.exit.fold.filled = Sold(b)
    BY <1>2 DEF Sees
  <2>1. seen.exit.fold = IF old.exit \in Sales THEN [order[old.exit].fold EXCEPT !.filled = PartOf(old.exit, b)]
                                            ELSE order[old.exit].fold
    BY <1>5 DEF ExitOf
  <2>2. order[old.exit].fold \in Fold_
    BY <1>1 DEF Types, Bracket_, ExitIs, HasExit, Orders, Order_
  <2> QED BY <2>1, <2>2 DEF Sold, State, Fold_
<1>7. CASE Places(old, d)
  <2>1. PICK role \in Own_, price \in Int : d = Sends(<<>>, PlaceOf(role, price, old.quantity))
    BY <1>7 DEF Places
  <2>2. d.events = <<>> /\ d.request = PlaceOf(role, price, old.quantity) /\ d.request.kind = "place"
        /\ d.request.role = role /\ d.request.price = price /\ d.request.quantity = old.quantity
    BY <2>1 DEF Sends, PlaceOf
  <2>3. PlaceExit(b, d)
    BY <1>4, <2>2
  <2>4. AfterAll(old, d.events) = old
    BY <2>2, AfterEvents
  <2>5. CASE State(b) \in InFlight
    BY <2>3, <2>4, <2>5, <1>1, <1>4 DEF PlaceExit, Still, SameOrders
  <2>6. CASE State(b) \notin InFlight
    <3> DEFINE c == After(old, Placed(role, b, price, old.quantity))
    <3>1. /\ Becomes(b, c)
          /\ order' = [order EXCEPT ![b] = [Unwritten EXCEPT !.fold = Apply(Start(FALSE), Accepted)]]
          /\ broker' = [broker EXCEPT ![b] = Open(old.quantity)]
      BY <2>2, <2>3, <2>4, <2>6 DEF PlaceExit, Becomes
    <3>2. ~HasExit(old) /\ old.phase \in {"guarding", "to-market"} /\ old.quantity > 0 /\ old.quantity \in Int
      BY <1>1, <1>7 DEF Places, Bracket_
    <3>3. Stands(c, b, role, old.quantity, old.quantity, IF role = "market" THEN "firing" ELSE old.phase)
      BY <1>1, <3>2, AfterPlaced
    <3> HIDE DEF c
    <3> QED BY <2>6, <3>1, <3>2, <3>3, <1>4 DEF PlacedStep
  <2> QED BY <2>5, <2>6
<1>8. CASE Cancels(old, d)
  <2>1. d.request = CancelOf(old.exit) /\ d.request.kind = "cancel" /\ d.request.id = old.exit
        /\ \/ d.events \in {<<>>, <<Ev("cancel-asked")>>}
           \/ old.phase = "selling" /\ d.events = <<Moved("to-market"), Ev("cancel-asked")>>
    BY <1>8 DEF Cancels, Sends, CancelOf
  <2>2. CancelExitOf(b, d)
    BY <1>4, <2>1
  <2>3. Stands(old, old.exit, old.role, old.quantity, old.at_qty, old.phase)
    BY <1>1 DEF Stands
  <2> DEFINE c == AfterAll(old, d.events)
  <2>4. /\ Stands(c, old.exit, old.role, old.quantity, old.at_qty, c.phase)
        /\ c.phase = old.phase \/ (old.phase = "selling" /\ c.phase = "to-market")
    <3>1. CASE d.events \in {<<>>, <<Ev("cancel-asked")>>}
      <4>1. c = old
        BY <3>1, AfterEvents, AfterAsked
      <4> QED BY <4>1, <2>3
    <3>2. CASE old.phase = "selling" /\ d.events = <<Moved("to-market"), Ev("cancel-asked")>>
      <4>1. c = After(old, Moved("to-market"))
        BY <3>2, AfterTwo, AfterAsked
      <4>2. "to-market" \in Phase_
        BY DEF Phase_
      <4> HIDE DEF c
      <4>3. Stands(c, old.exit, old.role, old.quantity, old.at_qty, IF <<old.phase, "to-market">> \in PhaseMoves THEN "to-market" ELSE old.phase)
        BY <4>1, <4>2, <1>1, AfterMoved
      <4> QED BY <4>3, <3>2 DEF Stands
    <3> QED BY <2>1, <3>1, <3>2
  <2>5. Becomes(b, c) /\ (SameOrders \/ (State(old.exit) \in Resting \cup {"cancelling"} /\ CancelOrder(old.exit)))
    BY <2>1, <2>2 DEF CancelExitOf, Becomes, SameOrders
  <2> HIDE DEF c
  <2>6. HasExit(old)
    BY <1>8 DEF Cancels
  <2> QED BY <2>4, <2>5, <2>6, <1>4 DEF CancelledStep
<1>9. CASE Clears(old, seen.exit, seen, d)
  <2>1. /\ HasExit(old) /\ seen.exit.fold.state \in Ended /\ old.phase # "ended"
        /\ d = Records(ExitEnded(old, seen.exit, seen))
    BY <1>9 DEF Clears
  <2>2. d.request.kind = "none" /\ d.events = ExitEnded(old, seen.exit, seen)
    BY <2>1 DEF Records, NoRequest
  <2> DEFINE c == AfterAll(old, d.events)
  <2>3. Becomes(b, c) /\ SameOrders
    BY <1>4, <2>2
  <2>4. /\ Stands(c, NoOne, "none", old.quantity - Sold(b), 0, c.phase)
        /\ old.role = "sale" => c.phase = IF old.quantity - Sold(b) <= 0 THEN "ended"
                                          ELSE IF old.phase = "selling" THEN "guarding" ELSE old.phase
        /\ old.role # "sale" => IF State(old.exit) = "filled" THEN c.phase = "ended"
                                                            ELSE c.phase \in {old.phase, "guarding"}
    BY <1>1, <1>5, <1>6, <2>1, <2>2, AfterExitEnded
  <2> HIDE DEF c
  <2> QED BY <2>1, <2>3, <2>4, <1>4, <1>6 DEF ClearedStep
<1>10. CASE Drops(old, seen, d)
  <2>1. old.phase = "closing-for-sale" /\ b \notin selling /\ d = Records(<<Ev("sale-dropped")>>)
    BY <1>10, <1>5 DEF Drops
  <2>2. d.request.kind = "none" /\ d.events = <<Ev("sale-dropped")>>
    BY <2>1 DEF Records, NoRequest
  <2> DEFINE c == After(old, Ev("sale-dropped"))
  <2>3. Becomes(b, c) /\ SameOrders
    BY <1>4, <2>2, AfterEvents
  <2>4. Stands(c, old.exit, old.role, old.quantity, old.at_qty, "guarding")
    BY <1>1, <2>1, AfterDropped
  <2> HIDE DEF c
  <2> QED BY <2>1, <2>3, <2>4, <1>4 DEF EasedStep
<1>11. CASE Returns(old, d)
  <2>1. ~HasExit(old) /\ old.phase \in {"firing", "selling"} /\ d = Records(<<Moved("guarding")>>)
    BY <1>11 DEF Returns
  <2>2. d.request.kind = "none" /\ d.events = <<Moved("guarding")>>
    BY <2>1 DEF Records, NoRequest
  <2> DEFINE c == After(old, Moved("guarding"))
  <2>3. Becomes(b, c) /\ SameOrders
    BY <1>4, <2>2, AfterEvents
  <2>4. "guarding" \in Phase_ /\ <<old.phase, "guarding">> \in PhaseMoves
    BY <2>1 DEF Phase_, PhaseMoves
  <2>5. Stands(c, old.exit, old.role, old.quantity, old.at_qty, "guarding")
    BY <1>1, <2>4, AfterMoved
  <2> HIDE DEF c
  <2> QED BY <2>1, <2>3, <2>5, <1>4 DEF EasedStep
<1>12. CASE Resizes(old, d)
  <2>1. d.events = <<>> /\ d.request.kind = "resize"
    BY <1>12 DEF Resizes, Sends, ResizeOf
  <2>2. Becomes(b, old) /\ SameOrders
    BY <1>4, <2>1, AfterEvents
  <2> QED BY <2>2, <1>1, <1>4 DEF Still, Becomes
<1> QED BY <1>3, <1>4, <1>7, <1>8, <1>9, <1>10, <1>11, <1>12 DEF Shape

------------------------------------------------------------------------------
(* The types are kept. *)

\* One bracket changed.
LEMMA BracketTypes ==
  ASSUME Types, NEW b \in Brackets, NEW c \in Bracket_, ExitIs(b, c.exit, c.role), Becomes(b, c)
  PROVE  /\ bracket' \in [Brackets -> Bracket_] /\ bracket'[b] = c
         /\ \A d \in Brackets : ExitIs(d, bracket'[d].exit, bracket'[d].role) /\ (d # b => bracket'[d] = bracket[d])
BY DEF Types, Becomes

\* One order changed.
LEMMA OrderTypes ==
  ASSUME Types, NEW o \in Orders, NEW w \in Order_, w.fold.state = "unwritten" => w = Unwritten,
         order' = [order EXCEPT ![o] = w]
  PROVE  /\ order' \in [Orders -> Order_] /\ order'[o] = w
         /\ \A u \in Orders : /\ order'[u].fold.state = "unwritten" => order'[u] = Unwritten
                              /\ u # o => order'[u] = order[u]
BY DEF Types, State

\* One order changed at the broker.
LEMMA BrokerTypes ==
  ASSUME Types, NEW o \in Orders, NEW r \in Broker_, r.filled <= r.quantity,
         broker' = [broker EXCEPT ![o] = r]
  PROVE  /\ broker' \in [Orders -> Broker_] /\ broker'[o] = r
         /\ \A u \in Orders : broker'[u].filled <= broker'[u].quantity /\ (u # o => broker'[u] = broker[u])
BY DEF Types

\* One seller changed.
LEMMA SellerTypes ==
  ASSUME Types, NEW s \in Sales, NEW v \in Seller_, v.todo \subseteq DOMAIN v.share,
         seller' = [seller EXCEPT ![s] = v]
  PROVE  /\ seller' \in [Sales -> Seller_] /\ seller'[s] = v
         /\ \A t \in Sales : seller'[t].todo \subseteq DOMAIN seller'[t].share /\ (t # s => seller'[t] = seller[t])
BY DEF Types

\* Every order is a bracket's or a sale; there are finitely many.
LEMMA OrderSets ==
  /\ Orders = Brackets \cup Sales /\ Brackets \cap Sales = {}
  /\ IsFiniteSet(Orders) /\ IsFiniteSet(Brackets) /\ IsFiniteSet(Sales)
  /\ Orders \subseteq Nat \ {0} /\ NoOne \notin Orders
BY FS_Subset DEF SaleAssumption, Orders, NoOne

\* An order as it starts, in the book and at the broker.
LEMMA Starts ==
  /\ Unwritten \in Order_ /\ Unwritten.fold.state = "unwritten" /\ Unwritten.fold.filled = 0
  /\ NotThere \in Broker_ /\ NotThere.status = "not-found" /\ NotThere.filled = 0 /\ NotThere.quantity = 0
  /\ Start(FALSE) \in Fold_ /\ Start(FALSE).state = "sending" /\ Start(FALSE).filled = 0
  /\ \A n \in Nat : /\ Open(n) \in Broker_ /\ Open(n).status = "open" /\ Open(n).filled = 0 /\ Open(n).quantity = n
  /\ Idle \in Seller_ /\ Idle.at = "idle" /\ Idle.todo = {} /\ DOMAIN Idle.share = {} /\ Idle.quantity = 0
<1>1. Unwritten \in Order_ /\ Unwritten.fold.state = "unwritten" /\ Unwritten.fold.filled = 0
  BY DEF Unwritten, Order_, Fold_
<1>2. NotThere \in Broker_ /\ NotThere.status = "not-found" /\ NotThere.filled = 0 /\ NotThere.quantity = 0
  BY DEF NotThere, Broker_
<1>3. Start(FALSE) \in Fold_ /\ Start(FALSE).state = "sending" /\ Start(FALSE).filled = 0
  BY DEF Start, Fold_, OrderState
<1>4. ASSUME NEW n \in Nat
      PROVE Open(n) \in Broker_ /\ Open(n).status = "open" /\ Open(n).filled = 0 /\ Open(n).quantity = n
  BY <1>2 DEF Open, Broker_
<1>5. Idle \in Seller_ /\ Idle.at = "idle" /\ Idle.todo = {} /\ DOMAIN Idle.share = {} /\ Idle.quantity = 0
  <2>1. <<>> \in [{} -> Int] /\ DOMAIN <<>> = {}
    OBVIOUS
  <2>2. <<>> \in Share_
    BY <2>1 DEF Share_
  <2> QED BY <2>1, <2>2 DEF Idle, Seller_, SellerStep
<1> QED BY <1>1, <1>2, <1>3, <1>4, <1>5

\* What the events of an order make of its fold.
LEMMA FoldTypes ==
  ASSUME NEW f \in Fold_, f.state # "unwritten"
  PROVE  /\ \A e \in {Accepted, Refused, Unclear, NotSent, CancelAsked, CancelRefused} :
              LET g == Apply(f, e) IN g \in Fold_ /\ g.state # "unwritten" /\ g.filled = f.filled
         /\ \A status \in {"open", "filled", "cancelled", "not-found"}, n \in Nat :
              LET g == Apply(f, Read(status, n)) IN g \in Fold_ /\ g.state # "unwritten"
<1>1. Working(f) \in OrderState /\ Working(f) # "unwritten"
  BY DEF Working, OrderState
<1>2. Apply(f, Accepted) \in {f, [f EXCEPT !.broker_id = TRUE], [f EXCEPT !.state = Working(f), !.broker_id = TRUE]}
  BY DEF Apply, Accepted, OnAccepted
<1>3. /\ Apply(f, Refused) \in {f, [f EXCEPT !.state = "rejected"]}
      /\ Apply(f, Unclear) \in {f, [f EXCEPT !.state = "unconfirmed"]}
      /\ Apply(f, NotSent) \in {f, [f EXCEPT !.state = "failed"]}
  BY DEF Apply, Refused, Unclear, NotSent
<1>4. /\ Apply(f, CancelAsked) \in {f, [f EXCEPT !.state = "cancelling"]}
      /\ Apply(f, CancelRefused) \in {f, [f EXCEPT !.state = Working(f)]}
  BY DEF Apply, CancelAsked, CancelRefused
<1>5. ASSUME NEW e \in {Accepted, Refused, Unclear, NotSent, CancelAsked, CancelRefused}
      PROVE  Apply(f, e) \in Fold_ /\ Apply(f, e).state # "unwritten" /\ Apply(f, e).filled = f.filled
  <2> DEFINE g == Apply(f, e)
  <2>1. \/ g = f \/ g = [f EXCEPT !.broker_id = TRUE] \/ g = [f EXCEPT !.state = Working(f), !.broker_id = TRUE]
        \/ g = [f EXCEPT !.state = Working(f)]
        \/ \E s \in {"rejected", "unconfirmed", "failed", "cancelling"} : g = [f EXCEPT !.state = s]
    BY <1>2, <1>3, <1>4
  <2> HIDE DEF g
  <2>2. g \in Fold_ /\ g.state # "unwritten" /\ g.filled = f.filled
    BY <2>1, <1>1 DEF Fold_, OrderState
  <2> QED BY <2>2 DEF g
<1>6. ASSUME NEW status \in {"open", "filled", "cancelled", "not-found"}, NEW n \in Nat
      PROVE  Apply(f, Read(status, n)) \in Fold_ /\ Apply(f, Read(status, n)).state # "unwritten"
  <2> DEFINE g == Apply(f, Read(status, n))  s == ReadState(f, status, n)
  <2>1. g = OnRead(f, status, n)
    BY DEF Apply, Read
  <2>2. \/ g = f \/ g = [f EXCEPT !.state = "failed"] \/ g = [f EXCEPT !.filled = n]
        \/ status # "not-found" /\ g = [f EXCEPT !.state = s, !.filled = n]
        \/ g = [f EXCEPT !.state = "filled", !.filled = n]
    BY <2>1 DEF OnRead
  <2>3. status # "not-found" => s \in OrderState /\ s # "unwritten"
    BY DEF ReadState, Working, OrderState
  <2> HIDE DEF g, s
  <2>4. g \in Fold_ /\ g.state # "unwritten"
    BY <2>2, <2>3 DEF Fold_, OrderState
  <2> QED BY <2>4 DEF g
<1> QED BY <1>5, <1>6

\* A cancel asked of an order.
LEMMA CancelTypes ==
  ASSUME Types, NEW o \in Orders, State(o) # "unwritten", CancelOrder(o)
  PROVE  /\ order' \in [Orders -> Order_] /\ broker' \in [Orders -> Broker_]
         /\ \A u \in Orders : /\ order'[u].fold.state = "unwritten" => order'[u] = Unwritten
                              /\ u # o => order'[u] = order[u]
                              /\ broker'[u].status = broker[u].status /\ broker'[u].filled = broker[u].filled
                              /\ broker'[u].quantity = broker[u].quantity
         /\ order'[o].fold \in {Apply(order[o].fold, CancelAsked), Apply(Apply(order[o].fold, CancelAsked), CancelRefused)}
         /\ order'[o].fold.filled = order[o].fold.filled
<1> DEFINE f == order[o].fold  g == Apply(f, CancelAsked)  h == Apply(g, CancelRefused)
<1>1. order[o] \in Order_ /\ f \in Fold_ /\ f.state # "unwritten" /\ broker \in [Orders -> Broker_]
      /\ order \in [Orders -> Order_]
  BY DEF Types, Order_, State
<1>2. g \in Fold_ /\ g.state # "unwritten" /\ g.filled = f.filled
  BY <1>1, FoldTypes
<1>3. h \in Fold_ /\ h.state # "unwritten" /\ h.filled = f.filled
  BY <1>2, FoldTypes
<1>4. /\ order' = [order EXCEPT ![o].fold = g, ![o].asked = TRUE] \/ order' = [order EXCEPT ![o].fold = h, ![o].asked = TRUE]
      /\ broker' = broker \/ broker' = [broker EXCEPT ![o].cancelling = (broker[o].status = "open")]
  BY DEF CancelOrder
<1> HIDE DEF f, g, h
<1>5. PICK k \in {g, h} : order' = [order EXCEPT ![o] = [order[o] EXCEPT !.fold = k, !.asked = TRUE]]
  <2>1. ASSUME NEW k
        PROVE  [order EXCEPT ![o].fold = k, ![o].asked = TRUE] = [order EXCEPT ![o] = [order[o] EXCEPT !.fold = k, !.asked = TRUE]]
    BY <1>1
  <2> QED BY <1>4, <2>1
<1>6. /\ order' \in [Orders -> Order_] /\ order'[o].fold = k
      /\ \A u \in Orders : /\ order'[u].fold.state = "unwritten" => order'[u] = Unwritten
                           /\ u # o => order'[u] = order[u]
  <2> DEFINE w == [order[o] EXCEPT !.fold = k, !.asked = TRUE]
  <2>1. w \in Order_ /\ w.fold = k /\ w.fold.state # "unwritten"
    BY <1>1, <1>2, <1>3 DEF Order_
  <2> HIDE DEF w
  <2> QED BY <2>1, <1>5, OrderTypes DEF w
<1>7. broker' \in [Orders -> Broker_] /\ \A u \in Orders :
         broker'[u].status = broker[u].status /\ broker'[u].filled = broker[u].filled /\ broker'[u].quantity = broker[u].quantity
  <2>1. CASE broker' = broker
    BY <1>1, <2>1
  <2>2. CASE broker' = [broker EXCEPT ![o].cancelling = (broker[o].status = "open")]
    <3> DEFINE r == [broker[o] EXCEPT !.cancelling = (broker[o].status = "open")]
    <3>1. broker[o] \in Broker_ /\ broker' = [broker EXCEPT ![o] = r]
      BY <1>1, <2>2
    <3>2. r \in Broker_ /\ r.status = broker[o].status /\ r.filled = broker[o].filled /\ r.quantity = broker[o].quantity
      BY <3>1 DEF Broker_
    <3> HIDE DEF r
    <3> QED BY <1>1, <3>1, <3>2
  <2> QED BY <1>4, <2>1, <2>2
<1> QED BY <1>2, <1>3, <1>5, <1>6, <1>7 DEF f, g, h

\* Every bracket starts armed, with its shares.
LEMMA Armed_ ==
  Stands(After(Created(Part, StopLeg, 0), Armed(Part, 0)), NoOne, "none", Part, 0, "guarding")
<1> DEFINE b == Created(Part, StopLeg, 0)
           c == [b EXCEPT !.quantity = Part, !.entry_filled = Part, !.phase = "guarding", !.stop = StopLeg]
<1>1. b.stop = StopLeg /\ b.stop.trail = 0 /\ b.phase = "waiting"
  BY DEF Created, StopLeg
<1>2. After(b, Armed(Part, 0)) = c
  <2>1. After(b, Armed(Part, 0)) = OnArmed(b, Armed(Part, 0))
    BY <1>1 DEF After, IsMove, Move, Armed
  <2> HIDE DEF b
  <2>2. OnArmed(b, Armed(Part, 0)) = [b EXCEPT !.quantity = Part, !.entry_filled = Part, !.phase = "guarding", !.stop = b.stop]
    BY <1>1 DEF OnArmed, Armed
  <2> QED BY <2>1, <2>2, <1>1
<1>3. NoRefusal \in Refusal_
  BY DEF NoRefusal, Refusal_
<1>4. c \in Bracket_ /\ c.exit = NoOne /\ c.role = "none" /\ c.quantity = Part /\ c.at_qty = 0 /\ c.phase = "guarding"
  <2> DEFINE New_ == [phase : Phase_ \cup {"waiting"}, quantity : Int, stop : {StopLeg}, target : {0},
                      exit : Orders \cup {NoOne}, role : Role_ \cup {"none"}, at_price : Int, at_qty : Int,
                      refused : Refusal_, entry_filled : Int, off_broker : BOOLEAN, outcome : Outcome_, sale : Int]
  <2>1. Part \in Int /\ 0 \in Int /\ "guarding" \in Phase_ /\ "none" \in Outcome_
    BY DEF SaleAssumption, Phase_, Outcome_
  <2>2. b \in New_ /\ b.exit = NoOne /\ b.role = "none" /\ b.at_qty = 0
    BY <1>3, <2>1 DEF Created
  <2> HIDE DEF b
  <2> QED BY <2>1, <2>2 DEF Bracket_
<1> HIDE DEF b, c
<1> QED BY <1>2, <1>4 DEF Stands, b

\* The types hold at first.
LEMMA InitTypes == ASSUME Init PROVE Types
<1> DEFINE c == After(Created(Part, StopLeg, 0), Armed(Part, 0))
<1>1. bracket = [b \in Brackets |-> c]
  BY DEF Init, StopLeg
<1>2. c \in Bracket_ /\ c.exit = NoOne /\ c.role = "none"
  BY Armed_ DEF Stands
<1> HIDE DEF c
<1>3. bracket \in [Brackets -> Bracket_] /\ \A b \in Brackets : ExitIs(b, bracket[b].exit, bracket[b].role)
  BY <1>1, <1>2 DEF ExitIs
<1>4. /\ order \in [Orders -> Order_] /\ \A o \in Orders : order[o] = Unwritten
      /\ broker \in [Orders -> Broker_] /\ \A o \in Orders : broker[o].filled <= broker[o].quantity
  BY Starts DEF Init
<1>5. seller \in [Sales -> Seller_] /\ \A s \in Sales : seller[s].todo \subseteq DOMAIN seller[s].share
  BY Starts DEF Init
<1>6. selling \subseteq Brackets /\ sold \in Nat /\ crashes \in 0 .. MaxCrashes
  BY DEF Init, SaleAssumption
<1> QED BY <1>3, <1>4, <1>5, <1>6 DEF Types

\* A check of a bracket, whatever of it is answered, keeps the types.
LEMMA CheckTypes == ASSUME Types, NEW b \in Brackets, Checking(b) PROVE Types'
<1>1. PICK shown : Step(b, shown)
  BY DEF Checking
<1>2. /\ UNCHANGED <<seller, selling, sold, crashes>>
      /\ Still(b) \/ PlacedStep(b) \/ CancelledStep(b) \/ ClearedStep(b) \/ EasedStep(b)
  BY <1>1, StepShape
<1>3. b \in Orders /\ bracket[b] \in Bracket_ /\ ExitIs(b, bracket[b].exit, bracket[b].role)
  BY DEF Types, Orders
<1>4. CASE Still(b)
  BY <1>2, <1>4 DEF Types, Still, SameOrders, State
<1>5. CASE PlacedStep(b)
  <2>1. PICK role \in Own_, c \in Bracket_ : c.exit = b /\ c.role = role /\ Becomes(b, c)
    BY <1>5 DEF PlacedStep, Stands
  <2>2. bracket' \in [Brackets -> Bracket_] /\ \A d \in Brackets : ExitIs(d, bracket'[d].exit, bracket'[d].role)
    <3>1. ExitIs(b, c.exit, c.role)
      BY <2>1 DEF ExitIs
    <3> QED BY <2>1, <3>1, BracketTypes
  <2> DEFINE w == [Unwritten EXCEPT !.fold = Apply(Start(FALSE), Accepted)]
  <2>3. w \in Order_ /\ w.fold.state # "unwritten"
    <3>1. Apply(Start(FALSE), Accepted) \in Fold_ /\ Apply(Start(FALSE), Accepted).state # "unwritten"
      BY Starts, FoldTypes
    <3> QED BY <3>1, Starts DEF Order_
  <2>4. order' = [order EXCEPT ![b] = w] /\ broker' = [broker EXCEPT ![b] = Open(bracket[b].quantity)]
        /\ bracket[b].quantity \in Nat
    BY <1>3, <1>5 DEF PlacedStep, Bracket_
  <2> HIDE DEF w
  <2>5. order' \in [Orders -> Order_] /\ \A u \in Orders : order'[u].fold.state = "unwritten" => order'[u] = Unwritten
    BY <1>3, <2>3, <2>4, OrderTypes
  <2>6. broker' \in [Orders -> Broker_] /\ \A u \in Orders : broker'[u].filled <= broker'[u].quantity
    <3>1. Open(bracket[b].quantity) \in Broker_ /\ Open(bracket[b].quantity).filled <= Open(bracket[b].quantity).quantity
      BY <2>4, Starts
    <3> QED BY <1>3, <2>4, <3>1, BrokerTypes
  <2> QED BY <1>2, <2>2, <2>5, <2>6 DEF Types, State
<1>6. CASE CancelledStep(b)
  <2>1. PICK c \in Bracket_ : c.exit = bracket[b].exit /\ c.role = bracket[b].role /\ Becomes(b, c)
    BY <1>6 DEF CancelledStep, Stands
  <2>2. bracket' \in [Brackets -> Bracket_] /\ \A d \in Brackets : ExitIs(d, bracket'[d].exit, bracket'[d].role)
    BY <1>3, <2>1, BracketTypes
  <2>3. CASE SameOrders
    BY <1>2, <2>2, <2>3 DEF Types, SameOrders, State
  <2>4. CASE State(bracket[b].exit) \in Resting \cup {"cancelling"} /\ CancelOrder(bracket[b].exit)
    <3>1. bracket[b].exit \in Orders /\ State(bracket[b].exit) # "unwritten"
      BY <1>3, <1>6, <2>4 DEF CancelledStep, HasExit, Bracket_, Resting
    <3> QED BY <1>2, <2>2, <2>4, <3>1, CancelTypes DEF Types, State
  <2> QED BY <1>6, <2>3, <2>4 DEF CancelledStep
<1>7. CASE ClearedStep(b)
  <2>1. PICK c \in Bracket_ : c.exit = NoOne /\ c.role = "none" /\ Becomes(b, c)
    BY <1>7 DEF ClearedStep, Stands
  <2>2. bracket' \in [Brackets -> Bracket_] /\ \A d \in Brackets : ExitIs(d, bracket'[d].exit, bracket'[d].role)
    <3>1. ExitIs(b, c.exit, c.role)
      BY <2>1 DEF ExitIs
    <3> QED BY <2>1, <3>1, BracketTypes
  <2> QED BY <1>2, <1>7, <2>2 DEF Types, ClearedStep, SameOrders, State
<1>8. CASE EasedStep(b)
  <2>1. PICK c \in Bracket_ : c.exit = bracket[b].exit /\ c.role = bracket[b].role /\ Becomes(b, c)
    BY <1>8 DEF EasedStep, Stands
  <2>2. bracket' \in [Brackets -> Bracket_] /\ \A d \in Brackets : ExitIs(d, bracket'[d].exit, bracket'[d].role)
    BY <1>3, <2>1, BracketTypes
  <2> QED BY <1>2, <1>8, <2>2 DEF Types, EasedStep, SameOrders, State
<1> QED BY <1>2, <1>4, <1>5, <1>6, <1>7, <1>8

\* What a sale would take of the brackets is a number of shares of each.
LEMMA ShareType ==
  ASSUME Types, NEW n \in Nat
  PROVE  /\ Shares(n) \in Share_ /\ DOMAIN Shares(n) \subseteq Guarding /\ Guarding \subseteq Brackets
<1> DEFINE qty == [c \in Guarding |-> bracket[c].quantity]
           left(b) == n - SumOf(qty, {c \in Guarding : c < b})
           D == {c \in Guarding : left(c) > 0}
<1>1. Guarding \subseteq Brackets /\ \A c \in Brackets : bracket[c].quantity \in Int
  BY DEF Guarding, Types, Bracket_
<1>2. ASSUME NEW b \in Brackets PROVE left(b) \in Int
  <2>1. IsFiniteSet({c \in Guarding : c < b}) /\ \A c \in {c \in Guarding : c < b} : qty[c] \in Int
    BY <1>1, OrderSets, FS_Subset
  <2>2. SumOf(qty, {c \in Guarding : c < b}) \in Int
    <3> HIDE DEF qty
    <3> QED BY <2>1, SumType
  <2> QED BY <2>2
<1>3. Shares(n) = [b \in D |-> AtMost(bracket[b].quantity, left(b))]
  BY DEF Shares
<1>4. D \subseteq Guarding
  OBVIOUS
<1> HIDE DEF left, D
<1>5. Shares(n) \in [D -> Int]
  BY <1>1, <1>2, <1>3, <1>4 DEF AtMost
<1>6. D \in SUBSET Brackets
  BY <1>1, <1>4
<1>7. Shares(n) \in Share_
  BY <1>5, <1>6 DEF Share_
<1> QED BY <1>1, <1>3, <1>4, <1>7

\* What a sale holds of the brackets.
LEMMA ShareIs ==
  ASSUME NEW f \in Share_
  PROVE  DOMAIN f \subseteq Brackets /\ \A b \in DOMAIN f : f[b] \in Int
<1>1. PICK D \in SUBSET Brackets : f \in [D -> Int]
  BY DEF Share_
<1> QED BY <1>1

\* A sale asked of the ticket takes shares of brackets it knows, and no more than each has.
LEMMA AskTypes == ASSUME Types, NEW s \in Sales, Ask(s) PROVE Types'
<1>1. PICK quantity \in 1 .. Held - sold :
        LET share == Shares(quantity) IN
        /\ seller' = [seller EXCEPT ![s] = [Idle EXCEPT !.at = "marking", !.quantity = quantity,
                                                        !.share = share, !.todo = DOMAIN share]]
        /\ selling' = selling \cup DOMAIN share
  BY DEF Ask
<1> DEFINE share == Shares(quantity)
           v == [Idle EXCEPT !.at = "marking", !.quantity = quantity, !.share = share, !.todo = DOMAIN share]
<1>2. quantity \in Nat
  OBVIOUS
<1>3. share \in Share_ /\ DOMAIN share \subseteq Brackets
  BY <1>2, ShareType
<1>4. seller' = [seller EXCEPT ![s] = v] /\ selling' = selling \cup DOMAIN share
  BY <1>1
<1> HIDE DEF share
<1>5. v \in Seller_ /\ v.todo \subseteq DOMAIN v.share
  BY <1>2, <1>3, Starts DEF Seller_, SellerStep
<1> HIDE DEF v
<1>6. seller' \in [Sales -> Seller_] /\ \A t \in Sales : seller'[t].todo \subseteq DOMAIN seller'[t].share
  BY <1>4, <1>5, SellerTypes
<1>7. UNCHANGED <<bracket, order, broker, sold, crashes>>
  BY DEF Ask
<1> QED BY <1>3, <1>4, <1>6, <1>7 DEF Types, State

\* The next bracket of a sale's thread is one of those it visits.
LEMMA NextIs ==
  ASSUME Types, NEW s \in Sales, seller[s].todo # {}
  PROVE  /\ NextOf(s) \in seller[s].todo /\ NextOf(s) \in DOMAIN seller[s].share /\ NextOf(s) \in Brackets
         /\ seller[s].share[NextOf(s)] \in Int
<1>1. seller[s].todo \subseteq DOMAIN seller[s].share /\ seller[s] \in Seller_
  BY DEF Types
<1>2. DOMAIN seller[s].share \subseteq Brackets /\ \A b \in DOMAIN seller[s].share : seller[s].share[b] \in Int
  BY <1>1, ShareIs DEF Seller_
<1>3. seller[s].todo \in SUBSET Nat
  BY <1>1, <1>2, OrderSets
<1>4. PICK n \in seller[s].todo : \A m \in seller[s].todo : n <= m
  BY <1>3, Least
<1>5. NextOf(s) \in seller[s].todo
  BY <1>4 DEF NextOf, Min
<1> QED BY <1>1, <1>2, <1>5

\* A seller that goes on to its next step, or its next bracket.
LEMMA SellerMoves ==
  ASSUME Types, NEW s \in Sales
  PROVE  /\ \A step \in SellerStep : To(s, step) =>
              seller' \in [Sales -> Seller_] /\ \A t \in Sales : seller'[t].todo \subseteq DOMAIN seller'[t].share
         /\ \A clear \in BOOLEAN :
              seller' = [seller EXCEPT ![s].todo = @ \ {NextOf(s)}, ![s].clear = clear] =>
              seller' \in [Sales -> Seller_] /\ \A t \in Sales : seller'[t].todo \subseteq DOMAIN seller'[t].share
         /\ Visited(s) =>
              seller' \in [Sales -> Seller_] /\ \A t \in Sales : seller'[t].todo \subseteq DOMAIN seller'[t].share
<1>1. seller \in [Sales -> Seller_] /\ seller[s] \in Seller_ /\ seller[s].todo \subseteq DOMAIN seller[s].share
  BY DEF Types
<1>2. DOMAIN seller[s].share \subseteq Brackets
  BY <1>1, ShareIs DEF Seller_
<1>3. ASSUME NEW step \in SellerStep, To(s, step)
      PROVE  seller' \in [Sales -> Seller_] /\ \A t \in Sales : seller'[t].todo \subseteq DOMAIN seller'[t].share
  <2> DEFINE v == [seller[s] EXCEPT !.at = step, !.todo = DOMAIN seller[s].share, !.clear = TRUE]
  <2>1. seller' = [seller EXCEPT ![s] = v]
    BY <1>1, <1>3 DEF To, Seller_
  <2>2. v \in Seller_ /\ v.todo \subseteq DOMAIN v.share
    BY <1>1, <1>2 DEF Seller_
  <2> HIDE DEF v
  <2> QED BY <2>1, <2>2, SellerTypes
<1>4. ASSUME NEW clear \in BOOLEAN, seller' = [seller EXCEPT ![s].todo = @ \ {NextOf(s)}, ![s].clear = clear]
      PROVE  seller' \in [Sales -> Seller_] /\ \A t \in Sales : seller'[t].todo \subseteq DOMAIN seller'[t].share
  <2> DEFINE v == [seller[s] EXCEPT !.todo = @ \ {NextOf(s)}, !.clear = clear]
  <2>1. seller' = [seller EXCEPT ![s] = v]
    BY <1>1, <1>4 DEF Seller_
  <2>2. v \in Seller_ /\ v.todo \subseteq DOMAIN v.share
    BY <1>1, <1>2 DEF Seller_
  <2> HIDE DEF v
  <2> QED BY <2>1, <2>2, SellerTypes
<1>5. ASSUME Visited(s)
      PROVE  seller' \in [Sales -> Seller_] /\ \A t \in Sales : seller'[t].todo \subseteq DOMAIN seller'[t].share
  <2> DEFINE v == [seller[s] EXCEPT !.todo = @ \ {NextOf(s)}]
  <2>1. seller' = [seller EXCEPT ![s] = v]
    BY <1>1, <1>5 DEF Visited, Seller_
  <2>2. v \in Seller_ /\ v.todo \subseteq DOMAIN v.share
    BY <1>1, <1>2 DEF Seller_
  <2> HIDE DEF v
  <2> QED BY <2>1, <2>2, SellerTypes
<1> QED BY <1>3, <1>4, <1>5

\* A step of the seller that only reads or tells a bracket.
LEMMA SellingTypes == ASSUME Types, NEW s \in Sales, Selling(s) PROVE Types'
<1> DEFINE n == NextOf(s)
           SellerIs == seller' \in [Sales -> Seller_] /\ \A t \in Sales : seller'[t].todo \subseteq DOMAIN seller'[t].share
           BracketIs == bracket' \in [Brackets -> Bracket_] /\ \A d \in Brackets : ExitIs(d, bracket'[d].exit, bracket'[d].role)
           OrderIs == /\ order' \in [Orders -> Order_] /\ broker' \in [Orders -> Broker_]
                      /\ \A u \in Orders : /\ order'[u].fold.state = "unwritten" => order'[u] = Unwritten
                                           /\ broker'[u].filled <= broker'[u].quantity
<1>1. /\ UNCHANGED bracket => BracketIs
      /\ UNCHANGED <<order, broker>> => OrderIs
      /\ UNCHANGED seller => SellerIs
  BY DEF Types, State
<1>2. ASSUME SellerIs, BracketIs, OrderIs, UNCHANGED <<selling, sold, crashes>> PROVE Types'
  BY <1>2 DEF Types, State
<1>3. \A step \in SellerStep : To(s, step) => SellerIs
  BY SellerMoves
<1>4. Visited(s) => SellerIs
  BY SellerMoves
<1>5. {"watching", "dropping", "sending", "sent", "settling", "telling"} \subseteq SellerStep
  BY DEF SellerStep
<1>6. ASSUME NEW c, seller[s].todo # {}, n \in Brackets, Becomes(n, c),
             Stands(c, bracket[n].exit, bracket[n].role, bracket[n].quantity, bracket[n].at_qty, c.phase)
             \/ Stands(c, s, "sale", bracket[n].quantity, c.at_qty, c.phase)
      PROVE  BracketIs
  <2>1. c \in Bracket_ /\ ExitIs(n, bracket[n].exit, bracket[n].role)
    BY <1>6 DEF Stands, Types
  <2>2. ExitIs(n, c.exit, c.role)
    BY <2>1, <1>6 DEF Stands, ExitIs
  <2> HIDE DEF n
  <2> QED BY <1>6, <2>1, <2>2, BracketTypes
<1>7. ASSUME seller[s].todo # {} PROVE n \in Brackets /\ bracket[n] \in Bracket_ /\ seller[s].share[n] \in Int
  BY <1>7, NextIs DEF Types
<1>8. s \in Orders /\ order[s] \in Order_ /\ broker[s] \in Broker_ /\ seller[s].quantity \in Nat
  BY OrderSets DEF Types, Seller_
<1> HIDE DEF SellerIs, BracketIs, OrderIs
<1>9. CASE Mark(s)
  <2>1. CASE Visiting(s, "marking") /\ Visited(s) /\ Becomes(n, After(bracket[n], SaleAsked(seller[s].share[n])))
    <3>1. Stands(After(bracket[n], SaleAsked(seller[s].share[n])), bracket[n].exit, bracket[n].role,
                 bracket[n].quantity, bracket[n].at_qty, After(bracket[n], SaleAsked(seller[s].share[n])).phase)
      BY <2>1, <1>7, AfterSaleAsked DEF Visiting, Stands
    <3> QED BY <1>1, <1>2, <1>4, <1>6, <1>7, <1>9, <2>1, <3>1 DEF Mark, Visiting
  <2>2. CASE To(s, "watching") /\ UNCHANGED bracket
    BY <1>1, <1>2, <1>3, <1>5, <1>9, <2>2 DEF Mark
  <2> QED BY <1>9, <2>1, <2>2 DEF Mark, Becomes
<1>10. CASE Watch(s)
  <2>1. CASE \E step \in SellerStep : To(s, step)
    BY <1>1, <1>2, <1>3, <1>10, <2>1 DEF Watch
  <2>2. CASE seller' = [seller EXCEPT ![s].todo = @ \ {n}, ![s].clear = @ /\ ClearForSale(bracket[n])]
    <3>1. (seller[s].clear /\ ClearForSale(bracket[n])) \in BOOLEAN
      OBVIOUS
    <3>2. SellerIs
      <4>1. seller' = [seller EXCEPT ![s].todo = @ \ {n}, ![s].clear = (seller[s].clear /\ ClearForSale(bracket[n]))]
        BY <2>2 DEF Types
      <4> QED BY <3>1, <4>1, SellerMoves DEF SellerIs
    <3> QED BY <1>1, <1>2, <1>10, <3>2 DEF Watch
  <2> QED BY <1>10, <2>1, <2>2, <1>5 DEF Watch
<1>11. CASE GiveUp(s)
  BY <1>1, <1>2, <1>3, <1>5, <1>11 DEF GiveUp
<1>12. CASE Send(s)
  <2> DEFINE w == [order[s] EXCEPT !.fold = Start(FALSE)]
  <2>1. w \in Order_ /\ w.fold.state = "sending" /\ order' = [order EXCEPT ![s] = w]
    BY <1>8, <1>12, Starts DEF Send, Order_
  <2> HIDE DEF w
  <2>2. PICK there \in {Open(seller[s].quantity), NotThere} : broker' = [broker EXCEPT ![s] = there]
    BY <1>12 DEF Send
  <2>3. there \in Broker_ /\ there.filled <= there.quantity
    BY <2>2, <1>8, Starts
  <2>4. OrderIs
    BY <1>8, <2>1, <2>2, <2>3, OrderTypes, BrokerTypes DEF OrderIs
  <2> QED BY <1>1, <1>2, <1>3, <1>5, <1>12, <2>4 DEF Send
<1>13. CASE Hear(s)
  <2>1. PICK e \in {Refused, NotSent, Accepted, Unclear} :
          /\ order' = [order EXCEPT ![s].fold = Apply(@, e)]
          /\ \E step \in SellerStep : To(s, step)
    BY <1>13, <1>5 DEF Hear, Settled
  <2> DEFINE w == [order[s] EXCEPT !.fold = Apply(order[s].fold, e)]
  <2>2. order' = [order EXCEPT ![s] = w]
    BY <2>1, <1>8 DEF Types
  <2>3. w \in Order_ /\ (w.fold.state = "unwritten" => w = Unwritten)
    <3>1. CASE order[s].fold.state # "unwritten"
      BY <3>1, <1>8, <2>1, FoldTypes DEF Order_
    <3>2. CASE order[s].fold.state = "unwritten"
      <4>1. Apply(order[s].fold, e) = order[s].fold
        BY <3>2 DEF Apply, Refused, NotSent, Accepted, Unclear, OnAccepted, Unanswered
      <4>2. w = order[s] /\ order[s] = Unwritten
        BY <4>1, <3>2, <1>8 DEF Order_, Types, State
      <4> QED BY <4>2, <1>8
    <3> QED BY <3>1, <3>2
  <2> HIDE DEF w
  <2>4. UNCHANGED broker
    BY <1>13 DEF Hear
  <2>5. OrderIs
    BY <1>8, <2>2, <2>3, <2>4, OrderTypes DEF OrderIs, Types
  <2> QED BY <1>1, <1>2, <1>3, <2>1, <1>13, <2>5 DEF Hear
<1>14. CASE Settle(s)
  <2>1. \E step \in SellerStep : To(s, step)
    BY <1>14, <1>5 DEF Settle, Settled
  <2> QED BY <1>1, <1>2, <1>3, <1>14, <2>1 DEF Settle
<1>15. CASE Tell(s)
  <2> DEFINE c == After(bracket[n], SaleSent(s, seller[s].share[n]))
  <2>1. seller[s].todo # {} /\ Visited(s) /\ Becomes(n, c)
    BY <1>15 DEF Tell, Visiting, Becomes
  <2>2. n \in Brackets /\ bracket[n] \in Bracket_ /\ seller[s].share[n] \in Int
    BY <1>7, <2>1
  <2>3. \/ Stands(c, bracket[n].exit, bracket[n].role, bracket[n].quantity, bracket[n].at_qty, c.phase)
        \/ Stands(c, s, "sale", bracket[n].quantity, c.at_qty, c.phase)
    <3> HIDE DEF n
    <3>1. CASE bracket[n].phase = "closing-for-sale" /\ ~HasExit(bracket[n])
      <4>1. Stands(c, s, "sale", bracket[n].quantity, seller[s].share[n], "selling")
        BY <2>2, <3>1, AfterSaleSent
      <4> HIDE DEF c
      <4> QED BY <4>1 DEF Stands
    <3>2. CASE ~(bracket[n].phase = "closing-for-sale" /\ ~HasExit(bracket[n]))
      <4>1. c = bracket[n]
        BY <2>2, <3>2, AfterSaleSent
      <4> HIDE DEF c
      <4> QED BY <2>2, <4>1 DEF Stands
    <3> QED BY <3>1, <3>2
  <2> HIDE DEF c
  <2>4. BracketIs
    BY <2>1, <2>2, <2>3, <1>6
  <2> QED BY <1>1, <1>2, <1>4, <1>15, <2>1, <2>4 DEF Tell
<1>16. CASE Drop(s)
  <2> DEFINE c == After(bracket[n], Ev("sale-dropped"))
  <2>1. seller[s].todo # {} /\ Visited(s) /\ Becomes(n, c)
    BY <1>16 DEF Drop, Visiting, Becomes
  <2>2. n \in Brackets /\ bracket[n] \in Bracket_
    BY <1>7, <2>1
  <2>3. Stands(c, bracket[n].exit, bracket[n].role, bracket[n].quantity, bracket[n].at_qty, c.phase)
    BY <2>2, AfterDropped DEF Stands
  <2> HIDE DEF c
  <2>4. BracketIs
    BY <2>1, <2>2, <2>3, <1>6
  <2> QED BY <1>1, <1>2, <1>4, <1>16, <2>1, <2>4 DEF Drop
<1>17. CASE Answer(s)
  <2>1. seller' = [seller EXCEPT ![s] = Idle]
    BY <1>17 DEF Answer
  <2>2. SellerIs
    BY <2>1, Starts, SellerTypes DEF SellerIs
  <2> QED BY <1>1, <1>17, <2>2 DEF Answer, Types, State, SellerIs, BracketIs, OrderIs
<1> QED BY <1>9, <1>10, <1>11, <1>12, <1>13, <1>14, <1>15, <1>16, <1>17 DEF Selling

\* What goes on beside the checks and the sellers keeps the types: the read-back, the broker's
\* own moves, a cancelled sale, a process that stops.
LEMMA BesideTypes ==
  ASSUME Types, NEW o \in Orders, ReadBack(o) \/ Fill(o) \/ EndAtBroker(o) \/ (o \in Sales /\ CancelSale(o)) \/ Crash
  PROVE  Types'
<1>1. order[o] \in Order_ /\ order[o].fold \in Fold_ /\ broker[o] \in Broker_ /\ broker[o].filled <= broker[o].quantity
  BY DEF Types, Order_
<1>2. CASE ReadBack(o)
  <2> DEFINE g == Apply(order[o].fold, Read(broker[o].status, broker[o].filled))
             w == [order[o] EXCEPT !.fold = g]
  <2>1. order[o].fold.state # "unwritten"
    BY <1>2 DEF ReadBack, State, InFlight
  <2>2. g \in Fold_ /\ g.state # "unwritten"
    BY <1>1, <2>1, FoldTypes DEF Broker_
  <2>3. order' = [order EXCEPT ![o] = w]
    BY <1>2 DEF ReadBack, Types
  <2> HIDE DEF g
  <2>4. w \in Order_ /\ w.fold.state # "unwritten"
    BY <1>1, <2>2 DEF Order_
  <2> HIDE DEF w
  <2> QED BY <1>2, <2>3, <2>4, OrderTypes DEF ReadBack, Types, State
<1>3. CASE Fill(o)
  <2> DEFINE left == broker[o].quantity - broker[o].filled
  <2>1. PICK n \in Nat : /\ n <= left
                         /\ broker' = [broker EXCEPT ![o].filled = @ + n, ![o].status = IF n = left THEN "filled" ELSE @]
                         /\ sold' = sold + n
    <3>1. left \in Nat
      BY <1>1 DEF Broker_
    <3>2. PICK n \in IF PartFills THEN 1 .. left ELSE {left} :
            /\ broker' = [broker EXCEPT ![o].filled = @ + n, ![o].status = IF n = left THEN "filled" ELSE @]
            /\ sold' = sold + n
      BY <1>3 DEF Fill
    <3> HIDE DEF left
    <3>3. n \in Nat /\ n <= left
      BY <3>1
    <3> QED BY <3>2, <3>3
  <2> DEFINE r == [broker[o] EXCEPT !.filled = @ + n, !.status = IF n = left THEN "filled" ELSE @]
  <2>2. broker' = [broker EXCEPT ![o] = r]
    BY <2>1, <1>1 DEF Types, Broker_
  <2>3. r \in Broker_ /\ r.filled <= r.quantity
    <3> DEFINE f == broker[o].filled + n  st == IF n = left THEN "filled" ELSE broker[o].status
    <3>1. f \in Nat /\ f <= broker[o].quantity
      BY <2>1, <1>1 DEF Broker_
    <3>2. st \in {"open", "filled", "cancelled", "not-found"}
      BY <1>1 DEF Broker_
    <3>3. r = [broker[o] EXCEPT !.filled = f, !.status = st]
      BY <1>1 DEF Broker_
    <3> HIDE DEF f, st, r
    <3> QED BY <1>1, <3>1, <3>2, <3>3 DEF Broker_
  <2> HIDE DEF r
  <2>4. broker' \in [Orders -> Broker_] /\ \A u \in Orders : broker'[u].filled <= broker'[u].quantity
    BY <2>2, <2>3, BrokerTypes
  <2>5. sold' \in Nat
    BY <2>1 DEF Types
  <2> QED BY <1>3, <2>4, <2>5 DEF Fill, Types, State
<1>4. CASE EndAtBroker(o)
  <2> DEFINE r == [broker[o] EXCEPT !.status = "cancelled"]
  <2>1. broker' = [broker EXCEPT ![o] = r]
    BY <1>4 DEF EndAtBroker, Types
  <2>2. r \in Broker_ /\ r.filled <= r.quantity
    BY <1>1 DEF Broker_
  <2> HIDE DEF r
  <2>3. broker' \in [Orders -> Broker_] /\ \A u \in Orders : broker'[u].filled <= broker'[u].quantity
    BY <2>1, <2>2, BrokerTypes
  <2> QED BY <1>4, <2>3 DEF EndAtBroker, Types, State
<1>5. CASE o \in Sales /\ CancelSale(o)
  <2>1. CancelOrder(o) /\ State(o) # "unwritten"
    BY <1>5 DEF CancelSale, Resting
  <2> QED BY <1>5, <2>1, CancelTypes DEF CancelSale, Types, State
<1>6. CASE Crash
  BY <1>6, Starts DEF Crash, Types, State, SaleAssumption
<1> QED BY <1>2, <1>3, <1>4, <1>5, <1>6

\* The types, as a property of the model: a bracket's exit is its own order or a sale, and
\* held as a sale exactly when it is one; an order's fold is one the log can make; the
\* broker never fills more than it was sent.
LEMMA TypesOK == ASSUME Types PROVE TypeOK
<1>1. ASSUME NEW b \in Brackets
      PROVE  /\ bracket[b].phase \in Phase /\ bracket[b].exit \in {NoOne, b} \cup Sales /\ bracket[b].quantity \in Int
             /\ bracket[b].role = "sale" <=> bracket[b].exit \in Sales
  <2>1. bracket[b] \in Bracket_ /\ ExitIs(b, bracket[b].exit, bracket[b].role)
    BY DEF Types
  <2>2. b \notin Sales /\ NoOne \notin Sales
    BY OrderSets
  <2> QED BY <2>1, <2>2 DEF Bracket_, ExitIs, Phase_, Phase, Own_
<1>2. ASSUME NEW o \in Orders
      PROVE  /\ order[o].fold \in Fold \/ order[o] = Unwritten
             /\ broker[o].status \in BrokerStatus /\ broker[o].filled \in 0 .. broker[o].quantity
  <2>1. order[o] \in Order_ /\ broker[o] \in Broker_ /\ broker[o].filled <= broker[o].quantity
        /\ (State(o) = "unwritten" => order[o] = Unwritten)
    BY DEF Types
  <2>2. order[o].fold \in Fold_ /\ (State(o) # "unwritten" => order[o].fold \in Fold)
    BY <2>1 DEF Order_, Fold_, Fold, State
  <2> QED BY <2>1, <2>2 DEF Broker_, BrokerStatus
<1>3. ASSUME NEW s \in Sales
      PROVE  seller[s].at \in SellerStep /\ seller[s].todo \subseteq Brackets /\ DOMAIN seller[s].share \subseteq Brackets
  <2>1. seller[s] \in Seller_
    BY DEF Types
  <2> QED BY <2>1, ShareIs DEF Seller_
<1> QED BY <1>1, <1>2, <1>3 DEF TypeOK, Types

\* Every step keeps the types.
LEMMA NextTypes == ASSUME Types, [Next]_vars PROVE Types'
<1>1. CASE UNCHANGED vars
  BY <1>1 DEF vars, Types, State
<1>2. CASE \E b \in Brackets : Checking(b)
  BY <1>2, CheckTypes
<1>3. CASE \E s \in Sales : Ask(s) \/ Selling(s) \/ CancelSale(s)
  BY <1>3, AskTypes, SellingTypes, BesideTypes, OrderSets
<1>4. CASE \E o \in Orders : ReadBack(o) \/ Fill(o) \/ EndAtBroker(o)
  BY <1>4, BesideTypes
<1>5. CASE Crash
  BY <1>5, Starts DEF Crash, Types, State, SaleAssumption
<1> QED BY <1>1, <1>2, <1>3, <1>4, <1>5 DEF Next

\* Whatever the broker does, whatever answer is lost and wherever the process stops, every
\* bracket, order and sale is of its type, for any number of brackets and sales.
THEOREM Typing == Spec => []TypeOK
<1>1. Init => Types
  BY InitTypes
<1>2. Types /\ [Next]_vars => Types'
  BY NextTypes
<1>3. Types => TypeOK
  BY TypesOK
<1> QED BY <1>1, <1>2, <1>3, PTL DEF Spec

------------------------------------------------------------------------------
(* Never neither: the invariant. *)

\* Nothing holds its next exit back.
Free(c) == c.refused = NoRefusal /\ c.off_broker = FALSE

\* A bracket's own order w, which the broker has as r: the book is not ahead of the broker, a
\* cancel the broker took was asked for, and what it ended unfilled it did not fill whole.
OwnReady(w, r) ==
  LET state == w.fold.state IN
  /\ state \in {"unwritten", "pending", "partly-filled", "cancelling", "filled", "cancelled"}
  /\ state # "unwritten" => r.status # "not-found"
  /\ r.cancelling \/ r.status = "cancelled" => w.asked
  /\ state = "cancelled" => r.status = "cancelled"
  /\ w.fold.filled <= r.filled
  /\ r.status \in {"open", "cancelled"} => r.filled < r.quantity

\* A bracket: its exit is an order that was written, its own one for all its shares.
BracketReady(b) ==
  LET c == bracket[b] IN
  /\ Free(c)
  /\ c.exit = b => State(b) # "unwritten" /\ broker[b].quantity = c.quantity
  /\ \A s \in Sales : c.exit = s => State(s) # "unwritten"

\* A sale: written before the brackets are told of it.
SaleReady(s) ==
  /\ seller[s].at \in {"sent", "settling", "telling"} => State(s) # "unwritten"
  /\ State(s) # "dry"

Ready ==
  /\ \A b \in Brackets : BracketReady(b) /\ OwnReady(order[b], broker[b])
  /\ \A s \in Sales : SaleReady(s)

\* Every event of a step here but a refusal and the broker's own cancel leaves it so.
LEMMA FreeAfter ==
  ASSUME NEW b \in Bracket_, Free(b), NEW e,
         e.kind \in {"cancel-asked", "moved", "sale-dropped", "ended", "cleared", "placed", "sale-asked", "sale-sent"}
  PROVE  Free(After(b, e))
<1> SUFFICES ASSUME IsMove(b, e) PROVE Free(Move(b, e))
  BY DEF After
<1>1. CASE e.kind = "cancel-asked"
  BY <1>1 DEF Move
<1>2. CASE e.kind = "moved"
  <2>1. Move(b, e) = [b EXCEPT !.phase = e.to]
    BY <1>2 DEF Move
  <2> QED BY <2>1 DEF Free, Bracket_
<1>3. CASE e.kind = "sale-dropped"
  <2>1. Move(b, e) = [b EXCEPT !.sale = 0, !.phase = "guarding"]
    BY <1>3 DEF Move, OnSaleDropped
  <2> QED BY <2>1 DEF Free, Bracket_
<1>4. CASE e.kind = "ended"
  <2> DEFINE phase == IF HasExit(b) THEN "closing" ELSE "ended"
  <2>1. Move(b, e) = [b EXCEPT !.outcome = e.outcome, !.sale = 0, !.phase = phase]
    BY <1>4 DEF Move, OnEnded
  <2> HIDE DEF phase
  <2> QED BY <2>1 DEF Free, Bracket_
<1>5. CASE e.kind = "cleared"
  <2>1. Move(b, e) = OnCleared(b, e)
    BY <1>5 DEF Move
  <2>2. OnCleared(b, e).refused = (IF e.filled > 0 THEN NoRefusal ELSE b.refused) /\ OnCleared(b, e).off_broker = b.off_broker
    BY DEF OnCleared, Bracket_
  <2> QED BY <2>1, <2>2 DEF Free
<1>6. CASE e.kind = "placed"
  <2>1. Move(b, e) = OnPlaced(b, e)
    BY <1>6 DEF Move
  <2>2. OnPlaced(b, e).refused = (IF b.refused.role = e.role THEN b.refused ELSE NoRefusal)
        /\ OnPlaced(b, e).off_broker = b.off_broker
    BY DEF OnPlaced, Bracket_
  <2> QED BY <2>1, <2>2 DEF Free
<1>7. CASE e.kind = "sale-asked"
  <2>1. Move(b, e) = [b EXCEPT !.sale = e.quantity, !.phase = "closing-for-sale"]
    BY <1>7 DEF Move
  <2> QED BY <2>1 DEF Free, Bracket_
<1>8. CASE e.kind = "sale-sent"
  <2>1. Move(b, e) = [b EXCEPT !.sale = 0, !.exit = e.id, !.role = "sale", !.at_price = 0,
                                !.at_qty = e.quantity, !.phase = "selling"]
    BY <1>8 DEF Move
  <2> QED BY <2>1 DEF Free, Bracket_
<1> QED BY <1>1, <1>2, <1>3, <1>4, <1>5, <1>6, <1>7, <1>8

\* So does the end of an exit that filled, or was cancelled by us.
LEMMA FreeEnds ==
  ASSUME NEW b \in Bracket_, HasExit(b), Free(b), b.phase # "ended", NEW x \in Exit_, x.role = b.role, NEW seen,
         x.role # "sale" => /\ x.fold.state \in {"filled", "cancelled"}
                            /\ x.fold.state = "cancelled" => x.cancel_asked
  PROVE  Free(AfterAll(b, ExitEnded(b, x, seen)))
<1> DEFINE n == x.fold.filled
           c == After(b, Cleared(n))
           over == EndedAs(OutcomeOf(x.role))
           dropped == Ev("sale-dropped")
<1>1. Cleared(n).kind = "cleared" /\ over.kind = "ended" /\ dropped.kind = "sale-dropped" /\ n \in Int /\ b.phase # "closing"
  BY DEF Cleared, EndedAs, Ev, Exit_, Bracket_, Phase_
<1>2. c \in Bracket_ /\ Free(c)
  BY <1>1, AfterCleared, FreeAfter DEF Stands
<1>3. After(c, dropped) \in Bracket_ /\ Free(After(c, dropped))
  BY <1>1, <1>2, AfterDropped, FreeAfter DEF Stands
<1>4. ExitEnded(b, x, seen) \in {<<Cleared(n)>>, <<Cleared(n), over>>, <<Cleared(n), dropped, over>>}
  <2>1. CASE x.role = "sale"
    BY <2>1, <1>1 DEF ExitEnded
  <2>2. CASE x.role # "sale" /\ x.fold.state = "filled"
    BY <2>2, <1>1 DEF ExitEnded
  <2>3. CASE x.role # "sale" /\ x.fold.state = "cancelled" /\ x.cancel_asked
    <3>1. ExitEnded(b, x, seen) = <<Cleared(n)>>
      BY <2>3, <1>1 DEF ExitEnded
    <3> QED BY <3>1
  <2> QED BY <2>1, <2>2, <2>3
<1> HIDE DEF n, over, dropped
<1>5. AfterAll(b, <<Cleared(n)>>) = c /\ AfterAll(b, <<Cleared(n), over>>) = After(c, over)
      /\ AfterAll(b, <<Cleared(n), dropped, over>>) = After(After(c, dropped), over)
  <2>1. AfterAll(b, <<Cleared(n)>>) = c
    BY AfterEvents
  <2>2. AfterAll(b, <<Cleared(n), over>>) = After(c, over)
    BY AfterTwo
  <2>3. AfterAll(b, <<Cleared(n), dropped, over>>) = After(After(c, dropped), over)
    BY AfterThree
  <2> QED BY <2>1, <2>2, <2>3
<1> HIDE DEF c
<1>6. Free(After(c, over)) /\ Free(After(After(c, dropped), over))
  BY <1>1, <1>2, <1>3, FreeAfter
<1> QED BY <1>2, <1>4, <1>5, <1>6

\* A check of a bracket leaves it so.
LEMMA StepFree ==
  ASSUME Types, Ready, NEW b \in Brackets, NEW shown, Step(b, shown)
  PROVE  Free(bracket'[b])
<1> DEFINE old == bracket[b]  seen == SeenBy(b, shown)  d == Decide(old, seen)  c == AfterAll(old, d.events)
<1>1. old \in Bracket_ /\ ExitIs(b, old.exit, old.role) /\ b \in DOMAIN bracket /\ Free(old) /\ OwnReady(order[b], broker[b])
  BY DEF Types, Ready, BracketReady
<1>2. Sees(old, seen) /\ seen.exit = ExitOf(b)
  BY SeenFits DEF SeenBy
<1>3. Shape(old, seen, d)
  BY <1>1, <1>2, DecideShape
<1>4. bracket'[b] = c \/ \E r : bracket'[b] = After(c, Placed(r.role, b, r.price, r.quantity))
  <2>1. d # Nothing /\ CASE d.request.kind = "place"  -> PlaceExit(b, d)
                         [] d.request.kind = "cancel" -> CancelExitOf(b, d)
                         [] OTHER -> bracket' = [bracket EXCEPT ![b] = AfterAll(@, d.events)] /\ UNCHANGED <<order, broker>>
    BY DEF Step
  <2>2. PlaceExit(b, d) => bracket'[b] = c \/ \E r : bracket'[b] = After(c, Placed(r.role, b, r.price, r.quantity))
    BY <1>1 DEF PlaceExit
  <2>3. CancelExitOf(b, d) => bracket'[b] = c
    BY <1>1 DEF CancelExitOf
  <2>4. (bracket' = [bracket EXCEPT ![b] = AfterAll(@, d.events)]) => bracket'[b] = c
    BY <1>1
  <2> HIDE DEF d, c
  <2> QED BY <2>1, <2>2, <2>3, <2>4
<1>5. c \in Bracket_ /\ Free(c)
  <2>1. CASE d.events = <<>>
    <3>1. c = old
      BY <2>1, AfterEvents
    <3> QED BY <3>1, <1>1
  <2>2. CASE d.events = <<Ev("cancel-asked")>>
    <3>1. c = old
      BY <2>2, AfterEvents, AfterAsked
    <3> QED BY <3>1, <1>1
  <2>3. ASSUME NEW p \in {"to-market", "guarding"}, d.events \in {<<Moved(p)>>, <<Moved(p), Ev("cancel-asked")>>}
        PROVE  c \in Bracket_ /\ Free(c)
    <3>1. AfterAll(old, <<Moved(p)>>) = After(old, Moved(p))
      BY AfterEvents
    <3>2. AfterAll(old, <<Moved(p), Ev("cancel-asked")>>) = After(old, Moved(p))
      BY AfterTwo, AfterAsked
    <3>3. c = After(old, Moved(p))
      <4> HIDE DEF d, old
      <4> QED BY <2>3, <3>1, <3>2
    <3>4. p \in Phase_ /\ Moved(p).kind = "moved"
      BY DEF Phase_, Moved
    <3> HIDE DEF c
    <3>5. c \in Bracket_
      BY <1>1, <3>3, <3>4, AfterMoved DEF Stands
    <3>6. Free(c)
      BY <1>1, <3>3, <3>4, FreeAfter
    <3> QED BY <3>5, <3>6
  <2>4. CASE d.events = <<Ev("sale-dropped")>>
    <3>1. c = After(old, Ev("sale-dropped")) /\ Ev("sale-dropped").kind = "sale-dropped"
      BY <2>4, AfterEvents DEF Ev
    <3> HIDE DEF c
    <3> QED BY <1>1, <3>1, AfterDropped, FreeAfter DEF Stands
  <2>5. CASE Clears(old, seen.exit, seen, d)
    <3> DEFINE x == seen.exit
    <3>1. HasExit(old) /\ x.fold.state \in Ended /\ old.phase # "ended" /\ d.events = ExitEnded(old, x, seen)
      BY <2>5 DEF Clears, Records
    <3>2. x \in Exit_ /\ x.id = old.exit /\ x.role = old.role /\ seen.class = "unknown" /\ seen.key = 1
      BY <1>2, <3>1 DEF Sees
    <3>3. x.role # "sale" => x.fold.state \in {"filled", "cancelled"} /\ (x.fold.state = "cancelled" => x.cancel_asked)
      <4> SUFFICES ASSUME x.role # "sale"
                   PROVE  x.fold.state \in {"filled", "cancelled"} /\ (x.fold.state = "cancelled" => x.cancel_asked)
        OBVIOUS
      <4>1. old.exit = b /\ b \notin Sales
        BY <1>1, <3>1, <3>2, OrderSets DEF ExitIs, HasExit
      <4>2. x.fold = order[b].fold /\ x.cancel_asked = order[b].asked
        BY <1>2, <3>1, <4>1 DEF ExitOf
      <4> QED BY <1>1, <3>1, <4>2 DEF OwnReady, Ended
    <3>4. c = AfterAll(old, ExitEnded(old, x, seen))
      BY <3>1
    <3> HIDE DEF x, c, d, seen
    <3>5. Free(c)
      BY <1>1, <3>1, <3>2, <3>3, <3>4, FreeEnds
    <3>6. c \in Bracket_
      BY <1>1, <3>1, <3>2, <3>4, AfterExitEnded DEF Stands
    <3> QED BY <3>5, <3>6
  <2>6. \/ d.events \in {<<>>, <<Ev("cancel-asked")>>, <<Ev("sale-dropped")>>} \/ Clears(old, seen.exit, seen, d)
        \/ \E p \in {"to-market", "guarding"} : d.events \in {<<Moved(p)>>, <<Moved(p), Ev("cancel-asked")>>}
    <3> HIDE DEF d, old, seen
    <3>1. (d = Nothing \/ Places(old, d) \/ Resizes(old, d)) => d.events = <<>>
      BY DEF Nothing, Places, Resizes, Sends
    <3>2. Cancels(old, d) => d.events \in {<<>>, <<Ev("cancel-asked")>>, <<Moved("to-market"), Ev("cancel-asked")>>}
      BY DEF Cancels, Sends
    <3>3. Drops(old, seen, d) => d.events = <<Ev("sale-dropped")>>
      BY DEF Drops, Records
    <3>4. Returns(old, d) => d.events = <<Moved("guarding")>>
      BY DEF Returns, Records
    <3> QED BY <1>3, <3>1, <3>2, <3>3, <3>4 DEF Shape
  <2> HIDE DEF c, d
  <2> QED BY <2>1, <2>2, <2>3, <2>4, <2>5, <2>6
<1>6. \A r : Free(After(c, Placed(r.role, b, r.price, r.quantity)))
  <2>1. \A r : Placed(r.role, b, r.price, r.quantity).kind = "placed"
    BY DEF Placed
  <2> HIDE DEF c
  <2> QED BY <1>5, <2>1, FreeAfter
<1> HIDE DEF c
<1> QED BY <1>4, <1>5, <1>6

------------------------------------------------------------------------------
(* What the next check comes to. *)

From(c)     == [bracket |-> c, request |-> NoRequest]
Shown(b, c) == [SeenBy(b, NoTape) EXCEPT !.exit = IF HasExit(c) THEN @ ELSE NoExit]

\* A step of the check, from where nothing has been asked for.
LEMMA StepFrom ==
  ASSUME NEW b, NEW c
  PROVE  LET d == Decide(c, Shown(b, c))
         IN  OneStep(b, From(c)) = [bracket |-> AfterAll(c, d.events), request |-> d.request]
BY DEF OneStep, From, Shown

\* What it is shown fits a bracket that has still its exit, or none.
LEMMA ShownFits ==
  ASSUME Types, NEW b \in Brackets, NEW c,
         ~HasExit(c) \/ (c.exit = bracket[b].exit /\ c.role = bracket[b].role)
  PROVE  /\ Sees(c, Shown(b, c)) /\ Shown(b, c).tape = NoTape /\ Shown(b, c).selling = (b \in selling)
         /\ Shown(b, c).exit = IF HasExit(c) THEN ExitOf(b) ELSE NoExit
<1> DEFINE seen == SeenBy(b, NoTape)  shown == Shown(b, c)  x == IF HasExit(c) THEN ExitOf(b) ELSE NoExit
<1>1. /\ seen.exit = ExitOf(b) /\ seen.tape = NoTape /\ seen.selling = (b \in selling)
      /\ shown = [seen EXCEPT !.exit = x]
  BY DEF SeenBy, Shown
<1>2. /\ shown.exit = x /\ shown.tape = seen.tape /\ shown.selling = seen.selling /\ shown.closed = seen.closed
      /\ shown.key = seen.key /\ shown.waited = seen.waited /\ shown.lapses = seen.lapses /\ shown.class = seen.class
      /\ shown.entry = seen.entry
  <2> HIDE DEF x
  <2> QED BY <1>1 DEF SeenBy
<1>3. Sees(bracket[b], seen)
  BY SeenFits
<1> HIDE DEF seen, shown
<1>4. Sees(c, shown)
  BY <1>1, <1>2, <1>3 DEF Sees, HasExit
<1> QED BY <1>1, <1>2, <1>4 DEF shown

\* Once it has asked to place, the check is done.
LEMMA AskedOnce ==
  ASSUME NEW b, NEW at, at.request.kind = "place"
  PROVE  OneStep(b, at) = at
BY DEF OneStep, NoRequest

\* A bracket that is over stays so.
LEMMA OverStays ==
  ASSUME Types, NEW b \in Brackets, NEW c \in Bracket_, ~HasExit(c), c.phase = "ended"
  PROVE  OneStep(b, From(c)) = From(c)
<1> DEFINE seen == Shown(b, c)
<1>1. seen.entry.state = "filled"
  <2>1. Sees(c, seen)
    BY ShownFits
  <2> HIDE DEF seen
  <2> QED BY <2>1 DEF Sees
<1> HIDE DEF seen
<1>2. Decide(c, seen) = Nothing
  BY <1>1 DEF Decide, Resting
<1>3. AfterAll(c, Nothing.events) = c /\ Nothing.request = NoRequest
  BY AfterEvents DEF Nothing
<1> QED BY <1>2, <1>3, StepFrom DEF From, seen

\* With no exit: one that guards, or goes to the market, places its exit; any other goes back to
\* guarding.
LEMMA BareStep ==
  ASSUME Types, NEW b \in Brackets, b \notin selling,
         NEW c \in Bracket_, ~HasExit(c), Free(c), c.phase # "ended", c.quantity > 0
  PROVE  LET at == OneStep(b, From(c)) IN
         IF c.phase \in {"guarding", "to-market"} THEN at.request.kind = "place"
         ELSE /\ at = From(at.bracket) /\ Stands(at.bracket, NoOne, c.role, c.quantity, c.at_qty, "guarding")
              /\ Free(at.bracket)
<1> DEFINE seen == Shown(b, c)  d == Decide(c, seen)  x == seen.exit
<1>1. /\ Sees(c, seen) /\ seen.tape = NoTape /\ seen.selling = FALSE /\ x = NoExit
      /\ seen.entry.state = "filled" /\ seen.entry.filled = Part /\ seen.closed = FALSE
  <2>1. /\ Sees(c, seen) /\ seen.tape = NoTape /\ seen.selling = (b \in selling)
        /\ x = IF HasExit(c) THEN ExitOf(b) ELSE NoExit
    BY ShownFits
  <2>2. seen.selling = FALSE /\ seen.exit = NoExit
    <3>1. seen.exit = NoExit
      BY ONLY <2>1, ~HasExit(c)
    <3>2. (b \in selling) = FALSE
      BY b \notin selling
    <3>3. seen.selling = FALSE
      BY ONLY <2>1, <3>2
    <3> QED BY <3>1, <3>3
  <2>3. seen.entry = [state |-> "filled", broker_id |-> TRUE, filled |-> Part] /\ seen.closed = FALSE
    <3> HIDE DEF seen
    <3> QED BY <2>1 DEF Sees
  <2>4. seen.entry.state = "filled" /\ seen.entry.filled = Part
    <3> HIDE DEF seen
    <3> QED BY <2>3
  <2> QED BY <2>1, <2>2, <2>3, <2>4
<1> HIDE DEF seen
<1>2. /\ c.phase \in Phase_ /\ c.entry_filled = Part /\ c.stop = StopLeg /\ c.target = 0 /\ Part \in Nat
      /\ c.stop # NoLeg /\ c.exit = NoOne
  BY DEF Bracket_, SaleAssumption, HasExit, StopLeg, NoLeg
<1>3. /\ ~(Stopped(c) /\ seen.entry.state \in Resting) /\ ~(seen.entry.filled > c.entry_filled)
      /\ ~Trails(c, seen) /\ ~Hit(c, seen) /\ ~AtTarget(c, seen)
  BY <1>1, <1>2 DEF Resting, Trails, StopLeg, Hit, AtTarget
<1>4. d = IF c.phase = "closing-for-sale" THEN Records(<<Ev("sale-dropped")>>) ELSE DecideBare(c, seen)
  BY <1>1, <1>2, <1>3 DEF Decide, Phase_, HasExit
<1>5. \A role \in Own_, price \in Int : Place(c, seen, role, price).request.kind = "place"
  <2>1. c.refused = NoRefusal /\ c.off_broker = FALSE /\ NoRefusal.role = "none"
    BY DEF Free, NoRefusal
  <2>2. \A role \in Own_ : MaySend(c, role, seen.key)
    BY <2>1 DEF MaySend, Own_
  <2> QED BY <2>1, <2>2 DEF Place, Sends, PlaceOf
<1>6. OneStep(b, From(c)) = [bracket |-> AfterAll(c, d.events), request |-> d.request]
  BY StepFrom DEF seen
<1> HIDE DEF d
<1>7. CASE c.phase \in {"guarding", "to-market"}
  <2>1. d.request.kind = "place"
    <3>1. d \in {Place(c, seen, "stop", c.stop.level), Place(c, seen, "market", 0)}
      BY <1>2, <1>3, <1>4, <1>7 DEF DecideBare, Unguarded
    <3>2. c.stop.level \in Int /\ 0 \in Int /\ "stop" \in Own_ /\ "market" \in Own_
      BY <1>2 DEF StopLeg, SaleAssumption, Own_
    <3> QED BY <3>1, <3>2, <1>5
  <2> QED BY <1>6, <1>7, <2>1
<1>8. CASE c.phase \notin {"guarding", "to-market"}
  <2> DEFINE e == IF c.phase = "closing-for-sale" THEN Ev("sale-dropped") ELSE Moved("guarding")
  <2>1. d = Records(<<e>>)
    BY <1>2, <1>4, <1>8 DEF DecideBare, Phase_
  <2>2. d.events = <<e>> /\ d.request = NoRequest
    BY <2>1 DEF Records
  <2>3. AfterAll(c, d.events) = After(c, e)
    BY <2>2, AfterEvents
  <2>4. Stands(After(c, e), NoOne, c.role, c.quantity, c.at_qty, "guarding")
    <3>1. CASE c.phase = "closing-for-sale"
      BY <1>2, <3>1, AfterDropped
    <3>2. CASE c.phase # "closing-for-sale"
      <4>1. <<c.phase, "guarding">> \in PhaseMoves /\ "guarding" \in Phase_
        BY <1>2, <1>8, <3>2 DEF PhaseMoves, Phase_
      <4> QED BY <1>2, <3>2, <4>1, AfterMoved
    <3> QED BY <3>1, <3>2
  <2>5. Free(After(c, e))
    <3>1. e.kind \in {"sale-dropped", "moved"}
      BY DEF Ev, Moved
    <3> HIDE DEF e
    <3> QED BY <3>1, FreeAfter
  <2> HIDE DEF e
  <2>6. OneStep(b, From(c)) = From(After(c, e))
    BY <1>6, <2>2, <2>3 DEF From
  <2>7. OneStep(b, From(c)).bracket = After(c, e)
    BY <2>6 DEF From
  <2> QED BY <1>8, <2>4, <2>5, <2>6, <2>7
<1> QED BY <1>7, <1>8

\* So within two steps an exit is placed.
LEMMA PlacedInTwo ==
  ASSUME Types, NEW b \in Brackets, b \notin selling,
         NEW c \in Bracket_, ~HasExit(c), Free(c), c.phase # "ended", c.quantity > 0
  PROVE  OneStep(b, OneStep(b, From(c))).request.kind = "place"
<1> DEFINE at == OneStep(b, From(c))
<1>1. CASE c.phase \in {"guarding", "to-market"}
  <2>1. at.request.kind = "place"
    BY <1>1, BareStep
  <2> HIDE DEF at
  <2>2. OneStep(b, at) = at
    BY <2>1, AskedOnce
  <2> QED BY <2>1, <2>2 DEF at
<1>2. CASE c.phase \notin {"guarding", "to-market"}
  <2> DEFINE c2 == at.bracket
  <2>1. at = From(c2) /\ Stands(c2, NoOne, c.role, c.quantity, c.at_qty, "guarding") /\ Free(c2)
    BY <1>2, BareStep
  <2> HIDE DEF at, c2
  <2>2. c2 \in Bracket_ /\ ~HasExit(c2) /\ c2.phase = "guarding" /\ c2.quantity > 0
    BY <2>1 DEF Stands, HasExit
  <2>3. OneStep(b, From(c2)).request.kind = "place"
    BY <2>1, <2>2, BareStep
  <2> QED BY <2>1, <2>3 DEF at
<1> QED BY <1>1, <1>2

\* An exit that is over is cleared, and what of the bracket is left places its own.
LEMMA ReadyNeverNeither ==
  ASSUME Types, Ready
  PROVE  NeverNeither
<1> SUFFICES ASSUME NEW b \in Brackets, Neither(b)
             PROVE  CheckFrom(b).request.kind = "place" \/ CheckFrom(b).bracket.phase = "ended"
  BY DEF NeverNeither
<1> DEFINE c == bracket[b]  x == c.exit  at == OneStep(b, From(c))
<1>1. /\ c \in Bracket_ /\ ExitIs(b, x, c.role) /\ Free(c) /\ c.phase # "ended" /\ c.quantity > 0 /\ b \notin selling
      /\ OwnReady(order[b], broker[b]) /\ BracketReady(b)
  BY DEF Types, Ready, BracketReady, Neither, Live
<1>2. CheckFrom(b) = OneStep(b, OneStep(b, at))
  BY DEF CheckFrom, From
<1>3. CASE ~HasExit(c)
  <2> DEFINE two == OneStep(b, at)
  <2>1. two.request.kind = "place"
    BY <1>1, <1>3, PlacedInTwo
  <2> HIDE DEF two
  <2>2. OneStep(b, two) = two
    BY <2>1, AskedOnce
  <2> QED BY <1>2, <2>1, <2>2 DEF two
<1>4. CASE HasExit(c)
  <2> DEFINE seen == Shown(b, c)  y == seen.exit  n == y.fold.filled  d == AfterAll(c, ExitEnded(c, y, seen))
  <2>1. Sees(c, seen) /\ y = ExitOf(b) /\ y \in Exit_ /\ y.role = c.role /\ y.id = x
    <3>1. Sees(c, seen) /\ y = ExitOf(b)
      BY <1>4, ShownFits
    <3> QED BY <3>1, <1>4 DEF Sees
  <2>2. x \in Orders /\ (x = b \/ x \in Sales) /\ y.fold.state = State(x)
        /\ (c.role # "sale" => x = b /\ y.fold = order[b].fold /\ y.cancel_asked = order[b].asked)
    <3>1. (x = b \/ x \in Sales) /\ (c.role # "sale" => x = b /\ b \notin Sales)
      BY <1>1, <1>4, OrderSets DEF ExitIs, HasExit, Own_
    <3>2. x \in Orders /\ order[x].fold \in Fold_
      BY <3>1 DEF Orders, Types, Order_
    <3>3. y = [id |-> x, role |-> c.role, cancel_asked |-> order[x].asked, price |-> 0, quantity |-> 0,
               fold |-> IF x \in Sales THEN [order[x].fold EXCEPT !.filled = PartOf(x, b)] ELSE order[x].fold]
      BY <1>4, <2>1 DEF ExitOf
    <3>4. y.fold.state = State(x)
      BY <3>2, <3>3 DEF State, Fold_
    <3> QED BY <3>1, <3>2, <3>3, <3>4
  <2>3. State(x) \in Ended
    <3>1. State(x) \notin InFlight
      BY <2>2 DEF Neither
    <3>2. State(x) # "unwritten"
      BY <1>1, <2>2 DEF BracketReady
    <3>3. State(x) # "dry"
      <4>1. CASE x = b
        BY <4>1, <1>1 DEF OwnReady, State
      <4>2. CASE x \in Sales
        BY <4>2 DEF Ready, SaleReady
      <4> QED BY <2>2, <4>1, <4>2
    <3>4. State(x) \in OrderState \cup {"unwritten"}
      BY <2>2 DEF Types, Order_, Fold_, State
    <3> QED BY <3>1, <3>2, <3>3, <3>4 DEF OrderState, InFlight, Ended
  <2>4. Decide(c, seen) = Records(ExitEnded(c, y, seen))
    <3>1. /\ c.phase \in Phase_ /\ c.entry_filled = Part /\ Part \in Nat
          /\ seen.entry.state = "filled" /\ seen.entry.filled = Part
      BY <1>1, <2>1 DEF Bracket_, Sees, SaleAssumption
    <3>2. y # NoExit
      <4>1. y.id # NoOne /\ NoExit.id = NoOne
        BY <1>4, <2>1 DEF HasExit, NoExit
      <4> QED BY <4>1
    <3> HIDE DEF seen, c
    <3>3. y.fold.state \in Ended
      BY <2>2, <2>3
    <3> QED BY <3>1, <3>2, <3>3, <1>1, <1>4 DEF Decide, Resting, Phase_
  <2>5. at = From(d)
    <3>1. Records(ExitEnded(c, y, seen)).events = ExitEnded(c, y, seen) /\ Records(ExitEnded(c, y, seen)).request = NoRequest
      BY DEF Records
    <3> QED BY <2>4, <3>1, StepFrom DEF From
  <2>6. /\ Stands(d, NoOne, "none", c.quantity - n, 0, d.phase)
        /\ c.role = "sale" => d.phase = IF c.quantity - n <= 0 THEN "ended"
                                        ELSE IF c.phase = "selling" THEN "guarding" ELSE c.phase
        /\ c.role # "sale" => IF y.fold.state = "filled" THEN d.phase = "ended"
                                                         ELSE d.phase \in {c.phase, "guarding"}
    <3>1. seen.class = "unknown" /\ seen.key = 1
      BY <2>1 DEF Sees
    <3> QED BY <1>1, <1>4, <2>1, <3>1, AfterExitEnded
  <2>7. Free(d)
    <3>1. y.role # "sale" => y.fold.state \in {"filled", "cancelled"} /\ (y.fold.state = "cancelled" => y.cancel_asked)
      BY <1>1, <2>1, <2>2, <2>3 DEF OwnReady, Ended
    <3> HIDE DEF seen, c
    <3> QED BY <1>1, <1>4, <2>1, <3>1, FreeEnds
  <2>8. d.phase # "ended" => c.quantity - n > 0
    <3> SUFFICES ASSUME d.phase # "ended" PROVE c.quantity - n > 0
      OBVIOUS
    <3>1. c.quantity \in Int /\ n \in Int
      BY <1>1, <2>1 DEF Bracket_, Exit_
    <3>2. CASE c.role = "sale"
      <4> HIDE DEF c, d, n
      <4> QED BY <2>6, <3>1, <3>2
    <3>3. CASE c.role # "sale"
      <4>1. y.fold.state = "cancelled"
        BY <1>1, <2>2, <2>3, <2>6, <3>3 DEF OwnReady, Ended
      <4>2. n <= broker[b].filled /\ broker[b].filled < broker[b].quantity /\ broker[b].quantity = c.quantity
        BY <1>1, <2>2, <3>3, <4>1 DEF OwnReady, BracketReady
      <4>3. broker[b].filled \in Nat
        BY <1>1, OrderSets DEF Types, Broker_
      <4> HIDE DEF c, n
      <4> QED BY <3>1, <4>2, <4>3
    <3> QED BY <3>2, <3>3
  <2> HIDE DEF d, c, n, at
  <2>9. CASE d.phase = "ended"
    <3>1. OneStep(b, From(d)) = From(d)
      BY <2>6, <2>9, OverStays DEF Stands, HasExit
    <3>2. From(d).bracket = d
      BY DEF From
    <3> QED BY <1>2, <2>5, <2>9, <3>1, <3>2
  <2>10. CASE d.phase # "ended"
    <3>1. d \in Bracket_ /\ ~HasExit(d) /\ d.quantity > 0
      BY <2>6, <2>8, <2>10 DEF Stands, HasExit
    <3>2. OneStep(b, OneStep(b, From(d))).request.kind = "place"
      BY <1>1, <2>7, <2>10, <3>1, PlacedInTwo
    <3> QED BY <1>2, <2>5, <3>2
  <2> QED BY <2>9, <2>10
<1> QED BY <1>3, <1>4

------------------------------------------------------------------------------
(* The invariant is kept. *)

\* The invariant after a step, part by part.
LEMMA ReadyKept ==
  ASSUME Types, Ready,
         \A o \in Orders : State(o) # "unwritten" => order'[o].fold.state # "unwritten",
         \A b \in Brackets :
           \/ bracket'[b] = bracket[b] /\ broker'[b].quantity = broker[b].quantity
           \/ /\ Free(bracket'[b])
              /\ bracket'[b].exit = b => order'[b].fold.state # "unwritten" /\ broker'[b].quantity = bracket'[b].quantity
              /\ \A s \in Sales : bracket'[b].exit = s => order'[s].fold.state # "unwritten",
         \A b \in Brackets : OwnReady(order'[b], broker'[b]),
         \A s \in Sales : order'[s].fold.state # "dry",
         \A s \in Sales : seller'[s].at \in {"sent", "settling", "telling"} => order'[s].fold.state # "unwritten"
  PROVE  Ready'
<1>1. ASSUME NEW b \in Brackets PROVE BracketReady(b)'
  <2>1. BracketReady(b) /\ b \in Orders /\ Sales \subseteq Orders
    BY DEF Ready, Orders
  <2>2. CASE bracket'[b] = bracket[b] /\ broker'[b].quantity = broker[b].quantity
    BY <2>1, <2>2 DEF BracketReady, State
  <2>3. CASE ~(bracket'[b] = bracket[b] /\ broker'[b].quantity = broker[b].quantity)
    BY <2>3 DEF BracketReady, State
  <2> QED BY <2>2, <2>3
<1> QED BY <1>1 DEF Ready, SaleReady, State

\* A cancel of an order that rests.
LEMMA CancelReady ==
  ASSUME Types, Ready, NEW o \in Orders, State(o) \in Resting \cup {"cancelling"}, CancelOrder(o)
  PROVE  /\ \A b \in Brackets : OwnReady(order'[b], broker'[b]) /\ broker'[b].quantity = broker[b].quantity
         /\ \A u \in Orders : State(u) # "unwritten" => order'[u].fold.state # "unwritten"
         /\ \A s \in Sales : order'[s].fold.state # "dry"
<1> DEFINE f == order[o].fold  g == Apply(f, CancelAsked)  h == Apply(g, CancelRefused)
<1>1. f \in Fold_ /\ f.state \in Resting \cup {"cancelling"} /\ order \in [Orders -> Order_] /\ broker \in [Orders -> Broker_]
  BY DEF Types, Order_, State
<1>2. g = [f EXCEPT !.state = "cancelling"]
  <2>1. CASE f.state \in Resting
    BY <1>1, <2>1 DEF Apply, CancelAsked
  <2>2. CASE f.state = "cancelling"
    <3>1. g = f
      BY <2>2 DEF Apply, CancelAsked, Resting
    <3> QED BY <1>1, <2>2, <3>1 DEF Fold_
  <2> QED BY <1>1, <2>1, <2>2
<1>3. g \in Fold_ /\ g.state = "cancelling" /\ g.filled = f.filled
  BY <1>1, <1>2 DEF Fold_, OrderState
<1>4. h.state \in Resting /\ h.filled = f.filled
  <2> HIDE DEF g
  <2>1. h = [g EXCEPT !.state = Working(g)]
    BY <1>3 DEF Apply, CancelRefused
  <2> QED BY <1>3, <2>1 DEF Fold_, Working, Resting
<1> HIDE DEF f, g, h
<1>5. order'[o].fold \in {g, h} /\ order'[o].asked = TRUE
  BY <1>1 DEF CancelOrder, Order_, f, g, h
<1>6. \A u \in Orders : /\ u # o => order'[u] = order[u] /\ broker'[u] = broker[u]
                        /\ broker'[u].status = broker[u].status /\ broker'[u].filled = broker[u].filled
                        /\ broker'[u].quantity = broker[u].quantity
  <2>1. /\ \A u \in Orders : u # o => order'[u] = order[u]
        /\ broker' = broker \/ broker' = [broker EXCEPT ![o].cancelling = broker[o].status = "open"]
    BY <1>1 DEF CancelOrder
  <2> QED BY <1>1, <2>1 DEF Broker_
<1>7. ASSUME NEW b \in Brackets PROVE OwnReady(order'[b], broker'[b])
  <2>1. OwnReady(order[b], broker[b]) /\ b \in Orders
    BY DEF Ready, Orders
  <2>2. CASE b # o
    BY <1>6, <2>1, <2>2
  <2>3. CASE b = o
    BY <1>1, <1>3, <1>4, <1>5, <1>6, <2>1, <2>3 DEF OwnReady, Resting, f
  <2> QED BY <2>2, <2>3
<1>8. ASSUME NEW u \in Orders
      PROVE  /\ State(u) # "unwritten" => order'[u].fold.state # "unwritten"
             /\ State(u) # "dry" => order'[u].fold.state # "dry"
  BY <1>3, <1>4, <1>5, <1>6 DEF State, Resting
<1>9. \A s \in Sales : s \in Orders /\ State(s) # "dry"
  BY DEF Ready, SaleReady, Orders
<1> QED BY <1>6, <1>7, <1>8, <1>9, OrderSets

\* No event makes an order one of those written with orders off.
LEMMA NeverDry ==
  ASSUME NEW f \in Fold_, f.state \notin {"unwritten", "dry"}
  PROVE  /\ \A e \in {Accepted, Refused, Unclear, NotSent} : Apply(f, e).state \notin {"unwritten", "dry"}
         /\ \A status \in {"open", "filled", "cancelled", "not-found"}, n \in Nat :
              Apply(f, Read(status, n)).state \notin {"unwritten", "dry"}
<1>1. Working(f) \in Resting
  BY DEF Working, Resting
<1>2. Apply(f, Accepted) \in {f, [f EXCEPT !.broker_id = TRUE], [f EXCEPT !.state = Working(f), !.broker_id = TRUE]}
  BY DEF Apply, Accepted, OnAccepted
<1>3. /\ Apply(f, Refused) \in {f, [f EXCEPT !.state = "rejected"]}
      /\ Apply(f, Unclear) \in {f, [f EXCEPT !.state = "unconfirmed"]}
      /\ Apply(f, NotSent) \in {f, [f EXCEPT !.state = "failed"]}
  BY DEF Apply, Refused, Unclear, NotSent
<1>4. ASSUME NEW e \in {Accepted, Refused, Unclear, NotSent} PROVE Apply(f, e).state \notin {"unwritten", "dry"}
  <2> DEFINE g == Apply(f, e)
  <2>1. \/ g = f \/ g = [f EXCEPT !.broker_id = TRUE] \/ g = [f EXCEPT !.state = Working(f), !.broker_id = TRUE]
        \/ \E s \in {"rejected", "unconfirmed", "failed"} : g = [f EXCEPT !.state = s]
    BY <1>2, <1>3
  <2> HIDE DEF g
  <2>2. g.state \notin {"unwritten", "dry"}
    BY <2>1, <1>1 DEF Fold_, Resting
  <2> QED BY <2>2 DEF g
<1>5. ASSUME NEW status \in {"open", "filled", "cancelled", "not-found"}, NEW n \in Nat
      PROVE  Apply(f, Read(status, n)).state \notin {"unwritten", "dry"}
  <2> DEFINE g == Apply(f, Read(status, n))  s == ReadState(f, status, n)
  <2>1. g = OnRead(f, status, n)
    BY DEF Apply, Read
  <2>2. \/ g = f \/ g = [f EXCEPT !.state = "failed"] \/ g = [f EXCEPT !.filled = n]
        \/ status # "not-found" /\ g = [f EXCEPT !.state = s, !.filled = n]
        \/ g = [f EXCEPT !.state = "filled", !.filled = n]
    BY <2>1 DEF OnRead
  <2>3. status # "not-found" => s \notin {"unwritten", "dry"}
    BY DEF ReadState, Working
  <2> HIDE DEF g, s
  <2>4. g.state \notin {"unwritten", "dry"}
    BY <2>2, <2>3 DEF Fold_
  <2> QED BY <2>4 DEF g
<1> QED BY <1>4, <1>5

\* A reading of a bracket's own order.
LEMMA OwnRead ==
  ASSUME NEW w \in Order_, NEW r \in Broker_, OwnReady(w, r), w.fold.state \in InFlight,
         NEW v, v.asked = w.asked, v.fold = Apply(w.fold, Read(r.status, r.filled))
  PROVE  OwnReady(v, r) /\ v.fold.state # "unwritten"
<1> DEFINE f == w.fold  g == v.fold  s == ReadState(f, r.status, r.filled)
<1>1. f \in Fold_ /\ r.status \in {"open", "filled", "cancelled"} /\ r.filled \in Nat /\ f.filled <= r.filled
      /\ f.state \in {"pending", "partly-filled", "cancelling"}
  BY DEF Order_, Broker_, OwnReady, InFlight
<1>2. g = OnRead(f, r.status, r.filled)
  BY DEF Apply, Read
<1>3. g = f \/ g = [f EXCEPT !.state = s, !.filled = r.filled]
  BY <1>1, <1>2 DEF OnRead, InFlight
<1>4. s \in {"pending", "partly-filled", "cancelling", "filled", "cancelled"} /\ (s = "cancelled" => r.status = "cancelled")
  BY <1>1 DEF ReadState, Working
<1> HIDE DEF f, g, s
<1>5. g.state \in {"pending", "partly-filled", "cancelling", "filled", "cancelled"} /\ g.filled <= r.filled
      /\ (g.state = "cancelled" => r.status = "cancelled")
  <2>1. CASE g = f
    BY <1>1, <2>1
  <2>2. CASE g = [f EXCEPT !.state = s, !.filled = r.filled]
    <3>1. g.state = s /\ g.filled = r.filled
      BY <1>1, <2>2 DEF Fold_
    <3> QED BY <1>1, <1>4, <3>1
  <2> QED BY <1>3, <2>1, <2>2
<1> QED BY <1>1, <1>5 DEF OwnReady, g

\* At first nothing is written, and nothing is held back.
LEMMA InitReady == ASSUME Init PROVE Ready
<1> DEFINE b0 == Created(Part, StopLeg, 0)  c == After(b0, Armed(Part, 0))
<1>1. bracket = [b \in Brackets |-> c]
  BY DEF Init, StopLeg
<1>2. c \in Bracket_ /\ c.exit = NoOne
  BY Armed_ DEF Stands
<1>3. Free(c)
  <2>1. c = OnArmed(b0, Armed(Part, 0))
    BY DEF After, IsMove, Move, Armed, Created
  <2>2. OnArmed(b0, Armed(Part, 0)).refused = b0.refused /\ OnArmed(b0, Armed(Part, 0)).off_broker = b0.off_broker
    BY DEF OnArmed, Created
  <2>3. b0.refused = NoRefusal /\ b0.off_broker = FALSE
    BY DEF Created
  <2> QED BY <2>1, <2>2, <2>3 DEF Free
<1> HIDE DEF c
<1>4. ASSUME NEW b \in Brackets PROVE BracketReady(b) /\ OwnReady(order[b], broker[b])
  <2>1. b # NoOne /\ b \in Orders /\ NoOne \notin Sales
    BY OrderSets
  <2>2. BracketReady(b)
    BY <1>1, <1>2, <1>3, <2>1 DEF BracketReady
  <2>3. order[b] = Unwritten /\ broker[b] = NotThere
    BY <2>1 DEF Init
  <2>4. OwnReady(Unwritten, NotThere)
    BY DEF OwnReady, Unwritten, NotThere
  <2> QED BY <2>2, <2>3, <2>4
<1>5. ASSUME NEW s \in Sales PROVE SaleReady(s)
  <2>1. seller[s] = Idle /\ order[s] = Unwritten
    BY OrderSets DEF Init
  <2> QED BY <2>1 DEF SaleReady, Idle, State, Unwritten
<1> QED BY <1>4, <1>5 DEF Ready

\* A check of a bracket.
LEMMA CheckReady == ASSUME Types, Ready, NEW b \in Brackets, Checking(b) PROVE Ready'
<1> DEFINE old == bracket[b]
<1>1. PICK shown : Step(b, shown)
  BY DEF Checking
<1>2. /\ UNCHANGED <<seller, selling, sold, crashes>>
      /\ Still(b) \/ PlacedStep(b) \/ CancelledStep(b) \/ ClearedStep(b) \/ EasedStep(b)
  BY <1>1, StepShape
<1>3. Free(bracket'[b])
  BY <1>1, StepFree
<1>4. /\ old \in Bracket_ /\ BracketReady(b) /\ ExitIs(b, old.exit, old.role) /\ b \in Orders /\ b \notin Sales
      /\ b # NoOne /\ NoOne \notin Sales /\ Sales \subseteq Orders /\ Brackets \subseteq Orders
      /\ order \in [Orders -> Order_] /\ broker \in [Orders -> Broker_] /\ bracket \in [Brackets -> Bracket_]
  BY OrderSets DEF Types, Ready
<1>5. /\ \A u \in Brackets : OwnReady(order[u], broker[u])
      /\ \A s \in Sales : /\ order[s].fold.state # "dry"
                          /\ seller'[s].at \in {"sent", "settling", "telling"} => order[s].fold.state # "unwritten"
  BY <1>2 DEF Ready, SaleReady, State
<1>6. ASSUME SameOrders, NEW c, Becomes(b, c),
             c.exit = NoOne \/ (c.exit = old.exit /\ c.quantity = old.quantity)
      PROVE  Ready'
  <2>1. bracket'[b] = c /\ \A u \in Brackets \ {b} : bracket'[u] = bracket[u]
    BY <1>4, <1>6 DEF Becomes
  <2>2. order' = order /\ broker' = broker
    BY <1>6 DEF SameOrders
  <2>3. /\ c.exit = b => order[b].fold.state # "unwritten" /\ broker[b].quantity = c.quantity
        /\ \A s \in Sales : c.exit = s => order[s].fold.state # "unwritten"
    BY <1>4, <1>6 DEF BracketReady, State
  <2>4. \A u \in Brackets :
           \/ bracket'[u] = bracket[u] /\ broker'[u].quantity = broker[u].quantity
           \/ /\ Free(bracket'[u])
              /\ bracket'[u].exit = u => order'[u].fold.state # "unwritten" /\ broker'[u].quantity = bracket'[u].quantity
              /\ \A s \in Sales : bracket'[u].exit = s => order'[s].fold.state # "unwritten"
    BY <1>3, <2>1, <2>2, <2>3
  <2> QED BY <1>5, <2>2, <2>4, ReadyKept DEF State
<1>7. CASE Still(b)
  <2>1. Becomes(b, old) /\ SameOrders
    BY <1>4, <1>7 DEF Still, Becomes
  <2> QED BY <2>1, <1>6
<1>8. CASE PlacedStep(b)
  <2> DEFINE w == [Unwritten EXCEPT !.fold = Apply(Start(FALSE), Accepted)]  r == Open(old.quantity)
  <2>1. PICK role, c : Stands(c, b, role, old.quantity, old.quantity, c.phase) /\ Becomes(b, c)
    BY <1>8 DEF PlacedStep, Stands
  <2>2. old.quantity \in Nat /\ old.quantity > 0 /\ order' = [order EXCEPT ![b] = w] /\ broker' = [broker EXCEPT ![b] = r]
    BY <1>4, <1>8 DEF PlacedStep, Bracket_
  <2>3. w.asked = FALSE /\ w.fold.state = "pending" /\ w.fold.filled = 0
    <3>1. Apply(Start(FALSE), Accepted) = [Start(FALSE) EXCEPT !.state = "pending", !.broker_id = TRUE]
      BY DEF Apply, Accepted, OnAccepted, Start, Unanswered, Working
    <3> QED BY <3>1 DEF Unwritten, Start
  <2>4. r.status = "open" /\ r.filled = 0 /\ r.quantity = old.quantity /\ r.cancelling = FALSE
    BY DEF Open, NotThere
  <2> HIDE DEF w, r
  <2>5. OwnReady(w, r)
    BY <2>2, <2>3, <2>4 DEF OwnReady
  <2>6. /\ order'[b] = w /\ broker'[b] = r /\ \A u \in Orders \ {b} : order'[u] = order[u] /\ broker'[u] = broker[u]
        /\ bracket'[b] = c /\ \A u \in Brackets \ {b} : bracket'[u] = bracket[u]
    BY <1>4, <2>1, <2>2 DEF Becomes
  <2>7. c.exit = b /\ c.quantity = old.quantity
    BY <2>1 DEF Stands
  <2> HIDE DEF old
  <2>8. \A u \in Brackets :
           \/ bracket'[u] = bracket[u] /\ broker'[u].quantity = broker[u].quantity
           \/ /\ Free(bracket'[u])
              /\ bracket'[u].exit = u => order'[u].fold.state # "unwritten" /\ broker'[u].quantity = bracket'[u].quantity
              /\ \A s \in Sales : bracket'[u].exit = s => order'[s].fold.state # "unwritten"
    BY <1>3, <1>4, <2>3, <2>4, <2>6, <2>7
  <2>9. /\ \A o \in Orders : State(o) # "unwritten" => order'[o].fold.state # "unwritten"
        /\ \A u \in Brackets : OwnReady(order'[u], broker'[u])
        /\ \A s \in Sales : /\ order'[s].fold.state # "dry"
                            /\ seller'[s].at \in {"sent", "settling", "telling"} => order'[s].fold.state # "unwritten"
    BY <1>4, <1>5, <2>3, <2>5, <2>6 DEF State
  <2> QED BY <2>8, <2>9, ReadyKept
<1>9. CASE CancelledStep(b)
  <2>1. PICK c : Stands(c, old.exit, old.role, old.quantity, old.at_qty, c.phase) /\ Becomes(b, c)
    BY <1>9 DEF CancelledStep
  <2>2. c.exit = old.exit /\ c.quantity = old.quantity
    BY <2>1 DEF Stands
  <2>3. CASE SameOrders
    BY <2>1, <2>2, <2>3, <1>6
  <2>4. CASE State(old.exit) \in Resting \cup {"cancelling"} /\ CancelOrder(old.exit)
    <3>1. old.exit \in Orders
      BY <1>4, <1>9 DEF CancelledStep, HasExit, ExitIs, Orders
    <3>2. /\ \A u \in Brackets : OwnReady(order'[u], broker'[u]) /\ broker'[u].quantity = broker[u].quantity
          /\ \A u \in Orders : State(u) # "unwritten" => order'[u].fold.state # "unwritten"
          /\ \A s \in Sales : order'[s].fold.state # "dry"
      BY <2>4, <3>1, CancelReady
    <3>3. bracket'[b] = c /\ \A u \in Brackets \ {b} : bracket'[u] = bracket[u]
      BY <1>4, <2>1 DEF Becomes
    <3>4. /\ c.exit = b => State(b) # "unwritten" /\ broker[b].quantity = c.quantity
          /\ \A s \in Sales : c.exit = s => State(s) # "unwritten"
      BY <1>4, <2>2 DEF BracketReady
    <3> HIDE DEF old
    <3>5. \A u \in Brackets :
             \/ bracket'[u] = bracket[u] /\ broker'[u].quantity = broker[u].quantity
             \/ /\ Free(bracket'[u])
                /\ bracket'[u].exit = u => order'[u].fold.state # "unwritten" /\ broker'[u].quantity = bracket'[u].quantity
                /\ \A s \in Sales : bracket'[u].exit = s => order'[s].fold.state # "unwritten"
      BY <1>3, <1>4, <3>2, <3>3, <3>4
    <3>6. \A s \in Sales : seller'[s].at \in {"sent", "settling", "telling"} => order'[s].fold.state # "unwritten"
      BY <1>4, <1>5, <3>2 DEF State
    <3> QED BY <3>2, <3>5, <3>6, ReadyKept
  <2> QED BY <1>9, <2>3, <2>4 DEF CancelledStep
<1>10. CASE ClearedStep(b)
  <2>1. PICK c : Stands(c, NoOne, "none", old.quantity - Sold(b), 0, c.phase) /\ Becomes(b, c)
    BY <1>10 DEF ClearedStep
  <2> QED BY <1>6, <1>10, <2>1 DEF ClearedStep, Stands
<1>11. CASE EasedStep(b)
  <2>1. PICK c : Stands(c, old.exit, old.role, old.quantity, old.at_qty, "guarding") /\ Becomes(b, c)
    BY <1>11 DEF EasedStep
  <2> QED BY <1>6, <1>11, <2>1 DEF EasedStep, Stands
<1> QED BY <1>2, <1>7, <1>8, <1>9, <1>10, <1>11

\* Where a seller's step leaves it, and the others.
LEMMA SellerStands ==
  ASSUME Types, NEW s \in Sales
  PROVE  /\ \A step : To(s, step) => \A t \in Sales : seller'[t].at = IF t = s THEN step ELSE seller[t].at
         /\ Visited(s) => \A t \in Sales : seller'[t].at = seller[t].at
         /\ \A clear : seller' = [seller EXCEPT ![s].todo = @ \ {NextOf(s)}, ![s].clear = clear] =>
              \A t \in Sales : seller'[t].at = seller[t].at
<1>1. seller \in [Sales -> Seller_]
  BY DEF Types
<1>2. ASSUME NEW step, To(s, step) PROVE \A t \in Sales : seller'[t].at = IF t = s THEN step ELSE seller[t].at
  <2> DEFINE v == [seller[s] EXCEPT !.at = step, !.todo = DOMAIN seller[s].share, !.clear = TRUE]
  <2>1. seller' = [seller EXCEPT ![s] = v] /\ v.at = step
    BY <1>1, <1>2 DEF To, Seller_
  <2> HIDE DEF v
  <2> QED BY <1>1, <2>1
<1>3. ASSUME Visited(s) PROVE \A t \in Sales : seller'[t].at = seller[t].at
  <2> DEFINE v == [seller[s] EXCEPT !.todo = @ \ {NextOf(s)}]
  <2>1. seller' = [seller EXCEPT ![s] = v] /\ v.at = seller[s].at
    BY <1>1, <1>3 DEF Visited, Seller_
  <2> HIDE DEF v
  <2> QED BY <1>1, <2>1
<1>4. ASSUME NEW clear, seller' = [seller EXCEPT ![s].todo = @ \ {NextOf(s)}, ![s].clear = clear]
      PROVE  \A t \in Sales : seller'[t].at = seller[t].at
  <2> DEFINE v == [seller[s] EXCEPT !.todo = @ \ {NextOf(s)}, !.clear = clear]
  <2>1. seller' = [seller EXCEPT ![s] = v] /\ v.at = seller[s].at
    BY <1>1, <1>4 DEF Seller_
  <2> HIDE DEF v
  <2> QED BY <1>1, <2>1
<1> QED BY <1>2, <1>3, <1>4

\* An event of the sale's, told to a bracket whose exit it leaves, or takes up.
LEMMA ToldReady ==
  ASSUME Types, Ready, NEW n \in Brackets, \A u \in Brackets \ {n} : bracket'[u] = bracket[u],
         Free(bracket'[n]), UNCHANGED order, UNCHANGED broker, \A t \in Sales : seller'[t].at = seller[t].at,
         \/ bracket'[n].exit = bracket[n].exit /\ bracket'[n].quantity = bracket[n].quantity
         \/ bracket'[n].exit \in Sales /\ State(bracket'[n].exit) # "unwritten"
  PROVE  Ready'
<1>1. BracketReady(n) /\ n \notin Sales
  BY OrderSets DEF Ready
<1>2. /\ bracket'[n].exit = n => State(n) # "unwritten" /\ broker[n].quantity = bracket'[n].quantity
      /\ \A t \in Sales : bracket'[n].exit = t => State(t) # "unwritten"
  BY <1>1 DEF BracketReady
<1>5. \A u \in Brackets :
         \/ bracket'[u] = bracket[u] /\ broker'[u].quantity = broker[u].quantity
         \/ /\ Free(bracket'[u])
            /\ bracket'[u].exit = u => order'[u].fold.state # "unwritten" /\ broker'[u].quantity = bracket'[u].quantity
            /\ \A t \in Sales : bracket'[u].exit = t => order'[t].fold.state # "unwritten"
  BY <1>2 DEF State
<1>6. /\ \A u \in Brackets : OwnReady(order'[u], broker'[u])
      /\ \A o \in Orders : State(o) # "unwritten" => order'[o].fold.state # "unwritten"
      /\ \A t \in Sales : /\ order'[t].fold.state # "dry"
                          /\ seller'[t].at \in {"sent", "settling", "telling"} => order'[t].fold.state # "unwritten"
  BY DEF Ready, SaleReady, State
<1> QED BY <1>5, <1>6, ReadyKept

\* A step that moves only sellers, none of them past the sending.
LEMMA SellersReady ==
  ASSUME Types, Ready, UNCHANGED <<bracket, order, broker>>,
         \A t \in Sales : seller'[t].at \in {"sent", "settling", "telling"} => State(t) # "unwritten"
  PROVE  Ready'
<1>1. /\ \A u \in Brackets : OwnReady(order'[u], broker'[u])
      /\ \A o \in Orders : State(o) # "unwritten" => order'[o].fold.state # "unwritten"
      /\ \A t \in Sales : order'[t].fold.state # "dry"
      /\ \A u \in Brackets : bracket'[u] = bracket[u] /\ broker'[u].quantity = broker[u].quantity
      /\ \A t \in Sales : seller'[t].at \in {"sent", "settling", "telling"} => order'[t].fold.state # "unwritten"
  BY DEF Ready, SaleReady, State
<1> QED BY <1>1, ReadyKept

\* A step that changes one sale's order, and sellers.
LEMMA SaleMoves ==
  ASSUME Types, Ready, NEW s \in Sales, NEW w, w.fold.state \notin {"unwritten", "dry"},
         order' = [order EXCEPT ![s] = w], UNCHANGED bracket,
         \A o \in Orders \ {s} : broker'[o] = broker[o],
         \A t \in Sales \ {s} : seller'[t].at = seller[t].at
  PROVE  Ready'
<1>1. /\ order'[s] = w /\ \A o \in Orders \ {s} : order'[o] = order[o]
      /\ \A b \in Brackets : b \in Orders \ {s}
  BY OrderSets DEF Types
<1>2. /\ \A u \in Brackets : OwnReady(order'[u], broker'[u])
      /\ \A o \in Orders : State(o) # "unwritten" => order'[o].fold.state # "unwritten"
      /\ \A u \in Brackets : bracket'[u] = bracket[u] /\ broker'[u].quantity = broker[u].quantity
      /\ \A t \in Sales : /\ order'[t].fold.state # "dry"
                          /\ seller'[t].at \in {"sent", "settling", "telling"} => order'[t].fold.state # "unwritten"
  BY <1>1, OrderSets DEF Ready, SaleReady, State
<1> QED BY <1>2, ReadyKept

\* A step of the sale's thread.
LEMMA SellingReady == ASSUME Types, Ready, NEW s \in Sales, Ask(s) \/ Selling(s) PROVE Ready'
<1> DEFINE n == NextOf(s)
<1>1. /\ \A step : To(s, step) => \A t \in Sales : seller'[t].at = IF t = s THEN step ELSE seller[t].at
      /\ Visited(s) => \A t \in Sales : seller'[t].at = seller[t].at
  BY SellerStands
<1>2. \A t \in Sales : seller[t].at \in {"sent", "settling", "telling"} => State(t) # "unwritten"
  BY DEF Ready, SaleReady
<1>3. seller[s].todo # {} => n \in Brackets /\ bracket[n] \in Bracket_ /\ seller[s].share[n] \in Int
  BY NextIs DEF Types
<1>4. s \in Orders /\ order[s] \in Order_ /\ order \in [Orders -> Order_] /\ broker \in [Orders -> Broker_]
      /\ seller \in [Sales -> Seller_] /\ bracket \in [Brackets -> Bracket_]
  BY OrderSets DEF Types
<1> HIDE DEF n
<1>5. CASE Ask(s)
  <2>1. PICK q, share : seller' = [seller EXCEPT ![s] = [Idle EXCEPT !.at = "marking", !.quantity = q,
                                                                     !.share = share, !.todo = DOMAIN share]]
    BY <1>5 DEF Ask
  <2>2. \A t \in Sales : seller'[t].at = IF t = s THEN "marking" ELSE seller[t].at
    BY <1>4, <2>1 DEF Idle
  <2> QED BY <1>2, <1>5, <2>2, SellersReady DEF Ask
<1>6. CASE Mark(s)
  <2>1. CASE AllVisited(s, "marking") /\ To(s, "watching") /\ UNCHANGED bracket
    <3>1. \A t \in Sales : seller'[t].at = IF t = s THEN "watching" ELSE seller[t].at
      BY <1>1, <2>1
    <3> QED BY <1>2, <1>6, <2>1, <3>1, SellersReady DEF Mark
  <2>2. CASE Visiting(s, "marking") /\ Visited(s)
             /\ bracket' = [bracket EXCEPT ![n] = After(@, SaleAsked(seller[s].share[n]))]
    <3> DEFINE e == SaleAsked(seller[s].share[n])  c == After(bracket[n], e)
    <3>1. bracket' = [bracket EXCEPT ![n] = c] /\ e.kind = "sale-asked" /\ n \in Brackets
      BY <1>3, <2>2 DEF Visiting, SaleAsked
    <3>2. c.exit = bracket[n].exit /\ c.quantity = bracket[n].quantity
      BY <1>3, <2>2, AfterSaleAsked DEF Visiting, Stands
    <3>3. UNCHANGED <<order, broker>> /\ \A t \in Sales : seller'[t].at = seller[t].at
      BY <1>1, <1>6, <2>2 DEF Mark
    <3>4. Free(c)
      BY <1>3, <2>2, <3>1, FreeAfter DEF Visiting, Ready, BracketReady
    <3>5. bracket'[n] = c /\ \A u \in Brackets \ {n} : bracket'[u] = bracket[u]
      BY <1>4, <3>1
    <3> HIDE DEF c
    <3> QED BY <3>1, <3>2, <3>3, <3>4, <3>5, ToldReady
  <2> QED BY <1>6, <2>1, <2>2 DEF Mark, n
<1>7. CASE Watch(s) \/ GiveUp(s)
  <2>1. UNCHANGED <<bracket, order, broker>>
    BY <1>7 DEF Watch, GiveUp
  <2>2. \/ To(s, "dropping") \/ To(s, "sending") \/ To(s, "watching")
        \/ seller' = [seller EXCEPT ![s].todo = @ \ {n}, ![s].clear = @ /\ ClearForSale(bracket[n])]
    BY <1>7 DEF Watch, GiveUp, n
  <2>3. CASE seller' = [seller EXCEPT ![s].todo = @ \ {n}, ![s].clear = @ /\ ClearForSale(bracket[n])]
    <3>1. \A t \in Sales : seller'[t].at = seller[t].at
      BY <1>4, <2>3 DEF Seller_
    <3> QED BY <1>2, <2>1, <3>1, SellersReady
  <2>4. CASE \E step \in {"dropping", "sending", "watching"} : To(s, step)
    <3>1. \A t \in Sales : seller'[t].at \in {"dropping", "sending", "watching"} \/ seller'[t].at = seller[t].at
      BY <1>1, <2>4
    <3> QED BY <1>2, <2>1, <3>1, SellersReady
  <2> QED BY <2>2, <2>3, <2>4
<1>8. CASE Send(s)
  <2> DEFINE w == [order[s] EXCEPT !.fold = Start(FALSE)]
  <2>1. order' = [order EXCEPT ![s] = w] /\ w.fold.state = "sending"
    BY <1>4, <1>8, Starts DEF Send, Order_
  <2> HIDE DEF w
  <2>2. UNCHANGED bracket /\ (\A o \in Orders \ {s} : broker'[o] = broker[o])
        /\ \A t \in Sales \ {s} : seller'[t].at = seller[t].at
    BY <1>1, <1>4, <1>8 DEF Send
  <2> QED BY <2>1, <2>2, SaleMoves
<1>9. CASE Hear(s)
  <2>1. PICK e \in {Refused, NotSent, Accepted, Unclear} :
          /\ order' = [order EXCEPT ![s].fold = Apply(@, e)]
          /\ \E step : To(s, step)
    BY <1>9 DEF Hear, Settled
  <2> DEFINE w == [order[s] EXCEPT !.fold = Apply(order[s].fold, e)]
  <2>2. order' = [order EXCEPT ![s] = w]
    BY <1>4, <2>1
  <2>3. w.fold = Apply(order[s].fold, e)
    BY <1>4 DEF Order_
  <2> HIDE DEF w
  <2>4. order[s].fold \in Fold_ /\ order[s].fold.state \notin {"unwritten", "dry"}
    BY <1>2, <1>4, <1>9 DEF Hear, At, Ready, SaleReady, State, Order_
  <2>5. w.fold.state \notin {"unwritten", "dry"}
    BY <2>3, <2>4, NeverDry
  <2>6. UNCHANGED <<bracket, broker>> /\ \A t \in Sales \ {s} : seller'[t].at = seller[t].at
    BY <1>1, <1>9, <2>1 DEF Hear
  <2> QED BY <2>2, <2>5, <2>6, SaleMoves
<1>10. CASE Settle(s)
  <2>1. State(s) # "unwritten" /\ UNCHANGED <<bracket, order, broker>> /\ \E step : To(s, step)
    BY <1>2, <1>10 DEF Settle, Settled, At
  <2>2. \A t \in Sales \ {s} : seller'[t].at = seller[t].at
    BY <1>1, <2>1
  <2> QED BY <1>2, <2>1, <2>2, SellersReady
<1>11. CASE Tell(s)
  <2> DEFINE e == SaleSent(s, seller[s].share[n])  c == After(bracket[n], e)
  <2>1. bracket' = [bracket EXCEPT ![n] = c] /\ e.kind = "sale-sent" /\ n \in Brackets /\ Visited(s)
        /\ UNCHANGED <<order, broker>> /\ State(s) # "unwritten"
    BY <1>2, <1>3, <1>11 DEF Tell, Visiting, SaleSent, At, n
  <2>2. (c.exit = bracket[n].exit /\ c.quantity = bracket[n].quantity) \/ c.exit = s
    <3>1. bracket[n] \in Bracket_ /\ seller[s].share[n] \in Int
      BY <1>3, <1>11 DEF Tell, Visiting
    <3>2. CASE bracket[n].phase = "closing-for-sale" /\ ~HasExit(bracket[n])
      BY <3>1, <3>2, AfterSaleSent DEF Stands
    <3>3. CASE ~(bracket[n].phase = "closing-for-sale" /\ ~HasExit(bracket[n]))
      BY <3>1, <3>3, AfterSaleSent
    <3> QED BY <3>2, <3>3
  <2>3. \A t \in Sales : seller'[t].at = seller[t].at
    BY <1>1, <2>1
  <2>4. Free(c)
    BY <1>3, <1>11, <2>1, FreeAfter DEF Tell, Visiting, Ready, BracketReady
  <2>5. bracket'[n] = c /\ \A u \in Brackets \ {n} : bracket'[u] = bracket[u]
    BY <1>4, <2>1
  <2> HIDE DEF c
  <2> QED BY <1>4, <2>1, <2>2, <2>3, <2>4, <2>5, ToldReady
<1>12. CASE Drop(s)
  <2> DEFINE e == Ev("sale-dropped")  c == After(bracket[n], e)
  <2>1. bracket' = [bracket EXCEPT ![n] = c] /\ e.kind = "sale-dropped" /\ n \in Brackets /\ Visited(s)
        /\ UNCHANGED <<order, broker>>
    BY <1>3, <1>12 DEF Drop, Visiting, Ev, n
  <2>2. c.exit = bracket[n].exit /\ c.quantity = bracket[n].quantity
    BY <1>3, <1>12, AfterDropped DEF Drop, Visiting, Stands
  <2>3. \A t \in Sales : seller'[t].at = seller[t].at
    BY <1>1, <2>1
  <2>4. Free(c)
    BY <1>3, <1>12, <2>1, FreeAfter DEF Drop, Visiting, Ready, BracketReady
  <2>5. bracket'[n] = c /\ \A u \in Brackets \ {n} : bracket'[u] = bracket[u]
    BY <1>4, <2>1
  <2> HIDE DEF c
  <2> QED BY <1>4, <2>1, <2>2, <2>3, <2>4, <2>5, ToldReady
<1>13. CASE Answer(s)
  <2>1. \A t \in Sales : seller'[t].at = IF t = s THEN "idle" ELSE seller[t].at
    BY <1>4, <1>13, Starts DEF Answer
  <2> QED BY <1>2, <1>13, <2>1, SellersReady DEF Answer
<1> QED BY <1>5, <1>6, <1>7, <1>8, <1>9, <1>10, <1>11, <1>12, <1>13 DEF Selling

\* What goes on beside them.
LEMMA BesideReady ==
  ASSUME Types, Ready, NEW o \in Orders, ReadBack(o) \/ Fill(o) \/ EndAtBroker(o) \/ (o \in Sales /\ CancelSale(o))
  PROVE  Ready'
<1>1. /\ order[o] \in Order_ /\ order[o].fold \in Fold_ /\ broker[o] \in Broker_ /\ broker[o].filled <= broker[o].quantity
      /\ order \in [Orders -> Order_] /\ broker \in [Orders -> Broker_] /\ Orders = Brackets \cup Sales
      /\ Brackets \cap Sales = {}
  BY OrderSets DEF Types, Order_
<1>2. /\ \A b \in Brackets : OwnReady(order[b], broker[b])
      /\ \A t \in Sales : /\ State(t) # "dry"
                          /\ seller[t].at \in {"sent", "settling", "telling"} => State(t) # "unwritten"
  BY DEF Ready, SaleReady
<1>3. ASSUME UNCHANGED <<bracket, seller>>,
             \A b \in Brackets : OwnReady(order'[b], broker'[b]) /\ broker'[b].quantity = broker[b].quantity,
             \A u \in Orders : /\ State(u) # "unwritten" => order'[u].fold.state # "unwritten"
                               /\ State(u) # "dry" => order'[u].fold.state # "dry"
      PROVE  Ready'
  <2>1. \A t \in Sales : /\ order'[t].fold.state # "dry"
                         /\ seller'[t].at \in {"sent", "settling", "telling"} => order'[t].fold.state # "unwritten"
    BY <1>1, <1>2, <1>3
  <2>2. \A b \in Brackets : bracket'[b] = bracket[b] /\ broker'[b].quantity = broker[b].quantity
    BY <1>3
  <2> QED BY <1>3, <2>1, <2>2, ReadyKept
<1>4. CASE ReadBack(o)
  <2> DEFINE g == Apply(order[o].fold, Read(broker[o].status, broker[o].filled))
             w == [order[o] EXCEPT !.fold = g]
  <2>1. order[o].fold.state \in InFlight /\ UNCHANGED <<bracket, broker, seller>> /\ order' = [order EXCEPT ![o] = w]
    BY <1>1, <1>4 DEF ReadBack, State
  <2>2. w.fold = g /\ w.asked = order[o].asked
    BY <1>1 DEF Order_
  <2>3. g.state \notin {"unwritten", "dry"}
    <3>1. order[o].fold.state \notin {"unwritten", "dry"} /\ broker[o].status \in {"open", "filled", "cancelled", "not-found"}
          /\ broker[o].filled \in Nat
      BY <1>1, <2>1 DEF InFlight, Broker_
    <3> QED BY <1>1, <3>1, NeverDry
  <2> HIDE DEF w
  <2>4. o \in Brackets => OwnReady(w, broker[o])
    BY <1>1, <1>2, <2>1, <2>2, OwnRead
  <2> HIDE DEF g
  <2>5. order'[o] = w /\ \A u \in Orders \ {o} : order'[u] = order[u]
    BY <1>1, <2>1
  <2>6. \A b \in Brackets : OwnReady(order'[b], broker'[b]) /\ broker'[b].quantity = broker[b].quantity
    BY <1>1, <1>2, <2>1, <2>4, <2>5
  <2>7. \A u \in Orders : order'[u].fold.state \notin {"unwritten", "dry"} \/ order'[u] = order[u]
    BY <2>2, <2>3, <2>5
  <2> QED BY <1>3, <2>1, <2>6, <2>7 DEF State
<1>5. ASSUME UNCHANGED <<bracket, order, seller>>, NEW r,
             broker' = [broker EXCEPT ![o] = r], r.quantity = broker[o].quantity,
             o \in Brackets => OwnReady(order[o], r)
      PROVE  Ready'
  <2>1. broker'[o] = r /\ \A u \in Orders \ {o} : broker'[u] = broker[u]
    BY <1>1, <1>5
  <2>2. \A b \in Brackets : OwnReady(order'[b], broker'[b]) /\ broker'[b].quantity = broker[b].quantity
    BY <1>1, <1>2, <1>5, <2>1
  <2> QED BY <1>3, <1>5, <2>2 DEF State
<1>6. CASE Fill(o)
  <2> DEFINE left == broker[o].quantity - broker[o].filled
  <2>1. PICK k \in IF PartFills THEN 1 .. left ELSE {left} :
          broker' = [broker EXCEPT ![o].filled = @ + k, ![o].status = IF k = left THEN "filled" ELSE @]
    BY <1>6 DEF Fill
  <2>2. /\ broker[o].quantity \in Nat /\ broker[o].filled \in Nat /\ left \in Nat /\ k \in Nat /\ k <= left
        /\ broker[o].status = "open"
    <3>1. broker[o].quantity \in Nat /\ broker[o].filled \in Nat /\ left \in Nat
      BY <1>1 DEF Broker_
    <3> HIDE DEF left
    <3> QED BY <1>6, <3>1 DEF Fill
  <2> DEFINE f == broker[o].filled + k  st == IF k = left THEN "filled" ELSE "open"
             r == [broker[o] EXCEPT !.filled = f, !.status = st]
  <2>3. broker' = [broker EXCEPT ![o] = r]
    BY <1>1, <2>1, <2>2 DEF Broker_
  <2>4. r.filled = f /\ r.status = st /\ r.quantity = broker[o].quantity /\ r.cancelling = broker[o].cancelling
    BY <1>1 DEF Broker_
  <2>5. f \in Nat /\ f >= broker[o].filled /\ (st = "open" => f < broker[o].quantity) /\ st \in {"open", "filled"}
    BY <2>2
  <2> HIDE DEF left, f, st, r
  <2>6. o \in Brackets => OwnReady(order[o], r)
    <3> SUFFICES ASSUME o \in Brackets PROVE OwnReady(order[o], r)
      OBVIOUS
    <3>1. OwnReady(order[o], broker[o]) /\ order[o].fold.filled \in Nat
      BY <1>1, <1>2 DEF Fold_
    <3> QED BY <2>2, <2>4, <2>5, <3>1 DEF OwnReady
  <2> QED BY <1>5, <1>6, <2>3, <2>4, <2>6 DEF Fill
<1>7. CASE EndAtBroker(o)
  <2> DEFINE r == [broker[o] EXCEPT !.status = "cancelled"]
  <2>1. broker' = [broker EXCEPT ![o] = r] /\ broker[o].status = "open" /\ (broker[o].cancelling \/ o \in Sales)
    BY <1>1, <1>7 DEF EndAtBroker
  <2>2. r.filled = broker[o].filled /\ r.status = "cancelled" /\ r.quantity = broker[o].quantity
        /\ r.cancelling = broker[o].cancelling
    BY <1>1 DEF Broker_
  <2> HIDE DEF r
  <2>3. o \in Brackets => OwnReady(order[o], r)
    BY <1>1, <1>2, <2>1, <2>2 DEF OwnReady
  <2> QED BY <1>5, <1>7, <2>1, <2>2, <2>3 DEF EndAtBroker
<1>8. CASE o \in Sales /\ CancelSale(o)
  <2>1. /\ \A b \in Brackets : OwnReady(order'[b], broker'[b]) /\ broker'[b].quantity = broker[b].quantity
        /\ \A u \in Orders : State(u) # "unwritten" => order'[u].fold.state # "unwritten"
        /\ \A s \in Sales : order'[s].fold.state # "dry"
    BY <1>8, CancelReady DEF CancelSale
  <2>2. UNCHANGED <<bracket, seller>>
    BY <1>8 DEF CancelSale
  <2>3. \A t \in Sales : seller'[t].at \in {"sent", "settling", "telling"} => order'[t].fold.state # "unwritten"
    BY <1>1, <1>2, <2>1, <2>2
  <2>4. \A b \in Brackets : bracket'[b] = bracket[b] /\ broker'[b].quantity = broker[b].quantity
    BY <2>1, <2>2
  <2> QED BY <2>1, <2>3, <2>4, ReadyKept
<1> QED BY <1>4, <1>6, <1>7, <1>8

\* Every step keeps it.
LEMMA NextReady == ASSUME Types, Ready, [Next]_vars PROVE Ready'
<1>1. CASE UNCHANGED vars
  BY <1>1, SellersReady DEF vars, Ready, SaleReady
<1>2. CASE \E b \in Brackets : Checking(b)
  BY <1>2, CheckReady
<1>3. CASE \E s \in Sales : Ask(s) \/ Selling(s) \/ CancelSale(s)
  BY <1>3, SellingReady, BesideReady, OrderSets
<1>4. CASE \E o \in Orders : ReadBack(o) \/ Fill(o) \/ EndAtBroker(o)
  BY <1>4, BesideReady
<1>5. CASE Crash
  <2>1. \A t \in Sales : seller'[t].at = "idle"
    BY <1>5, Starts DEF Crash
  <2> QED BY <1>5, <2>1, SellersReady DEF Crash
<1> QED BY <1>1, <1>2, <1>3, <1>4, <1>5 DEF Next

\* A bracket's shares are never left with neither: with nothing at the broker for them, and nothing
\* being sent, the next check that has read what the broker says places an exit or finds
\* them sold; whatever was lost, however orders filled, wherever the process stopped, and
\* with any number of sales.
THEOREM PositionKept == Spec => []NeverNeither
<1>1. Init => Types /\ Ready
  BY InitTypes, InitReady
<1>2. Types /\ Ready /\ [Next]_vars => (Types /\ Ready)'
  BY NextTypes, NextReady
<1>3. Types /\ Ready => NeverNeither
  BY ReadyNeverNeither
<1> QED BY <1>1, <1>2, <1>3, PTL DEF Spec
===============================================================================
