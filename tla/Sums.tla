-------------------------------- MODULE Sums --------------------------------
(***************************************************************************)
(* Facts about sums over finite sets, which the balances of wallets and     *)
(* earnings are compared with.  SumFunctionOnSet recurs over the subsets    *)
(* of its index set; that the recursion is well defined, and that the order *)
(* of its choices does not matter, is shown by an induction on cardinality. *)
(***************************************************************************)
EXTENDS Integers, FiniteSets, Functions, FiniteSetTheorems, WellFoundedInduction, TLAPS

(* Induction over the naturals, for a property given as a set.               *)
LEMMA NatSets ==
    ASSUME NEW S \in SUBSET Nat, 0 \in S, \A n \in S : n + 1 \in S
    PROVE  S = Nat
<1> DEFINE T == Nat \ S
<1> DEFINE R == OpToRel(<, Nat)
<1>1. SUFFICES ASSUME T # {} PROVE FALSE
    OBVIOUS
<1>2. IsWellFoundedOn(R, Nat)
    BY NatLessThanWellFounded
<1>3. PICK x \in T : \A y \in T : ~ (<<y, x>> \in R)
  <2>1. T \in SUBSET Nat
    OBVIOUS
  <2> HIDE DEF T, R
  <2>2. QED
    BY <1>1, <1>2, <2>1, WFMin
<1>4. \A y \in T : ~ (y < x)
    BY <1>3 DEF OpToRel
<1>5. x # 0 /\ x \in Nat
    OBVIOUS
<1>6. x - 1 \in Nat /\ x - 1 < x /\ x - 1 \notin T
    BY <1>4, <1>5
<1>7. QED
    BY <1>6, <1>5

(* Induction over the subsets of a finite set, for a property given as a set. *)
LEMMA SubsetInduction ==
    ASSUME NEW S, IsFiniteSet(S), NEW P \in SUBSET SUBSET S, {} \in P,
           \A T \in SUBSET S : T # {} /\ (\A x \in T : T \ {x} \in P) => T \in P
    PROVE  P = SUBSET S
<1> DEFINE Good(n) == \A T \in SUBSET S : Cardinality(T) = n => T \in P
<1> DEFINE N == {n \in Nat : Good(n)}
<1>1. 0 \in N
  <2>1. SUFFICES ASSUME NEW T \in SUBSET S, Cardinality(T) = 0 PROVE T = {}
    OBVIOUS
  <2>2. QED
    BY <2>1, FS_Subset, FS_EmptySet
<1>2. ASSUME NEW n \in N PROVE n + 1 \in N
  <2>1. SUFFICES ASSUME NEW T \in SUBSET S, Cardinality(T) = n + 1 PROVE T \in P
    BY <1>2
  <2>2. IsFiniteSet(T)
    BY FS_Subset
  <2>3. T # {}
    BY <2>1, FS_EmptySet
  <2>4. ASSUME NEW x \in T PROVE T \ {x} \in P
    <3>1. n \in Nat /\ Good(n)
      BY <1>2
    <3> HIDE DEF Good, N
    <3>2. Cardinality(T \ {x}) = Cardinality(T) - 1
      BY <2>2, FS_RemoveElement
    <3>3. Cardinality(T \ {x}) = n
      BY <2>1, <3>1, <3>2
    <3>4. QED
      BY <3>1, <3>3 DEF Good
  <2>5. QED
    BY <2>3, <2>4
<1>3. N = Nat
  <2> HIDE DEF N
  <2>1. N \in SUBSET Nat
    BY DEF N
  <2>2. QED
    BY <1>1, <1>2, <2>1, NatSets
<1>4. ASSUME NEW T \in SUBSET S PROVE T \in P
  <2>1. Cardinality(T) \in Nat
    BY FS_Subset, FS_CardinalityType
  <2>2. QED
    BY <2>1, <1>3
<1>5. QED
    BY <1>4

(* What SumFunctionOnSet chooses: a function on the subsets of S that recurs.  *)
RecursTo(g, f, T) == IF T = {} THEN 0 ELSE LET x == CHOOSE y \in T : TRUE IN f[x] + g[T \ {x}]

Recurs(g, f, S) == g = [T \in SUBSET S |-> RecursTo(g, f, T)]

LEMMA SumIsRecursion ==
    ASSUME NEW f, NEW S
    PROVE  SumFunctionOnSet(f, S) = (CHOOSE g : Recurs(g, f, S))[S]
BY DEF SumFunctionOnSet, FoldFunctionOnSet, MapThenFoldSet, Recurs, RecursTo

LEMMA RecursAt ==
    ASSUME NEW f, NEW S, NEW g, Recurs(g, f, S), NEW T \in SUBSET S
    PROVE  /\ T = {} => g[T] = 0
           /\ T # {} => LET x == CHOOSE y \in T : TRUE
                       IN  x \in T /\ g[T] = f[x] + g[T \ {x}]
<1>1. g[T] = IF T = {} THEN 0 ELSE LET x == CHOOSE y \in T : TRUE IN f[x] + g[T \ {x}]
    BY DEF Recurs, RecursTo
<1>2. T # {} => (CHOOSE y \in T : TRUE) \in T
    OBVIOUS
<1>3. QED
    BY <1>1, <1>2

(* Two such functions agree where both are defined.                           *)
LEMMA RecursUnique ==
    ASSUME NEW f, NEW S, NEW T, NEW g, NEW h, Recurs(g, f, S), Recurs(h, f, T),
           NEW U, IsFiniteSet(U), U \in SUBSET S, U \in SUBSET T
    PROVE  g[U] = h[U]
<1> DEFINE P == {V \in SUBSET U : g[V] = h[V]}
<1>1. {} \in P
    BY RecursAt
<1>2. ASSUME NEW V \in SUBSET U, V # {}, \A x \in V : V \ {x} \in P
      PROVE  V \in P
  <2> DEFINE x == CHOOSE y \in V : TRUE
  <2>1. x \in V /\ g[V] = f[x] + g[V \ {x}]
    BY <1>2, RecursAt
  <2>2. h[V] = f[x] + h[V \ {x}]
    BY <1>2, RecursAt
  <2>3. g[V \ {x}] = h[V \ {x}]
    BY <1>2, <2>1
  <2>4. QED
    BY <2>1, <2>2, <2>3
<1>3. P = SUBSET U
  <2>1. P \in SUBSET SUBSET U
    OBVIOUS
  <2> HIDE DEF P
  <2>2. QED
    BY <1>1, <1>2, <2>1, SubsetInduction
<1>4. QED
    BY <1>3

LEMMA RecursRestricts ==
    ASSUME NEW f, NEW S, NEW g, Recurs(g, f, S), NEW T \in SUBSET S
    PROVE  \E h : Recurs(h, f, T)
<1> DEFINE h == [U \in SUBSET T |-> g[U]]
<1>1. ASSUME NEW U \in SUBSET T
      PROVE  h[U] = RecursTo(h, f, U)
  <2>1. U = {} => g[U] = 0
    BY RecursAt
  <2>2. U # {} => LET x == CHOOSE y \in U : TRUE IN g[U] = f[x] + g[U \ {x}]
    BY RecursAt
  <2>3. h[U] = g[U] /\ \A x : h[U \ {x}] = g[U \ {x}]
    OBVIOUS
  <2>4. QED
    BY <2>1, <2>2, <2>3 DEF RecursTo
<1>2. Recurs(h, f, T)
    BY <1>1 DEF Recurs
<1>3. QED
    BY <1>2

(* There is one on the subsets of every finite set.                           *)
LEMMA RecursExists ==
    ASSUME NEW f, NEW S, IsFiniteSet(S)
    PROVE  \E g : Recurs(g, f, S)
<1> DEFINE P == {T \in SUBSET S : \E g : Recurs(g, f, T)}
<1> DEFINE Val(T) == (CHOOSE g : Recurs(g, f, T))[T]
<1>1. {} \in P
  <2>1. Recurs([T \in SUBSET {} |-> 0], f, {})
    BY DEF Recurs, RecursTo
  <2>2. QED
    BY <2>1
<1>2. ASSUME NEW T \in SUBSET S, T # {}, \A x \in T : T \ {x} \in P
      PROVE  T \in P
  <2> DEFINE c(U) == CHOOSE y \in U : TRUE
  <2> DEFINE Step(U) == IF U = {} THEN 0 ELSE f[c(U)] + Val(U \ {c(U)})
  <2> DEFINE g == [U \in SUBSET T |-> Step(U)]
  <2>1. ASSUME NEW U \in SUBSET T, U # T
        PROVE  Val(U) = Step(U)
    <3>1. PICK x \in T : U \in SUBSET (T \ {x})
      BY <2>1
    <3>2. \E h : Recurs(h, f, U)
      BY <1>2, <3>1, RecursRestricts
    <3>3. PICK h : Recurs(h, f, U) /\ Val(U) = h[U]
      BY <3>2
    <3>4. CASE U = {}
      BY <3>3, <3>4, RecursAt
    <3>5. CASE U # {}
      <4>1. c(U) \in U /\ h[U] = f[c(U)] + h[U \ {c(U)}]
        BY <3>3, <3>5, RecursAt
      <4>2. \E k : Recurs(k, f, U \ {c(U)})
        BY <3>3, RecursRestricts
      <4>3. PICK k : Recurs(k, f, U \ {c(U)}) /\ Val(U \ {c(U)}) = k[U \ {c(U)}]
        BY <4>2
      <4>4. IsFiniteSet(U \ {c(U)})
        BY FS_Subset
      <4>5. h[U \ {c(U)}] = k[U \ {c(U)}]
        BY <3>3, <4>3, <4>4, RecursUnique
      <4>6. QED
        BY <3>3, <3>5, <4>1, <4>3, <4>5
    <3>6. QED
      BY <3>4, <3>5
  <2>2. ASSUME NEW U \in SUBSET T
        PROVE  g[U] = RecursTo(g, f, U)
    <3>1. CASE U = {}
      BY <3>1 DEF RecursTo
    <3>2. CASE U # {}
      <4>1. c(U) \in U
        BY <3>2
      <4>2. U \ {c(U)} \in SUBSET T /\ U \ {c(U)} # T
        BY <4>1
      <4> HIDE DEF Val
      <4>3. g[U \ {c(U)}] = Val(U \ {c(U)})
        BY <2>1, <4>2
      <4>4. g[U] = f[c(U)] + Val(U \ {c(U)})
        BY <3>2
      <4>5. QED
        BY <3>2, <4>3, <4>4 DEF RecursTo
    <3>3. QED
      BY <3>1, <3>2
  <2>3. Recurs(g, f, T)
    BY <2>2 DEF Recurs
  <2>4. QED
    BY <2>3
<1>3. P = SUBSET S
  <2>1. P \in SUBSET SUBSET S
    OBVIOUS
  <2> HIDE DEF P
  <2>2. QED
    BY <1>1, <1>2, <2>1, SubsetInduction
<1>4. QED
    BY <1>3

LEMMA SumEmpty ==
    ASSUME NEW f
    PROVE  SumFunctionOnSet(f, {}) = 0
<1>1. \E g : Recurs(g, f, {})
    BY RecursExists, FS_EmptySet
<1>2. PICK g : Recurs(g, f, {}) /\ SumFunctionOnSet(f, {}) = g[{}]
    BY <1>1, SumIsRecursion
<1>3. QED
    BY <1>2, RecursAt

(* The sum takes its elements in an order of its own...                       *)
LEMMA SumChosen ==
    ASSUME NEW f, NEW S, IsFiniteSet(S), S # {}
    PROVE  LET x == CHOOSE y \in S : TRUE
           IN  x \in S /\ SumFunctionOnSet(f, S) = f[x] + SumFunctionOnSet(f, S \ {x})
<1> DEFINE x == CHOOSE y \in S : TRUE
<1>1. \E g : Recurs(g, f, S)
    BY RecursExists
<1>2. PICK g : Recurs(g, f, S) /\ SumFunctionOnSet(f, S) = g[S]
    BY <1>1, SumIsRecursion
<1>3. x \in S /\ g[S] = f[x] + g[S \ {x}]
    BY <1>2, RecursAt
<1>4. IsFiniteSet(S \ {x})
    BY FS_Subset
<1>5. \E h : Recurs(h, f, S \ {x})
    BY <1>4, RecursExists
<1>6. PICK h : Recurs(h, f, S \ {x}) /\ SumFunctionOnSet(f, S \ {x}) = h[S \ {x}]
    BY <1>5, SumIsRecursion
<1>7. g[S \ {x}] = h[S \ {x}]
    BY <1>2, <1>4, <1>6, RecursUnique
<1>8. QED
    BY <1>2, <1>3, <1>6, <1>7

(* ... which does not show in its value.                                      *)
LEMMA SumType ==
    ASSUME NEW f, NEW S, IsFiniteSet(S), \A x \in S : f[x] \in Int
    PROVE  SumFunctionOnSet(f, S) \in Int
<1> DEFINE P == {T \in SUBSET S : SumFunctionOnSet(f, T) \in Int}
<1>1. {} \in P
    BY SumEmpty
<1>2. ASSUME NEW T \in SUBSET S, T # {}, \A x \in T : T \ {x} \in P
      PROVE  T \in P
  <2> DEFINE x == CHOOSE y \in T : TRUE
  <2>1. x \in T /\ SumFunctionOnSet(f, T) = f[x] + SumFunctionOnSet(f, T \ {x})
    BY <1>2, FS_Subset, SumChosen
  <2>2. SumFunctionOnSet(f, T \ {x}) \in Int /\ f[x] \in Int
    BY <1>2, <2>1
  <2>3. QED
    BY <2>1, <2>2
<1>3. P = SUBSET S
  <2>1. P \in SUBSET SUBSET S
    OBVIOUS
  <2> HIDE DEF P
  <2>2. QED
    BY <1>1, <1>2, <2>1, SubsetInduction
<1>4. QED
    BY <1>3

LEMMA SumRemove ==
    ASSUME NEW f, NEW S, IsFiniteSet(S), \A y \in S : f[y] \in Int, NEW x \in S
    PROVE  SumFunctionOnSet(f, S) = f[x] + SumFunctionOnSet(f, S \ {x})
<1> DEFINE P == {T \in SUBSET S : \A y \in T : SumFunctionOnSet(f, T) = f[y] + SumFunctionOnSet(f, T \ {y})}
<1>1. {} \in P
    OBVIOUS
<1>2. ASSUME NEW T \in SUBSET S, T # {}, \A y \in T : T \ {y} \in P
      PROVE  T \in P
  <2> DEFINE z == CHOOSE y \in T : TRUE
  <2>1. z \in T /\ SumFunctionOnSet(f, T) = f[z] + SumFunctionOnSet(f, T \ {z})
    BY <1>2, FS_Subset, SumChosen
  <2> HIDE DEF z
  <2>2. ASSUME NEW y \in T, y # z
        PROVE  SumFunctionOnSet(f, T) = f[y] + SumFunctionOnSet(f, T \ {y})
    <3>1. T \ {z} \in P /\ T \ {y} \in P /\ y \in T \ {z} /\ z \in T \ {y}
      BY <1>2, <2>1, <2>2
    <3>2. SumFunctionOnSet(f, T \ {z}) = f[y] + SumFunctionOnSet(f, (T \ {z}) \ {y})
      BY <3>1
    <3>3. SumFunctionOnSet(f, T \ {y}) = f[z] + SumFunctionOnSet(f, (T \ {y}) \ {z})
      BY <3>1
    <3>4. (T \ {z}) \ {y} = (T \ {y}) \ {z}
      OBVIOUS
    <3> DEFINE rest == (T \ {z}) \ {y}
    <3>5. SumFunctionOnSet(f, rest) \in Int
      BY FS_Subset, SumType
    <3>6. f[y] \in Int /\ f[z] \in Int
      BY <2>1
    <3>7. SumFunctionOnSet(f, T) = f[z] + (f[y] + SumFunctionOnSet(f, rest))
      BY <2>1, <3>2
    <3>8. SumFunctionOnSet(f, T \ {y}) = f[z] + SumFunctionOnSet(f, rest)
      BY <3>3, <3>4
    <3> HIDE DEF P, rest
    <3>9. QED
      BY <3>5, <3>6, <3>7, <3>8
  <2>3. QED
    BY <2>1, <2>2
<1>3. P = SUBSET S
  <2>1. P \in SUBSET SUBSET S
    OBVIOUS
  <2> HIDE DEF P
  <2>2. QED
    BY <1>1, <1>2, <2>1, SubsetInduction
<1>4. QED
    BY <1>3

LEMMA SumSame ==
    ASSUME NEW f, NEW g, NEW S, IsFiniteSet(S), \A x \in S : f[x] = g[x]
    PROVE  SumFunctionOnSet(f, S) = SumFunctionOnSet(g, S)
<1> DEFINE P == {T \in SUBSET S : SumFunctionOnSet(f, T) = SumFunctionOnSet(g, T)}
<1>1. {} \in P
    BY SumEmpty
<1>2. ASSUME NEW T \in SUBSET S, T # {}, \A x \in T : T \ {x} \in P
      PROVE  T \in P
  <2> DEFINE x == CHOOSE y \in T : TRUE
  <2>1. x \in T /\ SumFunctionOnSet(f, T) = f[x] + SumFunctionOnSet(f, T \ {x})
    BY <1>2, FS_Subset, SumChosen
  <2>2. SumFunctionOnSet(g, T) = g[x] + SumFunctionOnSet(g, T \ {x})
    BY <1>2, FS_Subset, SumChosen
  <2>3. SumFunctionOnSet(f, T \ {x}) = SumFunctionOnSet(g, T \ {x}) /\ f[x] = g[x]
    BY <1>2, <2>1
  <2>4. QED
    BY <2>1, <2>2, <2>3
<1>3. P = SUBSET S
  <2>1. P \in SUBSET SUBSET S
    OBVIOUS
  <2> HIDE DEF P
  <2>2. QED
    BY <1>1, <1>2, <2>1, SubsetInduction
<1>4. QED
    BY <1>3

(* What a sum gains when one of its terms changes, *)
LEMMA SumChange ==
    ASSUME NEW f, NEW g, NEW S, IsFiniteSet(S), NEW x \in S,
           \A y \in S : f[y] \in Int /\ g[y] \in Int,
           \A y \in S \ {x} : f[y] = g[y]
    PROVE  SumFunctionOnSet(g, S) = SumFunctionOnSet(f, S) + g[x] - f[x]
<1>1. IsFiniteSet(S \ {x})
    BY FS_Subset
<1>2. SumFunctionOnSet(f, S \ {x}) = SumFunctionOnSet(g, S \ {x})
    BY <1>1, SumSame
<1>3. SumFunctionOnSet(f, S \ {x}) \in Int
    BY <1>1, SumType
<1>4. SumFunctionOnSet(f, S) = f[x] + SumFunctionOnSet(f, S \ {x})
    BY SumRemove
<1>5. SumFunctionOnSet(g, S) = g[x] + SumFunctionOnSet(g, S \ {x})
    BY SumRemove
<1>6. QED
    BY <1>2, <1>3, <1>4, <1>5

(* or one is added.                                                           *)
LEMMA SumInsert ==
    ASSUME NEW f, NEW S, IsFiniteSet(S), NEW x, x \notin S, \A y \in S \cup {x} : f[y] \in Int
    PROVE  SumFunctionOnSet(f, S \cup {x}) = f[x] + SumFunctionOnSet(f, S)
<1>1. IsFiniteSet(S \cup {x}) /\ (S \cup {x}) \ {x} = S
    BY FS_AddElement
<1>2. QED
    BY <1>1, SumRemove

LEMMA SumAdd ==
    ASSUME NEW f, NEW g, NEW h, NEW S, IsFiniteSet(S),
           \A x \in S : f[x] \in Int /\ g[x] \in Int /\ h[x] = f[x] + g[x]
    PROVE  SumFunctionOnSet(h, S) = SumFunctionOnSet(f, S) + SumFunctionOnSet(g, S)
<1> DEFINE P == {T \in SUBSET S :
                   SumFunctionOnSet(h, T) = SumFunctionOnSet(f, T) + SumFunctionOnSet(g, T)}
<1>1. {} \in P
    BY SumEmpty
<1>2. ASSUME NEW T \in SUBSET S, T # {}, \A x \in T : T \ {x} \in P
      PROVE  T \in P
  <2> DEFINE x == CHOOSE y \in T : TRUE
  <2>1. IsFiniteSet(T) /\ IsFiniteSet(T \ {x})
    BY FS_Subset
  <2>2. /\ x \in T
        /\ SumFunctionOnSet(f, T) = f[x] + SumFunctionOnSet(f, T \ {x})
        /\ SumFunctionOnSet(g, T) = g[x] + SumFunctionOnSet(g, T \ {x})
        /\ SumFunctionOnSet(h, T) = h[x] + SumFunctionOnSet(h, T \ {x})
    BY <1>2, <2>1, SumChosen
  <2>3. SumFunctionOnSet(h, T \ {x}) = SumFunctionOnSet(f, T \ {x}) + SumFunctionOnSet(g, T \ {x})
    BY <1>2, <2>2
  <2>4. SumFunctionOnSet(f, T \ {x}) \in Int /\ SumFunctionOnSet(g, T \ {x}) \in Int
    BY <2>1, SumType
  <2> HIDE DEF x
  <2>5. SumFunctionOnSet(h, T) = SumFunctionOnSet(f, T) + SumFunctionOnSet(g, T)
    BY <2>2, <2>3, <2>4
  <2>6. QED
    BY <2>5
<1>3. P = SUBSET S
  <2>1. P \in SUBSET SUBSET S
    OBVIOUS
  <2> HIDE DEF P
  <2>2. QED
    BY <1>1, <1>2, <2>1, SubsetInduction
<1>4. QED
    BY <1>3

LEMMA SumZero ==
    ASSUME NEW f, NEW S, IsFiniteSet(S), \A x \in S : f[x] = 0
    PROVE  SumFunctionOnSet(f, S) = 0
<1> DEFINE P == {T \in SUBSET S : SumFunctionOnSet(f, T) = 0}
<1>1. {} \in P
    BY SumEmpty
<1>2. ASSUME NEW T \in SUBSET S, T # {}, \A x \in T : T \ {x} \in P
      PROVE  T \in P
  <2> DEFINE x == CHOOSE y \in T : TRUE
  <2>1. x \in T /\ SumFunctionOnSet(f, T) = f[x] + SumFunctionOnSet(f, T \ {x})
    BY <1>2, FS_Subset, SumChosen
  <2>2. SumFunctionOnSet(f, T \ {x}) = 0 /\ f[x] = 0
    BY <1>2, <2>1
  <2>3. QED
    BY <2>1, <2>2
<1>3. P = SUBSET S
  <2>1. P \in SUBSET SUBSET S
    OBVIOUS
  <2> HIDE DEF P
  <2>2. QED
    BY <1>1, <1>2, <2>1, SubsetInduction
<1>4. QED
    BY <1>3

=============================================================================
