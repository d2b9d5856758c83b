-------------------------- MODULE SchedulingProofs --------------------------
(***************************************************************************)
(* Proofs that no machine is overfilled, that accounts and the cluster     *)
(* stay within their limits, that jobs start after what they wait for,     *)
(* that the first in line keeps what it was promised, and that a gang gets *)
(* what it asked for and no machine it could do without: for every fleet,  *)
(* every set of requests and every limit.  What the code adds up in loops  *)
(* is a sum over a finite set here: the first part of the module is about  *)
(* such sums, and about folds over sequences.                              *)
(***************************************************************************)
EXTENDS Scheduling, FiniteSetTheorems, WellFoundedInduction, TLAPS

-----------------------------------------------------------------------------
(* Sums over finite sets *)

LEMMA FirstOf ==
  \* Numbers have a smallest.
  ASSUME NEW S \in SUBSET Nat, S # {}
  PROVE  \E i \in S : \A k \in S : i <= k
<1>1. PICK i \in S : \A k \in S : <<k, i>> \notin OpToRel(<, Nat)
  BY NatLessThanWellFounded, WFMin, Zenon
<1>2. \A k \in S : ~(k < i)
  BY <1>1 DEF OpToRel
<1> QED  BY <1>2

LEMMA Smallest ==
  \* Of some finite sets one has the fewest elements.
  ASSUME NEW F, F # {}, \A s \in F : IsFiniteSet(s)
  PROVE  \E s \in F : \A t \in F : Cardinality(t) \in Nat /\ Cardinality(s) \in Nat /\ Cardinality(s) <= Cardinality(t)
<1> DEFINE N == {Cardinality(s) : s \in F}
<1>1. \A s \in F : Cardinality(s) \in Nat
  BY FS_CardinalityType
<1>2. N \subseteq Nat /\ N # {}
  BY <1>1
<1>3. PICK n \in N : \A m \in N : n <= m
  <2> HIDE DEF N
  <2> QED  BY <1>2, FirstOf
<1> QED  BY <1>1, <1>3

One(s) == CHOOSE x \in s : TRUE

Total(f, S) == SumFunctionOnSet(f, S)

IsSum(g, f, S) ==
  g = [s \in SUBSET S |-> IF s = {} THEN 0 ELSE f[One(s)] + g[s \ {One(s)}]]

LEMMA Less ==
  \* One element fewer.
  ASSUME NEW s, IsFiniteSet(s), NEW x \in s
  PROVE  /\ IsFiniteSet(s \ {x}) /\ Cardinality(s \ {x}) \in Nat /\ Cardinality(s) \in Nat
         /\ Cardinality(s \ {x}) = Cardinality(s) - 1
BY FS_RemoveElement, FS_CardinalityType

LEMMA OneIn == ASSUME NEW s, s # {} PROVE One(s) \in s
BY DEF One

LEMMA SumExists ==
  \* There is a function that adds up the values over every subset of a finite set.
  ASSUME NEW S, IsFiniteSet(S), NEW f
  PROVE  \E g : IsSum(g, f, S)
<1> DEFINE Small(n) == {s \in SUBSET S : Cardinality(s) <= n}
           Value(h, s) == IF s = {} THEN 0 ELSE f[One(s)] + h[s \ {One(s)}]
           Has(n) == \E h : h = [s \in Small(n) |-> Value(h, s)]
           Bad == {n \in Nat : ~Has(n)}
<1>1. \A s \in SUBSET S : IsFiniteSet(s) /\ Cardinality(s) \in Nat /\ Cardinality(s) <= Cardinality(S)
  BY FS_Subset, FS_CardinalityType
<1>2. Has(0)
  <2>1. \A s \in Small(0) : s = {}
    BY <1>1, FS_EmptySet
  <2> DEFINE h == [s \in Small(0) |-> 0]
  <2>2. h = [s \in Small(0) |-> Value(h, s)]
    BY <2>1
  <2> QED  BY <2>2
<1>3. ASSUME NEW n \in Nat, Has(n) PROVE Has(n + 1)
  <2>1. PICK h : h = [s \in Small(n) |-> Value(h, s)]
    BY <1>3
  <2> DEFINE g == [s \in Small(n + 1) |-> Value(h, s)]
  <2>2. ASSUME NEW s \in Small(n + 1), s # {} PROVE g[s \ {One(s)}] = h[s \ {One(s)}]
    <3>1. s \ {One(s)} \in Small(n)
      BY <1>1, <2>2, Less, OneIn
    <3>2. s \ {One(s)} \in Small(n + 1)
      BY <1>1, <3>1
    <3>3. g[s \ {One(s)}] = Value(h, s \ {One(s)})
      BY <3>2
    <3>4. h[s \ {One(s)}] = Value(h, s \ {One(s)})
      <4> HIDE DEF Value, Small
      <4> QED  BY <2>1, <3>1
    <3> QED  BY <3>3, <3>4
  <2>3. \A s \in Small(n + 1) : Value(g, s) = Value(h, s)
    <3> HIDE DEF g, Small
    <3> QED  BY <2>2
  <2>4. g = [s \in Small(n + 1) |-> Value(g, s)]
    <3> HIDE DEF Value, Small
    <3> QED  BY <2>3
  <2> QED  BY <2>4
<1>4. Bad = {}
  <2> SUFFICES ASSUME Bad # {} PROVE FALSE
    OBVIOUS
  <2> HIDE DEF Has
  <2>1. Bad \in SUBSET Nat
    OBVIOUS
  <2>2. PICK n \in Bad : \A m \in Bad : n <= m
    <3> HIDE DEF Bad
    <3> QED  BY <2>1, FirstOf
  <2>3. n \in Nat /\ n # 0
    BY <1>2
  <2>4. n - 1 \in Nat /\ Has(n - 1)
    BY <2>2, <2>3
  <2> QED  BY <1>3, <2>3, <2>4
<1>5. Has(Cardinality(S))
  <2>1. Cardinality(S) \in Nat
    BY FS_CardinalityType
  <2> HIDE DEF Has
  <2> QED  BY <1>4, <2>1
<1>6. Small(Cardinality(S)) = SUBSET S
  BY <1>1
<1> QED  BY <1>5, <1>6 DEF IsSum

LEMMA TotalIs ==
  \* What the community modules compute.
  ASSUME NEW S, IsFiniteSet(S), NEW f
  PROVE  \E g : IsSum(g, f, S) /\ Total(f, S) = g[S]
<1> DEFINE iter == CHOOSE g : g = [s \in SUBSET S |->
                     IF s = {} THEN 0 ELSE f[CHOOSE x \in s : TRUE] + g[s \ {CHOOSE x \in s : TRUE}]]
<1>1. Total(f, S) = iter[S]
  BY DEF Total, SumFunctionOnSet, FoldFunctionOnSet, MapThenFoldSet
<1>2. \E g : g = [s \in SUBSET S |->
          IF s = {} THEN 0 ELSE f[CHOOSE x \in s : TRUE] + g[s \ {CHOOSE x \in s : TRUE}]]
  <2>1. PICK g : IsSum(g, f, S)
    BY SumExists
  <2> QED  BY <2>1 DEF IsSum, One
<1>3. IsSum(iter, f, S)
  BY <1>2 DEF IsSum, One
<1> QED  BY <1>1, <1>3

LEMMA TotalSteps ==
  \* Nothing adds up to nothing, and any of the other sums is a value more than another.
  ASSUME NEW S, IsFiniteSet(S), NEW f
  PROVE  /\ S = {} => Total(f, S) = 0
         /\ S # {} => Total(f, S) = f[One(S)] + Total(f, S \ {One(S)})
<1>1. PICK g : IsSum(g, f, S) /\ Total(f, S) = g[S]
  BY TotalIs
<1>2. \A s \in SUBSET S : g[s] = IF s = {} THEN 0 ELSE f[One(s)] + g[s \ {One(s)}]
  BY <1>1 DEF IsSum
<1>3. ASSUME S # {} PROVE Total(f, S \ {One(S)}) = g[S \ {One(S)}]
  <2> DEFINE T == S \ {One(S)}
  <2>1. IsFiniteSet(T) /\ T \subseteq S
    BY <1>3, OneIn, Less
  <2>2. PICK h : IsSum(h, f, T) /\ Total(f, T) = h[T]
    BY <2>1, TotalIs
  <2>3. \A s \in SUBSET T : h[s] = IF s = {} THEN 0 ELSE f[One(s)] + h[s \ {One(s)}]
    BY <2>2 DEF IsSum
  <2> HIDE DEF T
  <2> DEFINE Bad == {s \in SUBSET T : g[s] # h[s]}
  <2>4. Bad = {}
    <3> SUFFICES ASSUME Bad # {} PROVE FALSE
      OBVIOUS
    <3>1. \A s \in Bad : IsFiniteSet(s)
      BY <2>1, FS_Subset
    <3>2. PICK s \in Bad : \A t \in Bad : /\ Cardinality(t) \in Nat /\ Cardinality(s) \in Nat
                                         /\ Cardinality(s) <= Cardinality(t)
      <4> HIDE DEF Bad
      <4> QED  BY <3>1, Smallest
    <3>3. s # {}
      BY <1>2, <2>1, <2>3
    <3>4. s \ {One(s)} \notin Bad
      BY <3>1, <3>2, <3>3, OneIn, Less
    <3>5. g[s \ {One(s)}] = h[s \ {One(s)}]
      BY <3>4
    <3> QED  BY <1>2, <2>1, <2>3, <3>3, <3>5
  <2> QED  BY <2>2, <2>4 DEF T
<1> QED  BY <1>1, <1>2, <1>3

LEMMA TotalAgrees ==
  \* A sum depends on what is summed only.
  ASSUME NEW S, IsFiniteSet(S), NEW f, NEW h, \A s \in S : f[s] = h[s]
  PROVE  Total(f, S) = Total(h, S)
<1> DEFINE Bad == {s \in SUBSET S : Total(f, s) # Total(h, s)}
<1>1. \A s \in Bad : IsFiniteSet(s)
  BY FS_Subset
<1>2. SUFFICES ASSUME Bad # {} PROVE FALSE
  OBVIOUS
<1>3. PICK s \in Bad : \A t \in Bad : /\ Cardinality(t) \in Nat /\ Cardinality(s) \in Nat
                                     /\ Cardinality(s) <= Cardinality(t)
  <2> HIDE DEF Bad
  <2> QED  BY <1>1, <1>2, Smallest
<1>4. s # {}
  BY <1>1, TotalSteps
<1>5. s \ {One(s)} \notin Bad
  BY <1>1, <1>3, <1>4, OneIn, Less
<1>6. Total(f, s \ {One(s)}) = Total(h, s \ {One(s)}) /\ f[One(s)] = h[One(s)]
  BY <1>4, <1>5, OneIn
<1> QED  BY <1>1, <1>4, <1>6, TotalSteps

LEMMA TotalTyped ==
  \* Integers add up to an integer, numbers that are not negative to one that is not.
  ASSUME NEW S, IsFiniteSet(S), NEW f, \A s \in S : f[s] \in Int
  PROVE  /\ Total(f, S) \in Int
         /\ (\A s \in S : f[s] \in Nat) => Total(f, S) \in Nat
<1> DEFINE Good(s) == Total(f, s) \in Int /\ ((\A x \in s : f[x] \in Nat) => Total(f, s) \in Nat)
           Bad == {s \in SUBSET S : ~Good(s)}
<1>1. \A s \in Bad : IsFiniteSet(s)
  BY FS_Subset
<1>2. SUFFICES ASSUME Bad # {} PROVE FALSE
  OBVIOUS
<1>3. PICK s \in Bad : \A t \in Bad : /\ Cardinality(t) \in Nat /\ Cardinality(s) \in Nat
                                     /\ Cardinality(s) <= Cardinality(t)
  <2> HIDE DEF Bad
  <2> QED  BY <1>1, <1>2, Smallest
<1>4. s # {}
  BY <1>1, TotalSteps
<1>5. s \ {One(s)} \notin Bad
  BY <1>1, <1>3, <1>4, OneIn, Less
<1>6. Good(s \ {One(s)}) /\ One(s) \in s /\ One(s) \in S
  BY <1>4, <1>5, OneIn
<1>7. Total(f, s) = f[One(s)] + Total(f, s \ {One(s)})
  BY <1>1, <1>4, TotalSteps
<1>8. Good(s)
  BY <1>6, <1>7
<1> QED  BY <1>8

LEMMA TotalOf ==
  \* It does not matter in which order is added.
  ASSUME NEW S, IsFiniteSet(S), NEW f, \A s \in S : f[s] \in Int, NEW x \in S
  PROVE  Total(f, S) = f[x] + Total(f, S \ {x})
<1> DEFINE Good(s) == \A y \in s : Total(f, s) = f[y] + Total(f, s \ {y})
           Bad == {s \in SUBSET S : ~Good(s)}
<1>1. \A s \in SUBSET S : IsFiniteSet(s) /\ Total(f, s) \in Int
  BY FS_Subset, TotalTyped
<1>2. SUFFICES ASSUME Bad # {} PROVE FALSE
  OBVIOUS
<1>3. PICK s \in Bad : \A t \in Bad : /\ Cardinality(t) \in Nat /\ Cardinality(s) \in Nat
                                     /\ Cardinality(s) <= Cardinality(t)
  <2>1. \A t \in Bad : IsFiniteSet(t)
    BY <1>1
  <2> HIDE DEF Bad
  <2> QED  BY <2>1, <1>2, Smallest
<1>4. PICK y \in s : Total(f, s) # f[y] + Total(f, s \ {y})
  OBVIOUS
<1>5. ASSUME NEW z \in s PROVE Good(s \ {z}) /\ s \ {z} \in SUBSET S
  <2> s \in SUBSET S
    OBVIOUS
  <2>1. Cardinality(s \ {z}) < Cardinality(s) /\ s \ {z} \in SUBSET S
    <3> HIDE DEF Good, Bad
    <3>1. IsFiniteSet(s)
      BY <1>1
    <3>2. Cardinality(s \ {z}) \in Nat /\ Cardinality(s) \in Nat /\ Cardinality(s \ {z}) = Cardinality(s) - 1
      BY <3>1, Less
    <3> QED  BY <3>2
  <2> HIDE DEF Good
  <2> QED  BY <1>1, <1>3, <2>1
<1>6. \A z \in s : Good(s \ {z}) /\ Total(f, s \ {z}) \in Int
  BY <1>1, <1>5
<1> DEFINE a == One(s)
<1>7. a \in s /\ Total(f, s) = f[a] + Total(f, s \ {a})
  BY <1>1, OneIn, TotalSteps
<1> HIDE DEF a
<1>8. a # y
  BY <1>4, <1>7
<1>9. Total(f, s \ {a}) = f[y] + Total(f, (s \ {a}) \ {y})
  BY <1>6, <1>7, <1>8
<1>10. Total(f, s \ {y}) = f[a] + Total(f, (s \ {y}) \ {a})
  BY <1>6, <1>7, <1>8
<1>11. (s \ {a}) \ {y} = (s \ {y}) \ {a}
  OBVIOUS
<1>12. PICK rest \in Int : rest = Total(f, (s \ {a}) \ {y}) /\ rest = Total(f, (s \ {y}) \ {a})
  BY <1>1, <1>11
<1>13. f[a] \in Int /\ f[y] \in Int
  BY <1>7
<1>14. Total(f, s) = f[y] + Total(f, s \ {y})
  <2> HIDE DEF Bad, Good
  <2> QED  BY <1>7, <1>9, <1>10, <1>12, <1>13
<1> QED  BY <1>4, <1>14

LEMMA TotalGrows ==
  \* Part of it is no more than all of it.
  ASSUME NEW S, IsFiniteSet(S), NEW f, \A s \in S : f[s] \in Nat, NEW T \in SUBSET S
  PROVE  Total(f, T) <= Total(f, S)
<1> DEFINE Bad == {s \in SUBSET S : T \subseteq s /\ ~(Total(f, T) <= Total(f, s))}
<1>1. \A s \in SUBSET S : IsFiniteSet(s) /\ Total(f, s) \in Nat
  BY FS_Subset, TotalTyped
<1>2. SUFFICES ASSUME Bad # {} PROVE FALSE
  OBVIOUS
<1>3. PICK s \in Bad : \A t \in Bad : /\ Cardinality(t) \in Nat /\ Cardinality(s) \in Nat
                                     /\ Cardinality(s) <= Cardinality(t)
  <2>1. \A t \in Bad : IsFiniteSet(t)
    BY <1>1
  <2> HIDE DEF Bad
  <2> QED  BY <2>1, <1>2, Smallest
<1>4. PICK x \in s : x \notin T
  BY <1>1
<1>5. s \ {x} \notin Bad /\ s \ {x} \in SUBSET S /\ T \subseteq s \ {x}
  BY <1>1, <1>3, <1>4, Less
<1>6. Total(f, T) <= Total(f, s \ {x})
  BY <1>5
<1>7. Total(f, s) = f[x] + Total(f, s \ {x})
  BY <1>1, <1>4, TotalOf
<1> QED  BY <1>1, <1>5, <1>6, <1>7

-----------------------------------------------------------------------------
(* ... as the specification writes them *)

LEMMA SumTyped ==
  \* The sum of a function with a finite domain.
  ASSUME NEW S, IsFiniteSet(S)
  PROVE  /\ \A f \in [S -> Int] : SumFunction(f) \in Int
         /\ \A f \in [S -> Nat] : SumFunction(f) \in Nat
         /\ S = {} => \A f \in [S -> Int] : SumFunction(f) = 0
BY TotalTyped, TotalSteps DEF SumFunction, Total

LEMMA SumGrows ==
  \* Fewer of the same values add up to no more.
  ASSUME NEW T, IsFiniteSet(T), NEW S \in SUBSET T, NEW f \in [S -> Nat], NEW g \in [T -> Nat],
         \A s \in S : f[s] = g[s]
  PROVE  SumFunction(f) <= SumFunction(g)
<1>1. Total(g, S) <= Total(g, T)
  BY TotalGrows
<1>2. IsFiniteSet(S)
  BY FS_Subset
<1>3. Total(f, S) = Total(g, S)
  BY <1>2, TotalAgrees
<1> QED  BY <1>1, <1>3 DEF SumFunction, Total

LEMMA SumAdds ==
  \* One more value.
  ASSUME NEW S, IsFiniteSet(S), NEW x, x \notin S
  PROVE  \A f \in [S -> Int] : \A g \in [S \cup {x} -> Int] :
           (\A s \in S : f[s] = g[s]) => SumFunction(g) = SumFunction(f) + g[x]
<1> SUFFICES ASSUME NEW f \in [S -> Int], NEW g \in [S \cup {x} -> Int], \A s \in S : f[s] = g[s]
             PROVE  SumFunction(g) = SumFunction(f) + g[x]
  OBVIOUS
<1>1. IsFiniteSet(S \cup {x}) /\ x \in S \cup {x} /\ (S \cup {x}) \ {x} = S
  BY FS_AddElement
<1>2. Total(g, S \cup {x}) = g[x] + Total(g, S)
  BY <1>1, TotalOf
<1>3. Total(f, S) = Total(g, S) /\ Total(f, S) \in Int /\ g[x] \in Int
  BY TotalAgrees, TotalTyped
<1> QED  BY <1>2, <1>3 DEF SumFunction, Total

-----------------------------------------------------------------------------
(* Folds over sequences *)

LEMMA GreatestIn ==
  \* The greatest of some positions is one of them.
  ASSUME NEW N \in Nat, NEW s \in SUBSET (1..N), s # {}
  PROVE  Max(s) \in s
<1> DEFINE D == {m \in Nat : N - m \in s}
<1>1. \A k \in s : k \in Nat /\ N - k \in Nat /\ N - (N - k) = k
  OBVIOUS
<1>2. D \in SUBSET Nat /\ D # {}
  BY <1>1
<1>3. PICK d \in D : \A e \in D : d <= e
  BY <1>2, FirstOf
<1>4. N - d \in s /\ \A k \in s : N - d >= k
  <2>1. \A k \in s : d <= N - k
    BY <1>1, <1>3
  <2> QED  BY <1>1, <1>3, <2>1
<1> QED  BY <1>4 DEF Max

LEMMA FoldTyped ==
  \* What every step of a fold keeps, the result has.
  ASSUME NEW N \in Nat, NEW A, NEW it, it[{}] \in A,
         \A s \in SUBSET (1..N) : s # {} /\ it[s \ {Max(s)}] \in A => it[s] \in A
  PROVE  \A s \in SUBSET (1..N) : it[s] \in A
<1> DEFINE Bad == {s \in SUBSET (1..N) : it[s] \notin A}
<1>1. \A s \in Bad : IsFiniteSet(s)
  <2>1. IsFiniteSet(1..N)
    BY FS_Interval
  <2> QED  BY <2>1, FS_Subset
<1>2. SUFFICES ASSUME Bad # {} PROVE FALSE
  OBVIOUS
<1>3. PICK s \in Bad : \A t \in Bad : /\ Cardinality(t) \in Nat /\ Cardinality(s) \in Nat
                                     /\ Cardinality(s) <= Cardinality(t)
  <2> HIDE DEF Bad
  <2> QED  BY <1>1, <1>2, Smallest
<1>4. s # {}
  OBVIOUS
<1>5. s \ {Max(s)} \notin Bad
  <2>1. Max(s) \in s /\ IsFiniteSet(s)
    BY <1>1, <1>4, GreatestIn
  <2>2. Cardinality(s \ {Max(s)}) \in Nat /\ Cardinality(s) \in Nat /\ Cardinality(s \ {Max(s)}) = Cardinality(s) - 1
    BY <2>1, Less
  <2> HIDE DEF Bad
  <2> QED  BY <1>3, <2>2
<1> QED  BY <1>4, <1>5

LEMMA Positions ==
  \* The positions up to one of them, and those before it.
  ASSUME NEW N \in Nat, NEW j \in 1..N
  PROVE  /\ 1..j \in SUBSET (1..N) /\ 1..j # {} /\ Max(1..j) = j /\ (1..j) \ {j} = 1..(j - 1)
         /\ j - 1 \in 0..N
<1>1. 1..j \in SUBSET (1..N) /\ 1..j # {} /\ j \in Nat
  OBVIOUS
<1>2. Max(1..j) \in 1..j /\ \A k \in 1..j : Max(1..j) >= k
  <2>1. j \in 1..j /\ \A k \in 1..j : j >= k
    OBVIOUS
  <2> QED  BY <2>1 DEF Max
<1>3. Max(1..j) = j
  BY <1>1, <1>2
<1> QED  BY <1>1, <1>3

LEMMA OneByOne ==
  \* What holds at first and is kept at every position holds at all of them.
  ASSUME NEW N \in Nat, NEW B, 0 \in B, \A j \in 1..N : j - 1 \in B => j \in B
  PROVE  \A j \in 0..N : j \in B
<1> DEFINE Bad == {j \in 0..N : j \notin B}
<1>1. SUFFICES ASSUME Bad # {} PROVE FALSE
  OBVIOUS
<1>2. Bad \in SUBSET Nat
  OBVIOUS
<1>3. PICK j \in Bad : \A k \in Bad : j <= k
  <2> HIDE DEF Bad
  <2> QED  BY <1>1, <1>2, FirstOf
<1>4. j \in 1..N /\ j - 1 \in 0..N
  OBVIOUS
<1>5. j - 1 \notin Bad
  <2> HIDE DEF Bad
  <2> QED  BY <1>3, <1>4
<1> QED  BY <1>4, <1>5

\* How a fold of op over the positions 1..N goes, values staying in A.
Folding(g, N, A, base, op) ==
  /\ g[{}] = base
  /\ \A s \in SUBSET (1..N) : g[s] \in A
  /\ \A s \in SUBSET (1..N) : s # {} => g[s] = op[<<g[s \ {Max(s)}], Max(s)>>]

LEMMA FoldExists ==
  \* There is a function that is computed as a fold computes it, and it has its type.
  ASSUME NEW N \in Nat, NEW A, NEW base \in A, NEW op \in [A \X (1..N) -> A]
  PROVE  \E g : Folding(g, N, A, base, op)
<1> DEFINE S == 1..N
           Small(n) == {s \in SUBSET S : Cardinality(s) <= n}
           Value(h, s) == IF s = {} THEN base ELSE op[<<h[s \ {Max(s)}], Max(s)>>]
           Has(n) == \E h : h = [s \in Small(n) |-> Value(h, s)]
           Bad == {n \in Nat : ~Has(n)}
<1>1. /\ IsFiniteSet(S)
      /\ \A s \in SUBSET S : IsFiniteSet(s) /\ Cardinality(s) \in Nat /\ Cardinality(s) <= Cardinality(S)
  <2>1. IsFiniteSet(S)
    BY FS_Interval
  <2> HIDE DEF S
  <2> QED  BY <2>1, FS_Subset, FS_CardinalityType
<1>2. Has(0)
  <2>1. \A s \in Small(0) : s = {}
    BY <1>1, FS_EmptySet
  <2> DEFINE h == [s \in Small(0) |-> base]
  <2>2. h = [s \in Small(0) |-> Value(h, s)]
    BY <2>1
  <2> QED  BY <2>2
<1>3. ASSUME NEW n \in Nat, Has(n) PROVE Has(n + 1)
  <2>1. PICK h : h = [s \in Small(n) |-> Value(h, s)]
    BY <1>3
  <2> DEFINE g == [s \in Small(n + 1) |-> Value(h, s)]
  <2>2. ASSUME NEW s \in Small(n + 1), s # {} PROVE g[s \ {Max(s)}] = h[s \ {Max(s)}]
    <3>1. s \ {Max(s)} \in Small(n)
      <4>1. Max(s) \in s /\ IsFiniteSet(s)
        BY <1>1, <2>2, GreatestIn
      <4>2. Cardinality(s \ {Max(s)}) \in Nat /\ Cardinality(s \ {Max(s)}) = Cardinality(s) - 1
        BY <4>1, Less
      <4>3. s \in SUBSET S /\ Cardinality(s) <= n + 1 /\ Cardinality(s) \in Nat
        BY <1>1, <2>2
      <4>4. Cardinality(s \ {Max(s)}) <= n /\ s \ {Max(s)} \in SUBSET S
        <5> HIDE DEF S
        <5> QED  BY <1>3, <4>2, <4>3
      <4> QED  BY <4>4
    <3>2. s \ {Max(s)} \in Small(n + 1)
      BY <1>1, <3>1
    <3>3. g[s \ {Max(s)}] = Value(h, s \ {Max(s)})
      BY <3>2
    <3>4. h[s \ {Max(s)}] = Value(h, s \ {Max(s)})
      <4> HIDE DEF Value, Small
      <4> QED  BY <2>1, <3>1
    <3> QED  BY <3>3, <3>4
  <2>3. \A s \in Small(n + 1) : Value(g, s) = Value(h, s)
    <3> HIDE DEF g, Small
    <3> QED  BY <2>2
  <2>4. g = [s \in Small(n + 1) |-> Value(g, s)]
    <3> HIDE DEF Value, Small
    <3> QED  BY <2>3
  <2> QED  BY <2>4
<1>4. Bad = {}
  <2> SUFFICES ASSUME Bad # {} PROVE FALSE
    OBVIOUS
  <2> HIDE DEF Has
  <2>1. Bad \in SUBSET Nat
    OBVIOUS
  <2>2. PICK n \in Bad : \A m \in Bad : n <= m
    <3> HIDE DEF Bad
    <3> QED  BY <2>1, FirstOf
  <2>3. n \in Nat /\ n # 0
    BY <1>2
  <2>4. n - 1 \in Nat /\ Has(n - 1)
    BY <2>2, <2>3
  <2> QED  BY <1>3, <2>3, <2>4
<1>5. Has(Cardinality(S))
  <2>1. Cardinality(S) \in Nat
    BY <1>1
  <2> HIDE DEF Has, S
  <2> QED  BY <1>4, <2>1
<1>6. Small(Cardinality(S)) = SUBSET S
  BY <1>1
<1>7. PICK g : g = [s \in SUBSET S |-> Value(g, s)]
  <2> HIDE DEF Value, Small, S
  <2> QED  BY <1>5, <1>6
<1>8. g[{}] = base
  BY <1>7
<1>9. \A s \in SUBSET S : s # {} => g[s] = op[<<g[s \ {Max(s)}], Max(s)>>]
  BY <1>7
<1>10. \A s \in SUBSET S : s # {} => Max(s) \in 1..N
  BY GreatestIn
<1>11. \A s \in SUBSET S : s # {} /\ g[s \ {Max(s)}] \in A => g[s] \in A
  BY <1>9, <1>10
<1>12. \A s \in SUBSET S : g[s] \in A
  BY <1>8, <1>11, FoldTyped
<1> QED  BY <1>8, <1>9, <1>12 DEF Folding

-----------------------------------------------------------------------------
(* The inductive invariant *)

Rows ==
  [spec: Requests, state: JobStates, at: SUBSET Fleet,
   shares: UNION {[s -> Vectors] : s \in SUBSET Fleet}, since: Nat]
Usages == [jobs: Nat, want: Amounts]
Passes ==
  [step: Steps, todo: SUBSET Nat, kept: SUBSET Nat, used: [Fleet -> Vectors], up: SUBSET Fleet,
   mine: SUBSET [user: Users, usage: Usages], all: Usages, live: SUBSET Nat, agreed: BOOLEAN,
   held: [Fleet -> Nat \cup {-1}], first: Nat, starts: SUBSET (Nat \X Fleet), blocked: BOOLEAN]

SchedTyped ==
  /\ jobs \in Seq(Rows) /\ pass \in Passes
  /\ now \in Nat /\ up \in SUBSET Fleet /\ flips \in Nat /\ backfill \in BOOLEAN
  /\ promise \in [id: Nat, node: Fleet, at: Nat]

\* What a pass has in its hands are jobs that wait, each of them once.
Going == {d[1] : d \in pass.starts}
InHand == pass.todo \cup pass.kept \cup Going

HandInv ==
  /\ pass.step = "idle" => pass = Idle
  /\ InHand \subseteq Queue
  /\ pass.todo \cap pass.kept = {} /\ (pass.todo \cup pass.kept) \cap Going = {}
  /\ \A d, e \in pass.starts : d[1] = e[1] => d = e
  /\ pass.step # "plan" => pass.starts = {}
  /\ pass.step = "deps" => pass.mine = {}
  /\ pass.live \subseteq DOMAIN jobs

\* The single-node jobs a machine has or is about to get, and what they occupy there.
Busy(n) == {i \in DOMAIN jobs : (i \in On(n) /\ ~Aggregated(jobs[i].spec)) \/ <<i, n>> \in pass.starts}
Load(js, ids, k) == SumFunction([i \in ids |-> Charge(js[i].spec)[k]])

RoomInv ==
  \A n \in Fleet, k \in Kinds :
    /\ Load(jobs, Busy(n), k) <= Cap[n][k]
    /\ pass.step # "idle" => Load(jobs, Busy(n), k) <= pass.used[n][k]

\* Jobs that count as running: those that do, and those that this pass lets through.
Counted ==
  Running \cup (CASE pass.step \in {"idle", "deps"} -> {}
                  [] pass.step = "qos" -> pass.kept
                  [] OTHER -> InHand)
UsageIn(js, ids) ==
  [jobs |-> Cardinality(ids), want |-> [k \in Kinds |-> SumFunction([i \in ids |-> js[i].spec.want[k]])]]
By(js, ids, u) == {i \in ids : js[i].spec.user = u}
Within(js, ids) ==
  /\ \A u \in Users : ~OverLimit(UsageIn(js, By(js, ids, u)), Effective(u))
  /\ ~OverLimit(UsageIn(js, ids), Cluster)
Covers(a, b) == b.jobs <= a.jobs /\ \A k \in Kinds : b.want[k] <= a.want[k]

LimitsInv ==
  /\ Within(jobs, Counted)
  /\ pass.step = "qos" =>
       /\ Covers(pass.all, UsageIn(jobs, Counted))
       /\ \A m \in pass.mine : Covers(m.usage, UsageIn(jobs, By(jobs, Counted, m.user)))
       /\ \A i \in pass.kept : \E m \in pass.mine : m.user = jobs[i].spec.user

\* The jobs whose dependencies were looked at.
Looked ==
  CASE pass.step = "idle" -> {}
    [] pass.step = "deps" -> pass.kept
    [] OTHER -> InHand

DependenciesInv == \A i \in Looked : \A d \in jobs[i].spec.deps : Met(d, i)

SchedInv == SchedTyped /\ HandInv /\ RoomInv /\ LimitsInv /\ DependenciesInv

-----------------------------------------------------------------------------
(* The constants *)

LEMMA FleetFinite == IsFiniteSet(Fleet)
<1>1. NodeOrder \in Seq(Fleet)
  BY PlannerAssumption
<1>2. IsFiniteSet(DOMAIN NodeOrder) /\ DOMAIN NodeOrder = 1..Len(NodeOrder)
  BY <1>1, FS_Interval
<1> DEFINE f == [i \in DOMAIN NodeOrder |-> NodeOrder[i]]
<1>3. f \in [DOMAIN NodeOrder -> Fleet] /\ \A n \in Fleet : \E i \in DOMAIN NodeOrder : f[i] = n
  BY <1>1 DEF Fleet
<1>4. f \in Surjection(DOMAIN NodeOrder, Fleet)
  BY <1>3 DEF Surjection
<1> QED  BY <1>2, <1>4, FS_Surjection

LEMMA FirstNode == Head(NodeOrder) \in Fleet
BY PlannerAssumption DEF Fleet

LEMMA LimitsTyped == Cluster \in Limits /\ \A u \in Users : Effective(u) \in Limits
<1>1. \A a, b \in Int : Pick(a, b) \in Int
  BY DEF Pick, Unset
<1>2. \A a, b \in Limits : Layered(a, b) \in Limits
  BY <1>1 DEF Layered, Limits, Vectors
<1>3. NoLimits \in Limits
  BY DEF NoLimits, Limits, Vectors, Unset
<1> QED  BY <1>2, <1>3, SchedulingAssumption DEF Cluster, Effective

LEMMA SpecsTyped ==
  \* What is recorded of what was asked for.
  ASSUME NEW spec \in Specs
  PROVE  ApplyQoS(spec) \in Requests /\ ApplyQoS(spec).user = spec.user
<1>1. spec \in Requests /\ spec.user \in Users
  BY SchedulingAssumption DEF Requests
<1>2. Effective(spec.user).wall \in Int
  BY <1>1, LimitsTyped DEF Limits
<1>3. CASE spec.wall = 0 /\ Effective(spec.user).wall > 0
  <2>1. Effective(spec.user).wall \in Nat
    BY <1>2, <1>3
  <2> QED  BY <1>1, <1>3, <2>1 DEF ApplyQoS, Requests
<1>4. CASE ~(spec.wall = 0 /\ Effective(spec.user).wall > 0)
  BY <1>1, <1>4 DEF ApplyQoS
<1> QED  BY <1>3, <1>4

LEMMA ChargeTyped == ASSUME NEW spec \in Requests PROVE Charge(spec) \in Amounts
<1>1. spec.want \in [Kinds -> Nat] /\ "cpu" \in Kinds
  BY PlannerAssumption DEF Requests, Amounts
<1> QED  BY <1>1 DEF Charge, Amounts

LEMMA CapTyped == \A n \in Fleet, k \in Kinds : Cap[n][k] \in Nat
BY PlannerAssumption DEF Amounts

LEMMA NothingShared == <<>> \in UNION {[s -> Vectors] : s \in SUBSET Fleet}
<1>1. <<>> = [n \in {} |-> Zero]
  OBVIOUS
<1>2. <<>> \in [{} -> Vectors]
  BY <1>1
<1> QED  BY <1>2

-----------------------------------------------------------------------------
(* Sums over jobs *)

LEMMA LoadTyped ==
  \* What some jobs occupy of a resource is a number.
  ASSUME NEW js, NEW ids, IsFiniteSet(ids), \A i \in ids : js[i].spec \in Requests, NEW k \in Kinds
  PROVE  Load(js, ids, k) \in Nat
<1>1. [i \in ids |-> Charge(js[i].spec)[k]] \in [ids -> Nat]
  BY ChargeTyped DEF Amounts
<1> QED  BY <1>1, SumTyped DEF Load

LEMMA LoadShrinks ==
  \* Fewer of the same jobs.
  ASSUME NEW js, NEW ks, NEW ids, IsFiniteSet(ids), NEW some \in SUBSET ids,
         \A i \in ids : js[i].spec \in Requests, \A i \in some : ks[i].spec = js[i].spec, NEW k \in Kinds
  PROVE  Load(ks, some, k) <= Load(js, ids, k)
<1>1. [i \in ids |-> Charge(js[i].spec)[k]] \in [ids -> Nat]
  BY ChargeTyped DEF Amounts
<1>2. [i \in some |-> Charge(ks[i].spec)[k]] \in [some -> Nat]
  BY ChargeTyped DEF Amounts
<1>3. \A i \in some : [i_1 \in some |-> Charge(ks[i_1].spec)[k]][i] = [i_1 \in ids |-> Charge(js[i_1].spec)[k]][i]
  OBVIOUS
<1> QED  BY <1>1, <1>2, <1>3, SumGrows DEF Load

LEMMA LoadAdds ==
  \* One job more.
  ASSUME NEW js, NEW ids, IsFiniteSet(ids), NEW i, i \notin ids,
         \A j \in ids \cup {i} : js[j].spec \in Requests, NEW k \in Kinds
  PROVE  Load(js, ids \cup {i}, k) = Load(js, ids, k) + Charge(js[i].spec)[k]
<1> DEFINE f == [j \in ids |-> Charge(js[j].spec)[k]]
           g == [j \in ids \cup {i} |-> Charge(js[j].spec)[k]]
<1>1. f \in [ids -> Int] /\ g \in [ids \cup {i} -> Int] /\ g[i] = Charge(js[i].spec)[k]
  BY ChargeTyped DEF Amounts
<1>2. \A j \in ids : f[j] = g[j]
  OBVIOUS
<1>3. SumFunction(g) = SumFunction(f) + g[i]
  <2> HIDE DEF f, g
  <2>1. f \in [ids -> Int] /\ g \in [ids \cup {i} -> Int]
    BY <1>1
  <2>2. \A a \in [ids -> Int] : \A b \in [ids \cup {i} -> Int] :
          (\A s \in ids : a[s] = b[s]) => SumFunction(b) = SumFunction(a) + b[i]
    BY SumAdds
  <2> QED  BY <1>2, <2>1, <2>2
<1> QED  BY <1>1, <1>3 DEF Load

LEMMA UsageTyped ==
  \* What some jobs use together, as a number of jobs and an amount.
  ASSUME NEW js, NEW ids, IsFiniteSet(ids), \A i \in ids : js[i].spec \in Requests
  PROVE  UsageIn(js, ids) \in Usages
<1>1. \A k \in Kinds : [i \in ids |-> js[i].spec.want[k]] \in [ids -> Nat]
  BY DEF Requests, Amounts
<1>2. \A k \in Kinds : SumFunction([i \in ids |-> js[i].spec.want[k]]) \in Nat
  BY <1>1, SumTyped
<1>3. Cardinality(ids) \in Nat
  BY FS_CardinalityType
<1> QED  BY <1>2, <1>3 DEF UsageIn, Usages, Amounts

LEMMA UsageShrinks ==
  \* Fewer of the same jobs use no more.
  ASSUME NEW js, NEW ks, NEW ids, IsFiniteSet(ids), NEW some \in SUBSET ids,
         \A i \in ids : js[i].spec \in Requests, \A i \in some : ks[i].spec = js[i].spec
  PROVE  Covers(UsageIn(js, ids), UsageIn(ks, some))
<1>1. Cardinality(some) <= Cardinality(ids)
  BY FS_Subset
<1>2. ASSUME NEW k \in Kinds
      PROVE  SumFunction([i \in some |-> ks[i].spec.want[k]]) <= SumFunction([i \in ids |-> js[i].spec.want[k]])
  <2> DEFINE f == [i \in some |-> ks[i].spec.want[k]]
             g == [i \in ids |-> js[i].spec.want[k]]
  <2>1. f \in [some -> Nat] /\ g \in [ids -> Nat]
    BY DEF Requests, Amounts
  <2>2. \A i \in some : f[i] = g[i]
    OBVIOUS
  <2> HIDE DEF f, g
  <2> QED  BY <2>1, <2>2, SumGrows DEF f, g
<1> QED  BY <1>1, <1>2 DEF Covers, UsageIn

LEMMA UsageAdds ==
  \* One job more is counted like one that is admitted.
  ASSUME NEW js, NEW ids, IsFiniteSet(ids), NEW i, i \notin ids,
         \A j \in ids \cup {i} : js[j].spec \in Requests
  PROVE  UsageIn(js, ids \cup {i}) = Adding(UsageIn(js, ids), js[i].spec)
<1>1. Cardinality(ids \cup {i}) = Cardinality(ids) + 1
  BY FS_AddElement
<1>2. ASSUME NEW k \in Kinds
      PROVE  SumFunction([j \in ids \cup {i} |-> js[j].spec.want[k]])
               = SumFunction([j \in ids |-> js[j].spec.want[k]]) + js[i].spec.want[k]
  <2> DEFINE f == [j \in ids |-> js[j].spec.want[k]]
             g == [j \in ids \cup {i} |-> js[j].spec.want[k]]
  <2>1. f \in [ids -> Int] /\ g \in [ids \cup {i} -> Int] /\ g[i] = js[i].spec.want[k]
    BY DEF Requests, Amounts
  <2>2. \A j \in ids : f[j] = g[j]
    OBVIOUS
  <2>3. SumFunction(g) = SumFunction(f) + g[i]
    <3> HIDE DEF f, g
    <3>1. f \in [ids -> Int] /\ g \in [ids \cup {i} -> Int]
      BY <2>1
    <3>2. \A a \in [ids -> Int] : \A b \in [ids \cup {i} -> Int] :
          (\A s \in ids : a[s] = b[s]) => SumFunction(b) = SumFunction(a) + b[i]
      BY SumAdds
    <3> QED  BY <2>2, <3>1, <3>2
  <2> QED  BY <2>1, <2>3
<1> QED  BY <1>1, <1>2 DEF UsageIn, Adding, Plus

LEMMA CoveredIsWithin ==
  \* What is covered by something within the limits is within them.
  ASSUME NEW a \in Usages, NEW b \in Usages, NEW limits \in Limits, Covers(a, b), ~OverLimit(a, limits)
  PROVE  ~OverLimit(b, limits)
BY DEF Usages, Amounts, Limits, Vectors, Covers, OverLimit, Exceeds

LEMMA AddingCovers ==
  \* A job is added on both sides.
  ASSUME NEW a \in Usages, NEW b \in Usages, Covers(a, b), NEW spec \in Requests
  PROVE  /\ Adding(a, spec) \in Usages /\ Adding(b, spec) \in Usages
         /\ Covers(Adding(a, spec), Adding(b, spec)) /\ Covers(Adding(a, spec), b)
BY DEF Usages, Amounts, Requests, Covers, Adding, Plus

LEMMA CoversOnce ==
  \* To cover is transitive.
  ASSUME NEW a \in Usages, NEW b \in Usages, NEW c \in Usages, Covers(a, b), Covers(b, c)
  PROVE  Covers(a, c)
BY DEF Usages, Amounts, Covers

LEMMA WithinShrinks ==
  \* Fewer of the same jobs are within the same limits.
  ASSUME NEW js, NEW ks, NEW ids, IsFiniteSet(ids), NEW some \in SUBSET ids,
         \A i \in ids : js[i].spec \in Requests, \A i \in some : ks[i].spec = js[i].spec,
         Within(js, ids)
  PROVE  Within(ks, some)
<1>1. IsFiniteSet(some)
  BY FS_Subset
<1>2. ~OverLimit(UsageIn(ks, some), Cluster)
  <2>1. UsageIn(ks, some) \in Usages /\ UsageIn(js, ids) \in Usages
    BY <1>1, UsageTyped
  <2> QED  BY <2>1, UsageShrinks, CoveredIsWithin, LimitsTyped DEF Within
<1>3. ASSUME NEW u \in Users PROVE ~OverLimit(UsageIn(ks, By(ks, some, u)), Effective(u))
  <2>1. By(ks, some, u) \subseteq By(js, ids, u) /\ By(js, ids, u) \subseteq ids /\ By(ks, some, u) \subseteq some
    BY DEF By
  <2>2. IsFiniteSet(By(js, ids, u)) /\ IsFiniteSet(By(ks, some, u))
    BY <1>1, <2>1, FS_Subset
  <2>3. Covers(UsageIn(js, By(js, ids, u)), UsageIn(ks, By(ks, some, u)))
    BY <2>1, <2>2, UsageShrinks
  <2>4. UsageIn(js, By(js, ids, u)) \in Usages /\ UsageIn(ks, By(ks, some, u)) \in Usages
    BY <2>1, <2>2, UsageTyped
  <2> QED  BY <2>3, <2>4, CoveredIsWithin, LimitsTyped DEF Within
<1> QED  BY <1>2, <1>3 DEF Within

-----------------------------------------------------------------------------
(* What the planner returns *)

LEMMA FreeTyped ==
  \* What is left on a machine is a vector.
  ASSUME NEW used \in [Fleet -> Vectors], NEW n \in Fleet
  PROVE  Free(used, n) \in Vectors /\ \A k \in Kinds : Free(used, n)[k] = Cap[n][k] - used[n][k]
BY CapTyped DEF Free, Minus, Vectors

\* One machine is looked at: it is taken if it has what is still needed.
Choosing(acc, n, req, max, used) ==
  IF \/ Satisfied(acc.need)
     \/ (max > 0 /\ Len(acc.chosen) >= max)
     \/ Contribution(req, n, used) = 0
  THEN acc
  ELSE [chosen |-> Append(acc.chosen, n), need |-> Minus(acc.need, Free(used, n))]

\* g: what the greedy choice comes to, machine after machine.
GreedyRun(g, req, max, N, order, used) ==
  /\ g[0] = [chosen |-> <<>>, need |-> req] /\ g[N] = Greedy(req, max, order, used)
  /\ \A j \in 0..N : g[j] \in [chosen: Seq(Fleet), need: Vectors]
  /\ \A j \in 1..N : g[j] = Choosing(g[j - 1], order[j], req, max, used)

LEMMA GreedySteps ==
  \* The greedy choice looks at one machine after the other.
  ASSUME NEW req \in Vectors, NEW max \in Nat, NEW N \in Nat, NEW order \in [1..N -> Fleet],
         NEW used \in [Fleet -> Vectors]
  PROVE  \E g : GreedyRun(g, req, max, N, order, used)
<1> DEFINE A == [chosen: Seq(Fleet), need: Vectors]
           base == [chosen |-> <<>>, need |-> req]
           Choice(acc, n) == Choosing(acc, n, req, max, used)
           op == [p \in A \X (1..N) |-> Choice(p[1], order[p[2]])]
           Folds(g) == g = [s \in SUBSET (1..N) |->
                              IF s = {} THEN base ELSE Choice(g[s \ {Max(s)}], order[Max(s)])]
           iter == CHOOSE g : Folds(g)
<1>1. base \in A
  OBVIOUS
<1>2. \A acc \in A, n \in Fleet : Choice(acc, n) \in A
  <2> SUFFICES ASSUME NEW acc \in A, NEW n \in Fleet
               PROVE  [chosen |-> Append(acc.chosen, n), need |-> Minus(acc.need, Free(used, n))] \in A
    BY DEF Choosing
  <2>1. Minus(acc.need, Free(used, n)) \in Vectors
    <3>1. acc.need \in Vectors /\ Free(used, n) \in Vectors
      BY FreeTyped
    <3> HIDE DEF A
    <3> QED  BY <3>1 DEF Minus, Vectors
  <2>2. Append(acc.chosen, n) \in Seq(Fleet)
    OBVIOUS
  <2> QED  BY <2>1, <2>2
<1>3. op \in [A \X (1..N) -> A]
  <2> HIDE DEF A, Choice
  <2> QED  BY <1>2
<1>4. \A s \in SUBSET (1..N) : s # {} => Max(s) \in s /\ Max(s) \in 1..N /\ s \ {Max(s)} \in SUBSET (1..N)
  BY GreatestIn
<1>5. \E g : Folds(g)
  <2>0. \E g : Folding(g, N, A, base, op)
    <3> HIDE DEF A, base, op
    <3> QED  BY <1>1, <1>3, FoldExists
  <2>1. PICK g : /\ g[{}] = base
                 /\ \A s \in SUBSET (1..N) : g[s] \in A
                 /\ \A s \in SUBSET (1..N) : s # {} => g[s] = op[<<g[s \ {Max(s)}], Max(s)>>]
    <3> HIDE DEF A, base, op
    <3> QED  BY <2>0 DEF Folding
  <2>2. ASSUME NEW s \in SUBSET (1..N), s # {} PROVE g[s] = Choice(g[s \ {Max(s)}], order[Max(s)])
    <3>1. g[s \ {Max(s)}] \in A /\ Max(s) \in 1..N
      <4> HIDE DEF A, op, base
      <4> QED  BY <1>4, <2>1, <2>2
    <3>2. g[s] = op[<<g[s \ {Max(s)}], Max(s)>>]
      BY <2>1, <2>2
    <3> HIDE DEF A, Choice, base
    <3> QED  BY <3>1, <3>2
  <2>3. \A s \in SUBSET (1..N) : g[s] = IF s = {} THEN base ELSE Choice(g[s \ {Max(s)}], order[Max(s)])
    <3> HIDE DEF A, Choice, base, op
    <3> QED  BY <2>1, <2>2
  <2> DEFINE h == [s \in SUBSET (1..N) |-> g[s]]
  <2>4. \A s \in SUBSET (1..N) : h[s] = IF s = {} THEN base ELSE Choice(h[s \ {Max(s)}], order[Max(s)])
    <3> HIDE DEF A, Choice, base, op
    <3> QED  BY <1>4, <2>3
  <2>5. Folds(h)
    <3> HIDE DEF A, Choice, base, op
    <3> QED  BY <2>4
  <2> QED  BY <2>5
<1>6. Folds(iter)
  <2> HIDE DEF Folds
  <2> QED  BY <1>5
<1>7. \A s \in SUBSET (1..N) : iter[s] \in A
  <2>1. iter[{}] = base /\ \A s \in SUBSET (1..N) : s # {} => iter[s] = Choice(iter[s \ {Max(s)}], order[Max(s)])
    <3> HIDE DEF Choice, base, iter
    <3> QED  BY <1>6
  <2>2. \A s \in SUBSET (1..N) : s # {} /\ iter[s \ {Max(s)}] \in A => iter[s] \in A
    <3> HIDE DEF A, Choice, iter
    <3> QED  BY <1>2, <1>4, <2>1, ZenonT(60)
  <2>3. iter[{}] \in A
    BY <1>1, <2>1
  <2> HIDE DEF A, iter
  <2> QED  BY <2>2, <2>3, FoldTyped
<1>8. Greedy(req, max, order, used) = iter[1..N]
  BY DEF Greedy, FoldLeft, MapThenFoldSet, Choosing
<1> DEFINE g == [j \in 0..N |-> iter[1..j]]
<1>9. \A j \in 0..N : 1..j \in SUBSET (1..N)
  OBVIOUS
<1>10. g[0] = base /\ g[N] = iter[1..N]
  <2>1. 1..0 = {} /\ 0 \in 0..N /\ N \in 0..N /\ iter[{}] = base
    <3> HIDE DEF Choice, base, iter
    <3> QED  BY <1>6
  <2> HIDE DEF iter, base
  <2> QED  BY <2>1
<1>11. \A j \in 0..N : g[j] \in A
  <2> HIDE DEF A, iter
  <2> QED  BY <1>7, <1>9
<1>12. ASSUME NEW j \in 1..N PROVE g[j] = Choice(g[j - 1], order[j])
  <2>1. /\ 1..j \in SUBSET (1..N) /\ 1..j # {} /\ Max(1..j) = j /\ (1..j) \ {j} = 1..(j - 1)
        /\ j - 1 \in 0..N /\ j \in 0..N
    BY Positions
  <2>2. iter[1..j] = Choice(iter[(1..j) \ {Max(1..j)}], order[Max(1..j)])
    <3> HIDE DEF Choice, base, iter
    <3> QED  BY <1>6, <2>1
  <2>3. g[j] = iter[1..j] /\ g[j - 1] = iter[1..(j - 1)]
    <3> HIDE DEF iter
    <3> QED  BY <2>1
  <2> HIDE DEF iter, Choice, g
  <2> QED  BY <2>1, <2>2, <2>3
<1> HIDE DEF g, A, iter
<1> QED  BY <1>8, <1>10, <1>11, <1>12 DEF A, GreedyRun

LEMMA GreedyTyped ==
  \* The greedy choice is a list of machines.
  ASSUME NEW req \in Vectors, NEW max \in Nat, NEW N \in Nat, NEW order \in [1..N -> Fleet],
         NEW used \in [Fleet -> Vectors]
  PROVE  Greedy(req, max, order, used) \in [chosen: Seq(Fleet), need: Vectors]
<1>0. \E g : GreedyRun(g, req, max, N, order, used)
  BY GreedySteps
<1>1. PICK g : GreedyRun(g, req, max, N, order, used)
  BY <1>0
<1>2. N \in 0..N
  OBVIOUS
<1> QED  BY <1>1, <1>2 DEF GreedyRun

\* One machine is looked at again: it is dropped if the others make up for it.
Dropping(kept, n, req, used) == IF Covered(req, kept \ {n}, used) THEN kept \ {n} ELSE kept

\* g: what the minimality pass leaves, machine after machine.
NeededRun(g, req, chosen, used) ==
  /\ g[0] = ToSet(chosen) /\ g[Len(chosen)] = Needed(req, chosen, used)
  /\ \A j \in 0..Len(chosen) : g[j] \in SUBSET Fleet
  /\ \A j \in 1..Len(chosen) : g[j] = Dropping(g[j - 1], chosen[j], req, used)

LEMMA NeededSteps ==
  \* The minimality pass looks at one machine after the other.
  ASSUME NEW req, NEW chosen \in Seq(Fleet), NEW used
  PROVE  \E g : NeededRun(g, req, chosen, used)
<1> DEFINE N == Len(chosen)
           A == SUBSET Fleet
           base == ToSet(chosen)
           Choice(kept, n) == Dropping(kept, n, req, used)
           op == [p \in A \X (1..N) |-> Choice(p[1], chosen[p[2]])]
           Folds(g) == g = [s \in SUBSET (1..N) |->
                              IF s = {} THEN base ELSE Choice(g[s \ {Max(s)}], chosen[Max(s)])]
           iter == CHOOSE g : Folds(g)
<1>0. N \in Nat /\ DOMAIN chosen = 1..N /\ \A i \in 1..N : chosen[i] \in Fleet
  OBVIOUS
<1>1. base \in A
  BY <1>0 DEF ToSet
<1>2. \A kept \in A, n \in Fleet : Choice(kept, n) \in A
  BY DEF Dropping
<1>3. op \in [A \X (1..N) -> A]
  <2> HIDE DEF A, Choice, N
  <2> QED  BY <1>0, <1>2
<1>4. \A s \in SUBSET (1..N) : s # {} => Max(s) \in s /\ Max(s) \in 1..N /\ s \ {Max(s)} \in SUBSET (1..N)
  <2> HIDE DEF N
  <2> QED  BY <1>0, GreatestIn
<1>5. \E g : Folds(g)
  <2>1. \E g : Folding(g, N, A, base, op)
    <3> HIDE DEF A, base, op, N
    <3> QED  BY <1>0, <1>1, <1>3, FoldExists
  <2>2. PICK g : /\ g[{}] = base
                 /\ \A s \in SUBSET (1..N) : g[s] \in A
                 /\ \A s \in SUBSET (1..N) : s # {} => g[s] = op[<<g[s \ {Max(s)}], Max(s)>>]
    <3> HIDE DEF A, base, op, N
    <3> QED  BY <2>1 DEF Folding
  <2>3. ASSUME NEW s \in SUBSET (1..N), s # {} PROVE g[s] = Choice(g[s \ {Max(s)}], chosen[Max(s)])
    <3>1. g[s \ {Max(s)}] \in A /\ Max(s) \in 1..N
      <4> HIDE DEF A, op, base, N
      <4> QED  BY <1>4, <2>2, <2>3
    <3>2. g[s] = op[<<g[s \ {Max(s)}], Max(s)>>]
      BY <2>2, <2>3
    <3> HIDE DEF A, Choice, base, N
    <3> QED  BY <3>1, <3>2
  <2>4. \A s \in SUBSET (1..N) : g[s] = IF s = {} THEN base ELSE Choice(g[s \ {Max(s)}], chosen[Max(s)])
    <3> HIDE DEF A, Choice, base, op, N
    <3> QED  BY <2>2, <2>3
  <2> DEFINE h == [s \in SUBSET (1..N) |-> g[s]]
  <2>5. \A s \in SUBSET (1..N) : h[s] = IF s = {} THEN base ELSE Choice(h[s \ {Max(s)}], chosen[Max(s)])
    <3> HIDE DEF A, Choice, base, op, N
    <3> QED  BY <1>4, <2>4
  <2>6. Folds(h)
    <3> HIDE DEF A, Choice, base, op, N
    <3> QED  BY <2>5
  <2> QED  BY <2>6
<1>6. Folds(iter)
  <2> HIDE DEF Folds
  <2> QED  BY <1>5
<1>7. \A s \in SUBSET (1..N) : iter[s] \in A
  <2>1. iter[{}] = base /\ \A s \in SUBSET (1..N) : s # {} => iter[s] = Choice(iter[s \ {Max(s)}], chosen[Max(s)])
    <3> HIDE DEF Choice, base, iter, N
    <3> QED  BY <1>6
  <2>2. \A s \in SUBSET (1..N) : s # {} /\ iter[s \ {Max(s)}] \in A => iter[s] \in A
    <3> HIDE DEF A, Choice, iter, N
    <3> QED  BY <1>0, <1>2, <1>4, <2>1
  <2>3. iter[{}] \in A
    BY <1>1, <2>1
  <2> HIDE DEF A, iter, N
  <2> QED  BY <1>0, <2>2, <2>3, FoldTyped
<1>8. Needed(req, chosen, used) = iter[1..N]
  BY <1>0 DEF Needed, FoldLeft, MapThenFoldSet, Dropping
<1> DEFINE g == [j \in 0..N |-> iter[1..j]]
<1>9. \A j \in 0..N : 1..j \in SUBSET (1..N)
  <2> HIDE DEF N
  <2> QED  BY <1>0
<1>10. g[0] = base /\ g[N] = iter[1..N]
  <2>1. 1..0 = {} /\ 0 \in 0..N /\ N \in 0..N /\ iter[{}] = base
    <3> HIDE DEF Choice, base, iter, N
    <3> QED  BY <1>0, <1>6
  <2> HIDE DEF iter, base, N
  <2> QED  BY <2>1
<1>11. \A j \in 0..N : g[j] \in A
  <2> HIDE DEF A, iter, N
  <2> QED  BY <1>7, <1>9
<1>12. ASSUME NEW j \in 1..N PROVE g[j] = Choice(g[j - 1], chosen[j])
  <2> HIDE DEF N
  <2>1. /\ 1..j \in SUBSET (1..N) /\ 1..j # {} /\ Max(1..j) = j /\ (1..j) \ {j} = 1..(j - 1)
        /\ j - 1 \in 0..N /\ j \in 0..N
    BY <1>0, Positions
  <2>2. iter[1..j] = Choice(iter[(1..j) \ {Max(1..j)}], chosen[Max(1..j)])
    <3> HIDE DEF Choice, base, iter
    <3> QED  BY <1>6, <2>1
  <2>3. g[j] = iter[1..j] /\ g[j - 1] = iter[1..(j - 1)]
    <3> HIDE DEF iter
    <3> QED  BY <2>1
  <2> HIDE DEF iter, Choice, g
  <2> QED  BY <2>1, <2>2, <2>3
<1> HIDE DEF g, A, iter
<1> QED  BY <1>8, <1>10, <1>11, <1>12 DEF A, NeededRun

LEMMA NeededTyped ==
  \* Dropping machines leaves machines.
  ASSUME NEW req, NEW chosen \in Seq(Fleet), NEW used
  PROVE  Needed(req, chosen, used) \in SUBSET Fleet
<1>0. \E g : NeededRun(g, req, chosen, used)
  BY NeededSteps
<1>1. PICK g : NeededRun(g, req, chosen, used)
  BY <1>0
<1>2. Len(chosen) \in 0..Len(chosen)
  OBVIOUS
<1> QED  BY <1>1, <1>2 DEF NeededRun

LEMMA SharesTyped ==
  \* A share is an amount, and is negative only where more than there is was taken before.
  ASSUME NEW req \in Vectors, NEW chosen, NEW kept, kept \subseteq Fleet, NEW used \in [Fleet -> Vectors]
  PROVE  /\ Shares(req, chosen, kept, used) \in [kept -> Vectors]
         /\ \A n \in kept, k \in Kinds :
              \/ Shares(req, chosen, kept, used)[n][k] >= 0
              \/ used[n][k] + Shares(req, chosen, kept, used)[n][k] = Cap[n][k]
<1> DEFINE before(n) == {m \in kept : \E i, j \in DOMAIN chosen : chosen[i] = m /\ chosen[j] = n /\ i < j}
           left(n, k) == req[k] - SumFunction([m \in before(n) |-> Free(used, m)[k]])
           share(n, k) == Least(AtLeast0(left(n, k)), Free(used, n)[k])
<1>1. ASSUME NEW n \in kept, NEW k \in Kinds
      PROVE  /\ share(n, k) \in Int
             /\ share(n, k) >= 0 \/ used[n][k] + share(n, k) = Cap[n][k]
  <2>1. before(n) \subseteq Fleet /\ IsFiniteSet(before(n))
    BY FleetFinite, FS_Subset
  <2>2. [m \in before(n) |-> Free(used, m)[k]] \in [before(n) -> Int]
    <3> HIDE DEF before
    <3> QED  BY <2>1, FreeTyped DEF Vectors
  <2>3. SumFunction([m \in before(n) |-> Free(used, m)[k]]) \in Int
    <3> HIDE DEF before
    <3> QED  BY <2>1, <2>2, SumTyped
  <2>4. left(n, k) \in Int
    <3> HIDE DEF before
    <3> QED  BY <2>3 DEF Vectors
  <2>5. Free(used, n)[k] \in Int /\ Free(used, n)[k] = Cap[n][k] - used[n][k] /\ used[n][k] \in Int /\ Cap[n][k] \in Int
    BY FreeTyped, CapTyped DEF Vectors
  <2> HIDE DEF left
  <2> QED  BY <2>4, <2>5 DEF Least, AtLeast0
<1>2. Shares(req, chosen, kept, used) = [n \in kept |-> [k \in Kinds |-> share(n, k)]]
  BY DEF Shares
<1> HIDE DEF share
<1> QED  BY <1>1, <1>2 DEF Vectors

LEMMA SolveTyped ==
  \* What SolveAggregate gives a gang.
  ASSUME NEW spec \in Requests, NEW used \in [Fleet -> Vectors], NEW ups \in SUBSET Fleet,
         NEW p \in SolveAggregate(spec, used, ups)
  PROVE  /\ p.nodes \in SUBSET Fleet /\ p.shares \in [p.nodes -> Vectors]
         /\ \A n \in p.nodes, k \in Kinds :
              p.shares[n][k] >= 0 \/ used[n][k] + p.shares[n][k] = Cap[n][k]
<1> DEFINE ns == spec.match \cap ups
           solved == {g \in {Greedy(spec.total, spec.maxNodes, o, used) : o \in Descending(spec.total, ns, used)} :
                       Satisfied(g.need)}
<1>1. PICK g \in solved :
        p = [nodes |-> Needed(spec.total, g.chosen, used),
             shares |-> Shares(spec.total, g.chosen, Needed(spec.total, g.chosen, used), used)]
  BY DEF SolveAggregate
<1>2. PICK o \in Descending(spec.total, ns, used) : g = Greedy(spec.total, spec.maxNodes, o, used)
  BY <1>1
<1>3. ns \subseteq Fleet /\ Cardinality(ns) \in Nat
  BY FleetFinite, FS_Subset, FS_CardinalityType
<1>4. o \in [1..Cardinality(ns) -> Fleet]
  <2> HIDE DEF ns
  <2>1. o \in [1..Cardinality(ns) -> ns]
    BY <1>2 DEF Descending
  <2> QED  BY <1>3, <2>1
<1>5. spec.total \in Vectors /\ spec.maxNodes \in Nat
  BY DEF Requests, Amounts, Vectors
<1>6. g.chosen \in Seq(Fleet)
  <2> HIDE DEF ns, solved
  <2>1. g \in [chosen: Seq(Fleet), need: Vectors]
    BY <1>2, <1>3, <1>4, <1>5, GreedyTyped
  <2> QED  BY <2>1
<1>7. Needed(spec.total, g.chosen, used) \in SUBSET Fleet
  BY <1>6, NeededTyped
<1> DEFINE kept == Needed(spec.total, g.chosen, used)
<1>8. p.nodes = kept /\ p.shares = Shares(spec.total, g.chosen, kept, used)
  BY <1>1
<1> HIDE DEF kept, ns, solved
<1>9. kept \in SUBSET Fleet
  BY <1>7 DEF kept
<1> DEFINE shares == Shares(spec.total, g.chosen, kept, used)
<1>10. shares \in [kept -> Vectors]
  BY <1>5, <1>9, SharesTyped
<1>11. ASSUME NEW n \in kept, NEW k \in Kinds
       PROVE  shares[n][k] >= 0 \/ used[n][k] + shares[n][k] = Cap[n][k]
  BY <1>5, <1>9, SharesTyped
<1>12. p.shares = shares
  BY <1>8
<1> HIDE DEF shares
<1> QED  BY <1>8, <1>9, <1>10, <1>11, <1>12

LEMMA ReservationTyped ==
  \* A promise is made for a machine and a time.
  ASSUME NEW spec, NEW used, NEW held, NEW ups \in SUBSET Fleet, NEW live, NEW t \in Nat,
         \A n \in Fleet : \A r \in live[n] : r.ends \in Nat,
         NEW o \in Reservation(spec, used, held, ups, live, t)
  PROVE  o \in Fleet \X Nat
<1>1. \A n \in Fleet : FreesUpTimes(spec, n, used, live[n], t) \in SUBSET Nat
  BY DEF FreesUpTimes
<1>2. \A n \in Fleet : FreesUpTimes(spec, n, used, live[n], t) # {}
                         => Min(FreesUpTimes(spec, n, used, live[n], t)) \in Nat
  <2> SUFFICES ASSUME NEW S \in SUBSET Nat, S # {} PROVE Min(S) \in Nat
    BY <1>1
  <2>1. \E i \in S : \A k \in S : i <= k
    BY FirstOf
  <2> QED  BY <2>1 DEF Min
<1>3. PICK n \in ups : /\ FreesUpTimes(spec, n, used, live[n], t) # {}
                       /\ o = <<n, Min(FreesUpTimes(spec, n, used, live[n], t))>>
  BY DEF Reservation
<1> QED  BY <1>2, <1>3

LEMMA PlaceTyped ==
  \* Where a job is placed there is room for it.
  ASSUME NEW spec, NEW used, NEW held, NEW ups, NEW t, NEW n \in PlaceFor(spec, used, held, ups, t)
  PROVE  n \in Fleet /\ AtMost(Charge(spec), Free(used, n))
BY PlannerAssumption DEF PlaceFor, Fits, Fleet

-----------------------------------------------------------------------------
(* Types *)

LEMMA RowsTyped ==
  \* Every row of the table has its type.
  ASSUME SchedTyped
  PROVE  /\ IsFiniteSet(DOMAIN jobs) /\ DOMAIN jobs = 1..Len(jobs) /\ Len(jobs) \in Nat
         /\ \A i \in DOMAIN jobs : i \in Nat /\ jobs[i] \in Rows /\ jobs[i].spec \in Requests
<1>1. jobs \in Seq(Rows)
  BY DEF SchedTyped
<1>2. Len(jobs) \in Nat /\ DOMAIN jobs = 1..Len(jobs) /\ \A i \in DOMAIN jobs : jobs[i] \in Rows
  BY <1>1
<1>3. IsFiniteSet(1..Len(jobs))
  BY <1>2, FS_Interval
<1>4. \A row \in Rows : row.spec \in Requests
  BY DEF Rows
<1> QED  BY <1>2, <1>3, <1>4

LEMMA SomeTyped ==
  \* Any of the jobs are finitely many, and ask for something.
  ASSUME SchedTyped, NEW ids \in SUBSET DOMAIN jobs
  PROVE  IsFiniteSet(ids) /\ \A i \in ids : jobs[i].spec \in Requests
BY RowsTyped, FS_Subset

LEMMA UsedTyped ==
  \* What NodeStates counts is an amount for every machine.
  ASSUME SchedTyped
  PROVE  Used \in [Fleet -> Vectors]
<1>1. ASSUME NEW n \in Fleet, NEW k \in Kinds
      PROVE  SumFunction([i \in On(n) |-> Charge(jobs[i].spec)[k]]) \in Int
  <2>1. On(n) \in SUBSET DOMAIN jobs
    BY DEF On, Running
  <2>2. Load(jobs, On(n), k) \in Nat
    BY <2>1, SomeTyped, LoadTyped
  <2> QED  BY <2>2 DEF Load
<1> QED  BY <1>1 DEF Used, Vectors

LEMMA RunningTyped ==
  \* What the running jobs of an account, and all of them, use is counted and amounts.
  ASSUME SchedTyped
  PROVE  UsageOf(Running) \in Usages /\ \A u : UsageOf(Running \cap Of(u)) \in Usages
<1>1. \A ids \in SUBSET DOMAIN jobs : UsageIn(jobs, ids) \in Usages
  BY SomeTyped, UsageTyped
<1>2. Running \in SUBSET DOMAIN jobs /\ \A u : Running \cap Of(u) \in SUBSET DOMAIN jobs
  BY DEF Running
<1>3. \A ids : UsageOf(ids) = UsageIn(jobs, ids)
  BY DEF UsageOf, UsageIn
<1> QED  BY <1>1, <1>2, <1>3

LEMMA IdleTyped == Idle \in Passes
<1>1. [n \in Fleet |-> Zero] \in [Fleet -> Vectors] /\ Zero \in Amounts
  BY DEF Zero, Vectors, Amounts
<1> QED  BY <1>1 DEF Idle, Passes, Usages, Steps

LEMMA ForemostIn ==
  \* The foremost job is one of those to be looked at.
  ASSUME SchedTyped, pass.todo # {}
  PROVE  Foremost \in pass.todo
<1>1. pass.todo \in SUBSET Nat
  BY DEF SchedTyped, Passes
<1>2. \E i \in pass.todo : \A k \in pass.todo : i <= k
  <2> HIDE DEF SchedTyped
  <2> QED  BY <1>1, FirstOf
<1> QED  BY <1>1, <1>2 DEF Foremost, Min

LEMMA TakeIs ==
  \* What taking the foremost job does to a pass.
  ASSUME SchedTyped, pass.todo # {}, NEW keep \in BOOLEAN
  PROVE  /\ Take(keep) \in Passes
         /\ Take(keep).todo = pass.todo \ {Foremost}
         /\ Take(keep).kept = IF keep THEN pass.kept \cup {Foremost} ELSE pass.kept
         /\ Take(keep).step = pass.step /\ Take(keep).used = pass.used /\ Take(keep).up = pass.up
         /\ Take(keep).mine = pass.mine /\ Take(keep).all = pass.all /\ Take(keep).live = pass.live
         /\ Take(keep).agreed = pass.agreed /\ Take(keep).held = pass.held
         /\ Take(keep).first = pass.first /\ Take(keep).starts = pass.starts
         /\ Take(keep).blocked = pass.blocked
<1>1. pass \in Passes
  BY DEF SchedTyped
<1>2. pass.todo \in SUBSET Nat /\ pass.kept \in SUBSET Nat
  BY <1>1 DEF Passes
<1>3. Foremost \in Nat
  BY <1>2, ForemostIn
<1> DEFINE kept == IF keep THEN pass.kept \cup {Foremost} ELSE pass.kept
           rest == pass.todo \ {Foremost}
<1>4. Take(keep) = [pass EXCEPT !.todo = rest, !.kept = kept]
  BY DEF Take
<1>5. rest \in SUBSET Nat /\ kept \in SUBSET Nat
  BY <1>2, <1>3
<1> HIDE DEF kept, rest
<1>6. Take(keep) \in Passes
  BY <1>1, <1>4, <1>5 DEF Passes
<1>7. Take(keep).todo = rest /\ Take(keep).kept = kept
  BY <1>1, <1>4 DEF Passes
<1>8. /\ Take(keep).step = pass.step /\ Take(keep).used = pass.used /\ Take(keep).up = pass.up
      /\ Take(keep).mine = pass.mine /\ Take(keep).all = pass.all /\ Take(keep).live = pass.live
      /\ Take(keep).held = pass.held /\ Take(keep).first = pass.first /\ Take(keep).starts = pass.starts
  BY <1>1, <1>4 DEF Passes
<1>9. Take(keep).agreed = pass.agreed /\ Take(keep).blocked = pass.blocked
  BY <1>1, <1>4 DEF Passes
<1> QED  BY <1>6, <1>7, <1>8, <1>9 DEF kept, rest

-----------------------------------------------------------------------------
(* What the actions do to the table and to the pass *)

\* Jobs are not forgotten, and what was asked for stays what it was.
SameJobs(js, ks) ==
  DOMAIN js = DOMAIN ks /\ \A i \in DOMAIN js : js[i].spec = ks[i].spec

LEMMA StateSet ==
  \* A statement that sets the state of one row.
  ASSUME SchedTyped, NEW i \in DOMAIN jobs, NEW s \in JobStates, jobs' = [jobs EXCEPT ![i].state = s]
  PROVE  /\ jobs' \in Seq(Rows) /\ SameJobs(jobs', jobs)
         /\ jobs'[i].state = s
         /\ \A j \in DOMAIN jobs : jobs'[j].at = jobs[j].at
         /\ \A j \in DOMAIN jobs : j # i => jobs'[j].state = jobs[j].state
<1>1. \A j \in DOMAIN jobs : jobs[j] \in Rows
  BY RowsTyped
<1> DEFINE row == [jobs[i] EXCEPT !.state = s]
<1>2. row \in Rows /\ row.state = s /\ row.spec = jobs[i].spec /\ row.at = jobs[i].at
  BY <1>1 DEF Rows
<1>3. jobs' = [jobs EXCEPT ![i] = row]
  OBVIOUS
<1> HIDE DEF row
<1>4. jobs \in Seq(Rows)
  BY DEF SchedTyped
<1>5. jobs' \in Seq(Rows)
  BY <1>2, <1>3, <1>4
<1>6. DOMAIN jobs' = DOMAIN jobs /\ jobs'[i] = row /\ \A j \in DOMAIN jobs : j # i => jobs'[j] = jobs[j]
  BY <1>3, <1>4
<1> QED  BY <1>2, <1>5, <1>6 DEF SameJobs

LEMMA StartIs ==
  \* A statement that starts one job.
  ASSUME SchedTyped, NEW i \in DOMAIN jobs, NEW at \in SUBSET Fleet,
         NEW shares \in UNION {[s -> Vectors] : s \in SUBSET Fleet}, jobs' = Start(i, at, shares)
  PROVE  /\ jobs' \in Seq(Rows) /\ SameJobs(jobs', jobs)
         /\ jobs'[i].state = "RUNNING" /\ jobs'[i].at = at
         /\ \A j \in DOMAIN jobs : j # i => jobs'[j].at = jobs[j].at /\ jobs'[j].state = jobs[j].state
<1>1. \A j \in DOMAIN jobs : jobs[j] \in Rows
  BY RowsTyped
<1> DEFINE row == [jobs[i] EXCEPT !.state = "RUNNING", !.at = at, !.shares = shares, !.since = now]
<1>2. now \in Nat /\ "RUNNING" \in JobStates
  BY DEF SchedTyped, JobStates
<1>3. row \in Rows /\ row.state = "RUNNING" /\ row.spec = jobs[i].spec /\ row.at = at
  <2> DEFINE Shared == UNION {[s -> Vectors] : s \in SUBSET Fleet}
  <2>1. Rows = [spec: Requests, state: JobStates, at: SUBSET Fleet, shares: Shared, since: Nat]
    BY DEF Rows
  <2>2. shares \in Shared /\ jobs[i] \in Rows
    BY <1>1
  <2> HIDE DEF Shared
  <2> QED  BY <1>2, <2>1, <2>2
<1>4. jobs' = [jobs EXCEPT ![i] = row]
  BY DEF Start
<1> HIDE DEF row
<1>5. jobs \in Seq(Rows)
  BY DEF SchedTyped
<1>6. jobs' \in Seq(Rows)
  BY <1>3, <1>4, <1>5
<1>7. DOMAIN jobs' = DOMAIN jobs /\ jobs'[i] = row /\ \A j \in DOMAIN jobs : j # i => jobs'[j] = jobs[j]
  BY <1>4, <1>5
<1> QED  BY <1>3, <1>6, <1>7 DEF SameJobs

LEMMA SubmitIs ==
  \* A submission appends a row and leaves the others alone.
  ASSUME SchedTyped, NEW spec \in Specs, Submit(spec)
  PROVE  /\ jobs' \in Seq(Rows)
         /\ DOMAIN jobs' = DOMAIN jobs \cup {Len(jobs) + 1} /\ Len(jobs) + 1 \notin DOMAIN jobs
         /\ \A j \in DOMAIN jobs : jobs'[j] = jobs[j]
         /\ jobs'[Len(jobs) + 1].state = "PENDING"
<1> DEFINE row == [spec |-> ApplyQoS(spec), state |-> "PENDING", at |-> {}, shares |-> <<>>, since |-> 0]
<1>1. ApplyQoS(spec) \in Requests /\ "PENDING" \in JobStates
  BY SpecsTyped DEF JobStates
<1>2. row \in Rows
  BY <1>1, NothingShared DEF Rows
<1>3. row.state = "PENDING" /\ jobs' = Append(jobs, row)
  BY DEF Submit
<1>4. jobs \in Seq(Rows)
  BY DEF SchedTyped
<1> HIDE DEF row
<1>5. Len(jobs) \in Nat /\ DOMAIN jobs = 1..Len(jobs)
  BY <1>4
<1>6. jobs' \in Seq(Rows) /\ Len(jobs') = Len(jobs) + 1 /\ jobs'[Len(jobs) + 1] = row
  BY <1>2, <1>3, <1>4
<1>7. \A j \in 1..Len(jobs) : jobs'[j] = jobs[j]
  BY <1>2, <1>3, <1>4, <1>5
<1>8. DOMAIN jobs' = 1..(Len(jobs) + 1)
  BY <1>6
<1> QED  BY <1>3, <1>5, <1>6, <1>7, <1>8

LEMMA BeginIs ==
  \* A pass begins with the jobs that wait.
  ASSUME SchedTyped, Begin
  PROVE  /\ pass' \in Passes /\ pass'.step = "deps" /\ pass'.todo = Queue /\ pass'.kept = {}
         /\ pass'.used = Used /\ pass'.mine = {} /\ pass'.starts = {} /\ pass'.live = {}
<1>1. pass' = [Idle EXCEPT !.step = "deps", !.todo = Queue, !.used = Used, !.up = up]
  BY DEF Begin
<1>2. Queue \in SUBSET Nat /\ up \in SUBSET Fleet
  BY RowsTyped DEF Queue, SchedTyped
<1>3. pass' \in Passes
  <2>1. "deps" \in Steps
    BY DEF Steps
  <2> QED  BY <1>1, <1>2, <2>1, UsedTyped, IdleTyped DEF Passes
<1>4. /\ pass'.step = "deps" /\ pass'.todo = Queue /\ pass'.kept = Idle.kept
      /\ pass'.used = Used /\ pass'.mine = Idle.mine /\ pass'.starts = Idle.starts /\ pass'.live = Idle.live
  BY <1>1, IdleTyped DEF Passes
<1> QED  BY <1>3, <1>4 DEF Idle

LEMMA BeginAdmissionIs ==
  \* What was looked at is what limits are checked for.
  ASSUME SchedTyped, BeginAdmission
  PROVE  /\ pass' \in Passes /\ pass'.step = "qos" /\ pass'.todo = pass.kept /\ pass'.kept = {}
         /\ pass'.all = UsageOf(Running)
         /\ pass'.used = pass.used /\ pass'.mine = pass.mine /\ pass'.starts = pass.starts
         /\ pass'.live = pass.live
<1>1. pass' = [pass EXCEPT !.step = "qos", !.todo = pass.kept, !.kept = {}, !.all = UsageOf(Running)]
  BY DEF BeginAdmission
<1>2. pass \in Passes /\ pass.kept \in SUBSET Nat
  BY DEF SchedTyped, Passes
<1>3. "qos" \in Steps /\ UsageOf(Running) \in Usages
  BY RunningTyped DEF Steps
<1>4. pass' \in Passes
  BY <1>1, <1>2, <1>3 DEF Passes
<1> QED  BY <1>1, <1>2, <1>4 DEF Passes

LEMMA BeginGangsIs ==
  \* What was admitted goes on to the gangs.
  ASSUME SchedTyped, BeginGangs
  PROVE  /\ pass' \in Passes /\ pass'.step = "gangs" /\ pass'.todo = pass.kept /\ pass'.kept = {}
         /\ pass'.used = pass.used /\ pass'.starts = pass.starts /\ pass'.live = pass.live
<1>1. pass' = [pass EXCEPT !.step = "gangs", !.todo = pass.kept, !.kept = {}]
  BY DEF BeginGangs
<1>2. pass \in Passes /\ pass.kept \in SUBSET Nat
  BY DEF SchedTyped, Passes
<1>3. "gangs" \in Steps
  BY DEF Steps
<1>4. pass' \in Passes
  BY <1>1, <1>2, <1>3 DEF Passes
<1> QED  BY <1>1, <1>2, <1>4 DEF Passes

LEMMA BeginPlanIs ==
  \* What is left is planned, on what NodeStates counts now.
  ASSUME SchedTyped, BeginPlan
  PROVE  /\ pass' \in Passes /\ pass'.step = "plan" /\ pass'.todo = pass.kept /\ pass'.kept = {}
         /\ pass'.used = pass.used /\ pass'.starts = pass.starts
         /\ pass'.live \subseteq DOMAIN jobs /\ promise' \in {promise, NoPromise}
<1> DEFINE live == IF backfill THEN Running ELSE {}
           agreed == pass.used = Used
<1>1. pass' = [pass EXCEPT !.step = "plan", !.todo = pass.kept, !.kept = {},
                           !.live = live, !.agreed = agreed, !.first = First]
  BY DEF BeginPlan
<1>2. pass \in Passes /\ pass.kept \in SUBSET Nat
  BY DEF SchedTyped, Passes
<1>3. "plan" \in Steps /\ live \in SUBSET Nat /\ live \subseteq DOMAIN jobs
  BY RowsTyped DEF Steps, Running
<1>4. First \in Nat
  <2>1. ASSUME pass.kept # {} PROVE Min(pass.kept) \in Nat
    <3>1. \E i \in pass.kept : \A k \in pass.kept : i <= k
      BY <1>2, <2>1, FirstOf
    <3> QED  BY <1>2, <3>1 DEF Min
  <2> QED  BY <2>1 DEF First
<1>5. agreed \in BOOLEAN
  OBVIOUS
<1> HIDE DEF live, agreed
<1>6. pass' \in Passes
  BY <1>1, <1>2, <1>3, <1>4, <1>5 DEF Passes
<1>7. /\ pass'.step = "plan" /\ pass'.todo = pass.kept /\ pass'.kept = {}
      /\ pass'.used = pass.used /\ pass'.starts = pass.starts /\ pass'.live = live
  BY <1>1, <1>2 DEF Passes
<1>8. promise' \in {promise, NoPromise}
  BY DEF BeginPlan
<1> QED  BY <1>3, <1>6, <1>7, <1>8

LEMMA HandedOut ==
  \* The foremost job waits.
  ASSUME SchedTyped, HandInv, pass.todo # {}
  PROVE  /\ Foremost \in pass.todo /\ Foremost \in DOMAIN jobs /\ Waits(Foremost)
         /\ Foremost \in Nat /\ Foremost \notin pass.kept /\ Foremost \notin Going
<1>1. Foremost \in pass.todo
  BY ForemostIn
<1>2. Foremost \in Queue
  BY <1>1 DEF HandInv, InHand
<1>3. Foremost \notin pass.kept /\ Foremost \notin Going
  BY <1>1 DEF HandInv
<1> QED  BY <1>1, <1>2, <1>3, RowsTyped DEF Queue

LEMMA CheckDependenciesIs ==
  \* The foremost job is passed on, dropped, or cancelled.
  ASSUME SchedTyped, HandInv, CheckDependencies
  PROVE  /\ pass' \in Passes /\ pass'.step = "deps" /\ pass.step = "deps"
         /\ pass.todo # {} /\ pass'.todo = pass.todo \ {Foremost}
         /\ \/ /\ pass'.kept = pass.kept \cup {Foremost} /\ jobs' = jobs
               /\ \A d \in jobs[Foremost].spec.deps : Met(d, Foremost)
            \/ /\ pass'.kept = pass.kept
               /\ jobs' = jobs \/ jobs' = [jobs EXCEPT ![Foremost].state = "CANCELLED"]
         /\ pass'.used = pass.used /\ pass'.mine = pass.mine /\ pass'.starts = pass.starts /\ pass'.live = pass.live
<1> DEFINE met == \A d \in jobs[Foremost].spec.deps : Met(d, Foremost)
<1>1. pass.step = "deps" /\ pass.todo # {} /\ pass' = Take(met)
  BY DEF CheckDependencies, At
<1>2. CASE met
  <2>1. pass' = Take(TRUE) /\ jobs' = jobs
    BY <1>1, <1>2 DEF CheckDependencies
  <2>2. pass'.kept = pass.kept \cup {Foremost} /\ pass'.todo = pass.todo \ {Foremost}
    BY <1>1, <2>1, TakeIs
  <2>3. /\ pass' \in Passes /\ pass'.step = "deps"
        /\ pass'.used = pass.used /\ pass'.mine = pass.mine /\ pass'.starts = pass.starts /\ pass'.live = pass.live
    BY <1>1, <2>1, TakeIs
  <2> QED  BY <1>1, <1>2, <2>1, <2>2, <2>3
<1>3. CASE ~met
  <2>1. pass' = Take(FALSE) /\ (jobs' = jobs \/ jobs' = [jobs EXCEPT ![Foremost].state = "CANCELLED"])
    BY <1>1, <1>3 DEF CheckDependencies
  <2>2. pass'.kept = pass.kept /\ pass'.todo = pass.todo \ {Foremost}
    BY <1>1, <2>1, TakeIs
  <2>3. /\ pass' \in Passes /\ pass'.step = "deps"
        /\ pass'.used = pass.used /\ pass'.mine = pass.mine /\ pass'.starts = pass.starts /\ pass'.live = pass.live
    BY <1>1, <2>1, TakeIs
  <2> QED  BY <1>1, <1>3, <2>1, <2>2, <2>3
<1> QED  BY <1>2, <1>3

\* The usage of its account a job is admitted with.
Known == {m \in pass.mine : m.user = jobs[Foremost].spec.user}
Known1 == CHOOSE m \in Known : TRUE
Usage == IF Known = {} THEN UsageOf(Running \cap Of(jobs[Foremost].spec.user)) ELSE Known1.usage
Mine == Adding(Usage, jobs[Foremost].spec)
All == Adding(pass.all, jobs[Foremost].spec)
Admitted == ~OverLimit(Mine, Effective(jobs[Foremost].spec.user)) /\ ~OverLimit(All, Cluster)

LEMMA AdmitTypes ==
  \* The figures admission works with.
  ASSUME SchedTyped, HandInv, pass.todo # {}
  PROVE  /\ Usage \in Usages /\ Mine \in Usages /\ All \in Usages /\ pass.all \in Usages
         /\ jobs[Foremost].spec \in Requests /\ jobs[Foremost].spec.user \in Users
         /\ Known # {} => Known1 \in pass.mine /\ Known1.user = jobs[Foremost].spec.user
<1>1. jobs[Foremost].spec \in Requests
  BY HandedOut, RowsTyped
<1>2. jobs[Foremost].spec.user \in Users
  BY <1>1 DEF Requests
<1>3. pass.all \in Usages /\ pass.mine \in SUBSET [user: Users, usage: Usages]
  BY DEF SchedTyped, Passes
<1>4. Known # {} => Known1 \in Known
  BY DEF Known1
<1>5. Known # {} => Known1 \in pass.mine /\ Known1.user = jobs[Foremost].spec.user
  BY <1>4 DEF Known
<1>6. Usage \in Usages
  BY <1>3, <1>5, RunningTyped DEF Usage
<1>7. \A a \in Usages : Covers(a, a)
  BY DEF Usages, Amounts, Covers
<1>8. Mine \in Usages /\ All \in Usages
  BY <1>1, <1>3, <1>6, <1>7, AddingCovers DEF Mine, All
<1> QED  BY <1>1, <1>2, <1>3, <1>5, <1>6, <1>8

LEMMA AdmitIs ==
  \* The foremost job is passed on and counted, or dropped.
  ASSUME SchedTyped, HandInv, Admit
  PROVE  /\ pass' \in Passes /\ pass'.step = "qos" /\ pass.step = "qos"
         /\ pass.todo # {} /\ pass'.todo = pass.todo \ {Foremost}
         /\ pass'.used = pass.used /\ pass'.starts = pass.starts /\ pass'.live = pass.live
         /\ \/ /\ Admitted
               /\ pass'.kept = pass.kept \cup {Foremost} /\ pass'.all = All
               /\ pass'.mine = (pass.mine \ Known) \cup {[user |-> jobs[Foremost].spec.user, usage |-> Mine]}
            \/ /\ ~Admitted
               /\ pass'.kept = pass.kept /\ pass'.all = pass.all
               /\ pass'.mine = (pass.mine \ Known) \cup {[user |-> jobs[Foremost].spec.user, usage |-> Usage]}
<1> DEFINE mine(u) == (pass.mine \ Known) \cup {[user |-> jobs[Foremost].spec.user, usage |-> u]}
<1>1. pass.step = "qos" /\ pass.todo # {}
  BY SMTT(60) DEF Admit, At
<1>2. pass' = [Take(Admitted) EXCEPT !.all = IF Admitted THEN All ELSE @,
                                     !.mine = (@ \ Known) \cup {[user |-> jobs[Foremost].spec.user,
                                                                 usage |-> IF Admitted THEN Mine ELSE Usage]}]
  BY DEF Admit, Admitted, Known, Known1, Usage, Mine, All
<1>3. pass.mine \in SUBSET [user: Users, usage: Usages]
  BY DEF SchedTyped, Passes
<1>4. \A u \in Usages : mine(u) \in SUBSET [user: Users, usage: Usages]
  BY <1>1, <1>3, AdmitTypes
<1>5. ASSUME NEW p, p \in Passes, p.mine = pass.mine, NEW all \in Usages, NEW u \in Usages,
             pass' = [p EXCEPT !.all = all, !.mine = mine(u)]
      PROVE  /\ pass' \in Passes /\ pass'.step = p.step /\ pass'.todo = p.todo /\ pass'.kept = p.kept
             /\ pass'.used = p.used /\ pass'.starts = p.starts /\ pass'.live = p.live /\ pass'.all = all /\ pass'.mine = mine(u)
  <2>1. mine(u) \in SUBSET [user: Users, usage: Usages]
    BY <1>4
  <2> HIDE DEF mine
  <2> QED  BY <1>5, <2>1 DEF Passes
<1>6. CASE Admitted
  <2>1. pass' = [Take(TRUE) EXCEPT !.all = All, !.mine = mine(Mine)]
    <3>1. Take(TRUE).mine = pass.mine /\ Take(TRUE) \in Passes
      BY <1>1, TakeIs
    <3>2. pass' = [Take(TRUE) EXCEPT !.all = All,
                     !.mine = (@ \ Known) \cup {[user |-> jobs[Foremost].spec.user, usage |-> Mine]}]
      <4>1. Take(Admitted) = Take(TRUE)
        BY <1>6 DEF Take
      <4> HIDE DEF Admitted
      <4> QED  BY <1>2, <1>6, <4>1
    <3> QED  BY <3>1, <3>2 DEF Passes
  <2>2. /\ Take(TRUE) \in Passes /\ Take(TRUE).mine = pass.mine /\ Take(TRUE).step = pass.step
        /\ Take(TRUE).todo = pass.todo \ {Foremost} /\ Take(TRUE).kept = pass.kept \cup {Foremost}
        /\ Take(TRUE).used = pass.used /\ Take(TRUE).starts = pass.starts /\ Take(TRUE).live = pass.live
    BY <1>1, TakeIs
  <2> HIDE DEF mine
  <2>3. /\ pass' \in Passes /\ pass'.step = pass.step /\ pass'.todo = pass.todo \ {Foremost}
        /\ pass'.kept = pass.kept \cup {Foremost} /\ pass'.used = pass.used
        /\ pass'.starts = pass.starts /\ pass'.live = pass.live /\ pass'.all = All /\ pass'.mine = mine(Mine)
    <3>1. All \in Usages /\ Mine \in Usages
      BY <1>1, AdmitTypes
    <3> DEFINE taken == Take(TRUE)
    <3>2. taken \in Passes /\ taken.mine = pass.mine /\ pass' = [taken EXCEPT !.all = All, !.mine = mine(Mine)]
      BY <2>1, <2>2
    <3> HIDE DEF taken
    <3>3. /\ pass' \in Passes /\ pass'.step = taken.step /\ pass'.todo = taken.todo /\ pass'.kept = taken.kept
          /\ pass'.used = taken.used /\ pass'.starts = taken.starts /\ pass'.live = taken.live /\ pass'.all = All /\ pass'.mine = mine(Mine)
      BY <1>5, <3>1, <3>2
    <3> QED  BY <2>2, <3>3 DEF taken
  <2> QED  BY <1>1, <1>6, <2>3 DEF mine
<1>7. CASE ~Admitted
  <2>1. pass' = [Take(FALSE) EXCEPT !.all = pass.all, !.mine = mine(Usage)]
    <3>1. Take(FALSE).mine = pass.mine /\ Take(FALSE) \in Passes /\ Take(FALSE).all = pass.all
      BY <1>1, TakeIs
    <3>2. pass' = [Take(FALSE) EXCEPT !.all = @,
                     !.mine = (@ \ Known) \cup {[user |-> jobs[Foremost].spec.user, usage |-> Usage]}]
      <4>1. Take(Admitted) = Take(FALSE)
        BY <1>7 DEF Take
      <4> HIDE DEF Admitted
      <4> QED  BY <1>2, <1>7, <4>1
    <3> QED  BY <3>1, <3>2 DEF Passes
  <2>2. /\ Take(FALSE) \in Passes /\ Take(FALSE).mine = pass.mine /\ Take(FALSE).step = pass.step
        /\ Take(FALSE).todo = pass.todo \ {Foremost} /\ Take(FALSE).kept = pass.kept
        /\ Take(FALSE).used = pass.used /\ Take(FALSE).starts = pass.starts /\ Take(FALSE).live = pass.live
    BY <1>1, TakeIs
  <2> HIDE DEF mine
  <2>3. /\ pass' \in Passes /\ pass'.step = pass.step /\ pass'.todo = pass.todo \ {Foremost}
        /\ pass'.kept = pass.kept /\ pass'.used = pass.used
        /\ pass'.starts = pass.starts /\ pass'.live = pass.live /\ pass'.all = pass.all /\ pass'.mine = mine(Usage)
    BY <1>1, <1>5, <2>1, <2>2, AdmitTypes, ZenonT(60)
  <2> QED  BY <1>1, <1>7, <2>3 DEF mine
<1> QED  BY <1>6, <1>7, SMTT(60)

LEMMA PlaceGangIs ==
  \* The foremost gang is started, passed on or dropped.
  ASSUME SchedTyped, HandInv, PlaceGang
  PROVE  /\ pass' \in Passes /\ pass'.step = "gangs" /\ pass.step = "gangs"
         /\ pass.todo # {} /\ pass'.todo = pass.todo \ {Foremost} /\ pass'.starts = pass.starts
         /\ pass'.live = pass.live
         /\ \/ /\ ~Aggregated(jobs[Foremost].spec) /\ jobs' = jobs
               /\ pass'.used = pass.used /\ pass'.kept = pass.kept \cup {Foremost}
            \/ jobs' = jobs /\ pass'.used = pass.used /\ pass'.kept = pass.kept
            \/ /\ Aggregated(jobs[Foremost].spec) /\ pass'.kept = pass.kept
               /\ \E at \in SUBSET Fleet : \E shares \in UNION {[s -> Vectors] : s \in SUBSET Fleet} :
                    jobs' = Start(Foremost, at, shares)
               /\ \A n \in Fleet, k \in Kinds :
                    pass.used[n][k] <= pass'.used[n][k] \/ Cap[n][k] <= pass'.used[n][k]
         /\ promise' \in {promise, NoPromise}
<1> DEFINE spec == jobs[Foremost].spec
           placements == SolveAggregate(spec, pass.used, pass.up)
<1>1. pass.step = "gangs" /\ pass.todo # {}
  BY DEF PlaceGang, At
<1>2. spec \in Requests
  BY <1>1, HandedOut, RowsTyped
<1>3. pass.used \in [Fleet -> Vectors] /\ pass.up \in SUBSET Fleet
  BY DEF SchedTyped, Passes
<1>4. CASE ~Aggregated(spec) /\ pass' = Take(TRUE) /\ UNCHANGED <<jobs, promise>>
  <2>1. /\ pass' \in Passes /\ pass'.step = pass.step /\ pass'.todo = pass.todo \ {Foremost}
        /\ pass'.starts = pass.starts /\ pass'.live = pass.live /\ pass'.used = pass.used /\ pass'.kept = pass.kept \cup {Foremost}
    BY <1>1, <1>4, TakeIs
  <2> QED  BY <1>1, <1>4, <2>1
<1>5. CASE pass' = Take(FALSE) /\ UNCHANGED <<jobs, promise>>
  <2>1. /\ pass' \in Passes /\ pass'.step = pass.step /\ pass'.todo = pass.todo \ {Foremost}
        /\ pass'.starts = pass.starts /\ pass'.live = pass.live /\ pass'.used = pass.used /\ pass'.kept = pass.kept
    BY <1>1, <1>5, TakeIs
  <2> QED  BY <1>1, <1>5, <2>1
<1>6. ASSUME NEW p \in placements, Aggregated(spec), jobs' = Start(Foremost, p.nodes, p.shares),
             pass' = [Take(FALSE) EXCEPT
                        !.used = [n \in Fleet |-> IF n \in p.nodes THEN Plus(@[n], p.shares[n]) ELSE @[n]]],
             promise' = NoPromise
      PROVE  /\ pass' \in Passes /\ pass'.step = pass.step /\ pass'.todo = pass.todo \ {Foremost}
             /\ pass'.starts = pass.starts /\ pass'.live = pass.live /\ pass'.kept = pass.kept
             /\ p.nodes \in SUBSET Fleet /\ p.shares \in UNION {[s -> Vectors] : s \in SUBSET Fleet}
             /\ \A n \in Fleet, k \in Kinds :
                  pass.used[n][k] <= pass'.used[n][k] \/ Cap[n][k] <= pass'.used[n][k]
  <2>1. /\ p.nodes \in SUBSET Fleet /\ p.shares \in [p.nodes -> Vectors]
        /\ \A n \in p.nodes, k \in Kinds :
             p.shares[n][k] >= 0 \/ pass.used[n][k] + p.shares[n][k] = Cap[n][k]
    <3> DEFINE used == pass.used
               ups == pass.up
    <3>1. p \in SolveAggregate(spec, used, ups) /\ used \in [Fleet -> Vectors] /\ ups \in SUBSET Fleet
      BY <1>3
    <3> HIDE DEF used, ups, spec
    <3>2. /\ p.nodes \in SUBSET Fleet /\ p.shares \in [p.nodes -> Vectors]
          /\ \A n \in p.nodes, k \in Kinds :
               p.shares[n][k] >= 0 \/ used[n][k] + p.shares[n][k] = Cap[n][k]
      BY <1>2, <3>1, SolveTyped
    <3> QED  BY <3>2 DEF used
  <2>2. p.shares \in UNION {[s -> Vectors] : s \in SUBSET Fleet}
    BY <2>1
  <2> DEFINE used == [n \in Fleet |-> IF n \in p.nodes THEN Plus(pass.used[n], p.shares[n]) ELSE pass.used[n]]
  <2>3. /\ Take(FALSE) \in Passes /\ Take(FALSE).step = pass.step
        /\ Take(FALSE).todo = pass.todo \ {Foremost} /\ Take(FALSE).kept = pass.kept
        /\ Take(FALSE).starts = pass.starts /\ Take(FALSE).live = pass.live /\ Take(FALSE).used = pass.used
    BY <1>1, TakeIs
  <2>4. pass' = [Take(FALSE) EXCEPT !.used = used]
    BY <1>6, <2>3 DEF Passes
  <2>5. \A n \in Fleet : used[n] \in Vectors
    <3> SUFFICES ASSUME NEW n \in Fleet PROVE used[n] \in Vectors
      OBVIOUS
    <3>1. pass.used[n] \in Vectors
      BY <1>3
    <3>2. CASE n \in p.nodes
      <4>1. p.shares[n] \in Vectors
        BY <2>1, <3>2
      <4>2. used[n] = Plus(pass.used[n], p.shares[n])
        BY <3>2
      <4> HIDE DEF used
      <4> QED  BY <3>1, <4>1, <4>2 DEF Plus, Vectors
    <3>3. CASE n \notin p.nodes
      BY <3>1, <3>3
    <3> QED  BY <3>2, <3>3
  <2>6. used \in [Fleet -> Vectors]
    <3>1. used = [n \in Fleet |-> used[n]]
      OBVIOUS
    <3> HIDE DEF used
    <3> QED  BY <2>5, <3>1
  <2>7. ASSUME NEW n \in Fleet, NEW k \in Kinds
        PROVE  pass.used[n][k] <= used[n][k] \/ Cap[n][k] <= used[n][k]
    <3>1. pass.used[n][k] \in Int /\ Cap[n][k] \in Int
      BY <1>3, CapTyped DEF Vectors
    <3>2. CASE n \in p.nodes
      <4>1. p.shares[n][k] \in Int /\ (p.shares[n][k] >= 0 \/ pass.used[n][k] + p.shares[n][k] = Cap[n][k])
        BY <2>1, <3>2 DEF Vectors
      <4>2. used[n][k] = pass.used[n][k] + p.shares[n][k]
        BY <3>2 DEF Plus
      <4> HIDE DEF used
      <4> QED  BY <3>1, <4>1, <4>2
    <3>3. CASE n \notin p.nodes
      BY <3>1, <3>3
    <3> QED  BY <3>2, <3>3
  <2> HIDE DEF used
  <2>8. /\ pass' \in Passes /\ pass'.step = pass.step /\ pass'.todo = pass.todo \ {Foremost}
        /\ pass'.starts = pass.starts /\ pass'.live = pass.live /\ pass'.kept = pass.kept /\ pass'.used = used
    BY <2>3, <2>4, <2>6 DEF Passes
  <2> QED  BY <2>1, <2>2, <2>7, <2>8
<1>7. \/ ~Aggregated(spec) /\ pass' = Take(TRUE) /\ UNCHANGED <<jobs, promise>>
      \/ pass' = Take(FALSE) /\ UNCHANGED <<jobs, promise>>
      \/ \E p \in placements :
           /\ Aggregated(spec) /\ jobs' = Start(Foremost, p.nodes, p.shares) /\ promise' = NoPromise
           /\ pass' = [Take(FALSE) EXCEPT
                         !.used = [n \in Fleet |-> IF n \in p.nodes THEN Plus(@[n], p.shares[n]) ELSE @[n]]]
  BY DEF PlaceGang
<1>8. CASE \E p \in placements :
             /\ Aggregated(spec) /\ jobs' = Start(Foremost, p.nodes, p.shares) /\ promise' = NoPromise
             /\ pass' = [Take(FALSE) EXCEPT
                           !.used = [n \in Fleet |-> IF n \in p.nodes THEN Plus(@[n], p.shares[n]) ELSE @[n]]]
  <2>1. PICK p \in placements :
             /\ Aggregated(spec) /\ jobs' = Start(Foremost, p.nodes, p.shares) /\ promise' = NoPromise
             /\ pass' = [Take(FALSE) EXCEPT
                           !.used = [n \in Fleet |-> IF n \in p.nodes THEN Plus(@[n], p.shares[n]) ELSE @[n]]]
    BY <1>8
  <2> HIDE DEF placements
  <2>2. /\ pass' \in Passes /\ pass'.step = pass.step /\ pass'.todo = pass.todo \ {Foremost}
        /\ pass'.starts = pass.starts /\ pass'.live = pass.live /\ pass'.kept = pass.kept
        /\ p.nodes \in SUBSET Fleet /\ p.shares \in UNION {[s -> Vectors] : s \in SUBSET Fleet}
        /\ \A n \in Fleet, k \in Kinds :
             pass.used[n][k] <= pass'.used[n][k] \/ Cap[n][k] <= pass'.used[n][k]
    BY <1>6, <2>1
  <2> QED  BY <1>1, <2>1, <2>2
<1> QED  BY <1>4, <1>5, <1>7, <1>8

LEMMA EndsTyped ==
  ASSUME SchedTyped, NEW i \in DOMAIN jobs
  PROVE  Ends(jobs[i]) \in Nat
<1>1. jobs[i] \in Rows
  BY RowsTyped
<1>2. jobs[i].since \in Nat /\ jobs[i].spec \in Requests
  BY <1>1 DEF Rows
<1>3. jobs[i].spec.wall \in Nat
  BY <1>2 DEF Requests
<1> QED  BY <1>2, <1>3 DEF Ends

LEMMA OfferTyped ==
  \* What a job is offered is a machine and a time.
  ASSUME SchedTyped, HandInv, NEW spec, NEW o \in Offer(spec)
  PROVE  o \in Fleet \X Nat
<1> DEFINE live == [m \in Fleet |-> Live(m)]
           ups == pass.up
<1>1. pass.live \subseteq DOMAIN jobs
  BY DEF HandInv
<1>2. \A n \in Fleet : \A r \in live[n] : r.ends \in Nat
  BY <1>1, EndsTyped DEF Live
<1>3. o \in Reservation(spec, pass.used, pass.held, ups, live, now)
  BY DEF Offer
<1>4. ups \in SUBSET Fleet /\ now \in Nat
  BY DEF SchedTyped, Passes
<1> HIDE DEF live, ups
<1> QED  BY <1>2, <1>3, <1>4, ReservationTyped

LEMMA PlanJobIs ==
  \* The foremost job is decided upon and charged, or dropped.
  ASSUME SchedTyped, HandInv, PlanJob
  PROVE  /\ pass' \in Passes /\ pass'.step = "plan" /\ pass.step = "plan"
         /\ pass.todo # {} /\ pass'.todo = pass.todo \ {Foremost} /\ pass'.kept = pass.kept
         /\ pass'.live = pass.live
         /\ \/ pass'.used = pass.used /\ pass'.starts = pass.starts
            \/ \E n \in Fleet :
                 /\ pass'.used = [pass.used EXCEPT ![n] = Plus(pass.used[n], Charge(jobs[Foremost].spec))]
                 /\ pass'.starts = pass.starts \cup {<<Foremost, n>>}
                 /\ AtMost(Charge(jobs[Foremost].spec), Free(pass.used, n))
         /\ promise' \in [id: Nat, node: Fleet, at: Nat]
<1> DEFINE i == Foremost
           spec == jobs[i].spec
           room == PlaceFor(spec, pass.used, pass.held, pass.up, now)
           t == Take(FALSE)
<1>1. pass.step = "plan" /\ pass.todo # {}
  BY DEF PlanJob, At
<1>2. i \in Nat /\ spec \in Requests
  BY <1>1, HandedOut, RowsTyped
<1>3. Charge(spec) \in Amounts
  BY <1>2, ChargeTyped
<1>4. /\ pass.used \in [Fleet -> Vectors] /\ pass.starts \in SUBSET (Nat \X Fleet)
      /\ pass.held \in [Fleet -> Nat \cup {-1}]
  BY DEF SchedTyped, Passes
<1>5. /\ t \in Passes /\ t.step = "plan" /\ t.todo = pass.todo \ {Foremost} /\ t.kept = pass.kept
      /\ t.live = pass.live /\ t.used = pass.used /\ t.starts = pass.starts /\ t.held = pass.held
      /\ t.blocked = pass.blocked
  BY <1>1, TakeIs
<1>6. promise \in [id: Nat, node: Fleet, at: Nat] /\ NoPromise \in [id: Nat, node: Fleet, at: Nat]
  BY FirstNode DEF SchedTyped, NoPromise
<1>7. \/ pass' = t /\ UNCHANGED promise
      \/ \E n \in room :
           /\ pass' = [t EXCEPT !.used[n] = Plus(@, Charge(spec)), !.starts = @ \cup {<<i, n>>}]
           /\ promise' \in {promise, NoPromise}
      \/ pass' = [t EXCEPT !.blocked = ~backfill] /\ UNCHANGED promise
      \/ \E o \in Offer(spec) :
           /\ pass' = [t EXCEPT !.held[o[1]] = o[2]]
           /\ promise' \in {promise, [id |-> i, node |-> o[1], at |-> o[2]]}
  BY DEF PlanJob
<1> HIDE DEF t, spec, room, i
<1>8. CASE pass' = t /\ UNCHANGED promise
  BY <1>1, <1>5, <1>6, <1>8
<1>9. CASE pass' = [t EXCEPT !.blocked = ~backfill] /\ UNCHANGED promise
  <2>1. (~backfill) \in BOOLEAN
    OBVIOUS
  <2>2. pass' \in Passes
    BY <1>5, <1>9, <2>1 DEF Passes
  <2>3. /\ pass'.step = t.step /\ pass'.todo = t.todo /\ pass'.kept = t.kept
        /\ pass'.live = t.live /\ pass'.used = t.used /\ pass'.starts = t.starts
    BY <1>5, <1>9 DEF Passes
  <2> QED  BY <1>1, <1>5, <1>6, <1>9, <2>2, <2>3
<1>10. CASE \E n \in room :
           /\ pass' = [t EXCEPT !.used[n] = Plus(@, Charge(spec)), !.starts = @ \cup {<<i, n>>}]
           /\ promise' \in {promise, NoPromise}
  <2>1. PICK n \in room :
           /\ pass' = [t EXCEPT !.used[n] = Plus(@, Charge(spec)), !.starts = @ \cup {<<i, n>>}]
           /\ promise' \in {promise, NoPromise}
    BY <1>10
  <2>2. n \in Fleet /\ AtMost(Charge(spec), Free(pass.used, n))
    BY PlaceTyped DEF room
  <2> DEFINE used == [pass.used EXCEPT ![n] = Plus(pass.used[n], Charge(spec))]
             starts == pass.starts \cup {<<i, n>>}
  <2>3. pass' = [t EXCEPT !.used = used, !.starts = starts]
    BY <1>5, <2>1 DEF Passes
  <2>4. starts \in SUBSET (Nat \X Fleet)
    BY <1>2, <1>4, <2>2
  <2>5. Plus(pass.used[n], Charge(spec)) \in Vectors
    <3>1. pass.used[n] \in Vectors
      BY <1>4, <2>2
    <3> QED  BY <1>3, <3>1 DEF Plus, Vectors, Amounts
  <2>6. used \in [Fleet -> Vectors]
    BY <1>4, <2>2, <2>5
  <2> HIDE DEF used, starts
  <2>7. pass' \in Passes
    BY <1>5, <2>3, <2>4, <2>6 DEF Passes
  <2>8. /\ pass'.step = t.step /\ pass'.todo = t.todo /\ pass'.kept = t.kept
        /\ pass'.live = t.live /\ pass'.used = used /\ pass'.starts = starts
    BY <1>5, <2>3 DEF Passes
  <2>9. promise' \in [id: Nat, node: Fleet, at: Nat]
    BY <1>6, <2>1
  <2> QED  BY <1>1, <1>5, <2>2, <2>7, <2>8, <2>9 DEF used, starts, spec, i
<1>11. CASE \E o \in Offer(spec) :
           /\ pass' = [t EXCEPT !.held[o[1]] = o[2]]
           /\ promise' \in {promise, [id |-> i, node |-> o[1], at |-> o[2]]}
  <2>1. PICK o \in Offer(spec) :
           /\ pass' = [t EXCEPT !.held[o[1]] = o[2]]
           /\ promise' \in {promise, [id |-> i, node |-> o[1], at |-> o[2]]}
    BY <1>11
  <2>2. o[1] \in Fleet /\ o[2] \in Nat
    <3>1. o \in Fleet \X Nat
      BY OfferTyped
    <3> QED  BY <3>1
  <2> DEFINE held == [pass.held EXCEPT ![o[1]] = o[2]]
  <2>3. pass' = [t EXCEPT !.held = held]
    BY <1>5, <2>1 DEF Passes
  <2>4. held \in [Fleet -> Nat \cup {-1}]
    BY <1>4, <2>2
  <2> HIDE DEF held
  <2>5. pass' \in Passes
    BY <1>5, <2>3, <2>4 DEF Passes
  <2>6. /\ pass'.step = t.step /\ pass'.todo = t.todo /\ pass'.kept = t.kept
        /\ pass'.live = t.live /\ pass'.used = t.used /\ pass'.starts = t.starts
    BY <1>5, <2>3 DEF Passes
  <2>7. promise' \in [id: Nat, node: Fleet, at: Nat]
    BY <1>2, <1>6, <2>1, <2>2
  <2> QED  BY <1>1, <1>5, <2>5, <2>6, <2>7
<1> QED  BY <1>7, <1>8, <1>9, <1>10, <1>11

LEMMA CarryIs ==
  \* One decision is carried out.
  ASSUME SchedTyped, HandInv, Carry
  PROVE  /\ pass' \in Passes /\ pass'.step = "plan" /\ pass.step = "plan"
         /\ pass'.todo = pass.todo /\ pass'.kept = pass.kept /\ pass'.used = pass.used
         /\ pass'.live = pass.live
         /\ \E d \in pass.starts :
              /\ jobs' = Start(d[1], {d[2]}, <<>>) /\ pass'.starts = pass.starts \ {d}
              /\ d = <<d[1], d[2]>> /\ d[1] \in DOMAIN jobs /\ Waits(d[1]) /\ d[2] \in Fleet
<1>1. PICK d \in pass.starts :
        jobs' = Start(d[1], {d[2]}, <<>>) /\ pass' = [pass EXCEPT !.starts = pass.starts \ {d}]
  BY DEF Carry
<1>2. pass.step = "plan"
  BY DEF Carry, Over
<1>3. pass \in Passes
  BY DEF SchedTyped
<1>4. pass.starts \in SUBSET (Nat \X Fleet)
  BY <1>3 DEF Passes
<1>5. d = <<d[1], d[2]>> /\ d[2] \in Fleet
  BY <1>4
<1>6. d[1] \in Queue
  BY DEF HandInv, InHand, Going
<1> DEFINE starts == pass.starts \ {d}
<1>7. starts \in SUBSET (Nat \X Fleet)
  BY <1>4
<1> HIDE DEF starts
<1>8. pass' = [pass EXCEPT !.starts = starts]
  BY <1>1 DEF starts
<1>9. pass' \in Passes
  BY <1>3, <1>7, <1>8 DEF Passes
<1>10. /\ pass'.step = "plan" /\ pass'.todo = pass.todo /\ pass'.kept = pass.kept
       /\ pass'.used = pass.used /\ pass'.live = pass.live /\ pass'.starts = starts
  BY <1>2, <1>3, <1>8 DEF Passes
<1>11. d[1] \in DOMAIN jobs /\ Waits(d[1])
  BY <1>6 DEF Queue
<1> QED  BY <1>1, <1>2, <1>5, <1>9, <1>10, <1>11 DEF starts

LEMMA TypedStep ==
  \* Every step keeps the types.
  ASSUME SchedTyped, HandInv, Next
  PROVE  SchedTyped'
<1>0. /\ jobs \in Seq(Rows) /\ pass \in Passes /\ now \in Nat /\ up \in SUBSET Fleet /\ flips \in Nat
      /\ backfill \in BOOLEAN /\ promise \in [id: Nat, node: Fleet, at: Nat]
  BY DEF SchedTyped
<1> DEFINE Goal == SchedTyped'
<1>a. NoPromise \in [id: Nat, node: Fleet, at: Nat]
  BY FirstNode DEF NoPromise
<1>b. ASSUME jobs' \in Seq(Rows), pass' \in Passes, promise' \in [id: Nat, node: Fleet, at: Nat],
             UNCHANGED <<now, up, flips, backfill>>
      PROVE  Goal
  BY <1>0, <1>b DEF SchedTyped
<1> HIDE DEF Goal
<1>1. ASSUME NEW spec \in Specs, Submit(spec) PROVE Goal
  <2>1. UNCHANGED <<now, up, flips, pass, backfill, promise>>
    BY <1>1 DEF Submit
  <2> QED  BY <1>0, <1>1, <1>b, <2>1, SubmitIs
<1>2. ASSUME NEW i \in DOMAIN jobs, Cancel(i) PROVE Goal
  <2>1. jobs' = [jobs EXCEPT ![i].state = "CANCELLED"] /\ "CANCELLED" \in JobStates
        /\ UNCHANGED <<now, up, flips, pass, backfill, promise>>
    BY <1>2 DEF Cancel, JobStates
  <2> QED  BY <1>0, <1>2, <1>b, <2>1, StateSet
<1>3. ASSUME NEW i \in DOMAIN jobs, NEW s \in {"COMPLETED", "FAILED"}, End(i, s) PROVE Goal
  <2>1. jobs' = [jobs EXCEPT ![i].state = s] /\ s \in JobStates
        /\ UNCHANGED <<now, up, flips, pass, backfill, promise>>
    BY <1>3 DEF End, JobStates
  <2> QED  BY <1>0, <1>3, <1>b, <2>1, StateSet
<1>4. ASSUME NEW n \in Fleet, Flip(n) PROVE Goal
  <2>1. up' \in SUBSET Fleet /\ flips' \in Nat /\ promise' = NoPromise /\ UNCHANGED <<jobs, now, pass, backfill>>
    BY <1>0, <1>4 DEF Flip
  <2> QED  BY <1>0, <1>a, <2>1 DEF Goal, SchedTyped
<1>5. ASSUME Tick PROVE Goal
  <2>1. now' \in Nat /\ UNCHANGED <<jobs, up, flips, pass, backfill, promise>>
    BY <1>0, <1>5 DEF Tick
  <2> QED  BY <1>0, <2>1 DEF Goal, SchedTyped
<1>6. ASSUME PassStep PROVE Goal
  <2>1. UNCHANGED <<now, up, flips, backfill>>
    BY <1>6 DEF PassStep, Begin, CheckDependencies, BeginAdmission, Admit, BeginGangs, PlaceGang, BeginPlan,
                PlanJob, Carry, Done
  <2>2. CASE Begin
    BY <1>0, <1>b, <2>1, <2>2, BeginIs DEF Begin
  <2>3. CASE CheckDependencies
    <3>1. pass' \in Passes /\ (jobs' = jobs \/ jobs' = [jobs EXCEPT ![Foremost].state = "CANCELLED"])
          /\ promise' = promise /\ pass.todo # {}
      BY <2>3, CheckDependenciesIs DEF CheckDependencies
    <3>2. "CANCELLED" \in JobStates /\ Foremost \in DOMAIN jobs
      BY <3>1, HandedOut DEF JobStates
    <3>3. jobs' \in Seq(Rows)
      BY <1>0, <3>1, <3>2, StateSet
    <3> QED  BY <1>0, <1>b, <2>1, <3>1, <3>3
  <2>4. CASE BeginAdmission
    BY <1>0, <1>b, <2>1, <2>4, BeginAdmissionIs, SMTT(60) DEF BeginAdmission
  <2>5. CASE Admit
    BY <1>0, <1>b, <2>1, <2>5, AdmitIs DEF Admit
  <2>6. CASE BeginGangs
    BY <1>0, <1>b, <2>1, <2>6, BeginGangsIs DEF BeginGangs
  <2>7. CASE PlaceGang
    <3>1. pass' \in Passes /\ promise' \in {promise, NoPromise} /\ pass.todo # {}
          /\ \/ jobs' = jobs
             \/ \E at \in SUBSET Fleet : \E shares \in UNION {[s -> Vectors] : s \in SUBSET Fleet} :
                  jobs' = Start(Foremost, at, shares)
      BY <2>7, PlaceGangIs
    <3>2. Foremost \in DOMAIN jobs
      BY <3>1, HandedOut
    <3>3. jobs' \in Seq(Rows)
      BY <1>0, <3>1, <3>2, StartIs
    <3> QED  BY <1>0, <1>a, <1>b, <2>1, <3>1, <3>3
  <2>8. CASE BeginPlan
    <3>1. pass' \in Passes /\ promise' \in {promise, NoPromise} /\ jobs' = jobs
      BY <2>8, BeginPlanIs, SMTT(60) DEF BeginPlan
    <3> QED  BY <1>0, <1>a, <1>b, <2>1, <3>1
  <2>9. CASE PlanJob
    BY <1>0, <1>b, <2>1, <2>9, PlanJobIs DEF PlanJob
  <2>10. CASE Carry
    <3>1. PICK d \in pass.starts : /\ jobs' = Start(d[1], {d[2]}, <<>>) /\ d[1] \in DOMAIN jobs
                                   /\ d[2] \in Fleet /\ pass' \in Passes
      BY <2>10, CarryIs
    <3>2. {d[2]} \in SUBSET Fleet
      BY <3>1
    <3>3. jobs' \in Seq(Rows)
      BY <3>1, <3>2, NothingShared, StartIs
    <3> QED  BY <1>0, <1>b, <2>1, <2>10, <3>1, <3>3 DEF Carry
  <2>11. CASE Done
    BY <1>0, <1>b, <2>1, <2>11, IdleTyped DEF Done
  <2> QED  BY <1>6, <2>2, <2>3, <2>4, <2>5, <2>6, <2>7, <2>8, <2>9, <2>10, <2>11, SMTT(60) DEF PassStep
<1> QED  BY <1>1, <1>2, <1>3, <1>4, <1>5, <1>6 DEF Goal, Next

-----------------------------------------------------------------------------
(* What a pass has in its hands *)

LEMMA IdleHand ==
  \* Between passes there is nothing.
  ASSUME pass = Idle
  PROVE  /\ pass.step = "idle" /\ pass.todo = {} /\ pass.kept = {} /\ pass.starts = {} /\ pass.live = {}
         /\ InHand = {} /\ HandInv
<1>1. /\ pass.step = "idle" /\ pass.todo = {} /\ pass.kept = {} /\ pass.starts = {} /\ pass.live = {}
  BY DEF Idle
<1> QED  BY <1>1 DEF HandInv, InHand, Going

LEMMA HandStep ==
  \* Every step leaves a pass with waiting jobs, each of them in one place.
  ASSUME SchedTyped, HandInv, Next
  PROVE  HandInv'
<1> DEFINE Goal == HandInv'
<1>a. ASSUME pass' = Idle PROVE Goal
  <2>1. /\ pass'.step = "idle" /\ pass'.todo = {} /\ pass'.kept = {} /\ pass'.starts = {} /\ pass'.live = {}
    BY <1>a DEF Idle
  <2> QED  BY <1>a, <2>1 DEF HandInv, InHand, Going
<1> HIDE DEF Goal
<1>b. /\ pass.starts \in SUBSET (Nat \X Fleet) /\ pass.todo \in SUBSET Nat /\ pass.kept \in SUBSET Nat
  BY DEF SchedTyped, Passes
<1>c. /\ pass.todo \subseteq Queue /\ pass.kept \subseteq Queue /\ Going \subseteq Queue
      /\ pass.todo \cap pass.kept = {} /\ (pass.todo \cup pass.kept) \cap Going = {}
      /\ \A d, e \in pass.starts : d[1] = e[1] => d = e
      /\ pass.step # "plan" => pass.starts = {}
      /\ pass.step = "deps" => pass.mine = {}
      /\ pass.live \subseteq DOMAIN jobs
  BY DEF HandInv, InHand
<1>d. \* Steps of a pass that leave the decisions alone.
      ASSUME pass'.step # "idle", pass'.todo \cup pass'.kept \subseteq pass.todo \cup pass.kept,
             pass'.todo \cap pass'.kept = {},
             DOMAIN jobs' = DOMAIN jobs, \A i \in pass'.todo \cup pass'.kept \cup Going : jobs'[i].state = jobs[i].state,
             pass'.starts = pass.starts, pass'.live = pass.live \/ pass'.live \subseteq DOMAIN jobs,
             pass'.step # "plan" => pass.step # "plan", pass'.step = "deps" => pass'.mine = {}
      PROVE  Goal
  <2>1. Going' = Going
    BY <1>d DEF Going
  <2>2. InHand' \subseteq Queue'
    BY <1>c, <1>d, <2>1 DEF InHand, Queue, Waits
  <2>3. (pass'.todo \cup pass'.kept) \cap Going' = {}
    BY <1>c, <1>d, <2>1
  <2> QED  BY <1>c, <1>d, <2>2, <2>3 DEF Goal, HandInv
<1>1. ASSUME NEW spec \in Specs, Submit(spec) PROVE Goal
  BY <1>a, <1>1 DEF Submit
<1>2. ASSUME NEW i \in DOMAIN jobs, Cancel(i) PROVE Goal
  BY <1>a, <1>2 DEF Cancel
<1>3. ASSUME NEW i \in DOMAIN jobs, NEW s \in {"COMPLETED", "FAILED"}, End(i, s) PROVE Goal
  <2>1. pass' = pass /\ jobs' = [jobs EXCEPT ![i].state = s] /\ s \in JobStates /\ ~Waits(i)
    BY <1>3 DEF End, Running, JobStates, Waits
  <2>2. CASE pass.step = "idle"
    <3>1. pass' = Idle
      BY <2>1, <2>2 DEF HandInv
    <3> QED  BY <1>a, <3>1
  <2>3. CASE pass.step # "idle"
    <3>1. \A j \in Queue : j # i
      BY <2>1 DEF Queue
    <3>2. DOMAIN jobs' = DOMAIN jobs /\ \A j \in Queue : jobs'[j].state = jobs[j].state
      BY <2>1, <3>1, StateSet DEF SameJobs, Queue
    <3> QED  BY <1>c, <1>d, <2>1, <2>3, <3>2
  <2> QED  BY <2>2, <2>3
<1>4. ASSUME NEW n \in Fleet, Flip(n) PROVE Goal
  BY <1>a, <1>4 DEF Flip
<1>5. ASSUME Tick PROVE Goal
  BY <1>a, <1>5 DEF Tick
<1>6. ASSUME Begin PROVE Goal
  <2>1. /\ pass'.step = "deps" /\ pass'.todo = Queue /\ pass'.kept = {}
        /\ pass'.mine = {} /\ pass'.starts = {} /\ pass'.live = {} /\ jobs' = jobs
    BY <1>6, BeginIs DEF Begin
  <2>2. Queue' = Queue /\ Going' = {}
    BY <2>1 DEF Queue, Waits, Going
  <2> QED  BY <2>1, <2>2 DEF Goal, HandInv, InHand
<1>7. ASSUME CheckDependencies PROVE Goal
  <2>1. /\ pass'.step = "deps" /\ pass.step = "deps" /\ pass.todo # {} /\ pass'.todo = pass.todo \ {Foremost}
        /\ \/ pass'.kept = pass.kept \cup {Foremost} /\ jobs' = jobs
           \/ /\ pass'.kept = pass.kept
              /\ jobs' = jobs \/ jobs' = [jobs EXCEPT ![Foremost].state = "CANCELLED"]
        /\ pass'.mine = pass.mine /\ pass'.starts = pass.starts /\ pass'.live = pass.live
    BY <1>7, CheckDependenciesIs
  <2>2. /\ Foremost \in pass.todo /\ Foremost \in DOMAIN jobs /\ Foremost \notin pass.kept /\ Foremost \notin Going
        /\ "CANCELLED" \in JobStates
    BY <2>1, HandedOut DEF JobStates
  <2>3. CASE jobs' = jobs
    BY <1>c, <1>d, <2>1, <2>2, <2>3
  <2>4. CASE jobs' = [jobs EXCEPT ![Foremost].state = "CANCELLED"] /\ pass'.kept = pass.kept
    <3>1. DOMAIN jobs' = DOMAIN jobs /\ \A j \in DOMAIN jobs : j # Foremost => jobs'[j].state = jobs[j].state
      BY <2>2, <2>4, StateSet DEF SameJobs
    <3>2. \A j \in pass'.todo \cup pass'.kept \cup Going : j # Foremost /\ j \in DOMAIN jobs
      BY <1>c, <2>1, <2>2, <2>4 DEF Queue
    <3> QED  BY <1>c, <1>d, <2>1, <2>2, <2>4, <3>1, <3>2
  <2> QED  BY <2>1, <2>3, <2>4
<1>8. ASSUME BeginAdmission PROVE Goal
  <2>1. /\ pass'.step = "qos" /\ pass'.todo = pass.kept /\ pass'.kept = {}
        /\ pass'.starts = pass.starts /\ pass'.live = pass.live /\ jobs' = jobs /\ pass.step = "deps"
    BY <1>8, BeginAdmissionIs DEF BeginAdmission, Over
  <2> QED  BY <1>c, <1>d, <2>1
<1>9. ASSUME Admit PROVE Goal
  <2>1. /\ pass'.step = "qos" /\ pass.step = "qos" /\ pass.todo # {} /\ pass'.todo = pass.todo \ {Foremost}
        /\ pass'.kept = pass.kept \cup {Foremost} \/ pass'.kept = pass.kept
        /\ pass'.starts = pass.starts /\ pass'.live = pass.live /\ jobs' = jobs
    BY <1>9, AdmitIs DEF Admit
  <2>2. Foremost \in pass.todo
    BY <2>1, HandedOut
  <2> QED  BY <1>c, <1>d, <2>1, <2>2, SMTT(60)
<1>10. ASSUME BeginGangs PROVE Goal
  <2>1. /\ pass'.step = "gangs" /\ pass'.todo = pass.kept /\ pass'.kept = {}
        /\ pass'.starts = pass.starts /\ pass'.live = pass.live /\ jobs' = jobs /\ pass.step = "qos"
    BY <1>10, BeginGangsIs DEF BeginGangs, Over
  <2> QED  BY <1>c, <1>d, <2>1
<1>11. ASSUME PlaceGang PROVE Goal
  <2>1. /\ pass'.step = "gangs" /\ pass.step = "gangs" /\ pass.todo # {} /\ pass'.todo = pass.todo \ {Foremost}
        /\ pass'.starts = pass.starts /\ pass'.live = pass.live
        /\ \/ pass'.kept = pass.kept \cup {Foremost} /\ jobs' = jobs
           \/ pass'.kept = pass.kept /\ jobs' = jobs
           \/ /\ pass'.kept = pass.kept
              /\ \E at \in SUBSET Fleet : \E shares \in UNION {[s -> Vectors] : s \in SUBSET Fleet} :
                   jobs' = Start(Foremost, at, shares)
    BY <1>11, PlaceGangIs
  <2>2. Foremost \in pass.todo /\ Foremost \in DOMAIN jobs /\ Foremost \notin pass.kept /\ Foremost \notin Going
    BY <2>1, HandedOut
  <2>3. CASE jobs' = jobs
    BY <1>c, <1>d, <2>1, <2>2, <2>3
  <2>4. CASE /\ pass'.kept = pass.kept
             /\ \E at \in SUBSET Fleet : \E shares \in UNION {[s -> Vectors] : s \in SUBSET Fleet} :
                  jobs' = Start(Foremost, at, shares)
    <3>1. DOMAIN jobs' = DOMAIN jobs /\ \A j \in DOMAIN jobs : j # Foremost => jobs'[j].state = jobs[j].state
      BY <2>2, <2>4, StartIs DEF SameJobs
    <3>2. \A j \in pass'.todo \cup pass'.kept \cup Going : j # Foremost /\ j \in DOMAIN jobs
      BY <1>c, <2>1, <2>2, <2>4 DEF Queue
    <3> QED  BY <1>c, <1>d, <2>1, <2>2, <2>4, <3>1, <3>2
  <2> QED  BY <2>1, <2>3, <2>4
<1>12. ASSUME BeginPlan PROVE Goal
  <2>1. /\ pass'.step = "plan" /\ pass'.todo = pass.kept /\ pass'.kept = {}
        /\ pass'.starts = pass.starts /\ pass'.live \subseteq DOMAIN jobs /\ jobs' = jobs
    BY <1>12, BeginPlanIs DEF BeginPlan
  <2> QED  BY <1>c, <1>d, <2>1
<1>13. ASSUME PlanJob PROVE Goal
  <2>1. /\ pass'.step = "plan" /\ pass.step = "plan" /\ pass.todo # {} /\ pass'.todo = pass.todo \ {Foremost}
        /\ pass'.kept = pass.kept /\ pass'.live = pass.live /\ jobs' = jobs
        /\ pass'.starts = pass.starts \/ \E n \in Fleet : pass'.starts = pass.starts \cup {<<Foremost, n>>}
    BY <1>13, PlanJobIs DEF PlanJob
  <2>2. /\ Foremost \in pass.todo /\ Foremost \in Queue /\ Foremost \notin pass.kept /\ Foremost \notin Going
    BY <1>c, <2>1, HandedOut
  <2>3. CASE pass'.starts = pass.starts
    BY <1>c, <1>d, <2>1, <2>2, <2>3
  <2>4. CASE \E n \in Fleet : pass'.starts = pass.starts \cup {<<Foremost, n>>}
    <3>1. PICK n \in Fleet : pass'.starts = pass.starts \cup {<<Foremost, n>>}
      BY <2>4
    <3>2. \A d \in pass.starts : d[1] \in Going /\ d[1] # Foremost
      BY <2>2 DEF Going
    <3>3. Going' = Going \cup {Foremost}
      <4>1. <<Foremost, n>> \in pass'.starts /\ <<Foremost, n>>[1] = Foremost
        BY <3>1
      <4>2. Going' = {d[1] : d \in pass'.starts}
        BY DEF Going
      <4>3. Foremost \in Going' /\ Going \subseteq Going'
        BY <3>1, <4>1, <4>2 DEF Going
      <4>4. ASSUME NEW g \in Going' PROVE g \in Going \cup {Foremost}
        <5>1. PICK d \in pass'.starts : g = d[1]
          BY <4>2, <4>4
        <5> QED  BY <3>1, <4>1, <5>1 DEF Going
      <4> QED  BY <4>3, <4>4
    <3>4. Queue' = Queue
      BY <2>1 DEF Queue, Waits
    <3>5. \A d, e \in pass'.starts : d[1] = e[1] => d = e
      BY <1>c, <3>1, <3>2
    <3> QED  BY <1>c, <2>1, <2>2, <3>3, <3>4, <3>5 DEF Goal, HandInv, InHand
  <2> QED  BY <2>1, <2>3, <2>4, SMTT(60)
<1>14. ASSUME Carry PROVE Goal
  <2>1. /\ pass'.step = "plan" /\ pass'.todo = pass.todo /\ pass'.kept = pass.kept /\ pass'.live = pass.live
    BY <1>14, CarryIs
  <2>2. PICK d \in pass.starts :
          /\ jobs' = Start(d[1], {d[2]}, <<>>) /\ pass'.starts = pass.starts \ {d}
          /\ d[1] \in DOMAIN jobs /\ d[2] \in Fleet
    BY <1>14, CarryIs
  <2>3. {d[2]} \in SUBSET Fleet
    BY <2>2
  <2>4. DOMAIN jobs' = DOMAIN jobs /\ \A j \in DOMAIN jobs : j # d[1] => jobs'[j].state = jobs[j].state
    BY <2>2, <2>3, NothingShared, StartIs DEF SameJobs
  <2>5. Going' = Going \ {d[1]} /\ d[1] \in Going
    <3>1. \A e \in pass.starts : e # d => e[1] # d[1]
      BY <1>c
    <3> QED  BY <2>2, <3>1 DEF Going
  <2>6. Queue \ {d[1]} \subseteq Queue'
    BY <2>4 DEF Queue, Waits
  <2> QED  BY <1>c, <2>1, <2>2, <2>4, <2>5, <2>6 DEF Goal, HandInv, InHand
<1>15. ASSUME Done PROVE Goal
  BY <1>a, <1>15 DEF Done
<1> QED  BY <1>1, <1>2, <1>3, <1>4, <1>5, <1>6, <1>7, <1>8, <1>9, <1>10, <1>11, <1>12, <1>13, <1>14, <1>15
         DEF Next, PassStep, Goal

-----------------------------------------------------------------------------
(* Room *)

LEMMA BusyTyped ==
  \* The jobs of a machine are finitely many.
  ASSUME SchedTyped, NEW n \in Fleet, NEW k \in Kinds
  PROVE  /\ Busy(n) \in SUBSET DOMAIN jobs /\ IsFiniteSet(Busy(n))
         /\ \A i \in Busy(n) : jobs[i].spec \in Requests
         /\ Load(jobs, Busy(n), k) \in Nat /\ pass.used[n][k] \in Int /\ Cap[n][k] \in Nat
<1>1. Busy(n) \in SUBSET DOMAIN jobs
  BY DEF Busy
<1>2. IsFiniteSet(Busy(n)) /\ \A i \in Busy(n) : jobs[i].spec \in Requests
  BY <1>1, SomeTyped
<1>3. Load(jobs, Busy(n), k) \in Nat
  BY <1>2, LoadTyped
<1>4. pass.used[n][k] \in Int
  BY DEF SchedTyped, Passes, Vectors
<1> QED  BY <1>1, <1>2, <1>3, <1>4, CapTyped

LEMMA RoomKept ==
  \* No machine gets anything, and what is used is not lost sight of.
  ASSUME SchedTyped, SchedTyped', RoomInv, \A i \in DOMAIN jobs : jobs'[i].spec = jobs[i].spec,
         \A n \in Fleet : Busy(n)' \subseteq Busy(n),
         pass'.step # "idle" =>
           \A n \in Fleet, k \in Kinds : \/ Load(jobs, Busy(n), k) <= pass'.used[n][k]
                                        \/ Cap[n][k] <= pass'.used[n][k]
  PROVE  RoomInv'
<1> SUFFICES ASSUME NEW n \in Fleet, NEW k \in Kinds
             PROVE  /\ Load(jobs', Busy(n)', k) <= Cap[n][k]
                    /\ pass'.step # "idle" => Load(jobs', Busy(n)', k) <= pass'.used[n][k]
  BY DEF RoomInv, Load
<1>1. /\ IsFiniteSet(Busy(n)) /\ \A i \in Busy(n) : jobs[i].spec \in Requests
      /\ Load(jobs, Busy(n), k) \in Nat /\ Cap[n][k] \in Nat
  BY BusyTyped
<1>2. Busy(n)' \in SUBSET Busy(n) /\ \A i \in Busy(n)' : jobs'[i].spec = jobs[i].spec
  BY DEF Busy
<1>3. Load(jobs', Busy(n)', k) <= Load(jobs, Busy(n), k)
  <2> DEFINE ids == Busy(n)
             some == Busy(n)'
             ks == jobs'
  <2>1. /\ IsFiniteSet(ids) /\ \A i \in ids : jobs[i].spec \in Requests
        /\ some \in SUBSET ids /\ \A i \in some : ks[i].spec = jobs[i].spec
    BY <1>1, <1>2
  <2> HIDE DEF ids, some, ks
  <2>2. Load(ks, some, k) <= Load(jobs, ids, k)
    BY <2>1, LoadShrinks
  <2> QED  BY <2>2 DEF ids, some, ks
<1>4. Load(jobs, Busy(n), k) <= Cap[n][k]
  BY DEF RoomInv
<1>5. Load(jobs', Busy(n)', k) \in Nat /\ pass'.used[n][k] \in Int
  <2>1. Busy(n)' \in SUBSET DOMAIN jobs' /\ IsFiniteSet(Busy(n)')
    BY <1>1, <1>2, FS_Subset DEF Busy
  <2>2. \A i \in Busy(n)' : jobs'[i].spec \in Requests
    BY <1>1, <1>2
  <2> DEFINE some == Busy(n)'
             ks == jobs'
  <2>3. IsFiniteSet(some) /\ \A i \in some : ks[i].spec \in Requests
    BY <2>1, <2>2
  <2> HIDE DEF some, ks
  <2>4. Load(ks, some, k) \in Nat
    BY <2>3, LoadTyped
  <2>5. pass'.used \in [Fleet -> Vectors]
    BY DEF SchedTyped, Passes
  <2> QED  BY <2>4, <2>5 DEF some, ks, Vectors
<1> QED  BY <1>1, <1>3, <1>4, <1>5

LEMMA RoomStep ==
  \* Every step leaves each machine with no more than it has room for.
  ASSUME SchedTyped, SchedTyped', HandInv, RoomInv, Next
  PROVE  RoomInv'
<1> DEFINE Goal == RoomInv'
           Kept == pass'.step # "idle" =>
                     \A n \in Fleet, k \in Kinds : \/ Load(jobs, Busy(n), k) <= pass'.used[n][k]
                                                  \/ Cap[n][k] <= pass'.used[n][k]
           Same == \A i \in DOMAIN jobs : jobs'[i].spec = jobs[i].spec
           Fewer == \A n \in Fleet : Busy(n)' \subseteq Busy(n)
<1>a. ASSUME Same, Fewer, Kept PROVE Goal
  BY <1>a, RoomKept
<1>b. ASSUME pass.step # "idle" \/ pass'.step = "idle", pass'.used = pass.used PROVE Kept
  BY <1>b DEF RoomInv
<1>c. ASSUME jobs' = jobs, pass'.starts \subseteq pass.starts PROVE Same /\ Fewer
  BY <1>c DEF Busy, On, Running
<1>d. ASSUME NEW i \in DOMAIN jobs, NEW s \in JobStates, s # "RUNNING", jobs' = [jobs EXCEPT ![i].state = s],
             pass'.starts = pass.starts
      PROVE  Same /\ Fewer
  <2>1. /\ DOMAIN jobs' = DOMAIN jobs /\ jobs'[i].state # "RUNNING"
        /\ \A j \in DOMAIN jobs : jobs'[j].spec = jobs[j].spec /\ jobs'[j].at = jobs[j].at
        /\ \A j \in DOMAIN jobs : j # i => jobs'[j].state = jobs[j].state
    <3> HIDE DEF Goal, Kept, Same, Fewer
    <3>1. /\ SameJobs(jobs', jobs) /\ jobs'[i].state = s
          /\ \A j \in DOMAIN jobs : jobs'[j].at = jobs[j].at
          /\ \A j \in DOMAIN jobs : j # i => jobs'[j].state = jobs[j].state
      BY <1>d, StateSet
    <3> QED  BY <1>d, <3>1 DEF SameJobs
  <2> QED  BY <1>d, <2>1 DEF Busy, On, Running
<1> HIDE DEF Goal, Kept, Same, Fewer
<1>1. ASSUME NEW spec \in Specs, Submit(spec) PROVE Goal
  <2>1. /\ DOMAIN jobs' = DOMAIN jobs \cup {Len(jobs) + 1} /\ Len(jobs) + 1 \notin DOMAIN jobs
        /\ \A j \in DOMAIN jobs : jobs'[j] = jobs[j]
        /\ jobs'[Len(jobs) + 1].state # "RUNNING"
    BY <1>1, SubmitIs
  <2>2. pass = Idle /\ pass' = pass
    BY <1>1 DEF Submit
  <2>3. pass.starts = {} /\ pass'.starts = {} /\ pass'.step = "idle"
    BY <2>2, IdleHand
  <2>4. Same /\ Fewer
    BY <2>1, <2>3 DEF Same, Fewer, Busy, On, Running
  <2> QED  BY <1>a, <1>b, <2>2, <2>3, <2>4
<1>2. ASSUME NEW i \in DOMAIN jobs, Cancel(i) PROVE Goal
  <2>1. jobs' = [jobs EXCEPT ![i].state = "CANCELLED"] /\ "CANCELLED" \in JobStates /\ pass' = pass
    BY <1>2 DEF Cancel, JobStates
  <2>2. Same /\ Fewer
    BY <1>d, <2>1
  <2> QED  BY <1>a, <1>b, <2>1, <2>2
<1>3. ASSUME NEW i \in DOMAIN jobs, NEW s \in {"COMPLETED", "FAILED"}, End(i, s) PROVE Goal
  <2>1. jobs' = [jobs EXCEPT ![i].state = s] /\ s \in JobStates /\ s # "RUNNING" /\ pass' = pass
    BY <1>3 DEF End, JobStates
  <2>2. Same /\ Fewer
    BY <1>d, <2>1
  <2> QED  BY <1>a, <1>b, <2>1, <2>2
<1>4. ASSUME NEW n \in Fleet, Flip(n) PROVE Goal
  BY <1>4, <1>a, <1>b, <1>c DEF Flip
<1>5. ASSUME Tick PROVE Goal
  BY <1>5, <1>a, <1>b, <1>c DEF Tick
<1>6. ASSUME Begin PROVE Goal
  <2>1. pass'.used = Used /\ pass'.starts = {} /\ jobs' = jobs /\ pass = Idle
    BY <1>6, BeginIs DEF Begin
  <2>2. Same /\ Fewer
    BY <1>c, <2>1
  <2>3. ASSUME NEW n \in Fleet, NEW k \in Kinds PROVE Load(jobs, Busy(n), k) <= pass'.used[n][k]
    <3>1. pass.starts = {}
      BY <2>1, IdleHand
    <3>2. Busy(n) \in SUBSET On(n) /\ On(n) \in SUBSET DOMAIN jobs
      BY <3>1 DEF Busy, On, Running
    <3>3. IsFiniteSet(On(n)) /\ \A i \in On(n) : jobs[i].spec \in Requests
      BY <3>2, SomeTyped
    <3>4. Load(jobs, Busy(n), k) <= Load(jobs, On(n), k)
      BY <3>2, <3>3, LoadShrinks
    <3>5. Used[n][k] = Load(jobs, On(n), k)
      BY DEF Used, Load
    <3> QED  BY <2>1, <3>4, <3>5
  <2> QED  BY <1>a, <2>2, <2>3 DEF Kept
<1>7. ASSUME CheckDependencies PROVE Goal
  <2>1. /\ pass.step = "deps" /\ pass.todo # {} /\ pass'.used = pass.used /\ pass'.starts = pass.starts
        /\ jobs' = jobs \/ jobs' = [jobs EXCEPT ![Foremost].state = "CANCELLED"]
    BY <1>7, CheckDependenciesIs
  <2>2. Foremost \in DOMAIN jobs /\ "CANCELLED" \in JobStates
    BY <2>1, HandedOut DEF JobStates
  <2>3. Same /\ Fewer
    BY <1>c, <1>d, <2>1, <2>2
  <2> QED  BY <1>a, <1>b, <2>1, <2>3
<1>8. ASSUME BeginAdmission PROVE Goal
  <2>1. pass.step = "deps" /\ pass'.used = pass.used /\ pass'.starts = pass.starts /\ jobs' = jobs
    BY <1>8, BeginAdmissionIs DEF BeginAdmission, Over
  <2> QED  BY <1>a, <1>b, <1>c, <2>1
<1>9. ASSUME Admit PROVE Goal
  <2>1. pass.step = "qos" /\ pass'.used = pass.used /\ pass'.starts = pass.starts /\ jobs' = jobs
    BY <1>9, AdmitIs DEF Admit
  <2> QED  BY <1>a, <1>b, <1>c, <2>1, SMTT(60)
<1>10. ASSUME BeginGangs PROVE Goal
  <2>1. pass.step = "qos" /\ pass'.used = pass.used /\ pass'.starts = pass.starts /\ jobs' = jobs
    BY <1>10, BeginGangsIs DEF BeginGangs, Over
  <2> QED  BY <1>a, <1>b, <1>c, <2>1
<1>11. ASSUME PlaceGang PROVE Goal
  <2>1. /\ pass.step = "gangs" /\ pass.todo # {} /\ pass'.starts = pass.starts
        /\ \/ jobs' = jobs /\ pass'.used = pass.used
           \/ /\ Aggregated(jobs[Foremost].spec)
              /\ \E at \in SUBSET Fleet : \E shares \in UNION {[s -> Vectors] : s \in SUBSET Fleet} :
                    jobs' = Start(Foremost, at, shares)
              /\ \A n \in Fleet, k \in Kinds :
                    pass.used[n][k] <= pass'.used[n][k] \/ Cap[n][k] <= pass'.used[n][k]
    BY <1>11, PlaceGangIs
  <2>2. Foremost \in DOMAIN jobs
    BY <2>1, HandedOut
  <2>3. CASE jobs' = jobs /\ pass'.used = pass.used
    BY <1>a, <1>b, <1>c, <2>1, <2>3
  <2>4. CASE /\ Aggregated(jobs[Foremost].spec)
             /\ \E at \in SUBSET Fleet : \E shares \in UNION {[s -> Vectors] : s \in SUBSET Fleet} :
                   jobs' = Start(Foremost, at, shares)
             /\ \A n \in Fleet, k \in Kinds :
                   pass.used[n][k] <= pass'.used[n][k] \/ Cap[n][k] <= pass'.used[n][k]
    <3>1. /\ DOMAIN jobs' = DOMAIN jobs
          /\ \A j \in DOMAIN jobs : jobs'[j].spec = jobs[j].spec
          /\ \A j \in DOMAIN jobs : j # Foremost => jobs'[j].at = jobs[j].at /\ jobs'[j].state = jobs[j].state
      BY <2>2, <2>4, StartIs DEF SameJobs
    <3>2. Same
      BY <3>1 DEF Same
    <3>3. ASSUME NEW n \in Fleet, NEW j \in Busy(n)' PROVE j \in Busy(n)
      <4>1. j \in DOMAIN jobs /\ jobs'[j].spec = jobs[j].spec
        BY <3>1 DEF Busy
      <4>2. CASE j = Foremost
        <5>1. <<j, n>> \in pass.starts
          BY <2>1, <2>4, <3>1, <4>2 DEF Busy, Aggregated
        <5> QED  BY <4>1, <5>1 DEF Busy
      <4>3. CASE j # Foremost
        BY <2>1, <3>1, <4>1, <4>3 DEF Busy, On, Running, Aggregated
      <4> QED  BY <4>2, <4>3
    <3>4. Fewer
      BY <3>3 DEF Fewer
    <3>5. ASSUME NEW n \in Fleet, NEW k \in Kinds
          PROVE  Load(jobs, Busy(n), k) <= pass'.used[n][k] \/ Cap[n][k] <= pass'.used[n][k]
      <4>1. Load(jobs, Busy(n), k) <= pass.used[n][k]
        BY <2>1 DEF RoomInv
      <4>2. pass.used[n][k] <= pass'.used[n][k] \/ Cap[n][k] <= pass'.used[n][k]
        BY <2>4
      <4>3. pass'.used \in [Fleet -> Vectors]
        BY DEF SchedTyped, Passes
      <4>4. pass'.used[n][k] \in Int
        BY <4>3 DEF Vectors
      <4> QED  BY <4>1, <4>2, <4>4, BusyTyped
    <3> QED  BY <1>a, <3>2, <3>4, <3>5 DEF Kept
  <2> QED  BY <2>1, <2>3, <2>4
<1>12. ASSUME BeginPlan PROVE Goal
  <2>1. pass.step = "gangs" /\ pass'.used = pass.used /\ pass'.starts = pass.starts /\ jobs' = jobs
    BY <1>12, BeginPlanIs DEF BeginPlan, Over
  <2> QED  BY <1>a, <1>b, <1>c, <2>1
<1>13. ASSUME PlanJob PROVE Goal
  <2>1. /\ pass.step = "plan" /\ pass.todo # {} /\ jobs' = jobs
        /\ \/ pass'.used = pass.used /\ pass'.starts = pass.starts
           \/ \E n \in Fleet :
                /\ pass'.used = [pass.used EXCEPT ![n] = Plus(pass.used[n], Charge(jobs[Foremost].spec))]
                /\ pass'.starts = pass.starts \cup {<<Foremost, n>>}
                /\ AtMost(Charge(jobs[Foremost].spec), Free(pass.used, n))
    BY <1>13, PlanJobIs DEF PlanJob
  <2>2. CASE pass'.used = pass.used /\ pass'.starts = pass.starts
    BY <1>a, <1>b, <1>c, <2>1, <2>2
  <2>3. CASE \E n \in Fleet :
               /\ pass'.used = [pass.used EXCEPT ![n] = Plus(pass.used[n], Charge(jobs[Foremost].spec))]
               /\ pass'.starts = pass.starts \cup {<<Foremost, n>>}
               /\ AtMost(Charge(jobs[Foremost].spec), Free(pass.used, n))
    <3>1. PICK n \in Fleet :
               /\ pass'.used = [pass.used EXCEPT ![n] = Plus(pass.used[n], Charge(jobs[Foremost].spec))]
               /\ pass'.starts = pass.starts \cup {<<Foremost, n>>}
               /\ AtMost(Charge(jobs[Foremost].spec), Free(pass.used, n))
      BY <2>3
    <3>2. /\ Foremost \in DOMAIN jobs /\ Foremost \notin Going /\ Waits(Foremost)
          /\ jobs[Foremost].spec \in Requests
      BY <2>1, HandedOut, RowsTyped
    <3>3. \A m \in Fleet : Foremost \notin Busy(m)
      <4>1. \A m \in Fleet : <<Foremost, m>> \notin pass.starts
        <5>1. \A d \in pass.starts : d[1] # Foremost
          BY <3>2 DEF Going
        <5>2. \A m \in Fleet : <<Foremost, m>>[1] = Foremost
          OBVIOUS
        <5> QED  BY <5>1, <5>2
      <4> QED  BY <3>2, <4>1 DEF Busy, On, Running, Waits
    <3>4. pass.used \in [Fleet -> Vectors]
      BY DEF SchedTyped, Passes
    <3>5. ASSUME NEW m \in Fleet, NEW k \in Kinds
          PROVE  Load(jobs', Busy(m)', k) <= Cap[m][k] /\ Load(jobs', Busy(m)', k) <= pass'.used[m][k]
      <4>1. Load(jobs, Busy(m), k) <= Cap[m][k] /\ Load(jobs, Busy(m), k) <= pass.used[m][k]
        BY <2>1 DEF RoomInv
      <4>2. CASE m = n
        <5>1. Busy(m)' = Busy(m) \cup {Foremost}
          BY <2>1, <3>1, <3>2, <4>2 DEF Busy, On, Running
        <5>2. IsFiniteSet(Busy(m)) /\ \A j \in Busy(m) \cup {Foremost} : jobs[j].spec \in Requests
          BY <3>2, BusyTyped
        <5>3. Load(jobs, Busy(m) \cup {Foremost}, k) = Load(jobs, Busy(m), k) + Charge(jobs[Foremost].spec)[k]
          BY <3>3, <5>2, LoadAdds
        <5>4. Load(jobs', Busy(m)', k) = Load(jobs, Busy(m), k) + Charge(jobs[Foremost].spec)[k]
          BY <2>1, <5>1, <5>3
        <5>5. pass'.used[m][k] = pass.used[m][k] + Charge(jobs[Foremost].spec)[k]
          BY <3>1, <3>4, <4>2 DEF Plus
        <5>6. Charge(jobs[Foremost].spec)[k] <= Cap[m][k] - pass.used[m][k]
          BY <3>1, <4>2 DEF AtMost, Free, Minus
        <5>7. Charge(jobs[Foremost].spec)[k] \in Nat
          BY <3>2, ChargeTyped DEF Amounts
        <5> QED  BY <4>1, <5>4, <5>5, <5>6, <5>7, BusyTyped
      <4>3. CASE m # n
        <5>1. Busy(m)' = Busy(m)
          BY <2>1, <3>1, <4>3 DEF Busy, On, Running
        <5>2. pass'.used[m] = pass.used[m]
          BY <3>1, <3>4, <4>3
        <5> QED  BY <2>1, <4>1, <5>1, <5>2
      <4> QED  BY <4>2, <4>3
    <3> QED  BY <3>5 DEF Goal, RoomInv, Load
  <2> QED  BY <2>1, <2>2, <2>3, SMTT(60)
<1>14. ASSUME Carry PROVE Goal
  <2>1. pass.step = "plan" /\ pass'.used = pass.used
    BY <1>14, CarryIs
  <2>2. PICK d \in pass.starts :
          /\ jobs' = Start(d[1], {d[2]}, <<>>) /\ pass'.starts = pass.starts \ {d}
          /\ d = <<d[1], d[2]>> /\ d[1] \in DOMAIN jobs /\ d[2] \in Fleet
    BY <1>14, CarryIs
  <2>3. {d[2]} \in SUBSET Fleet
    BY <2>2
  <2>4. /\ DOMAIN jobs' = DOMAIN jobs /\ jobs'[d[1]].at = {d[2]}
        /\ \A j \in DOMAIN jobs : jobs'[j].spec = jobs[j].spec
        /\ \A j \in DOMAIN jobs : j # d[1] => jobs'[j].at = jobs[j].at /\ jobs'[j].state = jobs[j].state
    BY <2>2, <2>3, NothingShared, StartIs DEF SameJobs
  <2>5. Same
    BY <2>4 DEF Same
  <2>6. ASSUME NEW n \in Fleet, NEW j \in Busy(n)' PROVE j \in Busy(n)
    <3>1. j \in DOMAIN jobs /\ jobs'[j].spec = jobs[j].spec
      BY <2>4 DEF Busy
    <3>2. CASE <<j, n>> \in pass'.starts
      BY <2>2, <3>1, <3>2 DEF Busy
    <3>3. CASE <<j, n>> \notin pass'.starts
      <4>1. jobs'[j].state = "RUNNING" /\ jobs'[j].at = {n} /\ ~Aggregated(jobs[j].spec)
        BY <3>1, <3>3 DEF Busy, On, Running, Aggregated
      <4>2. CASE j = d[1]
        <5>1. n = d[2]
          BY <2>4, <4>1, <4>2
        <5> QED  BY <2>2, <3>1, <4>2, <5>1 DEF Busy
      <4>3. CASE j # d[1]
        BY <2>4, <3>1, <4>1, <4>3 DEF Busy, On, Running
      <4> QED  BY <4>2, <4>3
    <3> QED  BY <3>2, <3>3
  <2>7. Fewer
    BY <2>6 DEF Fewer
  <2> QED  BY <1>a, <1>b, <2>1, <2>5, <2>7
<1>15. ASSUME Done PROVE Goal
  <2>1. pass'.step = "idle" /\ pass'.starts = {} /\ jobs' = jobs
    BY <1>15 DEF Done, Idle
  <2> QED  BY <1>a, <1>c, <2>1 DEF Kept
<1> QED  BY <1>1, <1>2, <1>3, <1>4, <1>5, <1>6, <1>7, <1>8, <1>9, <1>10, <1>11, <1>12, <1>13, <1>14, <1>15
         DEF Next, PassStep, Goal

-----------------------------------------------------------------------------
(* Limits *)

LEMMA CountedIs ==
  \* The jobs that count as running are finitely many.
  ASSUME SchedTyped, HandInv
  PROVE  /\ pass.step \in {"idle", "deps"} => Counted = Running
         /\ pass.step = "qos" => Counted = Running \cup pass.kept
         /\ pass.step \in {"gangs", "plan"} => Counted = Running \cup InHand
         /\ Counted \in SUBSET DOMAIN jobs /\ IsFiniteSet(Counted)
         /\ \A i \in Counted : jobs[i].spec \in Requests
         /\ pass.step \in Steps
<1>1. pass.step \in Steps
  BY DEF SchedTyped, Passes
<1>2. /\ pass.step \in {"idle", "deps"} => Counted = Running
      /\ pass.step = "qos" => Counted = Running \cup pass.kept
      /\ pass.step \in {"gangs", "plan"} => Counted = Running \cup InHand
  BY DEF Counted
<1>3. Running \subseteq DOMAIN jobs /\ InHand \subseteq DOMAIN jobs /\ pass.kept \subseteq InHand
  BY DEF Running, HandInv, Queue, InHand
<1>4. Counted \in SUBSET DOMAIN jobs
  BY <1>1, <1>2, <1>3 DEF Steps
<1>5. IsFiniteSet(Counted) /\ \A i \in Counted : jobs[i].spec \in Requests
  BY <1>4, SomeTyped
<1> QED  BY <1>1, <1>2, <1>4, <1>5

LEMMA WithinKept ==
  \* Fewer jobs count.
  ASSUME SchedTyped, HandInv, LimitsInv,
         \A i \in DOMAIN jobs : jobs'[i].spec = jobs[i].spec, Counted' \subseteq Counted
  PROVE  /\ Within(jobs', Counted')
         /\ \A a \in Usages : Covers(a, UsageIn(jobs, Counted)) => Covers(a, UsageIn(jobs', Counted'))
         /\ \A a \in Usages, u \in Users :
              Covers(a, UsageIn(jobs, By(jobs, Counted, u))) => Covers(a, UsageIn(jobs', By(jobs', Counted', u)))
<1> DEFINE ids == Counted
           some == Counted'
           ks == jobs'
<1>1. /\ ids \in SUBSET DOMAIN jobs /\ IsFiniteSet(ids) /\ \A i \in ids : jobs[i].spec \in Requests
      /\ some \in SUBSET ids /\ \A i \in some : ks[i].spec = jobs[i].spec
  BY CountedIs
<1>2. Within(jobs, ids)
  BY DEF LimitsInv
<1> HIDE DEF ids, some, ks
<1>3. Within(ks, some)
  BY <1>1, <1>2, WithinShrinks
<1>4. IsFiniteSet(some) /\ \A i \in some : ks[i].spec \in Requests
  BY <1>1, FS_Subset
<1>5. UsageIn(jobs, ids) \in Usages /\ UsageIn(ks, some) \in Usages
  BY <1>1, <1>4, UsageTyped
<1>6. \A a \in Usages : Covers(a, UsageIn(jobs, ids)) => Covers(a, UsageIn(ks, some))
  BY <1>1, <1>5, UsageShrinks, CoversOnce
<1>7. ASSUME NEW a \in Usages, NEW u \in Users, Covers(a, UsageIn(jobs, By(jobs, ids, u)))
      PROVE  Covers(a, UsageIn(ks, By(ks, some, u)))
  <2>1. By(ks, some, u) \subseteq By(jobs, ids, u) /\ By(jobs, ids, u) \subseteq ids /\ By(ks, some, u) \subseteq some
    BY <1>1 DEF By
  <2>2. IsFiniteSet(By(jobs, ids, u)) /\ IsFiniteSet(By(ks, some, u))
    BY <1>1, <1>4, <2>1, FS_Subset
  <2>3. UsageIn(jobs, By(jobs, ids, u)) \in Usages /\ UsageIn(ks, By(ks, some, u)) \in Usages
    BY <1>1, <1>4, <2>1, <2>2, UsageTyped
  <2>4. Covers(UsageIn(jobs, By(jobs, ids, u)), UsageIn(ks, By(ks, some, u)))
    BY <1>1, <2>1, <2>2, UsageShrinks
  <2> QED  BY <1>7, <2>3, <2>4, CoversOnce
<1> QED  BY <1>3, <1>6, <1>7 DEF ids, some, ks

LEMMA AdmitKeeps ==
  \* What is admitted is counted with what is known of its account, and in all.
  ASSUME SchedTyped, HandInv, HandInv', SchedTyped', LimitsInv, Admit
  PROVE  LimitsInv'
<1> DEFINE i == Foremost
           spec == jobs[i].spec
           u == spec.user
           C == Counted
           Theirs(v) == UsageIn(jobs, By(jobs, C, v))
           WithIt(v) == UsageIn(jobs, By(jobs, C \cup {i}, v))
<1>1. /\ pass.step = "qos" /\ pass'.step = "qos" /\ pass.todo # {} /\ jobs' = jobs
      /\ \/ /\ Admitted
            /\ pass'.kept = pass.kept \cup {i} /\ pass'.all = All
            /\ pass'.mine = (pass.mine \ Known) \cup {[user |-> u, usage |-> Mine]}
         \/ /\ ~Admitted
            /\ pass'.kept = pass.kept /\ pass'.all = pass.all
            /\ pass'.mine = (pass.mine \ Known) \cup {[user |-> u, usage |-> Usage]}
  BY AdmitIs DEF Admit
<1>2. /\ i \in DOMAIN jobs /\ Waits(i) /\ i \notin pass.kept
  BY <1>1, HandedOut
<1>3. /\ Usage \in Usages /\ Mine \in Usages /\ All \in Usages /\ pass.all \in Usages
      /\ spec \in Requests /\ u \in Users
      /\ Known # {} => Known1 \in pass.mine /\ Known1.user = u
  BY <1>1, AdmitTypes
<1>4. C = Running \cup pass.kept /\ IsFiniteSet(C) /\ \A j \in C : jobs[j].spec \in Requests
  BY <1>1, CountedIs
<1>5. i \notin C
  BY <1>2, <1>4 DEF Running, Waits
<1>6. /\ Within(jobs, C) /\ Covers(pass.all, UsageIn(jobs, C))
      /\ \A m \in pass.mine : Covers(m.usage, Theirs(m.user))
      /\ \A j \in pass.kept : \E m \in pass.mine : m.user = jobs[j].spec.user
  BY <1>1 DEF LimitsInv
<1>7. pass.mine \in SUBSET [user: Users, usage: Usages]
  BY DEF SchedTyped, Passes
<1>8. Counted' = IF Admitted THEN C \cup {i} ELSE C
  <2>1. Counted' = Running \cup pass'.kept
    <3>1. Counted' = Running' \cup pass'.kept
      BY <1>1 DEF Counted
    <3> QED  BY <1>1, <3>1 DEF Running
  <2> QED  BY <1>1, <1>4, <2>1
<1> HIDE DEF C, u, spec, i
<1>9. \A v \in Users : Theirs(v) \in Usages /\ WithIt(v) \in Usages
  <2>1. IsFiniteSet(C \cup {i}) /\ \A j \in C \cup {i} : jobs[j].spec \in Requests
    BY <1>3, <1>4, FS_AddElement DEF spec
  <2>2. \A v : By(jobs, C, v) \subseteq C \cup {i} /\ By(jobs, C \cup {i}, v) \subseteq C \cup {i}
    BY DEF By
  <2>3. \A v : IsFiniteSet(By(jobs, C, v)) /\ IsFiniteSet(By(jobs, C \cup {i}, v))
    BY <2>1, <2>2, FS_Subset
  <2> QED  BY <2>1, <2>2, <2>3, UsageTyped
<1>10. UsageIn(jobs, C) \in Usages /\ Covers(All, UsageIn(jobs, C \cup {i})) /\ UsageIn(jobs, C \cup {i}) \in Usages
  <2>1. UsageIn(jobs, C) \in Usages
    BY <1>4, UsageTyped
  <2>2. UsageIn(jobs, C \cup {i}) = Adding(UsageIn(jobs, C), spec)
    <3>1. \A j \in C \cup {i} : jobs[j].spec \in Requests
      BY <1>3, <1>4 DEF spec
    <3> QED  BY <1>4, <1>5, <3>1, UsageAdds DEF spec
  <2>3. All = Adding(pass.all, spec)
    BY DEF All, spec, i
  <2> QED  BY <1>3, <1>6, <2>1, <2>2, <2>3, AddingCovers
<1>11. Covers(Usage, Theirs(u))
  <2>1. CASE Known = {}
    <3>1. \A j \in pass.kept : jobs[j].spec.user # u
      BY <1>6, <2>1 DEF Known, u, spec, i
    <3>2. By(jobs, C, u) = Running \cap Of(u)
      BY <1>4, <3>1 DEF By, Of, Running
    <3>3. Usage = Theirs(u)
      BY <2>1, <3>2 DEF Usage, UsageOf, UsageIn, u, spec, i
    <3> QED  BY <1>3, <3>3 DEF Covers, Usages, Amounts
  <2>2. CASE Known # {}
    BY <1>3, <1>6, <2>2 DEF Usage
  <2> QED  BY <2>1, <2>2
<1>12. Covers(Mine, WithIt(u))
  <2>1. By(jobs, C \cup {i}, u) = By(jobs, C, u) \cup {i} /\ i \notin By(jobs, C, u) /\ By(jobs, C, u) \subseteq C
    BY <1>5 DEF By, u, spec
  <2>2. IsFiniteSet(By(jobs, C, u)) /\ \A j \in By(jobs, C, u) \cup {i} : jobs[j].spec \in Requests
    BY <1>3, <1>4, <2>1, FS_Subset DEF spec
  <2>3. WithIt(u) = Adding(Theirs(u), spec)
    <3> DEFINE b == By(jobs, C, u)
    <3>1. IsFiniteSet(b) /\ i \notin b /\ \A j \in b \cup {i} : jobs[j].spec \in Requests
      BY <2>1, <2>2
    <3> HIDE DEF b
    <3>2. UsageIn(jobs, b \cup {i}) = Adding(UsageIn(jobs, b), jobs[i].spec)
      BY <3>1, UsageAdds
    <3> QED  BY <2>1, <3>2 DEF b, spec
  <2>4. Mine = Adding(Usage, spec)
    BY DEF Mine, spec, i
  <2>5. Theirs(u) \in Usages
    BY <1>3, <1>9
  <2> QED  BY <1>3, <1>11, <2>3, <2>4, <2>5, AddingCovers
<1>13. \A v \in Users : v # u => WithIt(v) = Theirs(v)
  <2>1. \A v \in Users : v # u => By(jobs, C \cup {i}, v) = By(jobs, C, v)
    BY DEF By, u, spec
  <2> QED  BY <2>1
<1>14. CASE Admitted
  <2>1. /\ pass'.kept = pass.kept \cup {i} /\ pass'.all = All
        /\ pass'.mine = (pass.mine \ Known) \cup {[user |-> u, usage |-> Mine]}
    BY <1>1, <1>14
  <2>2. ~OverLimit(Mine, Effective(u)) /\ ~OverLimit(All, Cluster)
    BY <1>14 DEF Admitted, u, spec, i
  <2>3. Within(jobs, C \cup {i})
    <3>1. ~OverLimit(UsageIn(jobs, C \cup {i}), Cluster)
      BY <1>3, <1>10, <2>2, CoveredIsWithin, LimitsTyped
    <3>2. ASSUME NEW v \in Users PROVE ~OverLimit(WithIt(v), Effective(v))
      <4>1. CASE v = u
        <5>1. Effective(u) \in Limits /\ WithIt(u) \in Usages
          BY <1>3, <1>9, LimitsTyped
        <5>2. ~OverLimit(WithIt(u), Effective(u))
          <6> HIDE DEF WithIt
          <6> QED  BY <1>3, <1>12, <2>2, <5>1, CoveredIsWithin
        <5> QED  BY <4>1, <5>2
      <4>2. CASE v # u
        BY <1>6, <1>13, <4>2 DEF Within
      <4> QED  BY <4>1, <4>2
    <3> QED  BY <3>1, <3>2 DEF Within
  <2>4. ASSUME NEW m \in pass'.mine PROVE Covers(m.usage, WithIt(m.user))
    <3>1. CASE m = [user |-> u, usage |-> Mine]
      BY <1>12, <3>1
    <3>2. CASE m \in pass.mine \ Known
      <4>1. m.user # u /\ m.user \in Users
        BY <1>7, <3>2 DEF Known, u, spec, i
      <4>2. WithIt(m.user) = Theirs(m.user)
        BY <1>13, <4>1
      <4>3. Covers(m.usage, Theirs(m.user))
        BY <1>6, <3>2
      <4> QED  BY <4>2, <4>3
    <3> QED  BY <2>1, <3>1, <3>2
  <2>5. ASSUME NEW j \in pass'.kept PROVE \E m \in pass'.mine : m.user = jobs[j].spec.user
    <3>1. CASE jobs[j].spec.user = u
      <4>1. [user |-> u, usage |-> Mine] \in pass'.mine
        BY <2>1
      <4> QED  BY <3>1, <4>1
    <3>2. CASE jobs[j].spec.user # u
      <4>1. j \in pass.kept
        BY <2>1, <3>2 DEF u, spec
      <4>2. PICK m \in pass.mine : m.user = jobs[j].spec.user
        BY <1>6, <4>1
      <4>3. m \notin Known
        BY <3>2, <4>2 DEF Known, u, spec, i
      <4> QED  BY <2>1, <4>2, <4>3
    <3> QED  BY <3>1, <3>2
  <2>6. Counted' = C \cup {i}
    BY <1>8, <1>14
  <2> QED  BY <1>1, <1>10, <2>1, <2>3, <2>4, <2>5, <2>6 DEF LimitsInv
<1>15. CASE ~Admitted
  <2>1. /\ pass'.kept = pass.kept /\ pass'.all = pass.all
        /\ pass'.mine = (pass.mine \ Known) \cup {[user |-> u, usage |-> Usage]}
    BY <1>1, <1>15
  <2>2. ASSUME NEW m \in pass'.mine PROVE Covers(m.usage, Theirs(m.user))
    <3>1. CASE m = [user |-> u, usage |-> Usage]
      BY <1>11, <3>1
    <3>2. CASE m \in pass.mine
      BY <1>6, <3>2
    <3> QED  BY <2>1, <3>1, <3>2
  <2>3. ASSUME NEW j \in pass'.kept PROVE \E m \in pass'.mine : m.user = jobs[j].spec.user
    <3>1. CASE jobs[j].spec.user = u
      <4>1. [user |-> u, usage |-> Usage] \in pass'.mine
        BY <2>1
      <4> QED  BY <3>1, <4>1
    <3>2. CASE jobs[j].spec.user # u
      <4>1. PICK m \in pass.mine : m.user = jobs[j].spec.user
        BY <1>6, <2>1
      <4>2. m \notin Known
        BY <3>2, <4>1 DEF Known, u, spec, i
      <4> QED  BY <2>1, <4>1, <4>2
    <3> QED  BY <3>1, <3>2
  <2>4. Counted' = C
    BY <1>8, <1>15
  <2> QED  BY <1>1, <1>6, <2>1, <2>2, <2>3, <2>4 DEF LimitsInv
<1> QED  BY <1>14, <1>15, SMTT(60)

LEMMA LimitsStep ==
  \* Every step leaves each account and the cluster within their limits.
  ASSUME SchedTyped, SchedTyped', HandInv, HandInv', LimitsInv, Next
  PROVE  LimitsInv'
<1> DEFINE Goal == LimitsInv'
           Same == \A i \in DOMAIN jobs : jobs'[i].spec = jobs[i].spec
           Fewer == Counted' \subseteq Counted
<1>a. ASSUME Same, Fewer, pass'.step # "qos" PROVE Goal
  BY <1>a, WithinKept DEF LimitsInv
<1>b. ASSUME jobs' = jobs PROVE Same /\ Running' = Running /\ Queue' = Queue
  BY <1>b DEF Running, Queue, Waits
<1>c. /\ Counted' = IF pass'.step \in {"idle", "deps"} THEN Running'
                    ELSE IF pass'.step = "qos" THEN Running' \cup pass'.kept ELSE Running' \cup InHand'
      /\ Counted = IF pass.step \in {"idle", "deps"} THEN Running
                   ELSE IF pass.step = "qos" THEN Running \cup pass.kept ELSE Running \cup InHand
  BY DEF Counted
<1> HIDE DEF Goal, Same, Fewer
<1>1. ASSUME NEW spec \in Specs, Submit(spec) PROVE Goal
  <2>1. /\ DOMAIN jobs' = DOMAIN jobs \cup {Len(jobs) + 1}
        /\ \A j \in DOMAIN jobs : jobs'[j] = jobs[j]
        /\ jobs'[Len(jobs) + 1].state # "RUNNING"
    BY <1>1, SubmitIs
  <2>2. pass.step = "idle" /\ pass' = pass
    BY <1>1 DEF Submit, Idle
  <2>3. Same /\ Running' \subseteq Running
    BY <2>1 DEF Same, Running
  <2> QED  BY <1>a, <1>c, <2>2, <2>3 DEF Fewer
<1>2. ASSUME NEW i \in DOMAIN jobs, Cancel(i) PROVE Goal
  <2>1. /\ jobs' = [jobs EXCEPT ![i].state = "CANCELLED"] /\ "CANCELLED" \in JobStates
        /\ pass.step = "idle" /\ pass' = pass
    BY <1>2 DEF Cancel, JobStates, Idle
  <2>2. /\ SameJobs(jobs', jobs) /\ jobs'[i].state = "CANCELLED"
        /\ \A j \in DOMAIN jobs : j # i => jobs'[j].state = jobs[j].state
    BY <2>1, StateSet
  <2>3. Same /\ Running' \subseteq Running
    BY <2>2 DEF Same, Running, SameJobs
  <2> QED  BY <1>a, <1>c, <2>1, <2>3 DEF Fewer
<1>3. ASSUME NEW i \in DOMAIN jobs, NEW s \in {"COMPLETED", "FAILED"}, End(i, s) PROVE Goal
  <2>1. jobs' = [jobs EXCEPT ![i].state = s] /\ s \in JobStates /\ s # "RUNNING" /\ pass' = pass
    BY <1>3 DEF End, JobStates
  <2>2. /\ SameJobs(jobs', jobs) /\ jobs'[i].state = s
        /\ \A j \in DOMAIN jobs : j # i => jobs'[j].state = jobs[j].state
    BY <2>1, StateSet
  <2>3. Same /\ Running' \subseteq Running
    BY <2>1, <2>2 DEF Same, Running, SameJobs
  <2>4. InHand' = InHand
    BY <2>1 DEF InHand, Going
  <2>5. Fewer
    BY <1>c, <2>1, <2>3, <2>4 DEF Fewer
  <2>6. CASE pass.step # "qos"
    BY <1>a, <2>1, <2>3, <2>5, <2>6
  <2>7. CASE pass.step = "qos"
    <3>1. /\ Covers(pass.all, UsageIn(jobs, Counted))
          /\ \A m \in pass.mine : Covers(m.usage, UsageIn(jobs, By(jobs, Counted, m.user)))
          /\ \A j \in pass.kept : \E m \in pass.mine : m.user = jobs[j].spec.user
      BY <2>7 DEF LimitsInv
    <3>2. pass.all \in Usages /\ \A m \in pass.mine : m.usage \in Usages /\ m.user \in Users
      <4>1. pass.all \in Usages /\ pass.mine \in SUBSET [user: Users, usage: Usages]
        BY DEF SchedTyped, Passes
      <4> QED  BY <4>1
    <3>3. /\ Within(jobs', Counted')
          /\ \A a \in Usages : Covers(a, UsageIn(jobs, Counted)) => Covers(a, UsageIn(jobs', Counted'))
          /\ \A a \in Usages, u \in Users :
               Covers(a, UsageIn(jobs, By(jobs, Counted, u))) => Covers(a, UsageIn(jobs', By(jobs', Counted', u)))
      BY <2>3, <2>5, WithinKept DEF Same, Fewer
    <3>4. Covers(pass.all, UsageIn(jobs', Counted'))
      BY <3>1, <3>2, <3>3
    <3>5. \A m \in pass.mine : Covers(m.usage, UsageIn(jobs', By(jobs', Counted', m.user)))
      BY <3>1, <3>2, <3>3
    <3>6. \A j \in pass.kept : jobs'[j].spec = jobs[j].spec
      BY <2>3 DEF Same, HandInv, InHand, Queue
    <3> QED  BY <2>1, <2>7, <3>1, <3>3, <3>4, <3>5, <3>6 DEF Goal, LimitsInv
  <2> QED  BY <2>6, <2>7
<1>4. ASSUME NEW n \in Fleet, Flip(n) PROVE Goal
  <2>1. jobs' = jobs /\ pass' = pass /\ pass.step = "idle"
    BY <1>4 DEF Flip, Idle
  <2> QED  BY <1>a, <1>b, <1>c, <2>1 DEF Fewer
<1>5. ASSUME Tick PROVE Goal
  <2>1. jobs' = jobs /\ pass' = pass /\ pass.step = "idle"
    BY <1>5 DEF Tick, Idle
  <2> QED  BY <1>a, <1>b, <1>c, <2>1 DEF Fewer
<1>6. ASSUME Begin PROVE Goal
  <2>1. jobs' = jobs /\ pass'.step = "deps" /\ pass.step = "idle"
    BY <1>6, BeginIs DEF Begin, Idle
  <2> QED  BY <1>a, <1>b, <1>c, <2>1 DEF Fewer
<1>7. ASSUME CheckDependencies PROVE Goal
  <2>1. /\ pass.step = "deps" /\ pass'.step = "deps" /\ pass.todo # {}
        /\ jobs' = jobs \/ jobs' = [jobs EXCEPT ![Foremost].state = "CANCELLED"]
    BY <1>7, CheckDependenciesIs
  <2>2. Foremost \in DOMAIN jobs /\ "CANCELLED" \in JobStates
    BY <2>1, HandedOut DEF JobStates
  <2>3. Same /\ Running' \subseteq Running
    <3>1. CASE jobs' = jobs
      BY <1>b, <3>1
    <3>2. CASE jobs' = [jobs EXCEPT ![Foremost].state = "CANCELLED"]
      <4>1. /\ SameJobs(jobs', jobs) /\ jobs'[Foremost].state = "CANCELLED"
            /\ \A j \in DOMAIN jobs : j # Foremost => jobs'[j].state = jobs[j].state
        BY <2>2, <3>2, StateSet
      <4> QED  BY <4>1 DEF Same, Running, SameJobs
    <3> QED  BY <2>1, <3>1, <3>2
  <2> QED  BY <1>a, <1>c, <2>1, <2>3 DEF Fewer
<1>8. ASSUME BeginAdmission PROVE Goal
  <2>1. /\ pass.step = "deps" /\ pass'.step = "qos" /\ pass'.kept = {} /\ pass'.mine = {} /\ jobs' = jobs
        /\ pass'.all = UsageOf(Running)
    BY <1>8, BeginAdmissionIs DEF BeginAdmission, Over, HandInv
  <2>2. Counted' = Running /\ Counted = Running
    BY <1>b, <1>c, <2>1
  <2>3. Within(jobs, Counted)
    BY DEF LimitsInv
  <2>4. Covers(UsageOf(Running), UsageIn(jobs, Running))
    <3>1. UsageOf(Running) = UsageIn(jobs, Running)
      BY DEF UsageOf, UsageIn
    <3> QED  BY <3>1, RunningTyped DEF Covers, Usages, Amounts
  <2> QED  BY <2>1, <2>2, <2>3, <2>4 DEF Goal, LimitsInv
<1>9. ASSUME Admit PROVE Goal
  BY <1>9, AdmitKeeps DEF Goal
<1>10. ASSUME BeginGangs PROVE Goal
  <2>1. /\ pass'.step = "gangs" /\ pass'.todo = pass.kept /\ pass'.kept = {} /\ pass'.starts = pass.starts
        /\ jobs' = jobs /\ pass.step = "qos"
    BY <1>10, BeginGangsIs DEF BeginGangs, Over
  <2>2. pass.starts = {}
    BY <2>1 DEF HandInv
  <2>3. InHand' = pass.kept
    BY <2>1, <2>2 DEF InHand, Going
  <2> QED  BY <1>a, <1>b, <1>c, <2>1, <2>3 DEF Fewer
<1>11. ASSUME PlaceGang PROVE Goal
  <2>1. /\ pass'.step = "gangs" /\ pass.step = "gangs" /\ pass.todo # {} /\ pass'.todo = pass.todo \ {Foremost}
        /\ pass'.starts = pass.starts
        /\ \/ pass'.kept = pass.kept \cup {Foremost} /\ jobs' = jobs
           \/ pass'.kept = pass.kept /\ jobs' = jobs
           \/ /\ pass'.kept = pass.kept
              /\ \E at \in SUBSET Fleet : \E shares \in UNION {[s -> Vectors] : s \in SUBSET Fleet} :
                   jobs' = Start(Foremost, at, shares)
    BY <1>11, PlaceGangIs
  <2>2. Foremost \in pass.todo /\ Foremost \in DOMAIN jobs
    BY <2>1, HandedOut
  <2>3. Same /\ Running' \subseteq Running \cup {Foremost}
    <3>1. CASE jobs' = jobs
      BY <1>b, <3>1
    <3>2. CASE \E at \in SUBSET Fleet : \E shares \in UNION {[s -> Vectors] : s \in SUBSET Fleet} :
                 jobs' = Start(Foremost, at, shares)
      <4>1. /\ SameJobs(jobs', jobs)
            /\ \A j \in DOMAIN jobs : j # Foremost => jobs'[j].state = jobs[j].state
        BY <2>2, <3>2, StartIs
      <4> QED  BY <4>1 DEF Same, Running, SameJobs
    <3> QED  BY <2>1, <3>1, <3>2
  <2>4. InHand' \subseteq InHand /\ Foremost \in InHand
    BY <2>1, <2>2 DEF InHand, Going
  <2> QED  BY <1>a, <1>c, <2>1, <2>3, <2>4 DEF Fewer
<1>12. ASSUME BeginPlan PROVE Goal
  <2>1. /\ pass'.step = "plan" /\ pass'.todo = pass.kept /\ pass'.kept = {} /\ pass'.starts = pass.starts
        /\ jobs' = jobs /\ pass.step = "gangs"
    BY <1>12, BeginPlanIs DEF BeginPlan, Over
  <2>2. InHand' \subseteq InHand
    BY <2>1 DEF InHand, Going
  <2> QED  BY <1>a, <1>b, <1>c, <2>1, <2>2 DEF Fewer
<1>13. ASSUME PlanJob PROVE Goal
  <2>1. /\ pass'.step = "plan" /\ pass.step = "plan" /\ pass.todo # {} /\ pass'.todo = pass.todo \ {Foremost}
        /\ pass'.kept = pass.kept /\ jobs' = jobs
        /\ pass'.starts = pass.starts \/ \E n \in Fleet : pass'.starts = pass.starts \cup {<<Foremost, n>>}
    BY <1>13, PlanJobIs DEF PlanJob
  <2>2. Foremost \in pass.todo
    BY <2>1, HandedOut
  <2>3. Going' \subseteq Going \cup {Foremost}
    <3>1. ASSUME NEW d \in pass'.starts PROVE d[1] \in Going \cup {Foremost}
      BY <2>1 DEF Going
    <3> QED  BY <3>1 DEF Going
  <2>4. InHand' \subseteq InHand
    BY <2>1, <2>2, <2>3 DEF InHand
  <2> QED  BY <1>a, <1>b, <1>c, <2>1, <2>4, SMTT(60) DEF Fewer
<1>14. ASSUME Carry PROVE Goal
  <2>1. /\ pass.step = "plan" /\ pass'.step = "plan" /\ pass'.todo = pass.todo /\ pass'.kept = pass.kept
    BY <1>14, CarryIs
  <2>2. PICK d \in pass.starts :
          /\ jobs' = Start(d[1], {d[2]}, <<>>) /\ pass'.starts = pass.starts \ {d}
          /\ d[1] \in DOMAIN jobs /\ d[2] \in Fleet
    BY <1>14, CarryIs
  <2>3. {d[2]} \in SUBSET Fleet
    BY <2>2
  <2>4. /\ SameJobs(jobs', jobs)
        /\ \A j \in DOMAIN jobs : j # d[1] => jobs'[j].state = jobs[j].state
    BY <2>2, <2>3, NothingShared, StartIs, ZenonT(60)
  <2>5. Same /\ Running' \subseteq Running \cup {d[1]}
    BY <2>4 DEF Same, Running, SameJobs
  <2>6. InHand' \subseteq InHand /\ d[1] \in InHand
    BY <2>1, <2>2 DEF InHand, Going
  <2> QED  BY <1>a, <1>c, <2>1, <2>5, <2>6 DEF Fewer
<1>15. ASSUME Done PROVE Goal
  <2>1. pass'.step = "idle" /\ jobs' = jobs
    BY <1>15 DEF Done, Idle
  <2>2. Running \subseteq Counted
    BY <1>c
  <2> QED  BY <1>a, <1>b, <1>c, <2>1, <2>2 DEF Fewer
<1> QED  BY <1>1, <1>2, <1>3, <1>4, <1>5, <1>6, <1>7, <1>8, <1>9, <1>10, <1>11, <1>12, <1>13, <1>14, <1>15
         DEF Next, PassStep, Goal

-----------------------------------------------------------------------------
(* Dependencies *)

\* What has ended has ended.
Stable ==
  \A i \in DOMAIN jobs : /\ i \in DOMAIN jobs' /\ jobs'[i].spec = jobs[i].spec
                         /\ Terminal(jobs[i].state) => jobs'[i].state = jobs[i].state

LEMMA EndedStays ==
  \* What has ended has ended as it did.
  ASSUME SchedTyped, HandInv, Next
  PROVE  Stable
<1>a. ASSUME NEW i \in DOMAIN jobs, NEW s \in JobStates, ~Terminal(jobs[i].state),
             jobs' = [jobs EXCEPT ![i].state = s]
      PROVE  Stable
  <2>1. SameJobs(jobs', jobs) /\ \A j \in DOMAIN jobs : j # i => jobs'[j].state = jobs[j].state
    BY <1>a, StateSet
  <2> QED  BY <1>a, <2>1 DEF SameJobs, Stable
<1>b. ASSUME NEW i \in DOMAIN jobs, ~Terminal(jobs[i].state), NEW at \in SUBSET Fleet,
             NEW shares \in UNION {[s -> Vectors] : s \in SUBSET Fleet}, jobs' = Start(i, at, shares)
      PROVE  Stable
  <2>1. SameJobs(jobs', jobs) /\ \A j \in DOMAIN jobs : j # i => jobs'[j].state = jobs[j].state
    BY <1>b, StartIs
  <2> QED  BY <1>b, <2>1 DEF SameJobs, Stable
<1>c. ASSUME jobs' = jobs PROVE Stable
  BY <1>c DEF Stable
<1>d. \A i \in DOMAIN jobs : Waits(i) => ~Terminal(jobs[i].state)
  BY DEF Waits, Terminal
<1>1. ASSUME NEW spec \in Specs, Submit(spec) PROVE Stable
  <2>1. DOMAIN jobs' = DOMAIN jobs \cup {Len(jobs) + 1} /\ \A j \in DOMAIN jobs : jobs'[j] = jobs[j]
    BY <1>1, SubmitIs
  <2> QED  BY <2>1 DEF Stable
<1>2. ASSUME NEW i \in DOMAIN jobs, Cancel(i) PROVE Stable
  <2>1. jobs' = [jobs EXCEPT ![i].state = "CANCELLED"] /\ "CANCELLED" \in JobStates /\ Waits(i)
    BY <1>2 DEF Cancel, JobStates
  <2> QED  BY <1>a, <1>d, <2>1
<1>3. ASSUME NEW i \in DOMAIN jobs, NEW s \in {"COMPLETED", "FAILED"}, End(i, s) PROVE Stable
  <2>1. jobs' = [jobs EXCEPT ![i].state = s] /\ s \in JobStates /\ ~Terminal(jobs[i].state)
    BY <1>3 DEF End, JobStates, Running, Terminal
  <2> QED  BY <1>a, <2>1
<1>4. ASSUME NEW n \in Fleet, Flip(n) PROVE Stable
  BY <1>4, <1>c DEF Flip
<1>5. ASSUME Tick PROVE Stable
  BY <1>5, <1>c DEF Tick
<1>6. ASSUME CheckDependencies PROVE Stable
  <2>1. pass.todo # {} /\ (jobs' = jobs \/ jobs' = [jobs EXCEPT ![Foremost].state = "CANCELLED"])
    BY <1>6, CheckDependenciesIs
  <2>2. Foremost \in DOMAIN jobs /\ ~Terminal(jobs[Foremost].state) /\ "CANCELLED" \in JobStates
    BY <1>d, <2>1, HandedOut DEF JobStates
  <2> QED  BY <1>a, <1>c, <2>1, <2>2
<1>7. ASSUME PlaceGang PROVE Stable
  <2>1. /\ pass.todo # {}
        /\ \/ jobs' = jobs
           \/ \E at \in SUBSET Fleet : \E shares \in UNION {[s -> Vectors] : s \in SUBSET Fleet} :
                jobs' = Start(Foremost, at, shares)
    BY <1>7, PlaceGangIs
  <2>2. Foremost \in DOMAIN jobs /\ ~Terminal(jobs[Foremost].state)
    BY <1>d, <2>1, HandedOut
  <2> QED  BY <1>b, <1>c, <2>1, <2>2
<1>8. ASSUME Carry PROVE Stable
  <2>1. PICK d \in pass.starts : /\ jobs' = Start(d[1], {d[2]}, <<>>) /\ d[1] \in DOMAIN jobs
                                 /\ Waits(d[1]) /\ d[2] \in Fleet
    BY <1>8, CarryIs
  <2>2. {d[2]} \in SUBSET Fleet /\ ~Terminal(jobs[d[1]].state)
    BY <1>d, <2>1
  <2> QED  BY <1>b, <2>1, <2>2, NothingShared
<1>9. ASSUME Begin \/ BeginAdmission \/ Admit \/ BeginGangs \/ BeginPlan \/ PlanJob \/ Done PROVE Stable
  BY <1>9, <1>c DEF Begin, BeginAdmission, Admit, BeginGangs, BeginPlan, PlanJob, Done
<1> QED  BY <1>1, <1>2, <1>3, <1>4, <1>5, <1>6, <1>7, <1>8, <1>9 DEF Next, PassStep

LEMMA MetStays ==
  \* A dependency that is met stays met.
  ASSUME Stable, NEW d, NEW i, Met(d, i)
  PROVE  Met(d, i)'
<1>1. /\ i - d.back \in DOMAIN jobs /\ Terminal(jobs[i - d.back].state)
      /\ d.type = "afterok" => jobs[i - d.back].state = "COMPLETED"
      /\ d.type = "afternotok" => jobs[i - d.back].state # "COMPLETED"
  BY DEF Met
<1>2. i - d.back \in DOMAIN jobs' /\ jobs'[i - d.back].state = jobs[i - d.back].state
  BY <1>1 DEF Stable
<1> QED  BY <1>1, <1>2 DEF Met, Terminal

LEMMA DependenciesStep ==
  \* Whatever is taken further was looked at.
  ASSUME SchedTyped, HandInv, HandInv', DependenciesInv, Next
  PROVE  DependenciesInv'
<1> DEFINE Goal == DependenciesInv'
           Fine(i) == \A d \in jobs[i].spec.deps : Met(d, i)
<1>0. Stable
  BY EndedStays
<1>l. /\ Looked = IF pass.step = "idle" THEN {} ELSE IF pass.step = "deps" THEN pass.kept ELSE InHand
      /\ Looked' = IF pass'.step = "idle" THEN {} ELSE IF pass'.step = "deps" THEN pass'.kept ELSE InHand'
  BY DEF Looked
<1>a. ASSUME \A i \in Looked' : i \in DOMAIN jobs /\ Fine(i) PROVE Goal
  <2>1. ASSUME NEW i \in Looked', NEW d \in jobs'[i].spec.deps PROVE Met(d, i)'
    <3>1. d \in jobs[i].spec.deps
      BY <1>0, <1>a DEF Stable
    <3> QED  BY <1>0, <1>a, <3>1, MetStays
  <2> QED  BY <2>1 DEF DependenciesInv
<1>b. ASSUME Looked' \subseteq Looked PROVE Goal
  <2>1. Looked \subseteq DOMAIN jobs
    BY <1>l DEF HandInv, InHand, Queue
  <2>2. \A i \in Looked : Fine(i)
    BY DEF DependenciesInv
  <2> QED  BY <1>a, <1>b, <2>1, <2>2
<1> HIDE DEF Goal, Fine
<1>1. ASSUME pass' = pass PROVE Goal
  BY <1>1, <1>b DEF Looked, InHand, Going
<1>2. ASSUME Begin PROVE Goal
  BY <1>2, <1>b, <1>l, BeginIs
<1>3. ASSUME CheckDependencies PROVE Goal
  <2>1. /\ pass'.step = "deps" /\ pass.step = "deps" /\ pass.todo # {}
        /\ \/ pass'.kept = pass.kept \cup {Foremost} /\ \A d \in jobs[Foremost].spec.deps : Met(d, Foremost)
           \/ pass'.kept = pass.kept
    BY <1>3, CheckDependenciesIs
  <2>2. CASE pass'.kept = pass.kept
    BY <1>b, <1>l, <2>1, <2>2
  <2>3. CASE pass'.kept = pass.kept \cup {Foremost} /\ \A d \in jobs[Foremost].spec.deps : Met(d, Foremost)
    <3>1. Fine(Foremost) /\ Foremost \in DOMAIN jobs
      BY <2>1, <2>3, HandedOut DEF Fine
    <3>2. \A i \in pass.kept : Fine(i) /\ i \in DOMAIN jobs
      BY <1>l, <2>1 DEF DependenciesInv, Fine, HandInv, InHand, Queue
    <3> QED  BY <1>a, <1>l, <2>1, <2>3, <3>1, <3>2
  <2> QED  BY <2>1, <2>2, <2>3
<1>4. ASSUME BeginAdmission PROVE Goal
  <2>1. /\ pass'.step = "qos" /\ pass'.todo = pass.kept /\ pass'.kept = {} /\ pass'.starts = pass.starts
        /\ pass.step = "deps"
    BY <1>4, BeginAdmissionIs DEF BeginAdmission, Over
  <2>2. pass.starts = {}
    BY <2>1 DEF HandInv
  <2>3. InHand' = pass.kept
    BY <2>1, <2>2 DEF InHand, Going
  <2> QED  BY <1>b, <1>l, <2>1, <2>3
<1>5. ASSUME Admit PROVE Goal
  <2>1. /\ pass'.step = "qos" /\ pass.step = "qos" /\ pass.todo # {} /\ pass'.todo = pass.todo \ {Foremost}
        /\ pass'.kept = pass.kept \cup {Foremost} \/ pass'.kept = pass.kept
        /\ pass'.starts = pass.starts
    BY <1>5, AdmitIs
  <2>2. Foremost \in pass.todo
    BY <2>1, HandedOut
  <2>3. InHand' \subseteq InHand
    BY <2>1, <2>2 DEF InHand, Going
  <2> QED  BY <1>b, <1>l, <2>1, <2>3
<1>6. ASSUME BeginGangs PROVE Goal
  <2>1. /\ pass'.step = "gangs" /\ pass'.todo = pass.kept /\ pass'.kept = {} /\ pass'.starts = pass.starts
        /\ pass.step = "qos"
    BY <1>6, BeginGangsIs DEF BeginGangs, Over
  <2>2. InHand' \subseteq InHand
    BY <2>1 DEF InHand, Going
  <2> QED  BY <1>b, <1>l, <2>1, <2>2
<1>7. ASSUME PlaceGang PROVE Goal
  <2>1. /\ pass'.step = "gangs" /\ pass.step = "gangs" /\ pass.todo # {} /\ pass'.todo = pass.todo \ {Foremost}
        /\ pass'.kept = pass.kept \cup {Foremost} \/ pass'.kept = pass.kept
        /\ pass'.starts = pass.starts
    BY <1>7, PlaceGangIs
  <2>2. Foremost \in pass.todo
    BY <2>1, HandedOut
  <2>3. InHand' \subseteq InHand
    BY <2>1, <2>2 DEF InHand, Going
  <2> QED  BY <1>b, <1>l, <2>1, <2>3
<1>8. ASSUME BeginPlan PROVE Goal
  <2>1. /\ pass'.step = "plan" /\ pass'.todo = pass.kept /\ pass'.kept = {} /\ pass'.starts = pass.starts
        /\ pass.step = "gangs"
    BY <1>8, BeginPlanIs DEF BeginPlan, Over
  <2>2. InHand' \subseteq InHand
    BY <2>1 DEF InHand, Going
  <2> QED  BY <1>b, <1>l, <2>1, <2>2
<1>9. ASSUME PlanJob PROVE Goal
  <2>1. /\ pass'.step = "plan" /\ pass.step = "plan" /\ pass.todo # {} /\ pass'.todo = pass.todo \ {Foremost}
        /\ pass'.kept = pass.kept
        /\ pass'.starts = pass.starts \/ \E n \in Fleet : pass'.starts = pass.starts \cup {<<Foremost, n>>}
    BY <1>9, PlanJobIs
  <2>2. Foremost \in pass.todo
    BY <2>1, HandedOut
  <2>3. Going' \subseteq Going \cup {Foremost}
    <3>1. ASSUME NEW d \in pass'.starts PROVE d[1] \in Going \cup {Foremost}
      BY <2>1 DEF Going
    <3> QED  BY <3>1 DEF Going
  <2>4. InHand' \subseteq InHand
    BY <2>1, <2>2, <2>3 DEF InHand
  <2> QED  BY <1>b, <1>l, <2>1, <2>4
<1>10. ASSUME Carry PROVE Goal
  <2>1. /\ pass.step = "plan" /\ pass'.step = "plan" /\ pass'.todo = pass.todo /\ pass'.kept = pass.kept
        /\ \E d \in pass.starts : pass'.starts = pass.starts \ {d}
    BY <1>10, CarryIs
  <2>2. InHand' \subseteq InHand
    BY <2>1 DEF InHand, Going
  <2> QED  BY <1>b, <1>l, <2>1, <2>2
<1>11. ASSUME Done PROVE Goal
  <2>1. pass'.step = "idle"
    BY <1>11 DEF Done, Idle
  <2> QED  BY <1>b, <1>l, <2>1
<1>12. ASSUME NEW spec \in Specs, Submit(spec) PROVE Goal
  BY <1>1, <1>12 DEF Submit
<1>13. ASSUME NEW i \in DOMAIN jobs, Cancel(i) \/ \E s \in {"COMPLETED", "FAILED"} : End(i, s) PROVE Goal
  BY <1>1, <1>13 DEF Cancel, End
<1>14. ASSUME NEW n \in Fleet, Flip(n) PROVE Goal
  BY <1>1, <1>14 DEF Flip
<1>15. ASSUME Tick PROVE Goal
  BY <1>1, <1>15 DEF Tick
<1> QED  BY <1>2, <1>3, <1>4, <1>5, <1>6, <1>7, <1>8, <1>9, <1>10, <1>11, <1>12, <1>13, <1>14, <1>15
         DEF Next, PassStep, Goal

-----------------------------------------------------------------------------
(* The theorems *)

LEMMA SchedInit == Init => SchedInv
<1> SUFFICES ASSUME Init PROVE SchedInv
  OBVIOUS
<1>1. /\ jobs = <<>> /\ now = 1 /\ up = Fleet /\ flips = 0 /\ pass = Idle /\ backfill \in BOOLEAN
      /\ promise = NoPromise
  BY DEF Init
<1>2. NoPromise \in [id: Nat, node: Fleet, at: Nat]
  BY FirstNode DEF NoPromise
<1>3. SchedTyped
  <2>1. jobs \in Seq(Rows)
    BY <1>1
  <2> QED  BY <1>1, <1>2, <2>1, IdleTyped DEF SchedTyped
<1>4. HandInv /\ pass.step = "idle" /\ pass.starts = {}
  BY <1>1, IdleHand
<1>5. DOMAIN jobs = {}
  BY <1>1
<1>6. RoomInv
  <2>1. ASSUME NEW n \in Fleet, NEW k \in Kinds PROVE Load(jobs, Busy(n), k) <= Cap[n][k]
    <3>1. Busy(n) = {} /\ IsFiniteSet({})
      BY <1>5, FS_EmptySet DEF Busy
    <3>2. [i \in {} |-> Charge(jobs[i].spec)[k]] \in [{} -> Int]
      OBVIOUS
    <3>3. Load(jobs, {}, k) = 0
      BY <3>1, <3>2, SumTyped DEF Load
    <3> QED  BY <3>1, <3>3, CapTyped
  <2> QED  BY <1>4, <2>1 DEF RoomInv
<1>7. LimitsInv
  <2>1. Counted = {}
    BY <1>3, <1>4, <1>5, CountedIs
  <2>2. \A u : By(jobs, {}, u) = {}
    BY DEF By
  <2>3. UsageIn(jobs, {}).jobs = 0 /\ \A k \in Kinds : UsageIn(jobs, {}).want[k] = 0
    <3>1. \A k \in Kinds : SumFunction([i \in {} |-> jobs[i].spec.want[k]]) = 0
      <4>1. \A k \in Kinds : [i \in {} |-> jobs[i].spec.want[k]] \in [{} -> Int]
        OBVIOUS
      <4> QED  BY <4>1, FS_EmptySet, SumTyped
    <3> QED  BY <3>1, FS_EmptySet DEF UsageIn
  <2>4. \A limits \in Limits : ~OverLimit(UsageIn(jobs, {}), limits)
    BY <2>3 DEF OverLimit, Exceeds, Limits, Vectors
  <2>5. Within(jobs, {})
    BY <2>2, <2>4, LimitsTyped DEF Within
  <2> QED  BY <1>4, <2>1, <2>5 DEF LimitsInv
<1>8. DependenciesInv
  BY <1>4 DEF DependenciesInv, Looked
<1> QED  BY <1>3, <1>4, <1>6, <1>7, <1>8 DEF SchedInv

LEMMA SchedStep == SchedInv /\ [Next]_vars => SchedInv'
<1> SUFFICES ASSUME SchedInv, [Next]_vars PROVE SchedInv'
  OBVIOUS
<1>1. CASE Next
  <2>1. SchedTyped' /\ HandInv'
    BY <1>1, TypedStep, HandStep DEF SchedInv
  <2> QED  BY <1>1, <2>1, RoomStep, LimitsStep, DependenciesStep DEF SchedInv
<1>2. CASE UNCHANGED vars
  <2>1. SchedTyped' /\ HandInv'
    BY <1>2 DEF SchedInv, vars, SchedTyped, HandInv, InHand, Going, Queue, Waits
  <2>2. RoomInv'
    BY <1>2 DEF SchedInv, vars, RoomInv, Load, Busy, On, Running
  <2>3. DependenciesInv'
    BY <1>2 DEF SchedInv, vars, DependenciesInv, Looked, InHand, Going, Met
  <2>4. LimitsInv'
    <3>1. Counted' = Counted
      BY <1>2 DEF vars, Counted, Running, InHand, Going
    <3>2. jobs' = jobs /\ pass' = pass
      BY <1>2 DEF vars
    <3> QED  BY <3>1, <3>2 DEF SchedInv, LimitsInv
  <2> QED  BY <2>1, <2>2, <2>3, <2>4 DEF SchedInv
<1> QED  BY <1>1, <1>2

\* What every pass relies on: what it holds are waiting jobs, what it counts as used and as
\* admitted covers what runs and what it has decided (Controller.schedule).
THEOREM SchedInvariant == Spec => []SchedInv
<1> QED  BY SchedInit, SchedStep, PTL DEF Spec

LEMMA SchedInvIsTypeOK == SchedInv => SchedTypeOK
  \* The invariant says what every variable holds.
<1> SUFFICES ASSUME SchedTyped, HandInv PROVE SchedTypeOK
  BY DEF SchedInv
<1>1. \A i \in DOMAIN jobs : jobs[i].state \in JobStates /\ jobs[i].at \subseteq Fleet /\ jobs[i].since \in Nat
  BY RowsTyped DEF Rows
<1>2. /\ pass.step \in Steps /\ pass.used \in [Fleet -> Vectors] /\ pass.held \in [Fleet -> Nat \cup {-1}]
      /\ pass.starts \in SUBSET (Nat \X Fleet)
  BY DEF SchedTyped, Passes
<1>3. pass.todo \cup pass.kept \subseteq DOMAIN jobs /\ Going \subseteq DOMAIN jobs
  BY DEF HandInv, InHand, Queue
<1>4. pass.starts \subseteq (DOMAIN jobs) \X Fleet
  <2>1. ASSUME NEW d \in pass.starts PROVE d \in (DOMAIN jobs) \X Fleet
    <3>1. d[1] \in DOMAIN jobs /\ d \in Nat \X Fleet
      BY <1>2, <1>3 DEF Going
    <3> QED  BY <3>1
  <2> QED  BY <2>1
<1> QED  BY <1>1, <1>2, <1>3, <1>4 DEF SchedTypeOK, SchedTyped

\* Every variable keeps its type, whatever users ask for and whatever the fleet is.
THEOREM SchedTypeCorrect == Spec => []SchedTypeOK
BY SchedInvIsTypeOK, SchedInvariant, PTL

\* No machine is given more single-node work than it has room for: a pass counts what it
\* decides as used at once, and what ends meanwhile only makes room (NodeStates, PlanWith).
THEOREM CapacityKeptHolds == Spec => []CapacityKept
<1>1. SchedInv => CapacityKept
  <2> SUFFICES ASSUME SchedTyped, RoomInv, NEW n \in Fleet, NEW k \in Kinds
               PROVE  SumFunction([i \in {j \in On(n) : ~Aggregated(jobs[j].spec)} |-> Charge(jobs[i].spec)[k]])
                        <= Cap[n][k]
    BY DEF SchedInv, CapacityKept
  <2> DEFINE single == {j \in On(n) : ~Aggregated(jobs[j].spec)}
  <2>1. single \in SUBSET Busy(n) /\ single \in SUBSET DOMAIN jobs
    BY DEF Busy, On, Running
  <2>2. /\ IsFiniteSet(Busy(n)) /\ \A i \in Busy(n) : jobs[i].spec \in Requests
        /\ Load(jobs, Busy(n), k) \in Nat /\ Cap[n][k] \in Nat
    BY BusyTyped
  <2>3. IsFiniteSet(single) /\ \A i \in single : jobs[i].spec \in Requests
    BY <2>1, SomeTyped
  <2> HIDE DEF single
  <2>4. Load(jobs, single, k) <= Load(jobs, Busy(n), k) /\ Load(jobs, single, k) \in Nat
    BY <2>1, <2>2, <2>3, LoadShrinks, LoadTyped
  <2>5. Load(jobs, Busy(n), k) <= Cap[n][k]
    BY DEF RoomInv
  <2>6. Load(jobs, single, k) <= Cap[n][k]
    BY <2>2, <2>4, <2>5
  <2> QED  BY <2>6 DEF Load, single
<1> QED  BY <1>1, SchedInvariant, PTL

\* What an account and the cluster have running stays within their limits, though a pass
\* admits many jobs on figures read before any of them runs (admitForQoS).
THEOREM LimitsKeptHolds == Spec => []LimitsKept
<1>1. SchedInv => LimitsKept
  <2> SUFFICES ASSUME SchedTyped, HandInv, LimitsInv PROVE LimitsKept
    BY DEF SchedInv
  <2>1. /\ IsFiniteSet(Counted) /\ \A i \in Counted : jobs[i].spec \in Requests
        /\ Running \in SUBSET Counted
    BY CountedIs DEF Counted
  <2>2. Within(jobs, Running)
    BY <2>1, WithinShrinks DEF LimitsInv
  <2>3. \A u : Running \cap Of(u) = By(jobs, Running, u)
    BY DEF By, Of, Running
  <2>4. \A ids : UsageOf(ids) = UsageIn(jobs, ids)
    BY DEF UsageOf, UsageIn
  <2> QED  BY <2>2, <2>3, <2>4 DEF LimitsKept, Within
<1> QED  BY <1>1, SchedInvariant, PTL

LEMMA OnlyStarts ==
  \* A job starts as a gang that is placed, or by a decision that is carried out.
  ASSUME SchedTyped, HandInv, Next, NEW i \in DOMAIN jobs, Waits(i), jobs'[i].state = "RUNNING"
  PROVE  \/ PlaceGang /\ i = Foremost
         \/ Carry /\ i \in Going
<1>a. ASSUME NEW j \in DOMAIN jobs, NEW s \in JobStates, s # "RUNNING",
             jobs' = [jobs EXCEPT ![j].state = s]
      PROVE  FALSE
  <2>1. jobs'[j].state = s /\ \A k \in DOMAIN jobs : k # j => jobs'[k].state = jobs[k].state
    BY <1>a, StateSet
  <2> QED  BY <1>a, <2>1 DEF Waits
<1>b. jobs' # jobs
  BY DEF Waits
<1>1. CASE PlaceGang
  <2>1. /\ pass.step = "gangs" /\ pass.todo # {}
        /\ \/ jobs' = jobs
           \/ \E at \in SUBSET Fleet : \E shares \in UNION {[s -> Vectors] : s \in SUBSET Fleet} :
                jobs' = Start(Foremost, at, shares)
    BY <1>1, PlaceGangIs
  <2>2. Foremost \in DOMAIN jobs
    BY <2>1, HandedOut
  <2>3. \E at \in SUBSET Fleet : \E shares \in UNION {[s -> Vectors] : s \in SUBSET Fleet} :
          jobs' = Start(Foremost, at, shares)
    BY <1>b, <2>1
  <2>4. PICK at \in SUBSET Fleet, shares \in UNION {[s -> Vectors] : s \in SUBSET Fleet} :
          jobs' = Start(Foremost, at, shares)
    BY <2>3
  <2>5. \A j \in DOMAIN jobs : j # Foremost => jobs'[j].state = jobs[j].state
    BY <2>2, <2>4, StartIs
  <2>6. i = Foremost
    BY <2>5 DEF Waits
  <2> QED  BY <1>1, <2>6
<1>2. CASE Carry
  <2>1. PICK d \in pass.starts :
          jobs' = Start(d[1], {d[2]}, <<>>) /\ d[1] \in DOMAIN jobs /\ d[2] \in Fleet
    BY <1>2, CarryIs
  <2>2. {d[2]} \in SUBSET Fleet
    BY <2>1
  <2>3. \A j \in DOMAIN jobs : j # d[1] => jobs'[j].state = jobs[j].state
    BY <2>1, <2>2, NothingShared, StartIs
  <2>4. i = d[1]
    BY <2>3 DEF Waits
  <2> QED  BY <1>2, <2>1, <2>4 DEF Going
<1>3. CASE CheckDependencies
  <2>1. pass.todo # {} /\ jobs' = [jobs EXCEPT ![Foremost].state = "CANCELLED"]
    BY <1>3, <1>b, CheckDependenciesIs
  <2>2. Foremost \in DOMAIN jobs /\ "CANCELLED" \in JobStates
    BY <2>1, HandedOut DEF JobStates
  <2> QED  BY <1>a, <2>1, <2>2
<1>4. ASSUME NEW spec \in Specs, Submit(spec) PROVE FALSE
  <2>1. \A j \in DOMAIN jobs : jobs'[j] = jobs[j]
    BY <1>4, SubmitIs
  <2> QED  BY <2>1 DEF Waits
<1>5. ASSUME NEW j \in DOMAIN jobs, Cancel(j) PROVE FALSE
  <2>1. jobs' = [jobs EXCEPT ![j].state = "CANCELLED"] /\ "CANCELLED" \in JobStates
    BY <1>5 DEF Cancel, JobStates
  <2> QED  BY <1>a, <2>1
<1>6. ASSUME NEW j \in DOMAIN jobs, NEW s \in {"COMPLETED", "FAILED"}, End(j, s) PROVE FALSE
  <2>1. jobs' = [jobs EXCEPT ![j].state = s] /\ s \in JobStates /\ s # "RUNNING"
    BY <1>6 DEF End, JobStates
  <2> QED  BY <1>a, <2>1
<1>7. CASE \/ \E n \in Fleet : Flip(n)
           \/ Tick \/ Begin \/ BeginAdmission \/ Admit \/ BeginGangs \/ BeginPlan \/ PlanJob \/ Done
  BY <1>b, <1>7 DEF Flip, Tick, Begin, BeginAdmission, Admit, BeginGangs, BeginPlan, PlanJob, Done
<1> QED  BY <1>1, <1>2, <1>3, <1>4, <1>5, <1>6, <1>7 DEF Next, PassStep

\* A job starts only when its prerequisites have ended as it asked, however long after they
\* were looked at: what has ended has ended (depsSatisfied).
THEOREM DependenciesKeptHolds == Spec => DependenciesKept
<1> DEFINE Kept == \A i \in DOMAIN jobs :
                     Waits(i) /\ jobs'[i].state = "RUNNING" => \A d \in jobs[i].spec.deps : Met(d, i)
<1>1. SchedInv /\ [Next]_vars => [Kept]_vars
  <2> SUFFICES ASSUME SchedTyped, HandInv, DependenciesInv, Next,
                      NEW i \in DOMAIN jobs, Waits(i), jobs'[i].state = "RUNNING"
               PROVE  i \in Looked
    BY DEF SchedInv, DependenciesInv
  <2>1. CASE PlaceGang /\ i = Foremost
    <3>1. pass.step = "gangs" /\ Foremost \in pass.todo
      BY <2>1, PlaceGangIs, HandedOut
    <3> QED  BY <2>1, <3>1 DEF Looked, InHand
  <2>2. CASE Carry /\ i \in Going
    <3>1. pass.step = "plan"
      BY <2>2, CarryIs
    <3> QED  BY <2>2, <3>1 DEF Looked, InHand
  <2> QED  BY <2>1, <2>2, OnlyStarts
<1>2. DependenciesKept <=> [][Kept]_vars
  BY DEF DependenciesKept
<1> HIDE DEF Kept
<1> QED  BY <1>1, <1>2, SchedInvariant, PTL DEF Spec

-----------------------------------------------------------------------------
(* The first in line *)

\* The jobs of a machine, or about to be, that are still there at a time if nobody ends them.
Outstays(e, t) == e = 0 \/ e > t
Staying(n, t) ==
  {i \in DOMAIN jobs : \/ i \in On(n) /\ Outstays(Ends(jobs[i]), t)
                       \/ <<i, n>> \in pass.starts /\ ~EndsBefore(jobs[i].spec, now, t)}

\* Without them the machine promised has room for whom it is promised to.
PromiseStands ==
  promise.id # 0 =>
    /\ promise.id \in DOMAIN jobs /\ promise.node \in up /\ 0 < Depth /\ backfill
    /\ FitsEmpty(jobs[promise.id].spec, promise.node)
    /\ \A k \in Kinds :
         Load(jobs, Staying(promise.node, promise.at), k) + Charge(jobs[promise.id].spec)[k]
           <= Cap[promise.node][k]

\* Nothing has been decided yet, and what was read is so.
Fresh ==
  /\ pass.held = [n \in Fleet |-> -1] /\ ~pass.blocked /\ pass.starts = {}
  /\ pass.agreed => pass.used = Used
  /\ pass.live = IF backfill THEN Running ELSE {}

PassStands ==
  /\ pass.step # "idle" => pass.up = up
  /\ pass.step # "plan" => pass.held = [n \in Fleet |-> -1] /\ ~pass.blocked
  /\ pass.step = "plan" =>
       /\ promise.id \in {0, pass.first} /\ \A j \in pass.todo : pass.first <= j
       /\ IF pass.first \in pass.todo THEN Fresh
          ELSE pass.agreed /\ promise.id # 0 => pass.held[promise.node] = promise.at

\* What runs has time left.
OnTime == \A i \in Running : Ends(jobs[i]) = 0 \/ Ends(jobs[i]) >= now

HeadInv == PromiseStands /\ PassStands /\ OnTime

-----------------------------------------------------------------------------
(* More about sums *)

LEMMA SumOne ==
  \* All functions that add up agree.
  ASSUME NEW S, IsFiniteSet(S), NEW f, NEW g, IsSum(g, f, S)
  PROVE  g[S] = Total(f, S)
<1>1. PICK h : IsSum(h, f, S) /\ Total(f, S) = h[S]
  BY TotalIs
<1>2. /\ \A s \in SUBSET S : g[s] = IF s = {} THEN 0 ELSE f[One(s)] + g[s \ {One(s)}]
      /\ \A s \in SUBSET S : h[s] = IF s = {} THEN 0 ELSE f[One(s)] + h[s \ {One(s)}]
  BY <1>1 DEF IsSum
<1> DEFINE Bad == {s \in SUBSET S : g[s] # h[s]}
<1>3. Bad = {}
  <2> SUFFICES ASSUME Bad # {} PROVE FALSE
    OBVIOUS
  <2>1. \A s \in Bad : IsFiniteSet(s)
    BY FS_Subset
  <2>2. PICK s \in Bad : \A t \in Bad : /\ Cardinality(t) \in Nat /\ Cardinality(s) \in Nat
                                       /\ Cardinality(s) <= Cardinality(t)
    <3> HIDE DEF Bad
    <3> QED  BY <2>1, Smallest
  <2>3. s # {}
    BY <1>2
  <2>4. s \ {One(s)} \notin Bad
    BY <2>1, <2>2, <2>3, OneIn, Less
  <2>5. g[s \ {One(s)}] = h[s \ {One(s)}]
    BY <2>4
  <2> QED  BY <1>2, <2>3, <2>5
<1> QED  BY <1>1, <1>3

LEMMA TotalMoves ==
  \* What is counted may go by other names.
  ASSUME NEW S, IsFiniteSet(S), NEW f, NEW h, NEW m, \A x, y \in S : m[x] = m[y] => x = y,
         \A x \in S : f[x] \in Int /\ h[m[x]] = f[x]
  PROVE  Total(h, {m[x] : x \in S}) = Total(f, S)
<1> DEFINE Of_(s) == {m[x] : x \in s}
           Good(s) == Total(h, Of_(s)) = Total(f, s)
           Bad == {s \in SUBSET S : ~Good(s)}
<1>1. \A s \in SUBSET S : IsFiniteSet(s) /\ IsFiniteSet(Of_(s))
  <2> SUFFICES ASSUME NEW s \in SUBSET S PROVE IsFiniteSet(s) /\ IsFiniteSet(Of_(s))
    OBVIOUS
  <2>1. IsFiniteSet(s)
    BY FS_Subset
  <2> DEFINE g == [x \in s |-> m[x]]
  <2>2. g \in Surjection(s, Of_(s))
    BY DEF Surjection
  <2> HIDE DEF g
  <2> QED  BY <2>1, <2>2, FS_Surjection
<1>2. SUFFICES ASSUME Bad # {} PROVE FALSE
  OBVIOUS
<1>3. PICK s \in Bad : \A t \in Bad : /\ Cardinality(t) \in Nat /\ Cardinality(s) \in Nat
                                     /\ Cardinality(s) <= Cardinality(t)
  <2>1. \A t \in Bad : IsFiniteSet(t)
    BY <1>1
  <2> HIDE DEF Bad
  <2> QED  BY <2>1, <1>2, Smallest
<1>4. s # {}
  BY <1>1, TotalSteps
<1>5. PICK x \in s : TRUE
  BY <1>4
<1>6. s \ {x} \notin Bad /\ s \ {x} \in SUBSET S
  <2>1. IsFiniteSet(s) /\ s \ {x} \in SUBSET S
    BY <1>1
  <2>2. Cardinality(s \ {x}) \in Nat /\ Cardinality(s) \in Nat /\ Cardinality(s \ {x}) = Cardinality(s) - 1
    BY <1>5, <2>1, Less
  <2> HIDE DEF Bad
  <2> QED  BY <1>3, <2>1, <2>2
<1>7. Total(h, Of_(s \ {x})) = Total(f, s \ {x})
  BY <1>6
<1>8. Total(f, s) = f[x] + Total(f, s \ {x})
  <2>1. IsFiniteSet(s) /\ \A y \in s : f[y] \in Int
    BY <1>1
  <2> HIDE DEF Bad
  <2> QED  BY <1>5, <2>1, TotalOf
<1>9. Of_(s) \ {m[x]} = Of_(s \ {x}) /\ m[x] \in Of_(s) /\ h[m[x]] = f[x]
  BY <1>3, <1>5
<1>10. Total(h, Of_(s)) = h[m[x]] + Total(h, Of_(s) \ {m[x]})
  <2>1. IsFiniteSet(Of_(s)) /\ \A y \in Of_(s) : h[y] \in Int
    BY <1>1
  <2> HIDE DEF Of_
  <2> QED  BY <1>9, <2>1, TotalOf
<1> QED  BY <1>7, <1>8, <1>9, <1>10

LEMMA TotalSplits ==
  \* A part and the rest.
  ASSUME NEW S, IsFiniteSet(S), NEW f, \A s \in S : f[s] \in Int, NEW T \in SUBSET S
  PROVE  Total(f, S) = Total(f, T) + Total(f, S \ T)
<1> DEFINE Good(s) == Total(f, S) = Total(f, s) + Total(f, S \ s)
           Bad == {s \in SUBSET S : ~Good(s)}
<1>1. \A s \in SUBSET S : IsFiniteSet(s) /\ Total(f, s) \in Int
  BY FS_Subset, TotalTyped
<1>2. SUFFICES ASSUME Bad # {} PROVE FALSE
  OBVIOUS
<1>3. PICK s \in Bad : \A t \in Bad : /\ Cardinality(t) \in Nat /\ Cardinality(s) \in Nat
                                     /\ Cardinality(s) <= Cardinality(t)
  <2>1. \A t \in Bad : IsFiniteSet(t)
    BY <1>1
  <2> HIDE DEF Bad
  <2> QED  BY <2>1, <1>2, Smallest
<1>4. s # {}
  <2>1. Total(f, {}) = 0 /\ S \ {} = S /\ Total(f, S) \in Int
    BY <1>1, TotalSteps, FS_EmptySet
  <2>2. Good({})
    BY <2>1
  <2> QED  BY <2>2
<1>5. PICK x \in s : TRUE
  BY <1>4
<1>6. s \ {x} \notin Bad /\ s \ {x} \in SUBSET S
  BY <1>1, <1>3, <1>5, Less
<1>7. Total(f, S) = Total(f, s \ {x}) + Total(f, S \ (s \ {x}))
  BY <1>6
<1>8. Total(f, s) = f[x] + Total(f, s \ {x})
  <2>1. IsFiniteSet(s) /\ \A y \in s : f[y] \in Int
    BY <1>1
  <2> HIDE DEF Bad
  <2> QED  BY <1>5, <2>1, TotalOf
<1>9. Total(f, S \ (s \ {x})) = f[x] + Total(f, S \ s)
  <2> DEFINE r == S \ (s \ {x})
  <2>1. r \in SUBSET S /\ x \in r /\ r \ {x} = S \ s
    BY <1>5
  <2>2. IsFiniteSet(r) /\ \A y \in r : f[y] \in Int
    BY <1>1, <2>1
  <2> HIDE DEF r
  <2>3. Total(f, r) = f[x] + Total(f, r \ {x})
    BY <2>1, <2>2, TotalOf
  <2> QED  BY <2>1, <2>3 DEF r
<1>10. PICK a, b, c, d, e \in Int : /\ a = Total(f, S) /\ b = Total(f, s \ {x}) /\ c = f[x] /\ d = Total(f, s)
                                   /\ e = Total(f, S \ s)
  <2>1. S \ s \in SUBSET S /\ S \in SUBSET S /\ f[x] \in Int
    BY <1>5
  <2> QED  BY <1>1, <1>6, <2>1
<1> QED  BY <1>7, <1>8, <1>9, <1>10

LEMMA LoadSplits ==
  \* The load of some jobs, and of the others.
  ASSUME NEW js, NEW ids, IsFiniteSet(ids), \A i \in ids : js[i].spec \in Requests,
         NEW some \in SUBSET ids, NEW k \in Kinds
  PROVE  Load(js, ids, k) = Load(js, some, k) + Load(js, ids \ some, k)
<1> DEFINE f == [i \in ids |-> Charge(js[i].spec)[k]]
<1>1. \A i \in ids : f[i] \in Int
  BY ChargeTyped DEF Amounts
<1>2. Total(f, ids) = Total(f, some) + Total(f, ids \ some)
  BY <1>1, TotalSplits
<1>3. ASSUME NEW s \in SUBSET ids PROVE Load(js, s, k) = Total(f, s)
  <2> DEFINE g == [i \in s |-> Charge(js[i].spec)[k]]
  <2>1. IsFiniteSet(s) /\ \A i \in s : g[i] = f[i]
    BY FS_Subset
  <2>2. Total(g, s) = Total(f, s)
    BY <2>1, TotalAgrees
  <2>3. Load(js, s, k) = Total(g, s)
    BY DEF Load, SumFunction, Total
  <2> QED  BY <2>2, <2>3
<1>4. ids \in SUBSET ids /\ ids \ some \in SUBSET ids
  OBVIOUS
<1> QED  BY <1>2, <1>3, <1>4

LEMMA ChargesAdd ==
  \* What the planner adds up of some records.
  ASSUME NEW S, IsFiniteSet(S), NEW k
  PROVE  MapThenSumSet(LAMBDA r : Charge(r.spec)[k], S) = Total([r \in S |-> Charge(r.spec)[k]], S)
<1> DEFINE f == [r \in S |-> Charge(r.spec)[k]]
           iter == CHOOSE g : g = [s \in SUBSET S |->
                     IF s = {} THEN 0
                     ELSE Charge((CHOOSE x \in s : TRUE).spec)[k] + g[s \ {CHOOSE x \in s : TRUE}]]
<1>1. MapThenSumSet(LAMBDA r : Charge(r.spec)[k], S) = iter[S]
  BY DEF MapThenSumSet, MapThenFoldSet
<1>2. \A s \in SUBSET S : s # {} => f[One(s)] = Charge(One(s).spec)[k]
  BY OneIn
<1>3. ASSUME NEW g
      PROVE  IsSum(g, f, S) <=> g = [s \in SUBSET S |-> IF s = {} THEN 0 ELSE Charge(One(s).spec)[k] + g[s \ {One(s)}]]
  <2>1. [s \in SUBSET S |-> IF s = {} THEN 0 ELSE f[One(s)] + g[s \ {One(s)}]]
          = [s \in SUBSET S |-> IF s = {} THEN 0 ELSE Charge(One(s).spec)[k] + g[s \ {One(s)}]]
    <3> HIDE DEF f
    <3> QED  BY <1>2
  <2> HIDE DEF f
  <2> QED  BY <2>1 DEF IsSum
<1>4. \E g : IsSum(g, f, S)
  BY SumExists
<1>5. \E g : g = [s \in SUBSET S |-> IF s = {} THEN 0 ELSE Charge(One(s).spec)[k] + g[s \ {One(s)}]]
  <2> HIDE DEF f
  <2> QED  BY <1>3, <1>4
<1>6. iter = [s \in SUBSET S |-> IF s = {} THEN 0 ELSE Charge(One(s).spec)[k] + iter[s \ {One(s)}]]
  <2> HIDE DEF f
  <2> QED  BY <1>5 DEF One
<1>7. IsSum(iter, f, S)
  <2> HIDE DEF f, iter
  <2> QED  BY <1>3, <1>6
<1>8. iter[S] = Total(f, S)
  <2> HIDE DEF f, iter
  <2> QED  BY <1>7, SumOne
<1> QED  BY <1>1, <1>8

-----------------------------------------------------------------------------
(* When a machine has room *)

\* What the planner knows of a job that runs.
Entry(i) == [id |-> i, spec |-> jobs[i].spec, ends |-> Ends(jobs[i])]

LEMMA KnownAdd ==
  \* It adds up what the jobs occupy.
  ASSUME SchedTyped, NEW ids \in SUBSET DOMAIN jobs, NEW k \in Kinds
  PROVE  MapThenSumSet(LAMBDA r : Charge(r.spec)[k], {Entry(i) : i \in ids}) = Load(jobs, ids, k)
<1> DEFINE S == {Entry(i) : i \in ids}
           m == [i \in ids |-> Entry(i)]
           f == [i \in ids |-> Charge(jobs[i].spec)[k]]
           h == [r \in S |-> Charge(r.spec)[k]]
<1>1. IsFiniteSet(ids) /\ \A i \in ids : jobs[i].spec \in Requests
  BY SomeTyped
<1>2. IsFiniteSet(S)
  <2>1. m \in Surjection(ids, S)
    BY DEF Surjection
  <2> HIDE DEF m, S
  <2> QED  BY <1>1, <2>1, FS_Surjection
<1>3. MapThenSumSet(LAMBDA r : Charge(r.spec)[k], S) = Total(h, S)
  <2> HIDE DEF S
  <2> QED  BY <1>2, ChargesAdd
<1>4. /\ \A i \in ids : Entry(i).id = i /\ Entry(i).spec = jobs[i].spec
      /\ \A i \in ids : m[i] = Entry(i) /\ m[i] \in S
  BY DEF Entry
<1>5. \A i, j \in ids : m[i] = m[j] => i = j
  <2> HIDE DEF m
  <2> QED  BY <1>4
<1>6. \A i \in ids : f[i] \in Int /\ h[m[i]] = f[i]
  <2>1. \A i \in ids : f[i] = Charge(jobs[i].spec)[k] /\ f[i] \in Int
    BY <1>1, ChargeTyped DEF Amounts
  <2>2. \A i \in ids : h[m[i]] = Charge(jobs[i].spec)[k]
    <3> HIDE DEF m, S
    <3> QED  BY <1>4
  <2> HIDE DEF f, h, m
  <2> QED  BY <2>1, <2>2
<1>7. {m[i] : i \in ids} = S
  BY <1>4
<1>8. Total(h, S) = Total(f, ids)
  <2> HIDE DEF m, f, h, S
  <2> QED  BY <1>1, <1>5, <1>6, <1>7, TotalMoves
<1>9. Load(jobs, ids, k) = Total(f, ids)
  BY DEF Load, SumFunction, Total
<1> QED  BY <1>3, <1>8, <1>9

\* Those of a machine's jobs that are still there at a time.
Left(n, t) == {i \in On(n) : Outstays(Ends(jobs[i]), t)}

LEMMA OnTyped ==
  \* What a machine's jobs occupy, and those of them that are left.
  ASSUME SchedTyped, NEW n, NEW t, NEW k \in Kinds
  PROVE  /\ On(n) \in SUBSET DOMAIN jobs /\ Left(n, t) \in SUBSET On(n) /\ On(n) \ Left(n, t) \in SUBSET DOMAIN jobs
         /\ IsFiniteSet(On(n)) /\ \A i \in On(n) : jobs[i].spec \in Requests
         /\ Load(jobs, On(n), k) \in Nat /\ Load(jobs, Left(n, t), k) \in Nat
         /\ Load(jobs, On(n) \ Left(n, t), k) \in Nat
         /\ Load(jobs, On(n), k) = Load(jobs, Left(n, t), k) + Load(jobs, On(n) \ Left(n, t), k)
<1>1. On(n) \in SUBSET DOMAIN jobs /\ Left(n, t) \in SUBSET On(n)
  BY DEF On, Running, Left
<1>2. Left(n, t) \in SUBSET DOMAIN jobs /\ On(n) \ Left(n, t) \in SUBSET DOMAIN jobs
  BY <1>1
<1>3. \A ids \in SUBSET DOMAIN jobs : IsFiniteSet(ids) /\ (\A i \in ids : jobs[i].spec \in Requests)
                                      /\ Load(jobs, ids, k) \in Nat
  BY SomeTyped, LoadTyped
<1>4. IsFiniteSet(On(n)) /\ \A i \in On(n) : jobs[i].spec \in Requests
  BY <1>1, <1>3
<1>5. Load(jobs, On(n), k) = Load(jobs, Left(n, t), k) + Load(jobs, On(n) \ Left(n, t), k)
  BY <1>1, <1>4, LoadSplits
<1> QED  BY <1>1, <1>2, <1>3, <1>4, <1>5

LEMMA TakenIs ==
  \* What is still taken at a time is what is left then.
  ASSUME SchedTyped, pass.used = Used, pass.live = Running, NEW n \in Fleet, NEW t \in Nat, NEW k \in Kinds
  PROVE  /\ TakenAfter(pass.used, n, Ending(Live(n), t))[k] = Load(jobs, Left(n, t), k)
         /\ pass.used[n][k] = Load(jobs, On(n), k)
<1> DEFINE gone == On(n) \ Left(n, t)
<1>1. Ending(Live(n), t) = {Entry(i) : i \in gone}
  <2>1. Live(n) = {Entry(i) : i \in On(n)}
    BY DEF Live, On, Entry
  <2>2. \A i : Entry(i).ends = Ends(jobs[i])
    BY DEF Entry
  <2>3. \A i \in On(n) : i \in gone <=> Ends(jobs[i]) # 0 /\ Ends(jobs[i]) <= t
    <3>1. \A i \in On(n) : Ends(jobs[i]) \in Nat
      BY EndsTyped DEF On, Running
    <3>2. \A e \in Nat : Outstays(e, t) <=> ~(e # 0 /\ e <= t)
      BY DEF Outstays
    <3> QED  BY <3>1, <3>2 DEF Left
  <2> QED  BY <2>1, <2>2, <2>3 DEF Ending
<1>2. MapThenSumSet(LAMBDA r : Charge(r.spec)[k], Ending(Live(n), t)) = Load(jobs, gone, k)
  <2>1. gone \in SUBSET DOMAIN jobs
    BY OnTyped
  <2> HIDE DEF gone
  <2>2. MapThenSumSet(LAMBDA r : Charge(r.spec)[k], {Entry(i) : i \in gone}) = Load(jobs, gone, k)
    BY <2>1, KnownAdd
  <2> QED  BY <1>1, <2>2
<1>3. pass.used[n][k] = Load(jobs, On(n), k)
  BY DEF Used, Load
<1>4. TakenAfter(pass.used, n, Ending(Live(n), t))[k] = AtLeast0(Load(jobs, On(n), k) - Load(jobs, gone, k))
  BY <1>2, <1>3 DEF TakenAfter
<1>5. AtLeast0(Load(jobs, On(n), k) - Load(jobs, gone, k)) = Load(jobs, Left(n, t), k)
  <2>1. /\ Load(jobs, On(n), k) = Load(jobs, Left(n, t), k) + Load(jobs, gone, k)
        /\ Load(jobs, Left(n, t), k) \in Nat /\ Load(jobs, gone, k) \in Nat
    BY OnTyped
  <2> HIDE DEF gone
  <2> QED  BY <2>1 DEF AtLeast0
<1> QED  BY <1>3, <1>4, <1>5

\* There is room on a machine beside some jobs.
Beside(spec, n, ids) == \A k \in Kinds : Load(jobs, ids, k) + Charge(spec)[k] <= Cap[n][k]

LEMMA FitsIs ==
  \* The planner finds that a job fits, now or when others have ended.
  ASSUME SchedTyped, pass.used = Used, pass.live = Running, NEW n \in Fleet, NEW t \in Nat, NEW spec \in Requests
  PROVE  /\ Fits(spec, n, pass.used) <=> FitsEmpty(spec, n) /\ Beside(spec, n, On(n))
         /\ Fits(spec, n, [pass.used EXCEPT ![n] = TakenAfter(pass.used, n, Ending(Live(n), t))])
              <=> FitsEmpty(spec, n) /\ Beside(spec, n, Left(n, t))
<1> DEFINE taken == TakenAfter(pass.used, n, Ending(Live(n), t))
           used == [pass.used EXCEPT ![n] = taken]
<1>1. pass.used \in [Fleet -> Vectors]
  BY DEF SchedTyped, Passes
<1>2. used[n] = taken
  BY <1>1
<1>3. \A k \in Kinds : /\ taken[k] = Load(jobs, Left(n, t), k) /\ pass.used[n][k] = Load(jobs, On(n), k)
                       /\ Load(jobs, Left(n, t), k) \in Nat /\ Load(jobs, On(n), k) \in Nat
                       /\ Charge(spec)[k] \in Nat /\ Cap[n][k] \in Nat
  <2> HIDE DEF taken
  <2>1. \A k \in Kinds : Charge(spec)[k] \in Nat
    BY ChargeTyped DEF Amounts
  <2> QED  BY <2>1, TakenIs, OnTyped, CapTyped DEF taken
<1> HIDE DEF taken, used
<1>4. /\ \A k \in Kinds : Free(pass.used, n)[k] = Cap[n][k] - Load(jobs, On(n), k)
      /\ \A k \in Kinds : Free(used, n)[k] = Cap[n][k] - Load(jobs, Left(n, t), k)
  BY <1>2, <1>3 DEF Free, Minus
<1>5. /\ AtMost(Charge(spec), Free(pass.used, n)) <=> Beside(spec, n, On(n))
      /\ AtMost(Charge(spec), Free(used, n)) <=> Beside(spec, n, Left(n, t))
  BY <1>3, <1>4 DEF AtMost, Beside
<1> QED  BY <1>5 DEF Fits, used, taken

-----------------------------------------------------------------------------
(* Where and when *)

LEMMA PlaceThere ==
  \* If there is room, a place is found.
  ASSUME NEW spec, NEW used, NEW held, NEW ups, NEW t, NEW n \in Fleet, n \in ups,
         Fits(spec, n, used), MayUse(spec, n, held, t)
  PROVE  PlaceFor(spec, used, held, ups, t) # {}
<1> DEFINE room(m) == m \in ups /\ Fits(spec, m, used) /\ MayUse(spec, m, held, t)
           S == {i \in DOMAIN NodeOrder : room(NodeOrder[i])}
<1>1. DOMAIN NodeOrder = 1..Len(NodeOrder) /\ Len(NodeOrder) \in Nat
  BY PlannerAssumption
<1>2. S \in SUBSET Nat /\ S # {}
  <2>1. PICK i \in DOMAIN NodeOrder : NodeOrder[i] = n
    BY DEF Fleet
  <2>2. i \in S
    BY <2>1
  <2> QED  BY <1>1, <2>2
<1>3. PICK i \in S : \A j \in S : i <= j
  <2> HIDE DEF S
  <2> QED  BY <1>2, FirstOf
<1>4. \A j \in 1..(i - 1) : ~room(NodeOrder[j])
  <2> SUFFICES ASSUME NEW j \in 1..(i - 1), room(NodeOrder[j]) PROVE FALSE
    OBVIOUS
  <2>1. j \in DOMAIN NodeOrder /\ i \in Nat
    BY <1>1, <1>2
  <2>2. j \in S
    BY <2>1
  <2> HIDE DEF S, room
  <2> QED  BY <1>3, <2>1, <2>2
<1>5. NodeOrder[i] \in PlaceFor(spec, used, held, ups, t)
  <2> SUFFICES i \in DOMAIN NodeOrder /\ room(NodeOrder[i]) /\ \A j \in 1..(i - 1) : ~room(NodeOrder[j])
    BY Zenon DEF PlaceFor
  <2> QED  BY <1>4
<1> QED  BY <1>5

LEMMA LeastIs ==
  \* The least of some numbers.
  ASSUME NEW S \in SUBSET Nat, S # {}
  PROVE  Min(S) \in S /\ \A t \in S : Min(S) <= t
<1>1. \E i \in S : \A k \in S : i <= k
  BY FirstOf
<1> QED  BY <1>1 DEF Min

LEMMA Soonest ==
  \* What can be had at some time on a machine that is not promised is offered then or sooner.
  ASSUME NEW spec, NEW used, NEW held, NEW ups \in SUBSET Fleet, NEW live, NEW now_0 \in Nat,
         \A m \in Fleet : FreesUpTimes(spec, m, used, live[m], now_0) \in SUBSET Nat,
         NEW n \in ups, held[n] = -1, FitsEmpty(spec, n),
         NEW t \in FreesUpTimes(spec, n, used, live[n], now_0)
  PROVE  /\ Reservation(spec, used, held, ups, live, now_0) # {}
         /\ \A o \in Reservation(spec, used, held, ups, live, now_0) : o[2] <= t
<1> DEFINE frees(m) == FreesUpTimes(spec, m, used, live[m], now_0)
           offers == {m \in ups : held[m] = -1 /\ FitsEmpty(spec, m) /\ frees(m) # {}}
           at(m) == Min(frees(m))
           rank(m) == CHOOSE i \in DOMAIN NodeOrder : NodeOrder[i] = m
           sooner(m, x) == at(m) < at(x) \/ (at(m) = at(x) /\ rank(m) < rank(x))
<1>1. Reservation(spec, used, held, ups, live, now_0)
        = {<<x, at(x)>> : x \in {o \in offers : \A m \in offers : ~sooner(m, o)}}
  BY DEF Reservation
<1>2. \A m \in offers : m \in Fleet /\ at(m) \in Nat /\ \A s \in frees(m) : at(m) <= s
  <2> SUFFICES ASSUME NEW m \in offers PROVE m \in Fleet /\ at(m) \in Nat /\ \A s \in frees(m) : at(m) <= s
    OBVIOUS
  <2>1. frees(m) \in SUBSET Nat /\ frees(m) # {} /\ m \in Fleet
    OBVIOUS
  <2> HIDE DEF frees
  <2> QED  BY <2>1, LeastIs
<1>3. \A m \in Fleet : rank(m) \in Nat
  <2>1. DOMAIN NodeOrder = 1..Len(NodeOrder) /\ Len(NodeOrder) \in Nat
    BY PlannerAssumption
  <2>2. \A m \in Fleet : rank(m) \in DOMAIN NodeOrder
    BY DEF Fleet
  <2> HIDE DEF rank
  <2> QED  BY <2>1, <2>2
<1>4. n \in offers /\ t \in frees(n)
  OBVIOUS
<1> HIDE DEF offers, at, rank, frees
<1>5. PICK x \in offers : \A m \in offers : ~sooner(m, x)
  <2> DEFINE A == {at(m) : m \in offers}
  <2>1. A \in SUBSET Nat /\ A # {}
    BY <1>2, <1>4
  <2>2. PICK a \in A : \A b \in A : a <= b
    <3> HIDE DEF A
    <3> QED  BY <2>1, FirstOf
  <2> DEFINE R == {rank(m) : m \in {q \in offers : at(q) = a}}
  <2>3. R \in SUBSET Nat /\ R # {}
    BY <1>2, <1>3
  <2>4. PICK r \in R : \A q \in R : r <= q
    <3> HIDE DEF R
    <3> QED  BY <2>3, FirstOf
  <2>5. PICK x \in offers : at(x) = a /\ rank(x) = r
    OBVIOUS
  <2>6. ASSUME NEW m \in offers, sooner(m, x) PROVE FALSE
    <3>1. at(m) \in Nat /\ a \in Nat /\ a <= at(m)
      BY <1>2, <2>2, <2>5
    <3>2. at(m) = a /\ rank(m) < r
      BY <2>5, <2>6, <3>1
    <3>3. rank(m) \in R /\ rank(m) \in Nat /\ r \in Nat
      BY <1>2, <1>3, <2>3, <3>2
    <3> HIDE DEF R
    <3> QED  BY <2>4, <3>2, <3>3
  <2> QED  BY <2>6
<1>6. <<x, at(x)>> \in Reservation(spec, used, held, ups, live, now_0)
  BY <1>1, <1>5
<1>7. ASSUME NEW o \in Reservation(spec, used, held, ups, live, now_0) PROVE o[2] <= t
  <2>1. PICK q \in offers : o = <<q, at(q)>> /\ ~sooner(n, q)
    BY <1>1, <1>4
  <2>2. at(q) \in Nat /\ at(n) \in Nat /\ at(n) <= t /\ t \in Nat
    BY <1>2, <1>4 DEF frees
  <2>3. o[2] = at(q) /\ at(q) <= at(n)
    BY <2>1, <2>2
  <2> QED  BY <2>2, <2>3
<1> QED  BY <1>6, <1>7

LEMMA ThenFits ==
  \* When a machine is found to free up, there is room on it beside what is left then.
  ASSUME SchedTyped, OnTime, pass.used = Used, pass.live = Running, NEW n \in Fleet, NEW spec \in Requests
  PROVE  \A t \in FreesUpTimes(spec, n, pass.used, Live(n), now) :
           t \in Nat /\ FitsEmpty(spec, n) /\ Beside(spec, n, Left(n, t))
<1> DEFINE fits(t) == Fits(spec, n, [pass.used EXCEPT ![n] = TakenAfter(pass.used, n, Ending(Live(n), t))])
<1>1. now \in Nat
  BY DEF SchedTyped
<1>2. CASE Fits(spec, n, pass.used)
  <2>1. FreesUpTimes(spec, n, pass.used, Live(n), now) = {now}
    BY <1>2 DEF FreesUpTimes
  <2>2. FitsEmpty(spec, n) /\ Beside(spec, n, On(n))
    BY <1>1, <1>2, FitsIs
  <2>3. Beside(spec, n, Left(n, now))
    <3> SUFFICES ASSUME NEW k \in Kinds PROVE Load(jobs, Left(n, now), k) + Charge(spec)[k] <= Cap[n][k]
      BY DEF Beside
    <3>1. Load(jobs, On(n), k) + Charge(spec)[k] <= Cap[n][k]
      BY <2>2 DEF Beside
    <3>2. /\ Load(jobs, On(n), k) = Load(jobs, Left(n, now), k) + Load(jobs, On(n) \ Left(n, now), k)
          /\ Load(jobs, Left(n, now), k) \in Nat /\ Load(jobs, On(n) \ Left(n, now), k) \in Nat
      BY OnTyped
    <3>3. Charge(spec)[k] \in Nat /\ Cap[n][k] \in Nat
      BY ChargeTyped, CapTyped DEF Amounts
    <3> QED  BY <3>1, <3>2, <3>3
  <2> QED  BY <1>1, <2>1, <2>2, <2>3
<1>3. CASE ~Fits(spec, n, pass.used)
  <2> SUFFICES ASSUME NEW t \in FreesUpTimes(spec, n, pass.used, Live(n), now)
               PROVE  t \in Nat /\ FitsEmpty(spec, n) /\ Beside(spec, n, Left(n, t))
    OBVIOUS
  <2>1. PICK q \in Live(n) : q.ends # 0 /\ fits(q.ends) /\ t = IF q.ends < now THEN now ELSE q.ends
    BY <1>3 DEF FreesUpTimes
  <2>2. PICK i \in On(n) : q.ends = Ends(jobs[i])
    BY DEF Live, On
  <2>3. i \in Running /\ i \in DOMAIN jobs
    BY DEF On, Running
  <2>4. Ends(jobs[i]) \in Nat /\ Ends(jobs[i]) >= now
    BY <2>1, <2>2, <2>3, EndsTyped DEF OnTime
  <2>5. t = q.ends /\ q.ends \in Nat
    BY <1>1, <2>1, <2>2, <2>4
  <2> HIDE DEF fits
  <2>6. fits(t)
    BY <2>1, <2>5
  <2> QED  BY <2>5, <2>6, FitsIs DEF fits
<1> QED  BY <1>2, <1>3

LEMMA InTime ==
  \* If there will be room by some time and there is none now, the machine is found to free up by then.
  ASSUME SchedTyped, OnTime, pass.used = Used, pass.live = Running, NEW n \in Fleet, NEW spec \in Requests,
         NEW t \in Nat, FitsEmpty(spec, n), Beside(spec, n, Left(n, t)), ~Fits(spec, n, pass.used)
  PROVE  \E s \in FreesUpTimes(spec, n, pass.used, Live(n), now) : s <= t
<1> DEFINE gone == On(n) \ Left(n, t)
           E == {Ends(jobs[i]) : i \in gone}
<1>1. \A i \in On(n) : i \in DOMAIN jobs /\ i \in Running /\ Ends(jobs[i]) \in Nat
  BY EndsTyped DEF On, Running
<1>2. now \in Nat
  BY DEF SchedTyped
<1>3. \A i \in gone : Ends(jobs[i]) # 0 /\ Ends(jobs[i]) <= t
  BY <1>1 DEF Left, Outstays
<1>4. gone # {}
  <2> SUFFICES ASSUME gone = {} PROVE FALSE
    OBVIOUS
  <2>1. Left(n, t) = On(n)
    BY DEF Left
  <2>2. Beside(spec, n, On(n))
    BY <2>1
  <2> QED  BY <2>2, FitsIs
<1>5. E \in SUBSET (0..t) /\ E # {}
  BY <1>1, <1>3, <1>4
<1>6. PICK e \in E : \A x \in E : x <= e
  <2> DEFINE D == {d \in Nat : t - d \in E}
  <2>1. \A x \in E : x \in Nat /\ t - x \in Nat /\ t - (t - x) = x
    <3> HIDE DEF E
    <3> QED  BY <1>5
  <2>2. D \in SUBSET Nat /\ D # {}
    <3> HIDE DEF E
    <3> QED  BY <1>5, <2>1
  <2>3. PICK d \in D : \A c \in D : d <= c
    <3> HIDE DEF D
    <3> QED  BY <2>2, FirstOf
  <2>4. t - d \in E /\ d \in Nat
    OBVIOUS
  <2>5. \A x \in E : d <= t - x
    <3> HIDE DEF E
    <3> QED  BY <2>1, <2>3
  <2> HIDE DEF E
  <2> QED  BY <2>1, <2>4, <2>5
<1>7. PICK i \in gone : Ends(jobs[i]) = e
  OBVIOUS
<1>8. e \in Nat /\ e <= t /\ e # 0 /\ e >= now
  BY <1>1, <1>3, <1>7 DEF OnTime
<1>9. Left(n, e) = Left(n, t)
  <2>1. ASSUME NEW j \in On(n) PROVE Outstays(Ends(jobs[j]), e) <=> Outstays(Ends(jobs[j]), t)
    <3>1. CASE Outstays(Ends(jobs[j]), t)
      BY <1>1, <1>8, <3>1 DEF Outstays
    <3>2. CASE ~Outstays(Ends(jobs[j]), t)
      <4>1. Ends(jobs[j]) \in E
        BY <3>2 DEF Left
      <4>2. Ends(jobs[j]) <= e
        BY <1>6, <4>1
      <4>3. Ends(jobs[j]) # 0 /\ Ends(jobs[j]) \in Nat
        BY <1>1, <3>2 DEF Outstays
      <4> QED  BY <1>8, <3>2, <4>2, <4>3 DEF Outstays
    <3> QED  BY <3>1, <3>2
  <2> QED  BY <2>1 DEF Left
<1>10. Fits(spec, n, [pass.used EXCEPT ![n] = TakenAfter(pass.used, n, Ending(Live(n), e))])
  <2>1. Beside(spec, n, Left(n, e))
    BY <1>9
  <2> QED  BY <1>8, <2>1, FitsIs
<1>11. Entry(i) \in Live(n) /\ Entry(i).ends = e
  BY <1>7 DEF Entry, Live, On
<1>12. (IF e < now THEN now ELSE e) = e
  BY <1>2, <1>8
<1>13. e \in FreesUpTimes(spec, n, pass.used, Live(n), now)
  <2> DEFINE q == Entry(i)
             ok(r) == /\ r.ends # 0
                      /\ Fits(spec, n, [pass.used EXCEPT ![n] = TakenAfter(pass.used, n, Ending(Live(n), r.ends))])
  <2>1. q \in Live(n) /\ q.ends = e /\ ok(q)
    BY <1>8, <1>10, <1>11
  <2> HIDE DEF q
  <2>2. FreesUpTimes(spec, n, pass.used, Live(n), now)
          = {IF s < now THEN now ELSE s : s \in {r.ends : r \in {p \in Live(n) : ok(p)}}}
    BY DEF FreesUpTimes
  <2> HIDE DEF ok
  <2>3. e \in {r.ends : r \in {p \in Live(n) : ok(p)}}
    BY <2>1
  <2> QED  BY <1>12, <2>2, <2>3
<1> QED  BY <1>8, <1>13

LEMMA OfferIs ==
  \* What a job is offered when nothing has been decided yet is good.
  ASSUME SchedTyped, OnTime, pass.used = Used, pass.live = Running, NEW spec \in Requests, NEW o \in Offer(spec)
  PROVE  /\ o[1] \in pass.up /\ o[1] \in Fleet /\ o[2] \in Nat /\ pass.held[o[1]] = -1 /\ backfill /\ Reservations < Depth
         /\ FitsEmpty(spec, o[1]) /\ Beside(spec, o[1], Left(o[1], o[2]))
<1> DEFINE live == [m \in Fleet |-> Live(m)]
           frees(m) == FreesUpTimes(spec, m, pass.used, live[m], now)
<1>1. backfill /\ Reservations < Depth /\ o \in Reservation(spec, pass.used, pass.held, pass.up, live, now)
  BY DEF Offer
<1>2. pass.up \in SUBSET Fleet
  BY DEF SchedTyped, Passes
<1>3. PICK m \in pass.up : pass.held[m] = -1 /\ frees(m) # {} /\ o = <<m, Min(frees(m))>>
  <2> HIDE DEF live
  <2> QED  BY <1>1 DEF Reservation
<1>4. m \in Fleet /\ live[m] = Live(m)
  BY <1>2
<1>5. \A t \in frees(m) : t \in Nat /\ FitsEmpty(spec, m) /\ Beside(spec, m, Left(m, t))
  <2> HIDE DEF live
  <2> QED  BY <1>4, ThenFits
<1>6. Min(frees(m)) \in frees(m)
  <2> HIDE DEF frees
  <2> QED  BY <1>3, <1>5, LeastIs
<1> HIDE DEF frees
<1>7. o[1] = m /\ o[2] = Min(frees(m))
  BY <1>3
<1> QED  BY <1>1, <1>3, <1>4, <1>5, <1>6, <1>7

LEMMA OfferBy ==
  \* To whom room on a machine is promised by some time, that time or a sooner one is offered.
  ASSUME SchedTyped, OnTime, pass.used = Used, pass.live = Running, NEW spec \in Requests,
         backfill, Reservations < Depth, NEW n \in pass.up, pass.held[n] = -1, NEW t \in Nat,
         FitsEmpty(spec, n), Beside(spec, n, Left(n, t)),
         PlaceFor(spec, pass.used, pass.held, pass.up, now) = {}
  PROVE  Offer(spec) # {} /\ \A o \in Offer(spec) : o[2] <= t
<1> DEFINE live == [m \in Fleet |-> Live(m)]
<1>1. pass.up \in SUBSET Fleet /\ n \in Fleet /\ now \in Nat
  BY DEF SchedTyped, Passes
<1>2. ~Fits(spec, n, pass.used)
  <2>1. MayUse(spec, n, pass.held, now)
    BY DEF MayUse
  <2> QED  BY <1>1, <2>1, PlaceThere
<1>3. PICK s \in FreesUpTimes(spec, n, pass.used, Live(n), now) : s <= t
  BY <1>1, <1>2, InTime
<1>4. \A m \in Fleet : live[m] = Live(m)
  OBVIOUS
<1> HIDE DEF live
<1>5. ASSUME NEW m \in Fleet PROVE FreesUpTimes(spec, m, pass.used, live[m], now) \in SUBSET Nat
  <2>1. \A r \in FreesUpTimes(spec, m, pass.used, Live(m), now) : r \in Nat
    BY ThenFits
  <2> QED  BY <1>4, <2>1
<1>6. s \in FreesUpTimes(spec, n, pass.used, live[n], now) /\ s \in Nat
  BY <1>1, <1>3, <1>4, <1>5
<1>7. /\ Reservation(spec, pass.used, pass.held, pass.up, live, now) # {}
      /\ \A o \in Reservation(spec, pass.used, pass.held, pass.up, live, now) : o[2] <= s
  BY <1>1, <1>5, <1>6, Soonest
<1>8. Offer(spec) = Reservation(spec, pass.used, pass.held, pass.up, live, now)
  BY DEF Offer, live
<1>9. \A o \in Offer(spec) : o[2] \in Nat
  BY OfferIs
<1> QED  BY <1>3, <1>6, <1>7, <1>8, <1>9

-----------------------------------------------------------------------------
(* Promises through the steps *)

LEMMA NobodyHeld ==
  \* With nothing promised in it yet, a pass has made no reservation.
  ASSUME pass.held = [n \in Fleet |-> -1]
  PROVE  Reservations = 0
<1>1. {n \in Fleet : pass.held[n] # -1} = {}
  OBVIOUS
<1> QED  BY <1>1, FS_EmptySet DEF Reservations

LEMMA StayingTyped ==
  \* Whoever stays is in the table.
  ASSUME SchedTyped, HandInv, NEW n, NEW t
  PROVE  /\ Staying(n, t) \in SUBSET DOMAIN jobs /\ IsFiniteSet(Staying(n, t))
         /\ \A i \in Staying(n, t) : jobs[i].spec \in Requests
<1>1. Staying(n, t) \in SUBSET DOMAIN jobs
  BY DEF Staying
<1> QED  BY <1>1, SomeTyped

LEMMA PromiseKept ==
  \* A promise stands as long as nobody else stays.
  ASSUME SchedTyped, HandInv, PromiseStands, promise' = promise, up' = up, backfill' = backfill,
         SchedTyped', HandInv',
         \A i \in DOMAIN jobs : i \in DOMAIN jobs' /\ jobs'[i].spec = jobs[i].spec,
         Staying(promise.node, promise.at)' \subseteq Staying(promise.node, promise.at)
  PROVE  PromiseStands'
<1> SUFFICES ASSUME promise.id # 0 PROVE PromiseStands'
  BY DEF PromiseStands
<1> DEFINE n == promise.node
           t == promise.at
           old == Staying(n, t)
           new == Staying(n, t)'
           spec == jobs[promise.id].spec
<1>1. /\ promise.id \in DOMAIN jobs /\ n \in up /\ 0 < Depth /\ backfill
      /\ FitsEmpty(spec, n)
      /\ \A k \in Kinds : Load(jobs, old, k) + Charge(spec)[k] <= Cap[n][k]
  BY DEF PromiseStands
<1>2. /\ IsFiniteSet(old) /\ old \in SUBSET DOMAIN jobs /\ \A i \in old : jobs[i].spec \in Requests
  BY StayingTyped
<1>3. new \in SUBSET old
  OBVIOUS
<1>4. spec \in Requests /\ n \in Fleet
  BY <1>1, RowsTyped DEF SchedTyped
<1> HIDE DEF old, new
<1>5. \A i \in new : jobs'[i].spec = jobs[i].spec
  BY <1>2, <1>3
<1>6. \A k \in Kinds : Load(jobs', new, k) <= Load(jobs, old, k)
  BY <1>2, <1>3, <1>5, LoadShrinks
<1>7. IsFiniteSet(new) /\ \A i \in new : jobs'[i].spec \in Requests
  BY <1>2, <1>3, <1>5, FS_Subset
<1>8. ASSUME NEW k \in Kinds PROVE Load(jobs', new, k) + Charge(spec)[k] <= Cap[n][k]
  <2>1. Load(jobs', new, k) \in Nat /\ Load(jobs, old, k) \in Nat
    BY <1>2, <1>7, LoadTyped
  <2>2. Charge(spec)[k] \in Nat /\ Cap[n][k] \in Nat
    BY <1>4, ChargeTyped, CapTyped DEF Amounts
  <2>3. Load(jobs, old, k) + Charge(spec)[k] <= Cap[n][k] /\ Load(jobs', new, k) <= Load(jobs, old, k)
    BY <1>1, <1>6
  <2> HIDE DEF n, t, spec
  <2> QED  BY <2>1, <2>2, <2>3
<1>9. promise.id \in DOMAIN jobs' /\ jobs'[promise.id].spec = spec
  BY <1>1
<1> QED  BY <1>1, <1>8, <1>9 DEF PromiseStands, new

LEMMA NoneStands ==
  \* Nothing is promised.
  ASSUME promise' = NoPromise PROVE PromiseStands'
BY DEF PromiseStands, NoPromise

\* A row changes its state only, to one that is not running.
Ended(i, s) == jobs' = [jobs EXCEPT ![i].state = s] /\ s \in JobStates /\ s # "RUNNING"

LEMMA EndedIs ==
  \* What ends is not running any more; the others are what they were.
  ASSUME SchedTyped, NEW i \in DOMAIN jobs, NEW s, Ended(i, s)
  PROVE  /\ DOMAIN jobs' = DOMAIN jobs /\ \A j \in DOMAIN jobs : jobs'[j].spec = jobs[j].spec
         /\ \A j \in DOMAIN jobs : Ends(jobs'[j]) = Ends(jobs[j])
         /\ Running' \subseteq Running /\ \A n : On(n)' \subseteq On(n)
<1>1. /\ SameJobs(jobs', jobs) /\ jobs'[i].state = s
      /\ \A j \in DOMAIN jobs : jobs'[j].at = jobs[j].at
      /\ \A j \in DOMAIN jobs : j # i => jobs'[j].state = jobs[j].state
  BY StateSet DEF Ended
<1>2. \A j \in DOMAIN jobs : jobs[j] \in Rows
  BY RowsTyped
<1>3. \A j \in DOMAIN jobs : jobs'[j].since = jobs[j].since
  <2> DEFINE row == [jobs[i] EXCEPT !.state = s]
  <2>1. row.since = jobs[i].since
    BY <1>2 DEF Rows
  <2>2. jobs' = [jobs EXCEPT ![i] = row]
    BY DEF Ended
  <2> HIDE DEF row
  <2> QED  BY <2>1, <2>2
<1>4. DOMAIN jobs' = DOMAIN jobs /\ \A j \in DOMAIN jobs : jobs'[j].spec = jobs[j].spec
  BY <1>1 DEF SameJobs
<1>5. \A j \in DOMAIN jobs : Ends(jobs'[j]) = Ends(jobs[j])
  BY <1>3, <1>4 DEF Ends
<1>6. Running' \subseteq Running
  BY <1>1, <1>4 DEF Running, Ended
<1>7. \A n : On(n)' \subseteq On(n)
  BY <1>1, <1>6 DEF On, Running
<1> QED  BY <1>4, <1>5, <1>6, <1>7

LEMMA StartedIs ==
  \* What starts runs from now on; the others are what they were.
  ASSUME SchedTyped, NEW i \in DOMAIN jobs, NEW at \in SUBSET Fleet,
         NEW shares \in UNION {[s -> Vectors] : s \in SUBSET Fleet}, jobs' = Start(i, at, shares)
  PROVE  /\ DOMAIN jobs' = DOMAIN jobs /\ \A j \in DOMAIN jobs : jobs'[j].spec = jobs[j].spec
         /\ \A j \in DOMAIN jobs : j # i => Ends(jobs'[j]) = Ends(jobs[j])
         /\ Ends(jobs'[i]) = IF jobs[i].spec.wall > 0 THEN now + jobs[i].spec.wall ELSE 0
         /\ Running' = Running \cup {i} /\ jobs'[i].at = at
         /\ \A n, j : j # i => (j \in On(n)' <=> j \in On(n))
<1>1. /\ SameJobs(jobs', jobs) /\ jobs'[i].state = "RUNNING" /\ jobs'[i].at = at
      /\ \A j \in DOMAIN jobs : j # i => jobs'[j].at = jobs[j].at /\ jobs'[j].state = jobs[j].state
  BY StartIs
<1>2. \A j \in DOMAIN jobs : jobs[j] \in Rows
  BY RowsTyped
<1>3. jobs'[i].since = now /\ \A j \in DOMAIN jobs : j # i => jobs'[j].since = jobs[j].since
  <2> DEFINE row == [jobs[i] EXCEPT !.state = "RUNNING", !.at = at, !.shares = shares, !.since = now]
  <2>1. row.since = now
    <3>1. jobs[i] \in Rows
      BY <1>2
    <3> HIDE DEF SchedTyped
    <3> QED  BY <3>1 DEF Rows
  <2>2. jobs' = [jobs EXCEPT ![i] = row]
    BY DEF Start
  <2> HIDE DEF row
  <2> QED  BY <2>1, <2>2
<1>4. DOMAIN jobs' = DOMAIN jobs /\ \A j \in DOMAIN jobs : jobs'[j].spec = jobs[j].spec
  BY <1>1 DEF SameJobs
<1>5. \A j \in DOMAIN jobs : j # i => Ends(jobs'[j]) = Ends(jobs[j])
  BY <1>3, <1>4 DEF Ends
<1>6. Ends(jobs'[i]) = IF jobs[i].spec.wall > 0 THEN now + jobs[i].spec.wall ELSE 0
  BY <1>3, <1>4 DEF Ends
<1>7. Running' = Running \cup {i}
  BY <1>1, <1>4 DEF Running
<1>8. \A n, j : j # i => (j \in On(n)' <=> j \in On(n))
  BY <1>1, <1>4, <1>7 DEF On, Running
<1> QED  BY <1>1, <1>4, <1>5, <1>6, <1>7, <1>8

LEMMA SubmittedIs ==
  \* What is submitted does not run; the others are what they were.
  ASSUME SchedTyped, NEW spec \in Specs, Submit(spec)
  PROVE  /\ \A j \in DOMAIN jobs : j \in DOMAIN jobs' /\ jobs'[j].spec = jobs[j].spec /\ Ends(jobs'[j]) = Ends(jobs[j])
         /\ Running' = Running /\ \A n : On(n)' = On(n)
<1>1. /\ DOMAIN jobs' = DOMAIN jobs \cup {Len(jobs) + 1} /\ Len(jobs) + 1 \notin DOMAIN jobs
      /\ \A j \in DOMAIN jobs : jobs'[j] = jobs[j]
      /\ jobs'[Len(jobs) + 1].state = "PENDING"
  BY SubmitIs
<1>2. Running' = Running
  BY <1>1 DEF Running
<1>3. \A n : On(n)' = On(n)
  BY <1>1, <1>2 DEF On, Running
<1>4. \A j \in DOMAIN jobs : Ends(jobs'[j]) = Ends(jobs[j])
  BY <1>1 DEF Ends
<1> QED  BY <1>1, <1>2, <1>3, <1>4

\* Whoever waits does not run.
LEMMA WaitsNot == ASSUME NEW i, Waits(i) PROVE i \notin Running /\ \A n : i \notin On(n)
BY DEF Waits, Running, On

LEMMA EarlySteps ==
  \* What a pass decides before it plans, it decides without promises.
  ASSUME SchedTyped, HandInv, CheckDependencies \/ BeginAdmission \/ Admit \/ BeginGangs \/ PlaceGang
  PROVE  /\ pass.step \notin {"idle", "plan"} /\ pass'.step # "plan"
         /\ pass'.held = pass.held /\ pass'.blocked = pass.blocked /\ pass'.up = pass.up
<1>1. pass \in Passes
  BY DEF SchedTyped
<1>2. CASE CheckDependencies
  <2> DEFINE met == \A d \in jobs[Foremost].spec.deps : Met(d, Foremost)
  <2>1. pass.todo # {} /\ pass' = Take(met) /\ met \in BOOLEAN
    BY <1>2 DEF CheckDependencies, At
  <2> HIDE DEF met
  <2>2. pass'.held = pass.held /\ pass'.blocked = pass.blocked /\ pass'.up = pass.up
    BY <2>1, TakeIs
  <2> QED  BY <1>2, <2>2, CheckDependenciesIs
<1>3. CASE BeginAdmission
  <2>1. pass' = [pass EXCEPT !.step = "qos", !.todo = pass.kept, !.kept = {}, !.all = UsageOf(Running)]
        /\ pass.step = "deps"
    BY <1>3 DEF BeginAdmission, Over
  <2> QED  BY <1>1, <2>1 DEF Passes
<1>4. CASE Admit
  <2>1. pass.todo # {} /\ \E ok \in BOOLEAN : \E all, mine : pass' = [Take(ok) EXCEPT !.all = all, !.mine = mine]
    <3> DEFINE ok == Admitted
               all == IF ok THEN All ELSE Take(ok).all
               mine == (Take(ok).mine \ Known) \cup {[user |-> jobs[Foremost].spec.user,
                                                      usage |-> IF ok THEN Mine ELSE Usage]}
    <3>1. pass' = [Take(ok) EXCEPT !.all = IF ok THEN All ELSE @,
                                     !.mine = (@ \ Known) \cup {[user |-> jobs[Foremost].spec.user,
                                                                 usage |-> IF ok THEN Mine ELSE Usage]}]
          /\ pass.todo # {}
      BY <1>4 DEF Admit, At, Admitted, Known, Known1, Usage, Mine, All
    <3>a. ok \in BOOLEAN
      BY DEF Admitted
    <3>b. Take(ok) \in Passes
      BY <3>1, <3>a, TakeIs
    <3>2. pass' = [Take(ok) EXCEPT !.all = all, !.mine = mine]
      <4> HIDE DEF ok
      <4> QED  BY <3>1, <3>b DEF Passes
    <3> HIDE DEF ok, all, mine
    <3> QED  BY <3>1, <3>2, <3>a, ZenonT(60)
  <2>2. PICK ok \in BOOLEAN : \E all, mine : pass' = [Take(ok) EXCEPT !.all = all, !.mine = mine]
    BY <2>1
  <2>b. PICK all, mine : pass' = [Take(ok) EXCEPT !.all = all, !.mine = mine]
    BY <2>2
  <2>3. /\ Take(ok) \in Passes /\ Take(ok).held = pass.held /\ Take(ok).blocked = pass.blocked
        /\ Take(ok).up = pass.up
    BY <2>1, TakeIs
  <2>4. pass'.held = Take(ok).held /\ pass'.blocked = Take(ok).blocked /\ pass'.up = Take(ok).up
    BY <2>b, <2>3 DEF Passes
  <2> QED  BY <1>4, <2>3, <2>4, AdmitIs
<1>5. CASE BeginGangs
  <2>1. pass' = [pass EXCEPT !.step = "gangs", !.todo = pass.kept, !.kept = {}] /\ pass.step = "qos"
    BY <1>5 DEF BeginGangs, Over
  <2> QED  BY <1>1, <2>1 DEF Passes
<1>6. CASE PlaceGang
  <2>1. pass.todo # {} /\ \/ \E keep \in BOOLEAN : pass' = Take(keep)
                          \/ \E used : pass' = [Take(FALSE) EXCEPT !.used = used]
    <3>1. pass.todo # {} /\ \/ \E keep \in BOOLEAN : pass' = Take(keep)
                            \/ \E p \in SolveAggregate(jobs[Foremost].spec, pass.used, pass.up) :
                                 pass' = [Take(FALSE) EXCEPT
                                   !.used = [n \in Fleet |-> IF n \in p.nodes THEN Plus(@[n], p.shares[n]) ELSE @[n]]]
      BY <1>6 DEF PlaceGang, At
    <3>2. ASSUME NEW p, pass' = [Take(FALSE) EXCEPT
                   !.used = [n \in Fleet |-> IF n \in p.nodes THEN Plus(@[n], p.shares[n]) ELSE @[n]]]
          PROVE  \E used : pass' = [Take(FALSE) EXCEPT !.used = used]
      <4> DEFINE old == Take(FALSE).used
                 new == [n \in Fleet |-> IF n \in p.nodes THEN Plus(old[n], p.shares[n]) ELSE old[n]]
      <4>1. pass' = [Take(FALSE) EXCEPT !.used = new]
        <5>1. Take(FALSE) \in Passes
          BY <3>1, TakeIs
        <5> QED  BY <3>2, <5>1 DEF Passes
      <4> HIDE DEF new
      <4> QED  BY <4>1
    <3> QED  BY <3>1, <3>2
  <2>2. \A keep \in BOOLEAN : /\ Take(keep) \in Passes /\ Take(keep).held = pass.held
                              /\ Take(keep).blocked = pass.blocked /\ Take(keep).up = pass.up
    <3> TAKE keep \in BOOLEAN
    <3> QED  BY <2>1, TakeIs
  <2>3. pass'.held = pass.held /\ pass'.blocked = pass.blocked /\ pass'.up = pass.up
    <3>1. CASE \E keep \in BOOLEAN : pass' = Take(keep)
      BY <2>2, <3>1
    <3>2. CASE \E used : pass' = [Take(FALSE) EXCEPT !.used = used]
      <4>1. PICK used : pass' = [Take(FALSE) EXCEPT !.used = used]
        BY <3>2
      <4>2. Take(FALSE) \in Passes
        BY <2>2
      <4>3. pass'.held = Take(FALSE).held /\ pass'.blocked = Take(FALSE).blocked /\ pass'.up = Take(FALSE).up
        BY <4>1, <4>2 DEF Passes
      <4> QED  BY <2>2, <4>3
    <3> QED  BY <2>1, <3>1, <3>2
  <2> QED  BY <1>6, <2>3, PlaceGangIs
<1> QED  BY <1>2, <1>3, <1>4, <1>5, <1>6

\* What planning one job may come to: it is not looked at, starts, gets nothing, or is promised a machine.
Unlooked == pass.blocked /\ pass'.held = pass.held /\ pass'.starts = pass.starts /\ promise' = promise
Starts(spec, n) ==
  /\ ~pass.blocked /\ n \in Fleet /\ MayUse(spec, n, pass.held, now)
  /\ pass'.held = pass.held /\ pass'.starts = pass.starts \cup {<<Foremost, n>>}
  /\ promise' = IF Foremost = promise.id \/ (~pass.agreed /\ Outlasts(spec, n)) THEN NoPromise ELSE promise
NoRoom(spec) == ~pass.blocked /\ PlaceFor(spec, pass.used, pass.held, pass.up, now) = {}
Nothing(spec) ==
  NoRoom(spec) /\ Offer(spec) = {} /\ pass'.held = pass.held /\ pass'.starts = pass.starts /\ promise' = promise
Promised(spec, o) ==
  /\ NoRoom(spec) /\ o \in Offer(spec)
  /\ pass'.held = [pass.held EXCEPT ![o[1]] = o[2]] /\ pass'.starts = pass.starts
  /\ promise' = IF Foremost = pass.first /\ pass.agreed THEN [id |-> Foremost, node |-> o[1], at |-> o[2]]
                ELSE promise

LEMMA PlanCases ==
  \* One of them happens, and the rest of the pass stays as it was read.
  ASSUME SchedTyped, HandInv, PlanJob
  PROVE  /\ pass.step = "plan" /\ pass'.step = "plan" /\ pass.todo # {} /\ pass'.todo = pass.todo \ {Foremost}
         /\ pass'.first = pass.first /\ pass'.agreed = pass.agreed /\ pass'.up = pass.up
         /\ LET spec == jobs[Foremost].spec
            IN  Unlooked \/ (\E n : Starts(spec, n)) \/ Nothing(spec) \/ \E o : Promised(spec, o)
<1> DEFINE i == Foremost
           spec == jobs[i].spec
           room == PlaceFor(spec, pass.used, pass.held, pass.up, now)
           t == Take(FALSE)
           Rest == /\ pass'.first = pass.first /\ pass'.agreed = pass.agreed /\ pass'.up = pass.up
           Cases == Unlooked \/ (\E n : Starts(spec, n)) \/ Nothing(spec) \/ \E o : Promised(spec, o)
<1>1. pass.step = "plan" /\ pass.todo # {}
  BY DEF PlanJob, At
<1>2. /\ t \in Passes /\ t.held = pass.held /\ t.starts = pass.starts /\ t.first = pass.first
      /\ t.agreed = pass.agreed /\ t.up = pass.up /\ t.used = pass.used
  BY <1>1, TakeIs
<1>3. \/ pass.blocked /\ pass' = t /\ promise' = promise
      \/ \E n \in room :
           /\ ~pass.blocked
           /\ pass' = [t EXCEPT !.used[n] = Plus(@, Charge(spec)), !.starts = @ \cup {<<i, n>>}]
           /\ promise' = IF i = promise.id \/ (~pass.agreed /\ Outlasts(spec, n)) THEN NoPromise ELSE promise
      \/ ~pass.blocked /\ room = {} /\ Offer(spec) = {} /\ pass' = [t EXCEPT !.blocked = ~backfill] /\ promise' = promise
      \/ \E o \in Offer(spec) :
           /\ ~pass.blocked /\ room = {}
           /\ pass' = [t EXCEPT !.held[o[1]] = o[2]]
           /\ promise' = IF i = pass.first /\ pass.agreed THEN [id |-> i, node |-> o[1], at |-> o[2]] ELSE promise
  BY DEF PlanJob
<1> HIDE DEF t
<1>4. ASSUME pass.blocked, pass' = t, promise' = promise PROVE Rest /\ Cases
  BY <1>2, <1>4 DEF Unlooked
<1>5. ASSUME NEW n \in room, ~pass.blocked,
             pass' = [t EXCEPT !.used[n] = Plus(@, Charge(spec)), !.starts = @ \cup {<<i, n>>}],
             promise' = IF i = promise.id \/ (~pass.agreed /\ Outlasts(spec, n)) THEN NoPromise ELSE promise
      PROVE  Rest /\ Cases
  <2> DEFINE used == [t.used EXCEPT ![n] = Plus(@, Charge(spec))]
             starts == t.starts \cup {<<i, n>>}
  <2>1. pass' = [t EXCEPT !.used = used, !.starts = starts]
    BY <1>2, <1>5 DEF Passes
  <2> HIDE DEF used, starts
  <2>2. pass'.held = t.held /\ pass'.starts = starts /\ pass'.first = t.first /\ pass'.agreed = t.agreed /\ pass'.up = t.up
    BY <1>2, <2>1 DEF Passes
  <2>3. n \in Fleet /\ MayUse(spec, n, pass.held, now)
    BY PlannerAssumption DEF PlaceFor, Fleet
  <2>4. Starts(spec, n)
    <3>1. pass'.starts = pass.starts \cup {<<Foremost, n>>}
      BY <1>2, <2>2 DEF starts
    <3> HIDE DEF spec
    <3> QED  BY <1>2, <1>5, <2>2, <2>3, <3>1 DEF Starts
  <2> QED  BY <1>2, <2>2, <2>4
<1>6. ASSUME ~pass.blocked, room = {}, Offer(spec) = {}, pass' = [t EXCEPT !.blocked = ~backfill], promise' = promise
      PROVE  Rest /\ Cases
  <2>1. pass'.held = t.held /\ pass'.starts = t.starts /\ pass'.first = t.first /\ pass'.agreed = t.agreed /\ pass'.up = t.up
    BY <1>2, <1>6 DEF Passes
  <2> QED  BY <1>2, <1>6, <2>1 DEF Nothing, NoRoom
<1>7. ASSUME NEW o \in Offer(spec), ~pass.blocked, room = {}, pass' = [t EXCEPT !.held[o[1]] = o[2]],
             promise' = IF i = pass.first /\ pass.agreed THEN [id |-> i, node |-> o[1], at |-> o[2]] ELSE promise
      PROVE  Rest /\ Cases
  <2> DEFINE held == [pass.held EXCEPT ![o[1]] = o[2]]
  <2>1. pass' = [t EXCEPT !.held = held]
    BY <1>2, <1>7 DEF Passes
  <2> HIDE DEF held
  <2>2. pass'.held = held /\ pass'.starts = t.starts /\ pass'.first = t.first /\ pass'.agreed = t.agreed /\ pass'.up = t.up
    BY <1>2, <2>1 DEF Passes
  <2>3. Promised(spec, o)
    BY <1>2, <1>7, <2>2 DEF Promised, NoRoom, held
  <2> QED  BY <1>2, <2>2, <2>3
<1>8. Rest /\ Cases
  <2>1. CASE \E n \in room :
           /\ ~pass.blocked
           /\ pass' = [t EXCEPT !.used[n] = Plus(@, Charge(spec)), !.starts = @ \cup {<<i, n>>}]
           /\ promise' = IF i = promise.id \/ (~pass.agreed /\ Outlasts(spec, n)) THEN NoPromise ELSE promise
    <3> HIDE DEF Rest, Cases, room, spec, i
    <3> QED  BY <1>5, <2>1
  <2>2. CASE \E o \in Offer(spec) :
           /\ ~pass.blocked /\ room = {}
           /\ pass' = [t EXCEPT !.held[o[1]] = o[2]]
           /\ promise' = IF i = pass.first /\ pass.agreed THEN [id |-> i, node |-> o[1], at |-> o[2]] ELSE promise
    <3> HIDE DEF Rest, Cases, room, spec, i
    <3> QED  BY <1>7, <2>2
  <2> HIDE DEF Rest, Cases, room, spec, i
  <2> QED  BY <1>3, <1>4, <1>6, <2>1, <2>2
<1> QED  BY <1>1, <1>8, PlanJobIs

LEMMA OnTimeStep ==
  \* What runs has time left: the clock waits for those that are over it.
  ASSUME SchedTyped, HandInv, OnTime, Next
  PROVE  OnTime'
<1>1. now \in Nat /\ \A i \in Running : i \in DOMAIN jobs /\ Ends(jobs[i]) \in Nat
  BY EndsTyped DEF SchedTyped, Running
<1>2. ASSUME now' = now, \A i \in Running' : i \in Running /\ Ends(jobs'[i]) = Ends(jobs[i]) PROVE OnTime'
  BY <1>2 DEF OnTime
<1>3. ASSUME NEW i \in DOMAIN jobs, NEW s, Ended(i, s), now' = now PROVE OnTime'
  BY <1>1, <1>2, <1>3, EndedIs
<1>4. ASSUME NEW i \in DOMAIN jobs, NEW at \in SUBSET Fleet,
             NEW shares \in UNION {[s -> Vectors] : s \in SUBSET Fleet}, jobs' = Start(i, at, shares), now' = now
      PROVE  OnTime'
  <2>1. /\ \A j \in DOMAIN jobs : j # i => Ends(jobs'[j]) = Ends(jobs[j])
        /\ Ends(jobs'[i]) = IF jobs[i].spec.wall > 0 THEN now + jobs[i].spec.wall ELSE 0
        /\ Running' = Running \cup {i}
    BY <1>4, StartedIs
  <2>2. jobs[i].spec.wall \in Nat
    BY RowsTyped DEF Requests
  <2>3. Ends(jobs'[i]) = 0 \/ Ends(jobs'[i]) >= now
    BY <1>1, <2>1, <2>2
  <2> QED  BY <1>1, <1>4, <2>1, <2>3 DEF OnTime
<1>5. ASSUME jobs' = jobs, now' = now PROVE OnTime'
  BY <1>5 DEF OnTime, Running
<1>6. ASSUME NEW spec \in Specs, Submit(spec) PROVE OnTime'
  <2>1. now' = now
    BY <1>6 DEF Submit
  <2> QED  BY <1>1, <1>2, <1>6, <2>1, SubmittedIs
<1>7. ASSUME NEW i \in DOMAIN jobs, Cancel(i) PROVE OnTime'
  <2>1. Ended(i, "CANCELLED") /\ now' = now
    BY <1>7 DEF Cancel, Ended, JobStates
  <2> QED  BY <1>3, <2>1
<1>8. ASSUME NEW i \in DOMAIN jobs, NEW s \in {"COMPLETED", "FAILED"}, End(i, s) PROVE OnTime'
  <2>1. Ended(i, s) /\ now' = now
    BY <1>8 DEF End, Ended, JobStates
  <2> QED  BY <1>3, <2>1
<1>9. CASE Tick
  <2>1. /\ now' = now + 1 /\ jobs' = jobs /\ \A i \in Running : Ends(jobs[i]) = 0 \/ Ends(jobs[i]) > now
    BY <1>9 DEF Tick
  <2>2. Running' = Running
    BY <2>1 DEF Running
  <2> QED  BY <1>1, <2>1, <2>2 DEF OnTime
<1>10. CASE CheckDependencies
  <2>1. pass.todo # {} /\ (jobs' = jobs \/ jobs' = [jobs EXCEPT ![Foremost].state = "CANCELLED"]) /\ now' = now
    BY <1>10, CheckDependenciesIs DEF CheckDependencies
  <2>2. Foremost \in DOMAIN jobs
    BY <2>1, HandedOut
  <2>3. jobs' = jobs \/ Ended(Foremost, "CANCELLED")
    BY <2>1 DEF Ended, JobStates
  <2> QED  BY <1>3, <1>5, <2>1, <2>2, <2>3, SMTT(60)
<1>11. CASE PlaceGang
  <2>1. /\ pass.todo # {} /\ now' = now
        /\ \/ jobs' = jobs
           \/ \E at \in SUBSET Fleet : \E shares \in UNION {[s -> Vectors] : s \in SUBSET Fleet} :
                jobs' = Start(Foremost, at, shares)
    BY <1>11, PlaceGangIs DEF PlaceGang
  <2>2. Foremost \in DOMAIN jobs
    BY <2>1, HandedOut
  <2> QED  BY <1>4, <1>5, <2>1, <2>2
<1>12. CASE Carry
  <2>1. now' = now
    BY <1>12 DEF Carry
  <2>2. PICK d \in pass.starts : jobs' = Start(d[1], {d[2]}, <<>>) /\ d[1] \in DOMAIN jobs /\ d[2] \in Fleet
    BY <1>12, CarryIs
  <2>3. {d[2]} \in SUBSET Fleet
    BY <2>2
  <2> QED  BY <1>4, <2>1, <2>2, <2>3, NothingShared
<1>13. CASE (\E n \in Fleet : Flip(n)) \/ Begin \/ BeginAdmission \/ Admit \/ BeginGangs \/ BeginPlan \/ PlanJob \/ Done
  BY <1>5, <1>13 DEF Flip, Begin, BeginAdmission, Admit, BeginGangs, BeginPlan, PlanJob, Done
<1> QED  BY <1>6, <1>7, <1>8, <1>9, <1>10, <1>11, <1>12, <1>13 DEF Next, PassStep

LEMMA FirstInLine ==
  \* Nobody is looked at before the first in line.
  ASSUME SchedTyped, PassStands, pass.step = "plan", pass.first \in pass.todo
  PROVE  Foremost = pass.first /\ Fresh
<1>1. pass.todo \in SUBSET Nat
  BY DEF SchedTyped, Passes
<1>2. Foremost \in pass.todo /\ Foremost <= pass.first
  BY <1>1, LeastIs DEF Foremost
<1>3. pass.first <= Foremost
  BY <1>2 DEF PassStands
<1> QED  BY <1>1, <1>2, <1>3 DEF PassStands

LEMMA StayingIs ==
  \* As long as nothing is decided, who stays is who runs there and has the time.
  ASSUME pass.starts = {}, NEW n, NEW t
  PROVE  Staying(n, t) = Left(n, t)
<1>1. \A i \in On(n) : i \in DOMAIN jobs
  BY DEF On, Running
<1> QED  BY <1>1 DEF Staying, Left

LEMMA HeadOffered ==
  \* The first in line, if there is no room for it, gets the machine it was promised, or a sooner one.
  ASSUME SchedTyped, HandInv, HeadInv, pass.step = "plan", pass.first \in pass.todo, pass.agreed,
         promise.id = pass.first, promise.id # 0, NoRoom(jobs[pass.first].spec)
  PROVE  /\ Offer(jobs[pass.first].spec) # {}
         /\ \A o \in Offer(jobs[pass.first].spec) : o[2] <= promise.at
<1> DEFINE spec == jobs[pass.first].spec
           n == promise.node
           t == promise.at
<1>1. Fresh /\ pass.up = up
  BY FirstInLine DEF HeadInv, PassStands
<1>2. /\ promise.id \in DOMAIN jobs /\ n \in up /\ 0 < Depth /\ backfill /\ FitsEmpty(spec, n)
      /\ \A k \in Kinds : Load(jobs, Staying(n, t), k) + Charge(spec)[k] <= Cap[n][k]
  BY DEF HeadInv, PromiseStands
<1>3. n \in Fleet /\ t \in Nat /\ spec \in Requests
  BY <1>2, RowsTyped DEF SchedTyped
<1>4. Beside(spec, n, Left(n, t))
  <2>1. Staying(n, t) = Left(n, t)
    BY <1>1, StayingIs DEF Fresh
  <2> QED  BY <1>2, <2>1 DEF Beside
<1>5. pass.used = Used /\ pass.live = Running /\ pass.held[n] = -1 /\ Reservations < Depth
  BY <1>1, <1>2, <1>3, NobodyHeld DEF Fresh
<1>6. PlaceFor(spec, pass.used, pass.held, pass.up, now) = {}
  BY DEF NoRoom
<1>7. OnTime
  BY DEF HeadInv
<1> HIDE DEF spec, n, t
<1>8. n \in pass.up
  BY <1>1, <1>2
<1> QED  BY <1>2, <1>3, <1>4, <1>5, <1>6, <1>7, <1>8, OfferBy DEF spec, t

LEMMA PromiseStep ==
  \* Every step keeps the promise.
  ASSUME SchedTyped, HandInv, HeadInv, SchedTyped', HandInv', Next
  PROVE  PromiseStands'
<1>0. PromiseStands /\ PassStands /\ OnTime
  BY DEF HeadInv
<1>p. PICK n, t : n = promise.node /\ t = promise.at
  OBVIOUS
<1> DEFINE New(i) == i \in DOMAIN jobs' /\ jobs'[i].spec = jobs[i].spec
           Fewer == Staying(n, t)' \subseteq Staying(n, t)
<1>a. now \in Nat /\ t \in Nat /\ n \in Fleet
  BY <1>p DEF SchedTyped
<1>1. ASSUME promise' = promise, UNCHANGED <<up, backfill>>, \A i \in DOMAIN jobs : New(i), Fewer
      PROVE  PromiseStands'
  BY <1>0, <1>1, <1>p, PromiseKept
<1>2. ASSUME UNCHANGED <<jobs, now, up, backfill, promise>>, pass'.starts \subseteq pass.starts PROVE PromiseStands'
  <2>1. Fewer
    BY <1>2 DEF Staying, On, Running
  <2> QED  BY <1>1, <1>2, <2>1
<1>3. ASSUME NEW i \in DOMAIN jobs, NEW s, Ended(i, s), UNCHANGED <<now, up, backfill, promise>>, pass'.starts = pass.starts
      PROVE  PromiseStands'
  <2>1. /\ DOMAIN jobs' = DOMAIN jobs /\ \A j \in DOMAIN jobs : jobs'[j].spec = jobs[j].spec
        /\ \A j \in DOMAIN jobs : Ends(jobs'[j]) = Ends(jobs[j])
        /\ On(n)' \subseteq On(n)
    BY <1>3, EndedIs
  <2>2. Fewer
    BY <1>3, <2>1 DEF Staying
  <2> QED  BY <1>1, <1>3, <2>1, <2>2
<1>4. ASSUME NEW spec \in Specs, Submit(spec) PROVE PromiseStands'
  <2>1. UNCHANGED <<now, up, backfill, promise, pass>> /\ pass = Idle
    BY <1>4 DEF Submit
  <2>2. /\ \A j \in DOMAIN jobs : j \in DOMAIN jobs' /\ jobs'[j].spec = jobs[j].spec /\ Ends(jobs'[j]) = Ends(jobs[j])
        /\ On(n)' = On(n)
    BY <1>4, SubmittedIs
  <2>3. pass.starts = {} /\ pass'.starts = {}
    BY <2>1, IdleHand
  <2>4. On(n) \subseteq DOMAIN jobs
    BY DEF On, Running
  <2>5. Fewer
    BY <2>2, <2>3, <2>4 DEF Staying
  <2> QED  BY <1>1, <2>1, <2>2, <2>5
<1>5. ASSUME NEW i \in DOMAIN jobs, Cancel(i) PROVE PromiseStands'
  <2>1. Ended(i, "CANCELLED") /\ UNCHANGED <<now, up, backfill, promise, pass>>
    BY <1>5 DEF Cancel, Ended, JobStates
  <2> QED  BY <1>3, <2>1
<1>6. ASSUME NEW i \in DOMAIN jobs, NEW s \in {"COMPLETED", "FAILED"}, End(i, s) PROVE PromiseStands'
  <2>1. Ended(i, s) /\ UNCHANGED <<now, up, backfill, promise, pass>>
    BY <1>6 DEF End, Ended, JobStates
  <2> QED  BY <1>3, <2>1
<1>7. CASE \E m \in Fleet : Flip(m)
  <2>1. promise' = NoPromise
    BY <1>7 DEF Flip
  <2> QED  BY <2>1, NoneStands
<1>8. CASE Tick
  <2>1. UNCHANGED <<jobs, up, backfill, promise, pass>> /\ pass = Idle
    BY <1>8 DEF Tick
  <2>2. pass.starts = {} /\ pass'.starts = {}
    BY <2>1, IdleHand
  <2>3. Fewer
    BY <2>1, <2>2 DEF Staying, On, Running
  <2> QED  BY <1>1, <2>1, <2>3
<1>9. CASE Begin
  <2>1. UNCHANGED <<jobs, now, up, backfill, promise>> /\ pass'.starts = {}
    BY <1>9, BeginIs DEF Begin
  <2> QED  BY <1>2, <2>1
<1>10. CASE CheckDependencies
  <2>1. pass.todo # {} /\ (jobs' = jobs \/ jobs' = [jobs EXCEPT ![Foremost].state = "CANCELLED"])
        /\ UNCHANGED <<now, up, backfill, promise>> /\ pass'.starts = pass.starts
    BY <1>10, CheckDependenciesIs DEF CheckDependencies
  <2>2. Foremost \in DOMAIN jobs
    BY <2>1, HandedOut
  <2>3. jobs' = jobs \/ Ended(Foremost, "CANCELLED")
    BY <2>1 DEF Ended, JobStates
  <2> QED  BY <1>2, <1>3, <2>1, <2>2, <2>3
<1>11. CASE BeginAdmission
  <2>1. UNCHANGED <<jobs, now, up, backfill, promise>> /\ pass'.starts = pass.starts
    BY <1>11, BeginAdmissionIs DEF BeginAdmission
  <2> QED  BY <1>2, <2>1
<1>12. CASE Admit
  <2>1. UNCHANGED <<jobs, now, up, backfill, promise>> /\ pass'.starts = pass.starts
    BY <1>12, AdmitIs DEF Admit
  <2> QED  BY <1>2, <2>1
<1>13. CASE BeginGangs
  <2>1. UNCHANGED <<jobs, now, up, backfill, promise>> /\ pass'.starts = pass.starts
    BY <1>13, BeginGangsIs DEF BeginGangs
  <2> QED  BY <1>2, <2>1
<1>14. CASE PlaceGang
  <2>1. UNCHANGED <<now, up, backfill>> /\ (promise' = NoPromise \/ UNCHANGED <<jobs, promise>>)
    BY <1>14 DEF PlaceGang
  <2>2. pass'.starts = pass.starts
    BY <1>14, PlaceGangIs
  <2> QED  BY <1>2, <2>1, <2>2, NoneStands
<1>15. CASE BeginPlan
  <2>1. UNCHANGED <<jobs, now, up, backfill>> /\ promise' \in {promise, NoPromise} /\ pass'.starts = pass.starts
    BY <1>15, BeginPlanIs DEF BeginPlan
  <2> QED  BY <1>2, <2>1, NoneStands
<1>16. CASE PlanJob
  <2> DEFINE i == Foremost
             spec == jobs[i].spec
  <2>1. /\ pass.step = "plan" /\ pass.todo # {} /\ pass'.up = pass.up
        /\ Unlooked \/ (\E m : Starts(spec, m)) \/ Nothing(spec) \/ \E o : Promised(spec, o)
    BY <1>16, PlanCases
  <2>2. i \in DOMAIN jobs /\ Waits(i) /\ i \in pass.todo /\ spec \in Requests /\ i # 0
    BY <2>1, HandedOut, RowsTyped
  <2>3. UNCHANGED <<jobs, now, up, backfill>>
    BY <1>16 DEF PlanJob
  <2>4. pass.todo \in SUBSET Nat /\ pass.first \in Nat /\ pass.up = up
    BY <1>0, <2>1 DEF SchedTyped, Passes, PassStands
  <2> HIDE DEF spec
  <2>5. CASE Unlooked \/ Nothing(spec)
    <3>1. promise' = promise /\ pass'.starts = pass.starts
      BY <2>5 DEF Unlooked, Nothing
    <3> QED  BY <1>2, <2>3, <3>1
  <2>6. ASSUME NEW m, Starts(spec, m) PROVE PromiseStands'
    <3>1. CASE promise' = NoPromise
      BY <3>1, NoneStands
    <3>2. CASE promise.id = 0
      <4>1. promise'.id = 0
        BY <2>6, <3>2 DEF Starts, NoPromise
      <4> QED  BY <4>1 DEF PromiseStands
    <3>3. CASE promise' # NoPromise /\ promise.id # 0
      <4>1. promise' = promise /\ i # promise.id /\ (pass.agreed \/ ~Outlasts(spec, m))
        BY <2>6, <3>3 DEF Starts
      <4>2. m = n => EndsBefore(spec, now, t)
        <5>1. CASE ~pass.agreed
          BY <1>p, <4>1, <5>1 DEF Outlasts
        <5>2. CASE pass.agreed
          <6>1. promise.id = pass.first /\ pass.first # i
            BY <1>0, <2>1, <3>3, <4>1 DEF PassStands
          <6>2. pass.first \notin pass.todo
            BY <1>0, <2>1, <6>1, FirstInLine
          <6>3. pass.held[n] = t
            BY <1>0, <1>p, <2>1, <3>3, <5>2, <6>2 DEF PassStands
          <6>4. MayUse(spec, m, pass.held, now)
            BY <2>6 DEF Starts
          <6> QED  BY <1>a, <6>3, <6>4 DEF MayUse
        <5> QED  BY <5>1, <5>2
      <4>3. pass'.starts = pass.starts \cup {<<i, m>>} /\ i \notin On(n)
        BY <2>2, <2>6, WaitsNot DEF Starts
      <4>4. Running' = Running /\ On(n)' = On(n)
        BY <2>3 DEF Running, On
      <4>5. ASSUME NEW j \in Staying(n, t)' PROVE j \in Staying(n, t)
        <5>1. j \in DOMAIN jobs /\ \/ j \in On(n) /\ Outstays(Ends(jobs[j]), t)
                                   \/ <<j, n>> \in pass'.starts /\ ~EndsBefore(jobs[j].spec, now, t)
          BY <2>3, <4>4, <4>5 DEF Staying
        <5>2. ASSUME <<j, n>> \in pass'.starts, ~EndsBefore(jobs[j].spec, now, t) PROVE <<j, n>> \in pass.starts
          <6>1. <<j, n>> # <<i, m>>
            BY <4>2, <5>2 DEF spec
          <6> QED  BY <4>3, <5>2, <6>1
        <5> QED  BY <5>1, <5>2 DEF Staying
      <4>6. Fewer
        BY <4>5
      <4>7. \A j \in DOMAIN jobs : New(j)
        BY <2>3
      <4> QED  BY <1>1, <2>3, <4>1, <4>6, <4>7
    <3> QED  BY <3>1, <3>2, <3>3
  <2>7. ASSUME NEW o, Promised(spec, o) PROVE PromiseStands'
    <3>1. CASE i = pass.first /\ pass.agreed
      <4>1. Fresh
        BY <1>0, <2>1, <2>2, <3>1, FirstInLine
      <4>2. backfill /\ o \in Offer(spec) /\ pass'.starts = pass.starts
            /\ promise' = [id |-> i, node |-> o[1], at |-> o[2]]
        BY <2>7, <3>1 DEF Promised, Offer
      <4>3. pass.used = Used /\ pass.live = Running /\ pass.starts = {} /\ Reservations = 0
        BY <3>1, <4>1, <4>2, NobodyHeld DEF Fresh
      <4>4. /\ o[1] \in pass.up /\ o[1] \in Fleet /\ o[2] \in Nat /\ Reservations < Depth
            /\ FitsEmpty(spec, o[1]) /\ Beside(spec, o[1], Left(o[1], o[2]))
        BY <1>0, <2>2, <4>2, <4>3, OfferIs
      <4>5. Staying(o[1], o[2])' = Left(o[1], o[2])
        <5>1. Staying(o[1], o[2])' = Staying(o[1], o[2])
          BY <2>3, <4>2 DEF Staying, On, Running
        <5> QED  BY <4>3, <5>1, StayingIs
      <4>6. promise'.id = i /\ promise'.node = o[1] /\ promise'.at = o[2]
        BY <4>2
      <4>7. \A k \in Kinds : Load(jobs', Staying(o[1], o[2])', k) + Charge(spec)[k] <= Cap[o[1]][k]
        BY <2>3, <4>4, <4>5 DEF Beside
      <4>8. 0 < Depth /\ o[1] \in up
        BY <2>4, <4>3, <4>4
      <4> QED  BY <2>2, <2>3, <4>2, <4>4, <4>6, <4>7, <4>8 DEF PromiseStands, spec
    <3>2. CASE ~(i = pass.first /\ pass.agreed)
      <4>1. promise' = promise /\ pass'.starts = pass.starts
        BY <2>7, <3>2 DEF Promised
      <4> QED  BY <1>2, <2>3, <4>1
    <3> QED  BY <3>1, <3>2
  <2> QED  BY <2>1, <2>5, <2>6, <2>7 DEF spec
<1>17. CASE Carry
  <2>1. UNCHANGED <<now, up, backfill, promise>>
    BY <1>17 DEF Carry
  <2>2. PICK d \in pass.starts : /\ jobs' = Start(d[1], {d[2]}, <<>>) /\ pass'.starts = pass.starts \ {d}
                                 /\ d = <<d[1], d[2]>> /\ d[1] \in DOMAIN jobs /\ Waits(d[1]) /\ d[2] \in Fleet
    BY <1>17, CarryIs
  <2> DEFINE i == d[1]
  <2>4. /\ DOMAIN jobs' = DOMAIN jobs /\ \A j \in DOMAIN jobs : jobs'[j].spec = jobs[j].spec
        /\ \A j \in DOMAIN jobs : j # i => Ends(jobs'[j]) = Ends(jobs[j])
        /\ Ends(jobs'[i]) = IF jobs[i].spec.wall > 0 THEN now + jobs[i].spec.wall ELSE 0
        /\ jobs'[i].at = {d[2]}
        /\ \A j : j # i => (j \in On(n)' <=> j \in On(n))
    <3> DEFINE at == {d[2]}
    <3>1. jobs' = Start(i, at, <<>>) /\ i \in DOMAIN jobs /\ at \in SUBSET Fleet
      BY <2>2
    <3> HIDE DEF i, at
    <3>2. /\ DOMAIN jobs' = DOMAIN jobs /\ \A j \in DOMAIN jobs : jobs'[j].spec = jobs[j].spec
          /\ \A j \in DOMAIN jobs : j # i => Ends(jobs'[j]) = Ends(jobs[j])
          /\ Ends(jobs'[i]) = IF jobs[i].spec.wall > 0 THEN now + jobs[i].spec.wall ELSE 0
          /\ jobs'[i].at = at
          /\ \A m, j : j # i => (j \in On(m)' <=> j \in On(m))
      BY <3>1, NothingShared, StartedIs
    <3> QED  BY <3>2 DEF at
  <2>5. jobs[i].spec.wall \in Nat
    BY <2>2, RowsTyped DEF Requests
  <2>6. ASSUME NEW j \in Staying(n, t)' PROVE j \in Staying(n, t)
    <3>1. j \in DOMAIN jobs' /\ \/ j \in On(n)' /\ Outstays(Ends(jobs'[j]), t)
                                \/ <<j, n>> \in pass'.starts /\ ~EndsBefore(jobs'[j].spec, now, t)
      BY <2>1, <2>6 DEF Staying
    <3>2. ASSUME <<j, n>> \in pass'.starts, ~EndsBefore(jobs'[j].spec, now, t) PROVE j \in Staying(n, t)
      BY <2>2, <2>4, <3>1, <3>2 DEF Staying
    <3>3. ASSUME j \in On(n)', Outstays(Ends(jobs'[j]), t) PROVE j \in Staying(n, t)
      <4>1. CASE j # i
        BY <2>4, <3>1, <3>3, <4>1 DEF Staying
      <4>2. CASE j = i
        <5>1. d[2] = n
          BY <2>4, <3>3, <4>2 DEF On
        <5>2. <<j, n>> \in pass.starts
          BY <2>2, <4>2, <5>1
        <5>3. ~EndsBefore(jobs[j].spec, now, t)
          BY <1>a, <2>4, <2>5, <3>3, <4>2 DEF Outstays, EndsBefore
        <5> QED  BY <2>4, <3>1, <5>2, <5>3 DEF Staying
      <4> QED  BY <4>1, <4>2
    <3> QED  BY <3>1, <3>2, <3>3
  <2>7. Fewer
    BY <2>6
  <2> QED  BY <1>1, <2>1, <2>4, <2>7
<1>18. CASE Done
  <2>1. UNCHANGED <<jobs, now, up, backfill, promise>> /\ pass' = Idle
    BY <1>18 DEF Done
  <2>2. pass'.starts = {}
    BY <2>1 DEF Idle
  <2> QED  BY <1>2, <2>1, <2>2
<1> QED  BY <1>4, <1>5, <1>6, <1>7, <1>8, <1>9, <1>10, <1>11, <1>12, <1>13, <1>14, <1>15, <1>16, <1>17, <1>18
         DEF Next, PassStep

LEMMA PlanKeepsPlace ==
  \* Once the first in line has been looked at, the machine promised to it is held until then.
  ASSUME SchedTyped, HandInv, HeadInv, PlanJob
  PROVE  PassStands'
<1>0. PromiseStands /\ PassStands /\ OnTime
  BY DEF HeadInv
<1> DEFINE i == Foremost
           spec == jobs[i].spec
           Held == pass'.agreed /\ promise'.id # 0 => pass'.held[promise'.node] = promise'.at
<1>1. /\ pass.step = "plan" /\ pass'.step = "plan" /\ pass.todo # {} /\ pass'.todo = pass.todo \ {i}
      /\ pass'.first = pass.first /\ pass'.agreed = pass.agreed /\ pass'.up = pass.up
      /\ Unlooked \/ (\E m : Starts(spec, m)) \/ Nothing(spec) \/ \E o : Promised(spec, o)
  BY PlanCases
<1>2. i \in DOMAIN jobs /\ i \in pass.todo /\ i # 0
  BY <1>1, HandedOut, RowsTyped
<1>3. /\ promise.id \in {0, pass.first} /\ \A j \in pass.todo : pass.first <= j
      /\ pass.first \in pass.todo => i = pass.first /\ Fresh
      /\ pass.first \notin pass.todo => (pass.agreed /\ promise.id # 0 => pass.held[promise.node] = promise.at)
  BY <1>0, <1>1, FirstInLine DEF PassStands
<1>4. /\ pass.held \in [Fleet -> Nat \cup {-1}] /\ promise.node \in Fleet /\ promise.at \in Nat
  BY DEF SchedTyped, Passes
<1>5. up' = up /\ pass.up = up
  BY <1>0, <1>1 DEF PlanJob, PassStands
<1> HIDE DEF spec
<1>6. ASSUME pass.first \in pass.todo, pass.agreed, promise.id # 0, NoRoom(spec) PROVE Offer(spec) # {}
  <2>1. pass.first = i /\ promise.id = pass.first
    BY <1>3, <1>6
  <2> QED  BY <1>1, <1>6, <2>1, HeadOffered DEF spec
<1>7. promise'.id \in {0, pass.first} /\ Held
  <2>1. CASE Unlooked
    <3>1. pass.first \notin pass.todo /\ promise' = promise /\ pass'.held = pass.held
      BY <1>3, <2>1 DEF Unlooked, Fresh
    <3> QED  BY <1>1, <1>3, <3>1
  <2>2. ASSUME NEW m, Starts(spec, m) PROVE promise'.id \in {0, pass.first} /\ Held
    <3>1. pass'.held = pass.held /\ promise' \in {promise, NoPromise} /\ (i = promise.id => promise' = NoPromise)
      BY <2>2 DEF Starts
    <3>2. NoPromise.id = 0
      BY DEF NoPromise
    <3> QED  BY <1>1, <1>3, <3>1, <3>2
  <2>3. CASE Nothing(spec)
    <3>1. promise' = promise /\ pass'.held = pass.held /\ Offer(spec) = {} /\ NoRoom(spec)
      BY <2>3 DEF Nothing
    <3> QED  BY <1>1, <1>3, <1>6, <3>1
  <2>4. ASSUME NEW o, Promised(spec, o) PROVE promise'.id \in {0, pass.first} /\ Held
    <3>1. /\ pass'.held = [pass.held EXCEPT ![o[1]] = o[2]] /\ o \in Offer(spec)
          /\ promise' = IF i = pass.first /\ pass.agreed THEN [id |-> i, node |-> o[1], at |-> o[2]] ELSE promise
      BY <2>4 DEF Promised
    <3>2. o[1] \in Fleet /\ o[2] \in Nat /\ pass.held[o[1]] = -1
      <4> DEFINE live == [n \in Fleet |-> Live(n)]
      <4>1. o \in Reservation(spec, pass.used, pass.held, pass.up, live, now)
        BY <3>1 DEF Offer
      <4> HIDE DEF live
      <4>2. \E n \in pass.up : pass.held[n] = -1 /\ o[1] = n
        BY <4>1 DEF Reservation
      <4>3. o \in Fleet \X Nat
        BY <3>1, OfferTyped
      <4> QED  BY <4>2, <4>3
    <3>3. pass'.held[o[1]] = o[2] /\ \A n \in Fleet : n # o[1] => pass'.held[n] = pass.held[n]
      BY <1>4, <3>1, <3>2
    <3>4. CASE i = pass.first /\ pass.agreed
      <4>1. promise'.id = i /\ promise'.node = o[1] /\ promise'.at = o[2]
        BY <3>1, <3>4
      <4> QED  BY <3>3, <3>4, <4>1
    <3>5. CASE ~(i = pass.first /\ pass.agreed)
      <4>1. promise' = promise
        BY <3>1, <3>5
      <4>2. ASSUME pass.agreed, promise.id # 0 PROVE pass'.held[promise.node] = promise.at
        <5>1. pass.held[promise.node] = promise.at
          BY <1>3, <3>5, <4>2
        <5>2. promise.node # o[1]
          BY <1>4, <3>2, <5>1
        <5> QED  BY <1>4, <3>3, <5>1, <5>2
      <4> QED  BY <1>1, <1>3, <4>1, <4>2
    <3> QED  BY <3>4, <3>5
  <2> HIDE DEF Held
  <2> QED  BY <1>1, <2>1, <2>2, <2>3, <2>4 DEF spec
<1>8. pass'.first \notin pass'.todo
  BY <1>1, <1>3
<1> QED  BY <1>1, <1>3, <1>5, <1>7, <1>8 DEF PassStands

LEMMA PassKept ==
  \* Every step of a pass keeps what it relies on.
  ASSUME SchedTyped, HandInv, HeadInv, Next
  PROVE  PassStands'
<1>0. PromiseStands /\ PassStands /\ OnTime /\ pass \in Passes
  BY DEF HeadInv, SchedTyped
<1> DEFINE none == [n \in Fleet |-> -1]
<1>1. ASSUME pass' = pass, up' = up, pass.step # "plan" PROVE PassStands'
  BY <1>0, <1>1 DEF PassStands
<1>2. ASSUME pass'.step # "plan", pass'.held = none, ~pass'.blocked, pass'.up = up' PROVE PassStands'
  BY <1>2 DEF PassStands
<1>3. pass = Idle => pass.step # "plan"
  BY IdleHand
<1>4. Idle.step = "idle" /\ Idle.held = none /\ Idle.blocked = FALSE /\ Idle.todo = {}
  BY DEF Idle
<1>5. CASE (\E spec \in Specs : Submit(spec)) \/ (\E i \in DOMAIN jobs : Cancel(i) \/ \E s \in {"COMPLETED", "FAILED"} : End(i, s)) \/ Tick
  BY <1>1, <1>3, <1>5 DEF Submit, Cancel, End, Tick
<1>6. CASE \E n \in Fleet : Flip(n)
  <2>1. pass' = Idle
    BY <1>6 DEF Flip
  <2> QED  BY <1>4, <2>1 DEF PassStands
<1>7. CASE Begin
  <2>1. pass' = [Idle EXCEPT !.step = "deps", !.todo = Queue, !.used = Used, !.up = up] /\ up' = up
    BY <1>7 DEF Begin
  <2>2. pass'.step = "deps" /\ pass'.up = up /\ pass'.held = Idle.held /\ pass'.blocked = Idle.blocked
    BY <2>1, IdleTyped DEF Passes
  <2> QED  BY <1>2, <1>4, <2>1, <2>2
<1>8. CASE CheckDependencies \/ BeginAdmission \/ Admit \/ BeginGangs \/ PlaceGang
  <2>1. /\ pass.step \notin {"idle", "plan"} /\ pass'.step # "plan"
        /\ pass'.held = pass.held /\ pass'.blocked = pass.blocked /\ pass'.up = pass.up
    BY <1>8, EarlySteps, SMTT(60)
  <2>2. up' = up
    BY <1>8 DEF CheckDependencies, BeginAdmission, Admit, BeginGangs, PlaceGang
  <2>3. pass.held = none /\ ~pass.blocked /\ pass.up = up
    BY <1>0, <2>1 DEF PassStands
  <2> QED  BY <1>2, <2>1, <2>2, <2>3
<1>9. CASE BeginPlan
  <2> DEFINE live == IF backfill THEN Running ELSE {}
             agreed == pass.used = Used
  <2>1. /\ pass' = [pass EXCEPT !.step = "plan", !.todo = pass.kept, !.kept = {}, !.live = live, !.agreed = agreed,
                                !.first = First]
        /\ promise' = IF First = promise.id THEN promise ELSE NoPromise
        /\ UNCHANGED <<jobs, now, up, backfill>> /\ pass.step = "gangs"
    BY <1>9 DEF BeginPlan, Over
  <2> HIDE DEF live, agreed
  <2>2. /\ pass'.step = "plan" /\ pass'.todo = pass.kept /\ pass'.live = live /\ pass'.agreed = agreed
        /\ pass'.first = First /\ pass'.held = pass.held /\ pass'.blocked = pass.blocked /\ pass'.up = pass.up
        /\ pass'.used = pass.used /\ pass'.starts = pass.starts
    BY <1>0, <2>1 DEF Passes
  <2>3. pass.held = none /\ ~pass.blocked /\ pass.up = up /\ pass.starts = {}
    BY <1>0, <2>1 DEF PassStands, HandInv
  <2>4. pass.kept \in SUBSET Nat
    BY <1>0 DEF Passes
  <2>5. IF pass.kept = {} THEN First = 0 ELSE First \in pass.kept /\ \A j \in pass.kept : First <= j
    BY <2>4, LeastIs DEF First
  <2>6. promise'.id \in {0, First}
    BY <2>1 DEF NoPromise
  <2>7. Used' = Used /\ Running' = Running
    BY <2>1 DEF Used, On, Running
  <2>8. Fresh'
    BY <2>1, <2>2, <2>3, <2>7 DEF Fresh, live, agreed
  <2>9. pass'.first \in pass'.todo \/ promise'.id = 0
    BY <2>2, <2>5, <2>6
  <2>10. \A j \in pass'.todo : pass'.first <= j
    BY <2>2, <2>5
  <2> HIDE DEF none
  <2> QED  BY <2>1, <2>2, <2>3, <2>6, <2>8, <2>9, <2>10 DEF PassStands
<1>10. CASE PlanJob
  BY <1>10, PlanKeepsPlace
<1>11. CASE Carry
  <2>1. PICK d \in pass.starts : pass' = [pass EXCEPT !.starts = @ \ {d}]
    BY <1>11 DEF Carry
  <2>2. UNCHANGED <<up, promise>> /\ pass.step = "plan" /\ pass.todo = {}
    BY <1>11 DEF Carry, Over
  <2>3. /\ pass'.step = pass.step /\ pass'.todo = pass.todo /\ pass'.agreed = pass.agreed
        /\ pass'.first = pass.first /\ pass'.held = pass.held /\ pass'.up = pass.up
    BY <1>0, <2>1 DEF Passes
  <2> QED  BY <1>0, <2>2, <2>3 DEF PassStands
<1>12. CASE Done
  <2>1. pass' = Idle
    BY <1>12 DEF Done
  <2> QED  BY <1>4, <2>1 DEF PassStands
<1> QED  BY <1>5, <1>6, <1>7, <1>8, <1>9, <1>10, <1>11, <1>12 DEF Next, PassStep

LEMMA HeadStep ==
  \* Every step keeps what backfill relies on.
  SchedInv /\ SchedInv' /\ HeadInv /\ [Next]_vars => HeadInv'
<1> SUFFICES ASSUME SchedTyped, HandInv, SchedTyped', HandInv', HeadInv, [Next]_vars PROVE HeadInv'
  BY DEF SchedInv
<1>1. CASE Next
  <2>1. OnTime
    BY DEF HeadInv
  <2> QED  BY <1>1, <2>1, PromiseStep, PassKept, OnTimeStep DEF HeadInv
<1>2. CASE UNCHANGED vars
  <2>1. UNCHANGED <<jobs, now, up, pass, backfill, promise>>
    BY <1>2 DEF vars
  <2>2. Running' = Running /\ \A n : On(n)' = On(n)
    BY <2>1 DEF Running, On
  <2>3. Used' = Used
    BY <2>1, <2>2 DEF Used
  <2>4. \A n, t : Staying(n, t)' = Staying(n, t)
    BY <2>1, <2>2 DEF Staying
  <2>5. OnTime'
    BY <2>1, <2>2 DEF HeadInv, OnTime
  <2>6. PassStands'
    BY <2>1, <2>2, <2>3 DEF HeadInv, PassStands, Fresh
  <2>7. PromiseStands'
    BY <2>1, <2>4 DEF HeadInv, PromiseStands
  <2> QED  BY <2>5, <2>6, <2>7 DEF HeadInv
<1> QED  BY <1>1, <1>2

LEMMA HeadStarts ==
  \* At first nothing is promised.
  Init => HeadInv
<1> SUFFICES ASSUME Init PROVE HeadInv
  OBVIOUS
<1>1. pass = Idle /\ promise = NoPromise /\ jobs = <<>>
  BY DEF Init
<1>2. PromiseStands
  BY <1>1 DEF PromiseStands, NoPromise
<1>3. PassStands
  BY <1>1 DEF PassStands, Idle
<1>4. OnTime
  BY <1>1 DEF OnTime, Running
<1> QED  BY <1>2, <1>3, <1>4 DEF HeadInv

\* What backfill starts early does not set back the job that is first in line: a machine promised
\* has room for it beside all that may still be there then, so that each pass that finds what is
\* used and what is running in agreement starts it, or promises it a machine no later (PlanWith,
\* endsBefore).
THEOREM HeadKeepsItsPlaceHolds == Spec => HeadKeepsItsPlace
<1> DEFINE Kept == \A i \in DOMAIN jobs :
                     /\ At("plan") /\ pass # pass' /\ i = Foremost
                     /\ i = pass.first /\ i = promise.id /\ pass.agreed
                     => \/ \E d \in pass'.starts : d[1] = i
                        \/ \E n \in Fleet : pass.held[n] = -1 /\ pass'.held[n] \in 0..promise.at
<1>1. SchedInv /\ HeadInv /\ [Next]_vars => [Kept]_vars
  <2> SUFFICES ASSUME SchedTyped, HandInv, HeadInv, Next, NEW i \in DOMAIN jobs, At("plan"), pass # pass',
                      i = Foremost, i = pass.first, i = promise.id, pass.agreed
               PROVE  \/ \E d \in pass'.starts : d[1] = i
                      \/ \E n \in Fleet : pass.held[n] = -1 /\ pass'.held[n] \in 0..promise.at
    BY DEF SchedInv
  <2>1. pass.step = "plan" /\ pass.todo # {}
    BY DEF At
  <2>2. pass # Idle
    BY <2>1, IdleHand
  <2>3. PlanJob
    <3>1. ~(\E spec \in Specs : Submit(spec)) /\ ~Tick /\ ~(\E n \in Fleet : Flip(n))
      BY <2>2 DEF Submit, Tick, Flip
    <3>2. ~(\E j \in DOMAIN jobs : Cancel(j) \/ \E s \in {"COMPLETED", "FAILED"} : End(j, s))
      BY <2>1, <2>2 DEF Cancel, End
    <3>3. ~Begin /\ ~CheckDependencies /\ ~BeginAdmission /\ ~Admit /\ ~BeginGangs /\ ~PlaceGang /\ ~BeginPlan
          /\ ~Carry /\ ~Done
      BY <2>1, <2>2 DEF Begin, CheckDependencies, BeginAdmission, Admit, BeginGangs, PlaceGang, BeginPlan, Carry, Done,
                        At, Over
    <3> QED  BY <3>1, <3>2, <3>3 DEF Next, PassStep
  <2>4. i \in pass.todo /\ i # 0
    BY <2>1, HandedOut, RowsTyped
  <2>5. Fresh
    BY <2>1, <2>4, FirstInLine DEF HeadInv
  <2> DEFINE spec == jobs[i].spec
  <2>6. Unlooked \/ (\E m : Starts(spec, m)) \/ Nothing(spec) \/ \E o : Promised(spec, o)
    BY <2>3, PlanCases
  <2>7. ASSUME NoRoom(spec) PROVE Offer(spec) # {} /\ \A o \in Offer(spec) : o[2] <= promise.at
    <3>1. pass.first \in pass.todo /\ promise.id = pass.first /\ promise.id # 0 /\ NoRoom(jobs[pass.first].spec)
      BY <2>4, <2>7
    <3> QED  BY <2>1, <3>1, HeadOffered
  <2> HIDE DEF spec
  <2>8. ~Unlooked /\ ~Nothing(spec)
    BY <2>5, <2>7 DEF Unlooked, Fresh, Nothing
  <2>9. ASSUME NEW m, Starts(spec, m) PROVE \E d \in pass'.starts : d[1] = i
    <3>1. <<i, m>> \in pass'.starts
      BY <2>9 DEF Starts
    <3> QED  BY <3>1
  <2>10. ASSUME NEW o, Promised(spec, o) PROVE \E n \in Fleet : pass.held[n] = -1 /\ pass'.held[n] \in 0..promise.at
    <3>1. o \in Offer(spec) /\ NoRoom(spec) /\ pass'.held = [pass.held EXCEPT ![o[1]] = o[2]]
      BY <2>10 DEF Promised
    <3>2. o[1] \in Fleet /\ o[2] \in Nat
      <4>1. o \in Fleet \X Nat
        BY <3>1, OfferTyped
      <4> QED  BY <4>1
    <3>3. o[2] <= promise.at /\ promise.at \in Nat
      BY <2>7, <3>1 DEF SchedTyped
    <3>4. pass.held \in [Fleet -> Nat \cup {-1}] /\ pass.held[o[1]] = -1
      BY <2>5, <3>2 DEF Fresh, SchedTyped, Passes
    <3>5. pass'.held[o[1]] = o[2]
      BY <3>1, <3>2, <3>4
    <3> QED  BY <3>2, <3>3, <3>4, <3>5
  <2> QED  BY <2>6, <2>8, <2>9, <2>10
<1>2. HeadKeepsItsPlace <=> [][Kept]_vars
  BY DEF HeadKeepsItsPlace
<1> HIDE DEF Kept
<1> QED  BY <1>1, <1>2, SchedInvariant, HeadStarts, HeadStep, PTL DEF Spec

-----------------------------------------------------------------------------
(* Gangs *)

\* What some machines have free of a resource, together.
Frees(used, k) == [n \in Fleet |-> Free(used, n)[k]]
Supply(used, ns, k) == Total(Frees(used, k), ns)

\* Nothing is charged more than it has.
Sound(used, ns) == \A n \in ns : AtMost(used[n], Cap[n])

LEMMA SupplyTyped ==
  \* What machines have free together is a number, and not negative if none is overcharged.
  ASSUME NEW used \in [Fleet -> Vectors], NEW ns \in SUBSET Fleet, NEW k \in Kinds
  PROVE  /\ Supply(used, ns, k) \in Int /\ IsFiniteSet(ns)
         /\ Sound(used, ns) => Supply(used, ns, k) \in Nat
<1>1. IsFiniteSet(ns)
  BY FleetFinite, FS_Subset
<1>2. \A n \in ns : Frees(used, k)[n] = Cap[n][k] - used[n][k] /\ Frees(used, k)[n] \in Int
                    /\ Cap[n][k] \in Nat /\ used[n][k] \in Int
  BY FreeTyped, CapTyped DEF Frees, Vectors
<1>3. Sound(used, ns) => \A n \in ns : Frees(used, k)[n] \in Nat
  BY <1>2 DEF Sound, AtMost
<1> QED  BY <1>1, <1>2, <1>3, TotalTyped DEF Supply

LEMMA SupplyAdds ==
  \* One machine more.
  ASSUME NEW used \in [Fleet -> Vectors], NEW ns \in SUBSET Fleet, NEW n \in Fleet, n \notin ns, NEW k \in Kinds
  PROVE  Supply(used, ns \cup {n}, k) = Supply(used, ns, k) + Free(used, n)[k]
<1> DEFINE all == ns \cup {n}
<1>1. all \in SUBSET Fleet /\ n \in all /\ all \ {n} = ns
  OBVIOUS
<1>2. IsFiniteSet(all)
  BY <1>1, FleetFinite, FS_Subset
<1>3. \A m \in all : Frees(used, k)[m] \in Int
  BY <1>1, FreeTyped DEF Frees, Vectors
<1>4. Frees(used, k)[n] = Free(used, n)[k] /\ Free(used, n)[k] \in Int
  BY FreeTyped DEF Frees, Vectors
<1>5. Supply(used, ns, k) \in Int
  BY SupplyTyped
<1> HIDE DEF all
<1>6. Total(Frees(used, k), all) = Frees(used, k)[n] + Total(Frees(used, k), all \ {n})
  BY <1>1, <1>2, <1>3, TotalOf
<1>7. Supply(used, all, k) = Free(used, n)[k] + Supply(used, ns, k)
  BY <1>1, <1>4, <1>6 DEF Supply
<1>8. Supply(used, all, k) = Supply(used, ns, k) + Free(used, n)[k]
  BY <1>4, <1>5, <1>7
<1> QED  BY <1>8 DEF all

LEMMA SupplyGrows ==
  \* More machines have no less, if none is overcharged.
  ASSUME NEW used \in [Fleet -> Vectors], NEW ns \in SUBSET Fleet, Sound(used, ns), NEW some \in SUBSET ns, NEW k \in Kinds
  PROVE  Supply(used, some, k) <= Supply(used, ns, k)
<1>1. IsFiniteSet(ns)
  BY FleetFinite, FS_Subset
<1>2. \A n \in ns : Frees(used, k)[n] = Cap[n][k] - used[n][k] /\ Cap[n][k] \in Nat /\ used[n][k] \in Int
  BY FreeTyped, CapTyped DEF Frees, Vectors
<1>3. \A n \in ns : Frees(used, k)[n] \in Nat
  BY <1>2 DEF Sound, AtMost
<1> QED  BY <1>1, <1>3, TotalGrows DEF Supply

LEMMA FreesAdd ==
  \* What the planner adds up of some machines.
  ASSUME NEW used, NEW ns \in SUBSET Fleet, NEW k
  PROVE  MapThenSumSet(LAMBDA n : Free(used, n)[k], ns) = Supply(used, ns, k)
<1> DEFINE f == Frees(used, k)
           iter == CHOOSE g : g = [s \in SUBSET ns |->
                     IF s = {} THEN 0
                     ELSE Free(used, CHOOSE x \in s : TRUE)[k] + g[s \ {CHOOSE x \in s : TRUE}]]
<1>0. IsFiniteSet(ns)
  BY FleetFinite, FS_Subset
<1>1. MapThenSumSet(LAMBDA n : Free(used, n)[k], ns) = iter[ns]
  BY DEF MapThenSumSet, MapThenFoldSet
<1>2. \A s \in SUBSET ns : s # {} => f[One(s)] = Free(used, One(s))[k]
  BY OneIn DEF Frees
<1>3. ASSUME NEW g
      PROVE  IsSum(g, f, ns) <=> g = [s \in SUBSET ns |-> IF s = {} THEN 0 ELSE Free(used, One(s))[k] + g[s \ {One(s)}]]
  <2>1. [s \in SUBSET ns |-> IF s = {} THEN 0 ELSE f[One(s)] + g[s \ {One(s)}]]
          = [s \in SUBSET ns |-> IF s = {} THEN 0 ELSE Free(used, One(s))[k] + g[s \ {One(s)}]]
    <3> HIDE DEF f
    <3> QED  BY <1>2
  <2> HIDE DEF f
  <2> QED  BY <2>1 DEF IsSum
<1>4. \E g : IsSum(g, f, ns)
  BY <1>0, SumExists
<1>5. \E g : g = [s \in SUBSET ns |-> IF s = {} THEN 0 ELSE Free(used, One(s))[k] + g[s \ {One(s)}]]
  <2> HIDE DEF f
  <2> QED  BY <1>3, <1>4
<1>6. iter = [s \in SUBSET ns |-> IF s = {} THEN 0 ELSE Free(used, One(s))[k] + iter[s \ {One(s)}]]
  <2> HIDE DEF f
  <2> QED  BY <1>5 DEF One
<1>7. IsSum(iter, f, ns)
  <2> HIDE DEF f, iter
  <2> QED  BY <1>3, <1>6
<1>8. iter[ns] = Total(f, ns)
  <2> HIDE DEF f, iter
  <2> QED  BY <1>0, <1>7, SumOne
<1> QED  BY <1>1, <1>8 DEF Supply

LEMMA CoveredIs ==
  \* Some machines cover a request if they have it free together.
  ASSUME NEW req \in Vectors, NEW used \in [Fleet -> Vectors], NEW ns \in SUBSET Fleet
  PROVE  Covered(req, ns, used) <=> \A k \in Kinds : req[k] <= Supply(used, ns, k)
<1>1. \A k \in Kinds : MapThenSumSet(LAMBDA n : Free(used, n)[k], ns) = Supply(used, ns, k)
  BY FreesAdd
<1>2. \A k \in Kinds : req[k] \in Int /\ Supply(used, ns, k) \in Int
  BY SupplyTyped DEF Vectors
<1>3. Covered(req, ns, used) <=> \A k \in Kinds : req[k] - MapThenSumSet(LAMBDA n : Free(used, n)[k], ns) <= 0
  BY DEF Covered, Satisfied, AtMost, Zero
<1>4. Covered(req, ns, used) <=> \A k \in Kinds : req[k] - Supply(used, ns, k) <= 0
  BY <1>1, <1>3
<1> QED  BY <1>2, <1>4

\* What a greedy choice has come to after j machines.
Chosen(acc, j, req, max, order, used) ==
  /\ acc.chosen \in Seq(Fleet) /\ acc.need \in Vectors
  /\ \A i \in 1..Len(acc.chosen) : \E o \in 1..j : acc.chosen[i] = order[o]
  /\ \A h, i \in 1..Len(acc.chosen) : acc.chosen[h] = acc.chosen[i] => h = i
  /\ max > 0 => Len(acc.chosen) <= max
  /\ \A k \in Kinds : acc.need[k] = req[k] - Supply(used, ToSet(acc.chosen), k)

LEMMA ChosenFirst ==
  \* Nothing is chosen at first.
  ASSUME NEW req \in Vectors, NEW max \in Nat, NEW order, NEW used \in [Fleet -> Vectors]
  PROVE  Chosen([chosen |-> <<>>, need |-> req], 0, req, max, order, used)
<1>1. \A k \in Kinds : Supply(used, {}, k) = 0
  BY TotalSteps, FS_EmptySet DEF Supply
<1>2. ToSet(<<>>) = {} /\ Len(<<>>) = 0 /\ <<>> \in Seq(Fleet)
  BY DEF ToSet
<1>3. \A k \in Kinds : req[k] = req[k] - Supply(used, {}, k)
  BY <1>1 DEF Vectors
<1> DEFINE acc == [chosen |-> <<>>, need |-> req]
<1>4. acc.chosen = <<>> /\ acc.need = req
  OBVIOUS
<1> HIDE DEF acc
<1>5. Chosen(acc, 0, req, max, order, used)
  <2>1. 1..Len(acc.chosen) = {} /\ acc.chosen \in Seq(Fleet) /\ (max > 0 => Len(acc.chosen) <= max)
    BY <1>2, <1>4
  <2>2. \A k \in Kinds : acc.need[k] = req[k] - Supply(used, ToSet(acc.chosen), k)
    BY <1>2, <1>3, <1>4
  <2> QED  BY <1>4, <2>1, <2>2 DEF Chosen
<1> QED  BY <1>5 DEF acc

LEMMA ChosenNext ==
  \* A machine that is looked at is taken or not.
  ASSUME NEW req \in Vectors, NEW max \in Nat, NEW N \in Nat, NEW order \in [1..N -> Fleet],
         \A i, j \in 1..N : order[i] = order[j] => i = j,
         NEW used \in [Fleet -> Vectors], NEW j \in 1..N, NEW acc,
         Chosen(acc, j - 1, req, max, order, used)
  PROVE  Chosen(Choosing(acc, order[j], req, max, used), j, req, max, order, used)
<1> DEFINE n == order[j]
           c == acc.chosen
           d == Append(c, n)
<1>1. n \in Fleet /\ c \in Seq(Fleet) /\ acc.need \in Vectors /\ Len(c) \in Nat
  BY DEF Chosen
<1>2. CASE Choosing(acc, n, req, max, used) = acc
  <2>1. \A i \in 1..Len(c) : \E o \in 1..j : c[i] = order[o]
    BY DEF Chosen
  <2> QED  BY <1>2, <2>1 DEF Chosen
<1>3. CASE Choosing(acc, n, req, max, used) # acc
  <2>1. /\ Choosing(acc, n, req, max, used) = [chosen |-> d, need |-> Minus(acc.need, Free(used, n))]
        /\ ~(max > 0 /\ Len(c) >= max)
    BY <1>3 DEF Choosing
  <2>2. d \in Seq(Fleet) /\ Len(d) = Len(c) + 1 /\ d[Len(d)] = n /\ \A i \in 1..Len(c) : d[i] = c[i]
    BY <1>1
  <2>3. \A i \in 1..Len(c) : c[i] # n
    BY DEF Chosen
  <2>4. n \notin ToSet(c) /\ ToSet(c) \in SUBSET Fleet /\ ToSet(d) = ToSet(c) \cup {n}
    <3> HIDE DEF n, c, d
    <3>1. DOMAIN c = 1..Len(c) /\ DOMAIN d = 1..(Len(c) + 1)
      BY <1>1, <2>2
    <3>2. \A i \in 1..Len(c) : i \in 1..(Len(c) + 1) /\ d[i] = c[i]
      BY <1>1, <2>2
    <3>3. \A i \in 1..(Len(c) + 1) : i \in 1..Len(c) \/ i = Len(c) + 1
      BY <1>1
    <3>4. n \notin ToSet(c) /\ ToSet(c) \in SUBSET Fleet
      BY <1>1, <2>3, <3>1 DEF ToSet
    <3>5. ToSet(d) = ToSet(c) \cup {n}
      BY <1>1, <2>2, <3>1, <3>2, <3>3 DEF ToSet
    <3> QED  BY <3>4, <3>5
  <2>5. \A i \in 1..Len(d) : \E o \in 1..j : d[i] = order[o]
    <3>1. ASSUME NEW i \in 1..Len(d) PROVE \E o \in 1..j : d[i] = order[o]
      <4>1. CASE i \in 1..Len(c)
        <5>1. PICK o \in 1..(j - 1) : c[i] = order[o]
          BY <4>1 DEF Chosen
        <5>2. o \in 1..j /\ d[i] = order[o]
          BY <2>2, <4>1, <5>1
        <5> QED  BY <5>2
      <4>2. CASE i = Len(d)
        <5>1. j \in 1..j /\ d[i] = order[j]
          BY <2>2, <4>2
        <5> QED  BY <5>1
      <4> HIDE DEF d, c
      <4> QED  BY <1>1, <2>2, <4>1, <4>2
    <3> QED  BY <3>1
  <2>6. \A h, i \in 1..Len(d) : d[h] = d[i] => h = i
    <3>1. \A h, i \in 1..Len(c) : c[h] = c[i] => h = i
      BY DEF Chosen
    <3> HIDE DEF n, c, d
    <3> QED  BY <1>1, <2>2, <2>3, <3>1
  <2>7. max > 0 => Len(d) <= max
    BY <1>1, <2>1, <2>2
  <2>8. Minus(acc.need, Free(used, n)) \in Vectors
    <3>1. acc.need \in Vectors /\ Free(used, n) \in Vectors
      BY <1>1, FreeTyped
    <3> HIDE DEF n
    <3> QED  BY <3>1 DEF Minus, Vectors
  <2>9. ASSUME NEW k \in Kinds
        PROVE  Minus(acc.need, Free(used, n))[k] = req[k] - Supply(used, ToSet(d), k)
    <3>1. Supply(used, ToSet(c) \cup {n}, k) = Supply(used, ToSet(c), k) + Free(used, n)[k]
      BY <1>1, <2>4, SupplyAdds
    <3>2. acc.need[k] = req[k] - Supply(used, ToSet(c), k)
      BY DEF Chosen
    <3>3. Supply(used, ToSet(c), k) \in Int /\ Free(used, n)[k] \in Int /\ req[k] \in Int
      BY <1>1, <2>4, SupplyTyped, FreeTyped DEF Vectors
    <3>4. Minus(acc.need, Free(used, n))[k] = acc.need[k] - Free(used, n)[k]
      BY DEF Minus
    <3>5. ToSet(d) = ToSet(c) \cup {n}
      BY <2>4
    <3> HIDE DEF c, d, n
    <3> QED  BY <3>1, <3>2, <3>3, <3>4, <3>5
  <2> DEFINE res == [chosen |-> d, need |-> Minus(acc.need, Free(used, n))]
  <2>10. res.chosen = d /\ res.need = Minus(acc.need, Free(used, n)) /\ Choosing(acc, n, req, max, used) = res
    BY <2>1
  <2> HIDE DEF c, d, n, res
  <2>11. Chosen(res, j, req, max, order, used)
    BY <2>2, <2>5, <2>6, <2>7, <2>8, <2>9, <2>10 DEF Chosen
  <2> QED  BY <2>10, <2>11 DEF n
<1> QED  BY <1>2, <1>3

LEMMA GreedyChosen ==
  \* What the greedy choice comes to.
  ASSUME NEW req \in Vectors, NEW max \in Nat, NEW N \in Nat, NEW order \in [1..N -> Fleet],
         \A i, j \in 1..N : order[i] = order[j] => i = j, NEW used \in [Fleet -> Vectors]
  PROVE  Chosen(Greedy(req, max, order, used), N, req, max, order, used)
<1>0. \E g : GreedyRun(g, req, max, N, order, used)
  BY GreedySteps
<1>a. PICK g : GreedyRun(g, req, max, N, order, used)
  BY <1>0
<1>1. /\ g[0] = [chosen |-> <<>>, need |-> req] /\ g[N] = Greedy(req, max, order, used)
      /\ \A j \in 1..N : g[j] = Choosing(g[j - 1], order[j], req, max, used)
  BY <1>a DEF GreedyRun
<1> DEFINE B == {j \in 0..N : Chosen(g[j], j, req, max, order, used)}
<1>2. 0 \in B
  BY <1>1, ChosenFirst
<1>3. ASSUME NEW j \in 1..N, j - 1 \in B PROVE j \in B
  <2>1. Chosen(g[j - 1], j - 1, req, max, order, used)
    BY <1>3
  <2>2. Chosen(Choosing(g[j - 1], order[j], req, max, used), j, req, max, order, used)
    BY <2>1, ChosenNext
  <2>3. g[j] = Choosing(g[j - 1], order[j], req, max, used) /\ j \in 0..N
    BY <1>1
  <2> QED  BY <2>2, <2>3
<1>4. N \in B
  <2> HIDE DEF B
  <2>1. \A j \in 0..N : j \in B
    BY <1>2, <1>3, OneByOne
  <2> QED  BY <2>1
<1> QED  BY <1>1, <1>4

LEMMA NeededIs ==
  \* What the minimality pass leaves still covers the request, and would not without any one of them.
  ASSUME NEW req \in Vectors, NEW chosen \in Seq(Fleet), NEW used \in [Fleet -> Vectors],
         Sound(used, ToSet(chosen)), Covered(req, ToSet(chosen), used)
  PROVE  LET kept == Needed(req, chosen, used)
         IN  /\ kept \subseteq ToSet(chosen) /\ Covered(req, kept, used)
             /\ \A n \in kept : ~Covered(req, kept \ {n}, used)
<1> DEFINE N == Len(chosen)
           all == ToSet(chosen)
           Good(kept, j) == /\ kept \subseteq all /\ Covered(req, kept, used)
                            /\ \A i \in 1..j : chosen[i] \in kept => ~Covered(req, kept \ {chosen[i]}, used)
<1>0. N \in Nat /\ DOMAIN chosen = 1..N /\ all \in SUBSET Fleet /\ all = {chosen[i] : i \in 1..N}
  BY DEF ToSet
<1>a. \E g : NeededRun(g, req, chosen, used)
  BY NeededSteps
<1>b. PICK g : NeededRun(g, req, chosen, used)
  BY <1>a
<1>1. /\ g[0] = all /\ g[N] = Needed(req, chosen, used)
      /\ \A j \in 1..N : g[j] = Dropping(g[j - 1], chosen[j], req, used)
  BY <1>b DEF NeededRun
<1>2. ASSUME NEW ns \in SUBSET all, NEW some \in SUBSET ns, Covered(req, some, used)
      PROVE  Covered(req, ns, used)
  <2>1. ns \in SUBSET Fleet /\ some \in SUBSET Fleet /\ Sound(used, ns)
    BY <1>0 DEF Sound
  <2>2. \A k \in Kinds : Supply(used, some, k) <= Supply(used, ns, k)
    BY <2>1, SupplyGrows
  <2>3. \A k \in Kinds : Supply(used, some, k) \in Int /\ Supply(used, ns, k) \in Int /\ req[k] \in Int
    BY <2>1, SupplyTyped DEF Vectors
  <2>4. \A k \in Kinds : req[k] <= Supply(used, some, k)
    BY <1>2, <2>1, CoveredIs
  <2>5. \A k \in Kinds : req[k] <= Supply(used, ns, k)
    BY <2>2, <2>3, <2>4
  <2> QED  BY <2>1, <2>5, CoveredIs
<1> DEFINE B == {j \in 0..N : Good(g[j], j)}
<1>3. 0 \in B
  <2>1. Covered(req, all, used) /\ 1..0 = {} /\ 0 \in 0..N
    BY <1>0
  <2>2. Good(all, 0)
    <3> HIDE DEF all
    <3> QED  BY <2>1
  <2> HIDE DEF Good, all, N
  <2> QED  BY <1>1, <2>1, <2>2
<1>4. ASSUME NEW j \in 1..N, j - 1 \in B PROVE j \in B
  <2> DEFINE kept == g[j - 1]
             n == chosen[j]
  <2>1. Good(kept, j - 1)
    BY <1>4
  <2>2. g[j] = Dropping(kept, n, req, used) /\ j \in 0..N /\ \A i \in 1..j : i = j \/ i \in 1..(j - 1)
    BY <1>1
  <2> SUFFICES Good(g[j], j)
    BY <2>2
  <2>3. CASE Covered(req, kept \ {n}, used)
    <3>1. g[j] = kept \ {n}
      BY <2>2, <2>3 DEF Dropping
    <3>2. ASSUME NEW i \in 1..j, chosen[i] \in kept \ {n}
          PROVE  ~Covered(req, (kept \ {n}) \ {chosen[i]}, used)
      <4>1. i \in 1..(j - 1) /\ chosen[i] \in kept
        BY <2>2, <3>2
      <4>2. ~Covered(req, kept \ {chosen[i]}, used)
        BY <2>1, <4>1
      <4>3. kept \ {chosen[i]} \in SUBSET all /\ (kept \ {n}) \ {chosen[i]} \in SUBSET (kept \ {chosen[i]})
        BY <2>1
      <4> HIDE DEF kept, all, n
      <4> QED  BY <1>2, <4>2, <4>3
    <3> HIDE DEF kept, all, n, N
    <3> QED  BY <2>1, <2>3, <3>1, <3>2
  <2>4. CASE ~Covered(req, kept \ {n}, used)
    <3>1. g[j] = kept
      BY <2>2, <2>4 DEF Dropping
    <3> HIDE DEF kept, all, N
    <3> QED  BY <2>1, <2>2, <2>4, <3>1
  <2> QED  BY <2>3, <2>4
<1>5. N \in B
  <2> HIDE DEF B, N
  <2>1. \A j \in 0..N : j \in B
    BY <1>0, <1>3, <1>4, OneByOne
  <2> QED  BY <1>0, <2>1
<1>6. Good(g[N], N)
  BY <1>5
<1>7. \A n \in g[N] : \E i \in 1..N : n = chosen[i]
  BY <1>0, <1>6
<1> HIDE DEF N, all
<1> QED  BY <1>1, <1>6, <1>7 DEF all

LEMMA SharesAdd ==
  \* The shares of machines that cover a request add up to it.
  ASSUME NEW req \in Amounts, NEW chosen \in Seq(Fleet), NEW kept \in SUBSET ToSet(chosen),
         \A i, j \in 1..Len(chosen) : chosen[i] = chosen[j] => i = j,
         NEW used \in [Fleet -> Vectors], Sound(used, kept), Covered(req, kept, used), NEW k \in Kinds
  PROVE  SumFunction([n \in kept |-> Shares(req, chosen, kept, used)[n][k]]) = req[k]
<1> DEFINE N == Len(chosen)
           Upto(j) == {m \in kept : \E i \in 1..j : chosen[i] = m}
           before(n) == {m \in kept : \E i, j \in DOMAIN chosen : chosen[i] = m /\ chosen[j] = n /\ i < j}
           share == [n \in kept |-> Shares(req, chosen, kept, used)[n][k]]
           B == {j \in 0..N : Total(share, Upto(j)) = Least(req[k], Supply(used, Upto(j), k))}
<1>0. N \in Nat /\ DOMAIN chosen = 1..N /\ ToSet(chosen) = {chosen[i] : i \in 1..N} /\ kept \in SUBSET Fleet
  BY DEF ToSet
<1>1. req[k] \in Nat /\ req \in Vectors
  BY DEF Amounts, Vectors
<1>2. ASSUME NEW s \in SUBSET kept
      PROVE  /\ s \in SUBSET Fleet /\ IsFiniteSet(s) /\ Supply(used, s, k) \in Nat
             /\ SumFunction([m \in s |-> Free(used, m)[k]]) = Supply(used, s, k)
  <2>1. s \in SUBSET Fleet /\ Sound(used, s)
    BY <1>0 DEF Sound
  <2>2. IsFiniteSet(s) /\ Supply(used, s, k) \in Nat
    BY <2>1, SupplyTyped
  <2> DEFINE f == [m \in s |-> Free(used, m)[k]]
  <2>3. \A m \in s : f[m] = Frees(used, k)[m]
    BY <2>1 DEF Frees
  <2>4. Total(f, s) = Total(Frees(used, k), s)
    <3> HIDE DEF f
    <3> QED  BY <2>2, <2>3, TotalAgrees
  <2>5. SumFunction(f) = Total(f, s)
    BY DEF SumFunction, Total
  <2> QED  BY <2>1, <2>2, <2>4, <2>5 DEF Supply
<1>3. ASSUME NEW n \in kept
      PROVE  /\ share[n] = Least(AtLeast0(req[k] - Supply(used, before(n), k)), Free(used, n)[k])
             /\ share[n] \in Int /\ Free(used, n)[k] \in Nat
  <2>1. before(n) \in SUBSET kept
    OBVIOUS
  <2>2. share[n] = Least(AtLeast0(req[k] - SumFunction([m \in before(n) |-> Free(used, m)[k]])), Free(used, n)[k])
    BY DEF Shares
  <2> HIDE DEF before, share
  <2>3. share[n] = Least(AtLeast0(req[k] - Supply(used, before(n), k)), Free(used, n)[k]) /\ Supply(used, before(n), k) \in Nat
    BY <1>2, <2>1, <2>2
  <2>4. Free(used, n)[k] \in Nat
    <3>1. Free(used, n)[k] = Cap[n][k] - used[n][k] /\ Cap[n][k] \in Nat /\ used[n][k] \in Int
      BY <1>0, FreeTyped, CapTyped DEF Vectors
    <3> QED  BY <3>1 DEF Sound, AtMost
  <2> QED  BY <1>1, <2>3, <2>4 DEF Least, AtLeast0
<1>4. 0 \in B
  <2>1. Upto(0) = {} /\ 0 \in 0..N
    BY <1>0
  <2>2. Total(share, {}) = 0 /\ Supply(used, {}, k) = 0
    BY TotalSteps, FS_EmptySet DEF Supply
  <2>3. Least(req[k], 0) = 0
    BY <1>1 DEF Least
  <2> HIDE DEF Upto, share, N
  <2> QED  BY <2>1, <2>2, <2>3
<1>5. ASSUME NEW j \in 1..N, j - 1 \in B PROVE j \in B
  <2> DEFINE n == chosen[j]
             P == Upto(j - 1)
  <2>1. Total(share, P) = Least(req[k], Supply(used, P, k)) /\ j \in 0..N
    <3> HIDE DEF Upto, share
    <3> QED  BY <1>5
  <2>2. Upto(j) = (IF n \in kept THEN P \cup {n} ELSE P)
    <3>1. \A i \in 1..j : i = j \/ i \in 1..(j - 1)
      OBVIOUS
    <3>2. \A i \in 1..(j - 1) : i \in 1..j
      OBVIOUS
    <3>3. j \in 1..j
      OBVIOUS
    <3> QED  BY <3>1, <3>2, <3>3
  <2>3. CASE n \notin kept
    <3> HIDE DEF share, N, n, P, Upto
    <3> QED  BY <2>1, <2>2, <2>3
  <2>4. CASE n \in kept
    <3>1. n \notin P
      BY <1>0
    <3>2. before(n) = P
      <4>1. ASSUME NEW m \in before(n) PROVE m \in P
        <5>1. PICK h, i \in 1..N : chosen[h] = m /\ chosen[i] = n /\ h < i
          BY <1>0
        <5>2. i = j
          BY <5>1
        <5> QED  BY <5>1, <5>2
      <4>2. ASSUME NEW m \in P PROVE m \in before(n)
        <5>1. PICK h \in 1..(j - 1) : chosen[h] = m
          OBVIOUS
        <5>2. h \in 1..N /\ h < j /\ m \in kept
          OBVIOUS
        <5> QED  BY <1>0, <5>1, <5>2
      <4> QED  BY <4>1, <4>2
    <3>3. P \in SUBSET kept /\ P \cup {n} \in SUBSET kept /\ (P \cup {n}) \ {n} = P
      BY <2>4, <3>1
    <3>4. share[n] = Least(AtLeast0(req[k] - Supply(used, P, k)), Free(used, n)[k])
      <4> HIDE DEF before, share, P
      <4> QED  BY <1>3, <2>4, <3>2
    <3> HIDE DEF share, N, n, P, Upto, before
    <3>5. Supply(used, P \cup {n}, k) = Supply(used, P, k) + Free(used, n)[k]
      <4>1. P \in SUBSET Fleet /\ n \in Fleet
        BY <1>0, <2>4, <3>3
      <4> QED  BY <3>1, <4>1, SupplyAdds
    <3>6. Total(share, P \cup {n}) = share[n] + Total(share, P)
      <4> DEFINE Q == P \cup {n}
      <4>1. n \in Q /\ Q \in SUBSET kept /\ Q \ {n} = P
        BY <3>3
      <4> HIDE DEF Q
      <4>2. IsFiniteSet(Q) /\ \A m \in Q : share[m] \in Int
        BY <1>2, <1>3, <4>1
      <4>3. Total(share, Q) = share[n] + Total(share, Q \ {n})
        BY <4>1, <4>2, TotalOf
      <4> QED  BY <4>1, <4>3 DEF Q
    <3>7. Supply(used, P, k) \in Nat /\ Free(used, n)[k] \in Nat
      BY <1>2, <1>3, <2>4, <3>3
    <3>8. Total(share, P \cup {n}) = Least(req[k], Supply(used, P \cup {n}, k))
      BY <1>1, <2>1, <3>4, <3>5, <3>6, <3>7, SMTT(30) DEF Least, AtLeast0
    <3> QED  BY <2>1, <2>2, <2>4, <3>8
  <2> QED  BY <2>3, <2>4
<1>6. N \in B
  <2> HIDE DEF B, N
  <2>1. \A j \in 0..N : j \in B
    BY <1>0, <1>4, <1>5, OneByOne
  <2> QED  BY <1>0, <2>1
<1>7. Upto(N) = kept
  BY <1>0
<1>8. req[k] <= Supply(used, kept, k) /\ Supply(used, kept, k) \in Nat
  BY <1>0, <1>1, <1>2, CoveredIs
<1>9. Total(share, kept) = req[k]
  <2> HIDE DEF share, N, Upto
  <2>1. Total(share, kept) = Least(req[k], Supply(used, kept, k))
    BY <1>6, <1>7
  <2> QED  BY <1>1, <1>8, <2>1 DEF Least
<1> QED  BY <1>9 DEF SumFunction, Total

\* What is said of an order of some machines: it names each of them, and once.
Ordering(o, ns, N) ==
  /\ N \in Nat /\ o \in [1..N -> Fleet]
  /\ \A i \in 1..N : o[i] \in ns
  /\ \A i, j \in 1..N : o[i] = o[j] => i = j

LEMMA OrderIs ==
  \* An order of some machines names each of them once.
  ASSUME NEW req, NEW ns \in SUBSET Fleet, NEW used, NEW o \in Descending(req, ns, used)
  PROVE  Ordering(o, ns, Cardinality(ns))
<1> DEFINE N == Cardinality(ns)
<1>1. IsFiniteSet(ns) /\ N \in Nat
  BY FleetFinite, FS_Subset, FS_CardinalityType
<1>2. o \in [1..N -> ns] /\ ns = {o[i] : i \in 1..N}
  <2>1. o \in [1..N -> ns] /\ ToSet(o) = ns
    BY DEF Descending
  <2> HIDE DEF N
  <2> QED  BY <2>1 DEF ToSet
<1>3. IsFiniteSet(1..N) /\ Cardinality(1..N) = N
  <2> HIDE DEF N
  <2> QED  BY <1>1, FS_Interval
<1>4. o \in Surjection(1..N, ns)
  <2> HIDE DEF N
  <2> QED  BY <1>2 DEF Surjection
<1>5. o \in Injection(1..N, ns)
  <2>1. Cardinality(1..N) = Cardinality(ns)
    BY <1>3
  <2> HIDE DEF N
  <2> QED  BY <1>1, <1>3, <1>4, <2>1, FS_SurjSameCardinalityImpliesInj
<1>6. \A i, j \in 1..N : o[i] = o[j] => i = j
  <2> HIDE DEF N
  <2> QED  BY <1>2, <1>5 DEF Injection, IsInjective
<1>7. o \in [1..N -> Fleet] /\ \A i \in 1..N : o[i] \in ns
  <2> HIDE DEF N
  <2> QED  BY <1>2
<1> QED  BY <1>1, <1>6, <1>7 DEF Ordering

LEMMA FewerThanLong ==
  \* Of a list's entries there are no more than it is long.
  ASSUME NEW c \in Seq(Fleet), NEW some \in SUBSET ToSet(c)
  PROVE  Cardinality(some) \in Nat /\ Cardinality(some) <= Len(c)
<1> DEFINE N == Len(c)
<1>1. N \in Nat /\ DOMAIN c = 1..N /\ ToSet(c) = {c[i] : i \in 1..N}
  BY DEF ToSet
<1>2. IsFiniteSet(1..N) /\ Cardinality(1..N) = N
  <2> HIDE DEF N
  <2> QED  BY <1>1, FS_Interval
<1>3. c \in Surjection(1..N, ToSet(c))
  <2>1. c \in [1..N -> ToSet(c)]
    BY <1>1
  <2> HIDE DEF N
  <2> QED  BY <1>1, <2>1 DEF Surjection
<1>4. IsFiniteSet(ToSet(c)) /\ Cardinality(ToSet(c)) <= N
  <2> HIDE DEF N
  <2> QED  BY <1>2, <1>3, FS_Surjection
<1>5. Cardinality(some) <= Cardinality(ToSet(c)) /\ Cardinality(some) \in Nat /\ Cardinality(ToSet(c)) \in Nat
  BY <1>4, FS_Subset, FS_CardinalityType
<1> QED  BY <1>1, <1>4, <1>5

LEMMA SolveIs ==
  \* What SolveAggregate gives a gang is what it asked for, on machines it cannot do without.
  ASSUME NEW spec \in Requests, NEW used \in [Fleet -> Vectors], NEW ups \in SUBSET Fleet, Sound(used, ups),
         NEW p \in SolveAggregate(spec, used, ups)
  PROVE  /\ \A k \in Kinds : SumFunction([n \in p.nodes |-> p.shares[n][k]]) = spec.total[k]
         /\ spec.maxNodes > 0 => Cardinality(p.nodes) <= spec.maxNodes
         /\ \A n \in p.nodes : ~Covered(spec.total, p.nodes \ {n}, used)
<1> DEFINE ns == spec.match \cap ups
           req == spec.total
           max == spec.maxNodes
           solved == {g \in {Greedy(req, max, o, used) : o \in Descending(req, ns, used)} : Satisfied(g.need)}
<1>1. PICK g \in solved :
        p = [nodes |-> Needed(req, g.chosen, used),
             shares |-> Shares(req, g.chosen, Needed(req, g.chosen, used), used)]
  BY DEF SolveAggregate
<1>2. PICK o \in Descending(req, ns, used) : g = Greedy(req, max, o, used)
  BY <1>1
<1>3. Satisfied(g.need)
  BY <1>1
<1>4. req \in Amounts /\ req \in Vectors /\ max \in Nat
  BY DEF Requests, Amounts, Vectors
<1>5. ns \in SUBSET Fleet /\ ns \in SUBSET ups
  OBVIOUS
<1> DEFINE N == Cardinality(ns)
           c == g.chosen
           kept == Needed(req, c, used)
<1> HIDE DEF ns, solved, req, max, c, kept
<1>6. /\ N \in Nat /\ o \in [1..N -> Fleet] /\ \A i \in 1..N : o[i] \in ns
      /\ \A i, j \in 1..N : o[i] = o[j] => i = j
  <2>1. o \in Descending(req, ns, used)
    BY <1>2
  <2>2. Ordering(o, ns, Cardinality(ns))
    BY <1>5, <2>1, OrderIs
  <2> HIDE DEF N
  <2>3. Ordering(o, ns, N)
    BY <2>2 DEF N
  <2> QED  BY <2>3 DEF Ordering
<1> USE DEF c, kept
<1> HIDE DEF N
<1>7. Chosen(g, N, req, max, o, used)
  BY <1>2, <1>4, <1>6, GreedyChosen
<1> HIDE DEF kept
<1>8. /\ c \in Seq(Fleet) /\ g.need \in Vectors
      /\ \A i \in 1..Len(c) : \E h \in 1..N : c[i] = o[h]
      /\ \A h, i \in 1..Len(c) : c[h] = c[i] => h = i
      /\ max > 0 => Len(c) <= max
      /\ \A k \in Kinds : g.need[k] = req[k] - Supply(used, ToSet(c), k)
  BY <1>7 DEF Chosen
<1> HIDE DEF c
<1>9. ToSet(c) \in SUBSET ns /\ ToSet(c) \in SUBSET Fleet /\ Sound(used, ToSet(c))
  <2>1. DOMAIN c = 1..Len(c)
    BY <1>8
  <2>2. \A i \in 1..Len(c) : c[i] \in ns
    BY <1>6, <1>8
  <2>3. ToSet(c) \in SUBSET ns
    BY <2>1, <2>2 DEF ToSet
  <2> QED  BY <1>5, <2>3 DEF Sound
<1>10. Covered(req, ToSet(c), used)
  <2>1. \A k \in Kinds : req[k] - Supply(used, ToSet(c), k) <= 0
    BY <1>3, <1>8 DEF Satisfied, AtMost, Zero
  <2>2. \A k \in Kinds : req[k] \in Int /\ Supply(used, ToSet(c), k) \in Int
    BY <1>4, <1>9, SupplyTyped DEF Vectors
  <2>3. \A k \in Kinds : req[k] <= Supply(used, ToSet(c), k)
    BY <2>1, <2>2
  <2> QED  BY <1>4, <1>9, <2>3, CoveredIs
<1>11. /\ kept \in SUBSET ToSet(c) /\ Covered(req, kept, used)
       /\ \A n \in kept : ~Covered(req, kept \ {n}, used)
  BY <1>4, <1>8, <1>9, <1>10, NeededIs DEF kept
<1>12. Sound(used, kept)
  BY <1>9, <1>11 DEF Sound
<1> DEFINE shares == Shares(req, c, kept, used)
<1>13. ASSUME NEW k \in Kinds PROVE SumFunction([n \in kept |-> shares[n][k]]) = req[k]
  BY <1>4, <1>8, <1>11, <1>12, SharesAdd
<1>14. max > 0 => Cardinality(kept) <= max
  <2>1. Cardinality(kept) \in Nat /\ Cardinality(kept) <= Len(c) /\ Len(c) \in Nat
    BY <1>8, <1>11, FewerThanLong
  <2> QED  BY <1>4, <1>8, <2>1
<1>15. p.nodes = kept /\ p.shares = shares
  BY <1>1 DEF kept, c
<1> HIDE DEF shares
<1> QED  BY <1>11, <1>13, <1>14, <1>15 DEF req, max

\* The gangs of a pass are served before it plans: what is left then asks for one machine.
GangsServed ==
  /\ pass.step = "gangs" => \A i \in pass.kept : ~Aggregated(jobs[i].spec)
  /\ pass.step = "plan" => \A i \in InHand : ~Aggregated(jobs[i].spec)

LEMMA ServedStep ==
  \* Every step keeps it.
  ASSUME SchedTyped, HandInv, GangsServed, Next
  PROVE  GangsServed'
<1> DEFINE Goal == GangsServed'
<1>a. ASSUME pass'.step # "gangs", pass'.step # "plan" PROVE Goal
  BY <1>a DEF GangsServed
<1>b. InHand \subseteq DOMAIN jobs
  BY DEF HandInv, Queue
<1>c. \* Steps that change no request and hand out nothing new.
      ASSUME pass' = pass, \A i \in DOMAIN jobs : jobs'[i].spec = jobs[i].spec PROVE Goal
  <2>1. InHand' = InHand /\ pass.kept \subseteq InHand
    BY <1>c DEF InHand, Going
  <2> QED  BY <1>b, <1>c, <2>1 DEF GangsServed, Aggregated
<1> HIDE DEF Goal
<1>1. ASSUME NEW spec \in Specs, Submit(spec) PROVE Goal
  <2>1. pass' = pass /\ \A j \in DOMAIN jobs : jobs'[j] = jobs[j]
    BY <1>1, SubmitIs DEF Submit
  <2> QED  BY <1>c, <2>1
<1>2. ASSUME NEW i \in DOMAIN jobs, Cancel(i) PROVE Goal
  <2>1. jobs' = [jobs EXCEPT ![i].state = "CANCELLED"] /\ "CANCELLED" \in JobStates /\ pass' = pass
    BY <1>2 DEF Cancel, JobStates
  <2> QED  BY <1>c, <2>1, StateSet DEF SameJobs
<1>3. ASSUME NEW i \in DOMAIN jobs, NEW s \in {"COMPLETED", "FAILED"}, End(i, s) PROVE Goal
  <2>1. jobs' = [jobs EXCEPT ![i].state = s] /\ s \in JobStates /\ pass' = pass
    BY <1>3 DEF End, JobStates
  <2> QED  BY <1>c, <2>1, StateSet DEF SameJobs
<1>4. ASSUME NEW n \in Fleet, Flip(n) PROVE Goal
  BY <1>c, <1>4 DEF Flip
<1>5. ASSUME Tick PROVE Goal
  BY <1>c, <1>5 DEF Tick
<1>6. ASSUME Begin PROVE Goal
  <2>1. pass'.step = "deps"
    BY <1>6, BeginIs
  <2> QED  BY <1>a, <2>1
<1>7. ASSUME CheckDependencies PROVE Goal
  <2>1. pass'.step = "deps"
    BY <1>7, CheckDependenciesIs
  <2> QED  BY <1>a, <2>1
<1>8. ASSUME BeginAdmission PROVE Goal
  <2>1. pass'.step = "qos"
    BY <1>8, BeginAdmissionIs
  <2> QED  BY <1>a, <2>1
<1>9. ASSUME Admit PROVE Goal
  <2>1. pass'.step = "qos"
    BY <1>9, AdmitIs
  <2> QED  BY <1>a, <2>1
<1>10. ASSUME BeginGangs PROVE Goal
  <2>1. pass'.step = "gangs" /\ pass'.kept = {}
    BY <1>10, BeginGangsIs
  <2> QED  BY <2>1 DEF Goal, GangsServed
<1>11. ASSUME PlaceGang PROVE Goal
  <2>1. /\ pass'.step = "gangs" /\ pass.step = "gangs" /\ pass.todo # {}
        /\ \/ /\ ~Aggregated(jobs[Foremost].spec) /\ jobs' = jobs
              /\ pass'.kept = pass.kept \cup {Foremost}
           \/ jobs' = jobs /\ pass'.kept = pass.kept
           \/ /\ pass'.kept = pass.kept
              /\ \E at \in SUBSET Fleet : \E shares \in UNION {[s -> Vectors] : s \in SUBSET Fleet} :
                   jobs' = Start(Foremost, at, shares)
    BY <1>11, PlaceGangIs
  <2>2. Foremost \in DOMAIN jobs
    BY <2>1, HandedOut
  <2>3. \A i \in DOMAIN jobs : jobs'[i].spec = jobs[i].spec
    <3>1. CASE jobs' = jobs
      BY <3>1
    <3>2. ASSUME NEW at \in SUBSET Fleet, NEW shares \in UNION {[s -> Vectors] : s \in SUBSET Fleet},
                 jobs' = Start(Foremost, at, shares)
          PROVE  \A i \in DOMAIN jobs : jobs'[i].spec = jobs[i].spec
      BY <2>2, <3>2, StartIs DEF SameJobs
    <3> QED  BY <2>1, <3>1, <3>2
  <2>4. \A i \in pass'.kept : ~Aggregated(jobs[i].spec)
    BY <2>1 DEF GangsServed
  <2>5. pass'.kept \subseteq DOMAIN jobs
    BY <1>b, <2>1, <2>2 DEF InHand
  <2> QED  BY <2>1, <2>3, <2>4, <2>5 DEF Goal, GangsServed, Aggregated
<1>12. ASSUME BeginPlan PROVE Goal
  <2>1. /\ pass'.step = "plan" /\ pass'.todo = pass.kept /\ pass'.kept = {} /\ pass'.starts = pass.starts
        /\ jobs' = jobs /\ pass.step = "gangs"
    BY <1>12, BeginPlanIs DEF BeginPlan, Over
  <2>2. pass.starts = {}
    BY <2>1 DEF HandInv
  <2>3. InHand' = pass.kept
    BY <2>1, <2>2 DEF InHand, Going
  <2> QED  BY <2>1, <2>3 DEF Goal, GangsServed, Aggregated
<1>13. ASSUME PlanJob PROVE Goal
  <2>1. /\ pass'.step = "plan" /\ pass.step = "plan" /\ pass.todo # {} /\ pass'.todo = pass.todo \ {Foremost}
        /\ pass'.kept = pass.kept /\ jobs' = jobs
        /\ pass'.starts = pass.starts \/ \E n \in Fleet : pass'.starts = pass.starts \cup {<<Foremost, n>>}
    BY <1>13, PlanJobIs DEF PlanJob
  <2>2. Foremost \in pass.todo
    BY <2>1, HandedOut
  <2>3. Going' \subseteq Going \cup {Foremost}
    BY <2>1 DEF Going
  <2>4. InHand' \subseteq InHand
    BY <2>1, <2>2, <2>3 DEF InHand
  <2> QED  BY <2>1, <2>4, SMTT(60) DEF Goal, GangsServed, Aggregated
<1>14. ASSUME Carry PROVE Goal
  <2>1. pass'.step = "plan" /\ pass.step = "plan" /\ pass'.todo = pass.todo /\ pass'.kept = pass.kept
    BY <1>14, CarryIs
  <2>2. PICK d \in pass.starts :
          /\ jobs' = Start(d[1], {d[2]}, <<>>) /\ pass'.starts = pass.starts \ {d}
          /\ d[1] \in DOMAIN jobs /\ d[2] \in Fleet
    BY <1>14, CarryIs
  <2>3. {d[2]} \in SUBSET Fleet
    BY <2>2
  <2>4. \A i \in DOMAIN jobs : jobs'[i].spec = jobs[i].spec
    BY <2>2, <2>3, NothingShared, StartIs DEF SameJobs
  <2>5. InHand' \subseteq InHand
    BY <2>1, <2>2 DEF InHand, Going
  <2> QED  BY <1>b, <2>1, <2>4, <2>5 DEF Goal, GangsServed, Aggregated
<1>15. ASSUME Done PROVE Goal
  <2>1. pass'.step = "idle"
    BY <1>15 DEF Done, Idle
  <2> QED  BY <1>a, <2>1
<1> QED  BY <1>1, <1>2, <1>3, <1>4, <1>5, <1>6, <1>7, <1>8, <1>9, <1>10, <1>11, <1>12, <1>13, <1>14, <1>15
         DEF Next, PassStep, Goal

LEMMA ServedHolds == Spec => []GangsServed
<1>1. Init => GangsServed
  BY DEF Init, Idle, GangsServed
<1>2. SchedInv /\ GangsServed /\ [Next]_vars => GangsServed'
  <2> SUFFICES ASSUME SchedTyped, HandInv, GangsServed, [Next]_vars PROVE GangsServed'
    BY DEF SchedInv
  <2>1. CASE Next
    BY <2>1, ServedStep
  <2>2. CASE UNCHANGED vars
    BY <2>2 DEF vars, GangsServed, InHand, Going, Aggregated
  <2> QED  BY <2>1, <2>2
<1> QED  BY <1>1, <1>2, SchedInvariant, PTL DEF Spec

LEMMA SharesSet ==
  \* What a job that starts is given.
  ASSUME SchedTyped, NEW i \in DOMAIN jobs, NEW at, NEW shares, jobs' = Start(i, at, shares)
  PROVE  jobs'[i].at = at /\ jobs'[i].shares = shares /\ jobs'[i].spec = jobs[i].spec
<1>1. jobs[i] \in Rows
  BY RowsTyped
<1> DEFINE row == [jobs[i] EXCEPT !.state = "RUNNING", !.at = at, !.shares = shares, !.since = now]
<1>2. row.at = at /\ row.shares = shares /\ row.spec = jobs[i].spec
  BY <1>1 DEF Rows
<1>3. jobs' = [jobs EXCEPT ![i] = row]
  BY DEF Start
<1> HIDE DEF row
<1>4. jobs'[i] = row
  BY <1>3 DEF SchedTyped
<1> QED  BY <1>2, <1>4

\* A gang gets exactly what was asked for in all, on no more machines than allowed, and on
\* none that it could do without as things are when it is placed, if no machine is charged
\* more than it has (SolveAggregate: "Fewest nodes first, deliberately").
THEOREM GangsAreWholeHolds == Spec => GangsAreWhole
<1> DEFINE Given(i) == LET job == jobs'[i]
                           at == job.at
                       IN  /\ \A k \in Kinds : SumFunction([n \in at |-> job.shares[n][k]]) = job.spec.total[k]
                           /\ job.spec.maxNodes > 0 => Cardinality(at) <= job.spec.maxNodes
                           /\ \A n \in at : ~Covered(job.spec.total, at \ {n}, pass.used)
           Whole == \A i \in DOMAIN jobs :
                      /\ Waits(i) /\ jobs'[i].state = "RUNNING" /\ Aggregated(jobs'[i].spec)
                      /\ \A n \in pass.up : AtMost(pass.used[n], Cap[n])
                      => Given(i)
<1>1. SchedInv /\ GangsServed /\ [Next]_vars => [Whole]_vars
  <2> SUFFICES ASSUME SchedTyped, HandInv, GangsServed, Next,
                      NEW i \in DOMAIN jobs, Waits(i), jobs'[i].state = "RUNNING", Aggregated(jobs'[i].spec),
                      \A n \in pass.up : AtMost(pass.used[n], Cap[n])
               PROVE  Given(i)
    BY DEF SchedInv
  <2>1. CASE PlaceGang /\ i = Foremost
    <3> DEFINE placements == SolveAggregate(jobs[i].spec, pass.used, pass.up)
    <3>1. \/ jobs' = jobs
          \/ \E p \in placements : jobs' = Start(i, p.nodes, p.shares)
      BY <2>1 DEF PlaceGang
    <3>2. jobs' # jobs
      BY DEF Waits
    <3> HIDE DEF placements
    <3>3. PICK p \in placements : jobs' = Start(i, p.nodes, p.shares)
      BY <3>1, <3>2
    <3>4. jobs'[i].at = p.nodes /\ jobs'[i].shares = p.shares /\ jobs'[i].spec = jobs[i].spec
      BY <3>3, SharesSet
    <3>5. /\ jobs[i].spec \in Requests /\ pass.used \in [Fleet -> Vectors] /\ pass.up \in SUBSET Fleet
          /\ Sound(pass.used, pass.up)
      BY RowsTyped DEF SchedTyped, Passes, Rows, Sound
    <3>6. PICK spec, used, ups : spec = jobs[i].spec /\ used = pass.used /\ ups = pass.up
      OBVIOUS
    <3>7. /\ \A k \in Kinds : SumFunction([n \in p.nodes |-> p.shares[n][k]]) = spec.total[k]
          /\ spec.maxNodes > 0 => Cardinality(p.nodes) <= spec.maxNodes
          /\ \A n \in p.nodes : ~Covered(spec.total, p.nodes \ {n}, used)
      BY <3>5, <3>6, SolveIs DEF placements
    <3> QED  BY <3>4, <3>6, <3>7
  <2>2. CASE Carry /\ i \in Going
    <3>1. pass.step = "plan"
      BY <2>2, CarryIs
    <3>2. ~Aggregated(jobs[i].spec)
      BY <2>2, <3>1 DEF GangsServed, InHand
    <3>3. PICK d \in pass.starts :
            jobs' = Start(d[1], {d[2]}, <<>>) /\ d[1] \in DOMAIN jobs /\ d[2] \in Fleet
      BY <2>2, CarryIs
    <3>4. {d[2]} \in SUBSET Fleet
      BY <3>3
    <3>5. jobs'[i].spec = jobs[i].spec
      BY <3>3, <3>4, NothingShared, StartIs DEF SameJobs
    <3> QED  BY <3>2, <3>5
  <2> QED  BY <2>1, <2>2, OnlyStarts
<1>2. GangsAreWhole <=> [][Whole]_vars
  BY DEF GangsAreWhole
<1> HIDE DEF Whole
<1> QED  BY <1>1, <1>2, ServedHolds, SchedInvariant, PTL DEF Spec

=============================================================================
