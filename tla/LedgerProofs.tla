---------------------------- MODULE LedgerProofs ----------------------------
(***************************************************************************)
(* Theorems about Ledger for chains and blocks of any length, any IDs and  *)
(* any number of inputs and outputs: the walk over the chain that computes *)
(* the unspent outputs, and the agreement of the two checks.               *)
(***************************************************************************)
EXTENDS Ledger, NatSetInduction, SequenceTheorems, FunctionTheorems

-----------------------------------------------------------------------------
(***************************************************************************)
(* Sums over finite sets.  The library adds up the values of a function by *)
(* a recursive function on the subsets of a set, which takes out an        *)
(* element that CHOOSE picks; the order makes no difference.               *)
(***************************************************************************)
Some(s) == CHOOSE x \in s : TRUE

Low(S, k) == {s \in SUBSET S : Cardinality(s) <= k}

(* The recursive function of a sum, on the subsets of S with up to k elements. *)
SumUpTo(it, f, S, k) ==
  it = [s \in Low(S, k) |-> IF s = {} THEN 0 ELSE f[Some(s)] + it[s \ {Some(s)}]]

(* The same on all subsets, as the library has it. *)
SumsOf(it, f, S) ==
  it = [s \in SUBSET S |-> IF s = {} THEN 0 ELSE f[Some(s)] + it[s \ {Some(s)}]]

LEMMA LessOne ==
  ASSUME NEW s, IsFiniteSet(s), NEW x \in s
  PROVE  /\ IsFiniteSet(s \ {x}) /\ Cardinality(s) \in Nat
         /\ Cardinality(s \ {x}) = Cardinality(s) - 1
         /\ Cardinality(s \ {x}) \in Nat
<1>1. IsFiniteSet(s \ {x}) /\ Cardinality(s \ {x}) = Cardinality(s) - 1
  BY FS_RemoveElement
<1> QED BY <1>1, FS_CardinalityType

LEMMA OneMore ==
  ASSUME NEW s, IsFiniteSet(s), NEW k \in Nat, Cardinality(s) = k + 1
  PROVE  s # {} /\ \A x \in s : IsFiniteSet(s \ {x}) /\ Cardinality(s \ {x}) = k
<1>1. s # {}
  <2>1. Cardinality({}) = 0
    BY FS_EmptySet
  <2> QED BY <2>1
<1> QED BY <1>1, LessOne

LEMMA SumUnfolds ==
  ASSUME NEW S, IsFiniteSet(S), NEW f
  PROVE  \E it : SumsOf(it, f, S)
<1> DEFINE T == {k \in Nat : \E it : SumUpTo(it, f, S, k)}
<1>1. \A s \in SUBSET S : IsFiniteSet(s) /\ Cardinality(s) \in Nat
                          /\ (s # {} => Some(s) \in s)
  BY FS_Subset, FS_CardinalityType DEF Some
<1>2. \A k \in Nat : \A s \in Low(S, k + 1) : s # {} => s \ {Some(s)} \in Low(S, k)
  <2> SUFFICES ASSUME NEW k \in Nat, NEW s \in Low(S, k + 1), s # {}
               PROVE  s \ {Some(s)} \in Low(S, k)
    OBVIOUS
  <2>1. s \in SUBSET S /\ Cardinality(s) <= k + 1
    BY DEF Low
  <2>2. Cardinality(s \ {Some(s)}) = Cardinality(s) - 1
    BY <1>1, <2>1, LessOne
  <2>3. Cardinality(s) \in Nat
    BY <1>1, <2>1
  <2> QED BY <2>1, <2>2, <2>3 DEF Low
<1>3. 0 \in T
  <2> DEFINE it == [s \in Low(S, 0) |-> 0]
  <2>1. \A s \in Low(S, 0) : s = {}
    BY <1>1, FS_EmptySet DEF Low
  <2>2. SumUpTo(it, f, S, 0)
    BY <2>1 DEF SumUpTo
  <2> QED BY <2>2
<1>4. ASSUME NEW k \in T PROVE k + 1 \in T
  <2>1. k \in Nat
    OBVIOUS
  <2>2. PICK it : SumUpTo(it, f, S, k)
    BY <1>4
  <2> DEFINE next == [s \in Low(S, k + 1) |->
                        IF s = {} THEN 0 ELSE f[Some(s)] + it[s \ {Some(s)}]]
  <2>3. \A s \in Low(S, k) : next[s] = it[s]
    <3>1. \A s \in Low(S, k) : s \in Low(S, k + 1)
      BY <1>1, <2>1 DEF Low
    <3> QED BY <2>2, <3>1 DEF SumUpTo
  <2>4. \A s \in Low(S, k + 1) :
          next[s] = IF s = {} THEN 0 ELSE f[Some(s)] + next[s \ {Some(s)}]
    BY <1>2, <2>1, <2>3
  <2>5. next = [s \in Low(S, k + 1) |-> next[s]]
    OBVIOUS
  <2> HIDE DEF next
  <2>6. SumUpTo(next, f, S, k + 1)
    BY <2>4, <2>5 DEF SumUpTo
  <2> QED BY <2>6, <2>1
<1>5. T = Nat
  <2>1. T \in SUBSET Nat
    OBVIOUS
  <2> HIDE DEF T
  <2> QED BY <1>3, <1>4, <2>1, NatSetInduction
<1>6. Low(S, Cardinality(S)) = SUBSET S
  BY FS_Subset DEF Low
<1>7. Cardinality(S) \in T
  BY <1>1, <1>5
<1> QED BY <1>6, <1>7 DEF SumUpTo, SumsOf

(* Two such functions agree where the numbers added up agree. *)
LEMMA SumsAgree ==
  ASSUME NEW S1, NEW S2, NEW f, NEW g, NEW it1, NEW it2,
         SumsOf(it1, f, S1), SumsOf(it2, g, S2),
         NEW s, s \subseteq S1, s \subseteq S2, IsFiniteSet(s), \A x \in s : f[x] = g[x]
  PROVE  it1[s] = it2[s]
<1> DEFINE T == {k \in Nat : \A t \in SUBSET s : Cardinality(t) = k => it1[t] = it2[t]}
<1>1. \A t \in SUBSET s : /\ IsFiniteSet(t) /\ Cardinality(t) \in Nat
                          /\ (t # {} => Some(t) \in t)
  BY FS_Subset, FS_CardinalityType DEF Some
<1>2. 0 \in T
  <2> SUFFICES ASSUME NEW t \in SUBSET s, Cardinality(t) = 0 PROVE it1[t] = it2[t]
    OBVIOUS
  <2>1. t = {}
    BY <1>1, FS_EmptySet
  <2> QED BY <2>1 DEF SumsOf
<1>3. ASSUME NEW k \in T PROVE k + 1 \in T
  <2> SUFFICES ASSUME NEW t \in SUBSET s, Cardinality(t) = k + 1 PROVE it1[t] = it2[t]
    OBVIOUS
  <2>1. k \in Nat
    OBVIOUS
  <2>2. t # {}
    BY <1>1, <2>1, OneMore
  <2>3. Cardinality(t \ {Some(t)}) = k /\ t \ {Some(t)} \in SUBSET s
    BY <1>1, <2>1, <2>2, OneMore
  <2>4. it1[t \ {Some(t)}] = it2[t \ {Some(t)}]
    BY <1>3, <2>3
  <2>5. it1[t] = f[Some(t)] + it1[t \ {Some(t)}]
    BY <2>2 DEF SumsOf
  <2>6. it2[t] = g[Some(t)] + it2[t \ {Some(t)}]
    BY <2>2 DEF SumsOf
  <2>7. f[Some(t)] = g[Some(t)]
    BY <1>1, <2>2
  <2> QED BY <2>4, <2>5, <2>6, <2>7
<1>4. T = Nat
  <2>1. T \in SUBSET Nat
    OBVIOUS
  <2> HIDE DEF T
  <2> QED BY <1>2, <1>3, <2>1, NatSetInduction
<1> QED BY <1>1, <1>4

LEMMA SumIter ==
  ASSUME NEW S, IsFiniteSet(S), NEW f
  PROVE  \E it : SumsOf(it, f, S) /\ SumFunctionOnSet(f, S) = it[S]
<1> DEFINE iter == CHOOSE it : SumsOf(it, f, S)
<1>1. SumsOf(iter, f, S)
  BY SumUnfolds
<1>2. SumFunctionOnSet(f, S) = iter[S]
  BY DEF SumFunctionOnSet, FoldFunctionOnSet, MapThenFoldSet, SumsOf, Some
<1> QED BY <1>1, <1>2

(* A sum depends only on what is added up. *)
LEMMA SumSame ==
  ASSUME NEW S, IsFiniteSet(S), NEW f, NEW g, \A x \in S : f[x] = g[x]
  PROVE  SumFunctionOnSet(f, S) = SumFunctionOnSet(g, S)
  BY SumIter, SumsAgree

LEMMA SumEmpty == ASSUME NEW f PROVE SumFunctionOnSet(f, {}) = 0
<1>1. IsFiniteSet({})
  BY FS_EmptySet
<1>2. PICK it : SumsOf(it, f, {}) /\ SumFunctionOnSet(f, {}) = it[{}]
  BY <1>1, SumIter
<1> QED BY <1>2 DEF SumsOf

LEMMA SumSome ==
  ASSUME NEW S, IsFiniteSet(S), S # {}, NEW f
  PROVE  /\ Some(S) \in S
         /\ SumFunctionOnSet(f, S) = f[Some(S)] + SumFunctionOnSet(f, S \ {Some(S)})
<1> DEFINE R == S \ {Some(S)}
<1>1. Some(S) \in S /\ IsFiniteSet(R)
  BY FS_Subset DEF Some
<1>2. PICK it : SumsOf(it, f, S) /\ SumFunctionOnSet(f, S) = it[S]
  BY SumIter
<1>3. PICK jt : SumsOf(jt, f, R) /\ SumFunctionOnSet(f, R) = jt[R]
  BY <1>1, SumIter
<1>4. it[R] = jt[R]
  BY <1>1, <1>2, <1>3, SumsAgree
<1>5. it[S] = f[Some(S)] + it[R]
  BY <1>2 DEF SumsOf
<1> QED BY <1>1, <1>2, <1>3, <1>4, <1>5

LEMMA SumType ==
  ASSUME NEW S, IsFiniteSet(S), NEW f, \A y \in S : f[y] \in Int
  PROVE  SumFunctionOnSet(f, S) \in Int
<1> DEFINE T == {k \in Nat : \A s \in SUBSET S : Cardinality(s) = k => SumFunctionOnSet(f, s) \in Int}
<1>1. \A s \in SUBSET S : IsFiniteSet(s) /\ Cardinality(s) \in Nat
  BY FS_Subset, FS_CardinalityType
<1>2. 0 \in T
  <2> SUFFICES ASSUME NEW s \in SUBSET S, Cardinality(s) = 0 PROVE SumFunctionOnSet(f, s) \in Int
    OBVIOUS
  <2>1. s = {}
    BY <1>1, FS_EmptySet
  <2> QED BY <2>1, SumEmpty
<1>3. ASSUME NEW k \in T PROVE k + 1 \in T
  <2> SUFFICES ASSUME NEW s \in SUBSET S, Cardinality(s) = k + 1
               PROVE  SumFunctionOnSet(f, s) \in Int
    OBVIOUS
  <2>1. k \in Nat
    OBVIOUS
  <2>2. s # {} /\ IsFiniteSet(s)
    BY <1>1, <2>1, FS_EmptySet
  <2>3. PICK m \in s : SumFunctionOnSet(f, s) = f[m] + SumFunctionOnSet(f, s \ {m})
    BY <2>2, SumSome
  <2>4. s \ {m} \in SUBSET S /\ Cardinality(s \ {m}) = k /\ f[m] \in Int
    BY <1>1, <2>1, LessOne
  <2>5. SumFunctionOnSet(f, s \ {m}) \in Int
    BY <1>3, <2>4
  <2> QED BY <2>3, <2>4, <2>5
<1>4. T = Nat
  <2>1. T \in SUBSET Nat
    OBVIOUS
  <2> HIDE DEF T
  <2> QED BY <1>2, <1>3, <2>1, NatSetInduction
<1> QED BY <1>1, <1>4

(* Any element may be taken out first. *)
LEMMA SumRemove ==
  ASSUME NEW S, IsFiniteSet(S), NEW f, \A y \in S : f[y] \in Int, NEW x \in S
  PROVE  SumFunctionOnSet(f, S) = f[x] + SumFunctionOnSet(f, S \ {x})
<1> DEFINE Sum(s) == SumFunctionOnSet(f, s)
           T == {k \in Nat : \A s \in SUBSET S : Cardinality(s) = k =>
                               \A y \in s : Sum(s) = f[y] + Sum(s \ {y})}
<1>1. \A s \in SUBSET S : IsFiniteSet(s) /\ Cardinality(s) \in Nat /\ Sum(s) \in Int
  <2> SUFFICES ASSUME NEW s \in SUBSET S
               PROVE  IsFiniteSet(s) /\ Cardinality(s) \in Nat /\ Sum(s) \in Int
    OBVIOUS
  <2>1. IsFiniteSet(s)
    BY FS_Subset
  <2> QED BY <2>1, FS_CardinalityType, SumType
<1>2. 0 \in T
  BY <1>1, FS_EmptySet
<1>3. ASSUME NEW k \in T PROVE k + 1 \in T
  <2> SUFFICES ASSUME NEW s \in SUBSET S, Cardinality(s) = k + 1, NEW y \in s
               PROVE  Sum(s) = f[y] + Sum(s \ {y})
    OBVIOUS
  <2>1. k \in Nat /\ IsFiniteSet(s)
    BY <1>1
  <2>2. PICK m \in s : Sum(s) = f[m] + Sum(s \ {m})
    <3>1. s # {}
      OBVIOUS
    <3>2. Some(s) \in s /\ Sum(s) = f[Some(s)] + Sum(s \ {Some(s)})
      BY <2>1, <3>1, SumSome
    <3> HIDE DEF Sum
    <3> QED BY <3>2
  <2>3. \A z \in s : /\ s \ {z} \in SUBSET S /\ Cardinality(s \ {z}) = k
                     /\ f[z] \in Int
    BY <2>1, OneMore
  <2>4. CASE y # m
    <3> DEFINE both == (s \ {m}) \ {y}
    <3>1. (s \ {y}) \ {m} = both /\ both \in SUBSET S
      BY <2>3
    <3>2. Sum(s \ {m}) = f[y] + Sum(both)
      BY <1>3, <2>3, <2>4
    <3>3. Sum(s \ {y}) = f[m] + Sum(both)
      BY <1>3, <2>3, <2>4, <3>1
    <3>4. Sum(both) \in Int /\ f[m] \in Int /\ f[y] \in Int
      BY <1>1, <2>3, <3>1
    <3> HIDE DEF Sum, both
    <3> QED BY <2>2, <3>2, <3>3, <3>4
  <2> QED BY <2>2, <2>4
<1>4. T = Nat
  <2>1. T \in SUBSET Nat
    OBVIOUS
  <2> HIDE DEF T
  <2> QED BY <1>2, <1>3, <2>1, NatSetInduction
<1> QED BY <1>1, <1>4

(* The sum over two sets without a common element. *)
LEMMA SumUnion ==
  ASSUME NEW A, IsFiniteSet(A), NEW B, IsFiniteSet(B), A \cap B = {},
         NEW f, \A y \in A \cup B : f[y] \in Int
  PROVE  /\ IsFiniteSet(A \cup B)
         /\ SumFunctionOnSet(f, A \cup B) = SumFunctionOnSet(f, A) + SumFunctionOnSet(f, B)
<1> DEFINE Sum(s) == SumFunctionOnSet(f, s)
           T == {k \in Nat : \A s \in SUBSET B : Cardinality(s) = k =>
                               Sum(A \cup s) = Sum(A) + Sum(s)}
<1>1. \A s \in SUBSET B : /\ IsFiniteSet(s) /\ Cardinality(s) \in Nat
                          /\ IsFiniteSet(A \cup s) /\ Sum(s) \in Int /\ Sum(A \cup s) \in Int
  <2> SUFFICES ASSUME NEW s \in SUBSET B
               PROVE  /\ IsFiniteSet(s) /\ Cardinality(s) \in Nat
                      /\ IsFiniteSet(A \cup s) /\ Sum(s) \in Int /\ Sum(A \cup s) \in Int
    OBVIOUS
  <2>1. IsFiniteSet(s)
    BY FS_Subset
  <2>2. IsFiniteSet(A \cup s)
    BY <2>1, FS_Union
  <2> QED BY <2>1, <2>2, FS_CardinalityType, SumType
<1>2. Sum(A) \in Int
  BY SumType
<1>3. 0 \in T
  <2> SUFFICES ASSUME NEW s \in SUBSET B, Cardinality(s) = 0
               PROVE  Sum(A \cup s) = Sum(A) + Sum(s)
    OBVIOUS
  <2>1. s = {} /\ A \cup s = A
    BY <1>1, FS_EmptySet
  <2>2. Sum(s) = 0
    BY <2>1, SumEmpty
  <2> HIDE DEF Sum
  <2> QED BY <1>2, <2>1, <2>2
<1>4. ASSUME NEW k \in T PROVE k + 1 \in T
  <2> SUFFICES ASSUME NEW s \in SUBSET B, Cardinality(s) = k + 1
               PROVE  Sum(A \cup s) = Sum(A) + Sum(s)
    OBVIOUS
  <2>1. k \in Nat /\ IsFiniteSet(s) /\ s # {}
    BY <1>1, OneMore
  <2>2. PICK x : x \in s
    BY <2>1
  <2> DEFINE r == s \ {x}
  <2>3. r \in SUBSET B /\ Cardinality(r) = k /\ (A \cup s) \ {x} = A \cup r
    BY <2>1, <2>2, OneMore
  <2>4. Sum(A \cup r) = Sum(A) + Sum(r)
    BY <1>4, <2>3
  <2>5. Sum(s) = f[x] + Sum(r)
    BY <2>1, <2>2, SumRemove
  <2>6. Sum(A \cup s) = f[x] + Sum(A \cup r)
    <3>1. IsFiniteSet(A \cup s) /\ x \in A \cup s /\ \A y \in A \cup s : f[y] \in Int
      BY <1>1, <2>2
    <3>2. Sum(A \cup s) = f[x] + Sum((A \cup s) \ {x})
      BY <3>1, SumRemove
    <3> QED BY <2>3, <3>2
  <2>7. f[x] \in Int /\ Sum(r) \in Int
    BY <1>1, <2>2, <2>3
  <2> HIDE DEF Sum, r
  <2> QED BY <1>2, <2>4, <2>5, <2>6, <2>7
<1>5. T = Nat
  <2>1. T \in SUBSET Nat
    OBVIOUS
  <2> HIDE DEF T
  <2> QED BY <1>3, <1>4, <2>1, NatSetInduction
<1> QED BY <1>1, <1>5

LEMMA SumOne ==
  ASSUME NEW f, NEW x, f[x] \in Int
  PROVE  IsFiniteSet({x}) /\ SumFunctionOnSet(f, {x}) = f[x]
<1>1. IsFiniteSet({x})
  BY FS_Singleton
<1>2. SumFunctionOnSet(f, {x}) = f[x] + SumFunctionOnSet(f, {x} \ {x})
  BY <1>1, SumRemove
<1>3. {x} \ {x} = {}
  OBVIOUS
<1> QED BY <1>1, <1>2, <1>3, SumEmpty

(* The sum over one more number. *)
LEMMA SumNext ==
  ASSUME NEW n \in Nat, NEW f, \A i \in 1..(n + 1) : f[i] \in Int
  PROVE  /\ SumFunctionOnSet(f, 1..n) \in Int
         /\ SumFunctionOnSet(f, 1..(n + 1)) = SumFunctionOnSet(f, 1..n) + f[n + 1]
<1>1. IsFiniteSet(1..n) /\ IsFiniteSet(1..(n + 1))
  BY FS_Interval
<1>2. (1..(n + 1)) \ {n + 1} = 1..n /\ n + 1 \in 1..(n + 1)
  OBVIOUS
<1>3. SumFunctionOnSet(f, 1..n) \in Int
  BY <1>1, SumType
<1>4. SumFunctionOnSet(f, 1..(n + 1)) = f[n + 1] + SumFunctionOnSet(f, (1..(n + 1)) \ {n + 1})
  BY <1>1, <1>2, SumRemove
<1>5. SumFunctionOnSet(f, 1..(n + 1)) = f[n + 1] + SumFunctionOnSet(f, 1..n) /\ f[n + 1] \in Int
  BY <1>2, <1>4
<1> QED BY <1>3, <1>5

(* A sum of nothing negative is not negative, nor less than one of them. *)
LEMMA SumNotLess ==
  ASSUME NEW S, IsFiniteSet(S), NEW f, \A x \in S : f[x] \in Nat
  PROVE  /\ SumFunctionOnSet(f, S) \in Nat
         /\ \A x \in S : f[x] <= SumFunctionOnSet(f, S)
<1> DEFINE Sum(s) == SumFunctionOnSet(f, s)
           T == {k \in Nat : \A s \in SUBSET S : Cardinality(s) = k => Sum(s) \in Nat}
<1>1. \A s \in SUBSET S : IsFiniteSet(s) /\ Cardinality(s) \in Nat
  BY FS_Subset, FS_CardinalityType
<1>2. 0 \in T
  <2> SUFFICES ASSUME NEW s \in SUBSET S, Cardinality(s) = 0 PROVE Sum(s) \in Nat
    OBVIOUS
  <2>1. s = {}
    BY <1>1, FS_EmptySet
  <2> QED BY <2>1, SumEmpty
<1>3. ASSUME NEW k \in T PROVE k + 1 \in T
  <2> SUFFICES ASSUME NEW s \in SUBSET S, Cardinality(s) = k + 1 PROVE Sum(s) \in Nat
    OBVIOUS
  <2>1. k \in Nat /\ IsFiniteSet(s) /\ s # {}
    BY <1>1, OneMore
  <2>2. PICK x : x \in s
    BY <2>1
  <2>3. Sum(s \ {x}) \in Nat /\ f[x] \in Nat
    BY <1>3, <2>1, <2>2, OneMore
  <2>4. Sum(s) = f[x] + Sum(s \ {x})
    BY <2>1, <2>2, SumRemove
  <2> HIDE DEF Sum
  <2> QED BY <2>3, <2>4
<1>4. T = Nat
  <2>1. T \in SUBSET Nat
    OBVIOUS
  <2> HIDE DEF T
  <2> QED BY <1>2, <1>3, <2>1, NatSetInduction
<1>5. \A s \in SUBSET S : Sum(s) \in Nat
  BY <1>1, <1>4
<1>6. ASSUME NEW x \in S PROVE f[x] <= Sum(S)
  <2>1. Sum(S) = f[x] + Sum(S \ {x})
    BY SumRemove
  <2>2. Sum(S \ {x}) \in Nat
    BY <1>5
  <2> HIDE DEF Sum
  <2> QED BY <2>1, <2>2
<1> QED BY <1>5, <1>6
-----------------------------------------------------------------------------
(* The arithmetic of an int64, whatever its width.                         *)

(* The remainder of a division is the only one. *)
LEMMA ModExact ==
  ASSUME NEW b \in Nat \ {0}, NEW a \in Int
  PROVE  a % b \in 0..(b - 1) /\ \E q \in Int : a = b * q + (a % b)
<1>1. a % b \in 0..(b - 1)
  OBVIOUS
<1>2. a = b * (a \div b) + (a % b)
  OBVIOUS
<1>3. a \div b \in Int
  OBVIOUS
<1> QED BY <1>1, <1>2, <1>3

LEMMA ModUnique ==
  ASSUME NEW b \in Nat \ {0}, NEW q \in Int, NEW p \in Int,
         NEW r \in 0..(b - 1), NEW s \in 0..(b - 1), b * q + r = b * p + s
  PROVE  r = s /\ q = p
<1>1. q <= p \/ q >= p + 1
  OBVIOUS
<1>2. CASE q >= p + 1
  <2>1. b * q >= b * (p + 1)
    <3>1. b * (q - (p + 1)) >= 0
      BY <1>2
    <3> QED BY <3>1
  <2>2. b * (p + 1) = b * p + b
    OBVIOUS
  <2>3. b * q \in Int /\ b * p \in Int
    OBVIOUS
  <2> QED BY <2>1, <2>2, <2>3
<1>3. CASE p >= q + 1
  <2>1. b * p >= b * (q + 1)
    <3>1. b * (p - (q + 1)) >= 0
      BY <1>3
    <3> QED BY <3>1
  <2>2. b * (q + 1) = b * q + b
    OBVIOUS
  <2>3. b * q \in Int /\ b * p \in Int
    OBVIOUS
  <2> QED BY <2>1, <2>2, <2>3
<1>4. CASE p = q
  <2>1. b * q \in Int
    OBVIOUS
  <2> QED BY <1>4, <2>1
<1> QED BY <1>1, <1>2, <1>3, <1>4

Width == 2 * (MaxValue + 1)

LEMMA WidthType == Width \in Nat \ {0} /\ Width = 2 * MaxValue + 2 /\ MaxValue \in Nat
  BY RewardAssumption DEF Width

(* What an int64 holds of a number is in its range, and a multiple of the  *)
(* width away.                                                             *)
LEMMA WrapExact ==
  ASSUME NEW n \in Int
  PROVE  /\ Wrap(n) \in (-MaxValue - 1)..MaxValue
         /\ \E q \in Int : n = Width * q + Wrap(n)
<1> DEFINE a == n + MaxValue + 1
<1>1. a \in Int
  BY WidthType
<1>2. a % Width \in 0..(Width - 1) /\ \E q \in Int : a = Width * q + (a % Width)
  BY <1>1, WidthType, ModExact
<1>3. Wrap(n) = (a % Width) - (MaxValue + 1)
  BY DEF Wrap, Width
<1>4. PICK q \in Int : a = Width * q + (a % Width)
  BY <1>2
<1>5. Width * q \in Int
  BY WidthType
<1> HIDE DEF Width
<1>6. n = Width * q + Wrap(n)
  BY <1>2, <1>3, <1>4, <1>5, WidthType
<1>7. Wrap(n) \in (-MaxValue - 1)..MaxValue
  <2> DEFINE m == a % Width
  <2>1. m \in 0..(Width - 1)
    BY <1>2
  <2>2. Wrap(n) = m - (MaxValue + 1)
    BY <1>3
  <2> HIDE DEF m
  <2> QED BY <2>1, <2>2, WidthType
<1> QED BY <1>6, <1>7

LEMMA WrapUnique ==
  ASSUME NEW n \in Int, NEW m \in (-MaxValue - 1)..MaxValue, NEW q \in Int,
         n = Width * q + m
  PROVE  Wrap(n) = m
<1>1. PICK p \in Int : n = Width * p + Wrap(n)
  BY WrapExact
<1>2. Wrap(n) \in (-MaxValue - 1)..MaxValue
  BY WrapExact
<1> DEFINE r == m + MaxValue + 1
           s == Wrap(n) + MaxValue + 1
<1>3. r \in 0..(Width - 1) /\ s \in 0..(Width - 1)
  BY <1>2, WidthType
<1>4. Width * q \in Int /\ Width * p \in Int
  BY WidthType
<1> HIDE DEF Width
<1>5. Width * q + r = Width * p + s
  BY <1>1, <1>2, <1>4, WidthType
<1> HIDE DEF r, s
<1>6. r = s
  BY <1>3, <1>5, WidthType, ModUnique
<1> QED BY <1>2, <1>6, WidthType DEF r, s

(* A number that fits is held as it is. *)
LEMMA WrapFits ==
  ASSUME NEW n \in (-MaxValue - 1)..MaxValue
  PROVE  Wrap(n) = n
<1>1. n \in Int /\ n = Width * 0 + n
  BY WidthType
<1> QED BY <1>1, WrapUnique

(* It makes no difference to a sum or a difference if its terms wrapped.   *)
LEMMA WrapSum ==
  ASSUME NEW a \in Int, NEW b \in Int
  PROVE  /\ Wrap(Wrap(a) + b) = Wrap(a + b)
         /\ Wrap(a - Wrap(b)) = Wrap(a - b)
<1>1. PICK p \in Int : a = Width * p + Wrap(a)
  BY WrapExact
<1>2. PICK q \in Int : b = Width * q + Wrap(b)
  BY WrapExact
<1>3. Wrap(a) \in Int /\ Wrap(b) \in Int
  BY WrapExact, WidthType
<1>4. PICK k \in Int : Wrap(a) + b = Width * k + Wrap(Wrap(a) + b)
  BY <1>3, WrapExact
<1>5. PICK l \in Int : a - Wrap(b) = Width * l + Wrap(a - Wrap(b))
  BY <1>3, WrapExact
<1>6. /\ Wrap(Wrap(a) + b) \in (-MaxValue - 1)..MaxValue
      /\ Wrap(a - Wrap(b)) \in (-MaxValue - 1)..MaxValue
  BY <1>3, WrapExact
<1>7. /\ Width * (p + k) = Width * p + Width * k
      /\ Width * (l - q) = Width * l - Width * q
      /\ Width * p \in Int /\ Width * k \in Int /\ Width * l \in Int /\ Width * q \in Int
  BY WidthType
<1> DEFINE x == Wrap(Wrap(a) + b)
           y == Wrap(a - Wrap(b))
<1>8. x \in Int /\ y \in Int
  BY <1>6, WidthType
<1>9. a + b = Width * (p + k) + x
  BY <1>1, <1>3, <1>4, <1>7, <1>8
<1>10. a - b = Width * (l - q) + y
  <2> DEFINE u == Width * l
             v == Width * q
             w == Wrap(b)
  <2>1. u \in Int /\ v \in Int /\ w \in Int /\ y \in Int /\ b = v + w /\ a - w = u + y
    BY <1>2, <1>3, <1>5, <1>7, <1>8
  <2>2. Width * (l - q) = u - v
    BY <1>7
  <2> HIDE DEF u, v, w, y
  <2>3. a - b = (u - v) + y
    BY <2>1
  <2> QED BY <2>2, <2>3
<1>11. x = Wrap(a + b) /\ y = Wrap(a - b)
  BY <1>6, <1>9, <1>10, WrapUnique
<1> QED BY <1>11

(* What does not fit is held as less, when it is not negative.             *)
LEMMA WrapNotMore ==
  ASSUME NEW n \in Nat
  PROVE  Wrap(n) <= n
<1>1. CASE n <= MaxValue
  BY <1>1, WrapFits, WidthType
<1>2. CASE n > MaxValue
  BY <1>2, WrapExact, WidthType
<1> QED BY <1>1, <1>2, WidthType
-----------------------------------------------------------------------------
(* The transactions of the chain are a sequence.                           *)

FlatUpTo(f, seqs, n) ==
  f = [i \in 1..n |-> IF i = 1 THEN seqs[i] ELSE f[i - 1] \o seqs[i]]

(* The recursive function of FlattenSeq exists, and its values are sequences. *)
LEMMA FlatUnfolds ==
  ASSUME NEW S, NEW seqs \in Seq(Seq(S)), NEW n \in Nat, n <= Len(seqs)
  PROVE  \E f : FlatUpTo(f, seqs, n) /\ \A i \in 1..n : f[i] \in Seq(S)
<1> DEFINE Flat(k) == \E f : FlatUpTo(f, seqs, k) /\ \A i \in 1..k : f[i] \in Seq(S)
           T == {k \in Nat : k <= Len(seqs) => Flat(k)}
<1>1. 0 \in T
  <2> DEFINE f == [i \in 1..0 |-> <<>>]
  <2>1. FlatUpTo(f, seqs, 0) /\ \A i \in 1..0 : f[i] \in Seq(S)
    BY DEF FlatUpTo
  <2> QED BY <2>1
<1>2. ASSUME NEW k \in T PROVE k + 1 \in T
  <2> SUFFICES ASSUME k + 1 <= Len(seqs) PROVE Flat(k + 1)
    OBVIOUS
  <2>1. k <= Len(seqs) /\ Len(seqs) \in Nat
    OBVIOUS
  <2>2. PICK f : FlatUpTo(f, seqs, k) /\ \A i \in 1..k : f[i] \in Seq(S)
    BY <1>2, <2>1
  <2> DEFINE last == IF k = 0 THEN seqs[1] ELSE f[k] \o seqs[k + 1]
             g == [i \in 1..(k + 1) |-> IF i = k + 1 THEN last ELSE f[i]]
  <2>3. last \in Seq(S)
    <3>1. seqs[k + 1] \in Seq(S) /\ (k = 0 => seqs[1] \in Seq(S))
      BY <2>1
    <3>2. k # 0 => f[k] \in Seq(S)
      BY <2>2
    <3> QED BY <3>1, <3>2, ConcatProperties
  <2> HIDE DEF last
  <2>4. ASSUME NEW i \in 1..(k + 1)
        PROVE  g[i] = (IF i = 1 THEN seqs[i] ELSE g[i - 1] \o seqs[i]) /\ g[i] \in Seq(S)
    <3>1. CASE i = k + 1
      BY <3>1, <2>3 DEF last
    <3>2. CASE i # k + 1
      <4>1. i \in 1..k /\ g[i] = f[i] /\ (i # 1 => i - 1 \in 1..k /\ g[i - 1] = f[i - 1])
        BY <3>2
      <4>2. f[i] = IF i = 1 THEN seqs[i] ELSE f[i - 1] \o seqs[i]
        BY <2>2, <4>1 DEF FlatUpTo
      <4> QED BY <4>1, <4>2, <2>2
    <3> QED BY <3>1, <3>2
  <2>5. FlatUpTo(g, seqs, k + 1)
    BY <2>4 DEF FlatUpTo
  <2> QED BY <2>4, <2>5
<1>3. T = Nat
  <2>1. T \in SUBSET Nat
    OBVIOUS
  <2> HIDE DEF T
  <2> QED BY <1>1, <1>2, <2>1, NatSetInduction
<1>4. n \in T
  BY <1>3
<1> HIDE DEF Flat
<1>5. Flat(n)
  BY <1>4
<1> QED BY <1>5 DEF Flat

LEMMA FlattenIs ==
  ASSUME NEW S, NEW seqs \in Seq(Seq(S)), Len(seqs) # 0
  PROVE  \E f : FlatUpTo(f, seqs, Len(seqs)) /\ FlattenSeq(seqs) = f[Len(seqs)]
<1> DEFINE flatten == CHOOSE f : FlatUpTo(f, seqs, Len(seqs))
<1>1. FlatUpTo(flatten, seqs, Len(seqs))
  <2>1. \E f : FlatUpTo(f, seqs, Len(seqs))
    BY FlatUnfolds
  <2> QED BY <2>1
<1>2. FlattenSeq(seqs) = flatten[Len(seqs)]
  BY DEF FlattenSeq, FlatUpTo
<1> QED BY <1>1, <1>2

LEMMA FlattenType ==
  ASSUME NEW S, NEW seqs \in Seq(Seq(S))
  PROVE  FlattenSeq(seqs) \in Seq(S)
<1> DEFINE flatten == CHOOSE f : FlatUpTo(f, seqs, Len(seqs))
<1>1. Len(seqs) \in Nat
  OBVIOUS
<1>2. CASE Len(seqs) = 0
  BY <1>2 DEF FlattenSeq
<1>3. CASE Len(seqs) # 0
  <2>1. PICK g : FlatUpTo(g, seqs, Len(seqs)) /\ \A i \in 1..Len(seqs) : g[i] \in Seq(S)
    BY <1>1, FlatUnfolds
  <2>2. FlatUpTo(flatten, seqs, Len(seqs))
    BY <2>1
  <2>3. FlattenSeq(seqs) = flatten[Len(seqs)]
    BY <1>3 DEF FlattenSeq, FlatUpTo
  <2> HIDE DEF flatten
  <2> DEFINE T == {k \in Nat : k + 1 <= Len(seqs) => flatten[k + 1] \in Seq(S)}
  <2>4. 0 \in T
    BY <1>3, <2>2 DEF FlatUpTo
  <2>5. ASSUME NEW k \in T, (k + 1) + 1 <= Len(seqs) PROVE flatten[(k + 1) + 1] \in Seq(S)
    <3>1. k \in Nat /\ flatten[k + 1] \in Seq(S)
      BY <2>5, <1>1
    <3>2. PICK n \in 2..Len(seqs) : n = (k + 1) + 1
      BY <3>1, <2>5, <1>1
    <3>3. n \in 1..Len(seqs) /\ n # 1 /\ n - 1 = k + 1
      BY <3>1, <3>2
    <3>4. \A i \in 1..Len(seqs) :
            flatten[i] = IF i = 1 THEN seqs[i] ELSE flatten[i - 1] \o seqs[i]
      BY <2>2 DEF FlatUpTo
    <3>5. flatten[n] = flatten[n - 1] \o seqs[n]
      BY <3>3, <3>4
    <3>6. seqs[n] \in Seq(S)
      BY <3>3
    <3> QED BY <3>1, <3>2, <3>3, <3>5, <3>6, ConcatProperties
  <2>6. T = Nat
    <3>1. T \in SUBSET Nat /\ \A k \in T : k + 1 \in T
      BY <2>5
    <3> HIDE DEF T
    <3> QED BY <2>4, <3>1, NatSetInduction
  <2>7. PICK k \in Nat : k + 1 = Len(seqs)
    <3>1. Len(seqs) - 1 \in Nat /\ (Len(seqs) - 1) + 1 = Len(seqs)
      BY <1>1, <1>3
    <3> QED BY <3>1
  <2>8. flatten[Len(seqs)] \in Seq(S)
    <3>1. k \in T
      BY <2>6
    <3>2. k + 1 <= Len(seqs) => flatten[k + 1] \in Seq(S)
      BY <3>1
    <3> QED BY <3>2, <2>7, <1>1
  <2> QED BY <2>3, <2>8
<1> QED BY <1>2, <1>3

(* A block more: its transactions come last.                               *)
LEMMA FlattenAppend ==
  ASSUME NEW S, NEW seqs \in Seq(Seq(S)), NEW block \in Seq(S), Len(seqs) # 0
  PROVE  FlattenSeq(Append(seqs, block)) = FlattenSeq(seqs) \o block
<1> DEFINE n == Len(seqs)
           longer == Append(seqs, block)
<1>1. n \in Nat /\ n # 0
  OBVIOUS
<1>2. /\ longer \in Seq(Seq(S)) /\ Len(longer) = n + 1 /\ longer[n + 1] = block
      /\ \A i \in 1..n : longer[i] = seqs[i]
  OBVIOUS
<1> HIDE DEF longer
<1>3. PICK f : FlatUpTo(f, seqs, n) /\ FlattenSeq(seqs) = f[n]
  BY FlattenIs
<1>4. PICK h : FlatUpTo(h, longer, n + 1) /\ FlattenSeq(longer) = h[n + 1]
  <2>1. Len(longer) # 0
    BY <1>1, <1>2
  <2>2. \E h : FlatUpTo(h, longer, Len(longer)) /\ FlattenSeq(longer) = h[Len(longer)]
    BY <1>2, <2>1, FlattenIs
  <2>3. Len(longer) = n + 1
    BY <1>2
  <2> HIDE DEF n
  <2> QED BY <2>2, <2>3
<1> HIDE DEF n
<1> DEFINE T == {k \in Nat : k + 1 <= n => f[k + 1] = h[k + 1]}
<1>7. 0 \in T
  <2>1. 1 \in 1..n /\ 1 \in 1..(n + 1)
    BY <1>1
  <2>2. f[1] = seqs[1] /\ h[1] = longer[1]
    BY <1>3, <1>4, <2>1 DEF FlatUpTo
  <2> QED BY <1>2, <2>1, <2>2
<1>8. ASSUME NEW k \in T, (k + 1) + 1 <= n PROVE f[(k + 1) + 1] = h[(k + 1) + 1]
  <2>1. k \in Nat /\ f[k + 1] = h[k + 1]
    BY <1>8, <1>1
  <2> DEFINE i == (k + 1) + 1
  <2>2. i \in 1..n /\ i \in 1..(n + 1) /\ i # 1 /\ i - 1 = k + 1
    BY <1>8, <1>1, <2>1
  <2> HIDE DEF i
  <2>3. f[i] = f[i - 1] \o seqs[i] /\ h[i] = h[i - 1] \o longer[i]
    BY <1>3, <1>4, <2>2 DEF FlatUpTo
  <2>4. f[i] = h[i]
    BY <1>2, <2>1, <2>2, <2>3
  <2> QED BY <2>4 DEF i
<1>9. T = Nat
  <2>1. T \in SUBSET Nat /\ \A k \in T : k + 1 \in T
    BY <1>8
  <2> HIDE DEF T
  <2> QED BY <1>7, <2>1, NatSetInduction
<1>10. f[n] = h[n]
  <2>1. n - 1 \in Nat /\ (n - 1) + 1 = n /\ n <= n
    BY <1>1
  <2>2. n - 1 \in T
    BY <1>9, <2>1
  <2>3. (n - 1) + 1 <= n => f[(n - 1) + 1] = h[(n - 1) + 1]
    BY <2>2
  <2> QED BY <2>1, <2>3
<1>11. h[n + 1] = h[n] \o block
  <2>1. n + 1 \in 1..(n + 1) /\ n + 1 # 1 /\ (n + 1) - 1 = n
    BY <1>1
  <2>2. h[n + 1] = h[(n + 1) - 1] \o longer[n + 1]
    BY <1>4, <2>1 DEF FlatUpTo
  <2> QED BY <1>2, <2>1, <2>2
<1> QED BY <1>3, <1>4, <1>10, <1>11 DEF longer, n

(***************************************************************************)
(* The type invariant, with what Blocks is a sequence of.                  *)
(***************************************************************************)
Tx == ForeignTx \cup {OwnBlock(h)[1] : h \in 1..MaxLen}

TypeInv == TypeOK /\ Blocks \in Seq(Seq(Tx)) /\ Len(Blocks) <= MaxLen

(* The reward before the floor: halved by integer division. *)
HalvedUpTo(f, n) == f = [i \in 0..n |-> IF i = 0 THEN InitialReward ELSE f[i - 1] \div 2]

Halved(n) == (CHOOSE f : HalvedUpTo(f, n))[n]

LEMMA HalvedUnfolds ==
  ASSUME NEW n \in Nat
  PROVE  \E f : HalvedUpTo(f, n)
<1> DEFINE T == {k \in Nat : \E f : HalvedUpTo(f, k)}
<1>1. 0 \in T
  <2> DEFINE f == [i \in 0..0 |-> InitialReward]
  <2>1. HalvedUpTo(f, 0)
    BY DEF HalvedUpTo
  <2> QED BY <2>1
<1>2. ASSUME NEW k \in T PROVE k + 1 \in T
  <2>1. PICK f : HalvedUpTo(f, k)
    BY <1>2
  <2> DEFINE g == [i \in 0..(k + 1) |-> IF i = k + 1 THEN f[k] \div 2 ELSE f[i]]
  <2>2. ASSUME NEW i \in 0..(k + 1) PROVE g[i] = IF i = 0 THEN InitialReward ELSE g[i - 1] \div 2
    <3>1. CASE i = k + 1
      BY <3>1
    <3>2. CASE i = 0
      BY <3>2, <2>1 DEF HalvedUpTo
    <3>3. CASE i # 0 /\ i # k + 1
      <4>1. i \in 0..k /\ i - 1 \in 0..k /\ g[i] = f[i] /\ g[i - 1] = f[i - 1]
        BY <3>3
      <4>2. f[i] = f[i - 1] \div 2
        BY <2>1, <3>3, <4>1 DEF HalvedUpTo
      <4> QED BY <4>1, <4>2, <3>3
    <3> QED BY <3>1, <3>2, <3>3
  <2>3. HalvedUpTo(g, k + 1)
    BY <2>2 DEF HalvedUpTo
  <2> QED BY <2>3
<1>3. T = Nat
  <2>1. T \in SUBSET Nat
    OBVIOUS
  <2> HIDE DEF T
  <2> QED BY <1>1, <1>2, <2>1, NatSetInduction
<1> QED BY <1>3

LEMMA HalvedIs ==
  ASSUME NEW n \in Nat
  PROVE  \E f : HalvedUpTo(f, n) /\ Halved(n) = f[n]
  BY HalvedUnfolds DEF Halved

LEMMA HalvedSteps ==
  /\ Halved(0) = InitialReward
  /\ \A n \in Nat : Halved(n + 1) = Halved(n) \div 2 /\ Halved(n) \in 0..InitialReward
<1>1. Halved(0) = InitialReward
  <2>1. PICK f : HalvedUpTo(f, 0) /\ Halved(0) = f[0]
    BY HalvedIs
  <2> QED BY <2>1 DEF HalvedUpTo
<1>2. ASSUME NEW n \in Nat PROVE Halved(n + 1) = Halved(n) \div 2
  <2>1. PICK f : HalvedUpTo(f, n) /\ Halved(n) = f[n]
    BY HalvedIs
  <2>2. PICK g : HalvedUpTo(g, n + 1) /\ Halved(n + 1) = g[n + 1]
    <3>1. n + 1 \in Nat
      OBVIOUS
    <3> QED BY <3>1, HalvedIs
  <2> DEFINE T == {k \in Nat : k <= n => f[k] = g[k]}
  <2>3. 0 \in T
    <3>1. 0 \in 0..n /\ 0 \in 0..(n + 1)
      OBVIOUS
    <3>2. f[0] = InitialReward /\ g[0] = InitialReward
      BY <2>1, <2>2, <3>1 DEF HalvedUpTo
    <3> QED BY <3>2
  <2>4. ASSUME NEW k \in T, k + 1 <= n PROVE f[k + 1] = g[k + 1]
    <3>1. k \in Nat /\ f[k] = g[k]
      BY <2>4
    <3>2. k + 1 \in 0..n /\ k + 1 \in 0..(n + 1) /\ k + 1 # 0 /\ (k + 1) - 1 = k
      BY <2>4, <3>1
    <3> DEFINE i == k + 1
    <3> HIDE DEF i
    <3>3. f[k + 1] = f[k] \div 2
      BY <2>1, <3>2 DEF HalvedUpTo
    <3>4. g[k + 1] = g[k] \div 2
      BY <2>2, <3>2 DEF HalvedUpTo
    <3> QED BY <3>1, <3>3, <3>4
  <2>5. T = Nat
    <3>1. T \in SUBSET Nat /\ \A k \in T : k + 1 \in T
      BY <2>4
    <3> HIDE DEF T
    <3> QED BY <2>3, <3>1, NatSetInduction
  <2>6. f[n] = g[n]
    BY <2>5
  <2>7. g[n + 1] = g[n] \div 2
    <3>1. n + 1 \in 0..(n + 1) /\ n + 1 # 0 /\ (n + 1) - 1 = n
      OBVIOUS
    <3> QED BY <2>2, <3>1 DEF HalvedUpTo
  <2> QED BY <2>1, <2>2, <2>6, <2>7
<1> DEFINE T == {n \in Nat : Halved(n) \in 0..InitialReward}
<1>3. 0 \in T
  BY <1>1, RewardAssumption
<1>4. ASSUME NEW n \in T PROVE n + 1 \in T
  <2>1. Halved(n + 1) = Halved(n) \div 2
    BY <1>2
  <2> HIDE DEF Halved
  <2> QED BY <2>1, RewardAssumption
<1>5. T = Nat
  <2>1. T \in SUBSET Nat
    OBVIOUS
  <2> HIDE DEF T
  <2> QED BY <1>3, <1>4, <2>1, NatSetInduction
<1> QED BY <1>1, <1>2, <1>5

LEMMA DivType ==
  ASSUME NEW a \in Nat, NEW b \in Nat \ {0}
  PROVE  /\ a \div b \in Nat /\ a % b \in 0..(b - 1)
         /\ a = b * (a \div b) + (a % b)
<1> DEFINE q == a \div b
           r == a % b
<1>1. q \in Int /\ r \in 0..(b - 1) /\ a = b * q + r
  OBVIOUS
<1> HIDE DEF q, r
<1>2. ASSUME q <= -1 PROVE FALSE
  <2>1. b * (q + 1) <= 0
    BY <1>1, <1>2
  <2>2. b * (q + 1) = b * q + b /\ b * q \in Int
    BY <1>1
  <2> QED BY <1>1, <2>1, <2>2
<1> QED BY <1>1, <1>2 DEF q, r

LEMMA RewardType ==
  ASSUME NEW h \in Nat
  PROVE  /\ GetBlockReward(h) \in 1..MaxValue
         /\ GetBlockReward(h) = LET reward == Halved(h \div HalvingInterval)
                                IN  IF reward < MinReward THEN MinReward ELSE reward
<1>1. h \div HalvingInterval \in Nat
  BY DivType, RewardAssumption
<1>2. GetBlockReward(h) = LET reward == Halved(h \div HalvingInterval)
                          IN  IF reward < MinReward THEN MinReward ELSE reward
  BY DEF GetBlockReward, Halved, HalvedUpTo
<1>3. Halved(h \div HalvingInterval) \in 0..InitialReward
  BY <1>1, HalvedSteps
<1> HIDE DEF Halved
<1> QED BY <1>2, <1>3, RewardAssumption

(* What a transaction consists of, of either kind. *)
LEMMA TxType ==
  ASSUME NEW tx \in Tx
  PROVE  /\ tx.outputs \in Seq({tx.outputs[i] : i \in DOMAIN tx.outputs})
         /\ Len(tx.inputs) \in Nat /\ DOMAIN tx.inputs = 1..Len(tx.inputs)
         /\ Len(tx.outputs) \in Nat /\ DOMAIN tx.outputs = 1..Len(tx.outputs)
         /\ \A i \in DOMAIN tx.outputs : /\ tx.outputs[i].value \in Int
                                         /\ tx.outputs[i].value \in (-MaxValue - 1)..MaxValue
<1>1. CASE tx \in ForeignTx
  <2>1. /\ tx.inputs \in Seq({tx.inputs[i] : i \in DOMAIN tx.inputs})
        /\ tx.outputs \in Seq({tx.outputs[i] : i \in DOMAIN tx.outputs})
        /\ \A i \in DOMAIN tx.outputs : tx.outputs[i].value \in (-MaxValue - 1)..MaxValue
    BY <1>1, TransactionAssumption
  <2>2. \A i \in DOMAIN tx.outputs : tx.outputs[i].value \in Int
    BY <2>1, WidthType
  <2>3. Len(tx.inputs) \in Nat /\ DOMAIN tx.inputs = 1..Len(tx.inputs)
    BY <2>1, LenProperties
  <2>4. Len(tx.outputs) \in Nat /\ DOMAIN tx.outputs = 1..Len(tx.outputs)
    BY <2>1, LenProperties
  <2> QED BY <2>1, <2>2, <2>3, <2>4
<1>2. ASSUME NEW h \in Nat, tx = OwnBlock(h)[1]
      PROVE  /\ Len(tx.inputs) = 1 /\ DOMAIN tx.inputs = 1..Len(tx.inputs)
             /\ Len(tx.outputs) = 1 /\ DOMAIN tx.outputs = 1..Len(tx.outputs)
             /\ tx.outputs[1].value = GetBlockReward(h)
             /\ tx.outputs \in Seq({tx.outputs[i] : i \in DOMAIN tx.outputs})
  BY <1>2 DEF OwnBlock, CoinbaseTx
<1>3. CASE tx \notin ForeignTx
  <2>1. PICK h \in 1..MaxLen : h \in Nat /\ tx = OwnBlock(h)[1]
    BY <1>3, RewardAssumption DEF Tx
  <2>2. GetBlockReward(h) \in 1..MaxValue
    BY RewardType
  <2>3. /\ Len(tx.inputs) = 1 /\ DOMAIN tx.inputs = 1..Len(tx.inputs)
        /\ Len(tx.outputs) = 1 /\ DOMAIN tx.outputs = 1..Len(tx.outputs)
        /\ tx.outputs[1].value = GetBlockReward(h)
        /\ tx.outputs \in Seq({tx.outputs[i] : i \in DOMAIN tx.outputs})
    <3>1. h \in Nat /\ tx = OwnBlock(h)[1]
      BY <2>1
    <3> QED BY <1>2, <3>1
  <2>4. ASSUME NEW i \in DOMAIN tx.outputs
        PROVE  /\ tx.outputs[i].value \in Int
               /\ tx.outputs[i].value \in (-MaxValue - 1)..MaxValue
    <3>1. i = 1
      BY <2>3
    <3> QED BY <2>2, <2>3, <3>1, WidthType
  <2> QED BY <2>3, <2>4
<1> QED BY <1>1, <1>3

LEMMA OwnBlockType == ASSUME NEW h \in 1..MaxLen PROVE OwnBlock(h) \in Seq(Tx)
<1>1. OwnBlock(h)[1] \in Tx
  BY DEF Tx
<1>2. \E tx : OwnBlock(h) = << tx >>
  BY DEF OwnBlock
<1>3. PICK tx : OwnBlock(h) = << tx >> /\ tx \in Tx
  BY <1>1, <1>2
<1> QED BY <1>3

LEMMA InitType == Init => TypeInv
<1> SUFFICES ASSUME Init PROVE TypeInv
  OBVIOUS
<1>1. Blocks = << <<>> >> /\ Len(Blocks) = 1 /\ Blocks \in Seq(Seq(Tx))
  BY DEF Init
<1>2. TypeOK
  BY <1>1 DEF Init, TypeOK
<1> QED BY <1>1, <1>2, RewardAssumption DEF TypeInv

(* A block of either kind keeps the type.                                  *)
LEMMA AppendType ==
  ASSUME TypeInv, NEW block, block \in ForeignBlocks \/ block = OwnBlock(Len(Blocks)),
         Len(Blocks) < MaxLen, Blocks' = Append(Blocks, block), reply' \in {reply, "mined"}
  PROVE  TypeInv'
<1>1. Len(Blocks) \in Nat /\ Blocks \in Seq(Seq(Tx)) /\ Len(Blocks) # 0
  <2>1. Blocks \in Seq(Seq(Tx)) /\ Blocks # <<>>
    BY DEF TypeInv, TypeOK
  <2> QED BY <2>1, EmptySeq
<1>2. block \in Seq(Tx)
  <2>1. Seq(ForeignTx) \subseteq Seq(Tx)
    BY SeqMonotonic DEF Tx
  <2>2. block \in ForeignBlocks => block \in Seq(Tx)
    BY <2>1, RewardAssumption
  <2>3. OwnBlock(Len(Blocks)) \in Seq(Tx)
    <3>1. Len(Blocks) \in 1..MaxLen
      BY <1>1, RewardAssumption
    <3> QED BY <3>1, OwnBlockType
  <2> QED BY <2>2, <2>3
<1>3. /\ Blocks' \in Seq(Seq(Tx)) /\ Len(Blocks') = Len(Blocks) + 1
      /\ \A n \in 1..Len(Blocks) : Blocks'[n] = Blocks[n]
      /\ Blocks'[Len(Blocks) + 1] = block
  BY <1>1, <1>2
<1>4. ASSUME NEW n \in 2..Len(Blocks')
      PROVE  Blocks'[n] \in ForeignBlocks \/ Blocks'[n] = OwnBlock(n - 1)
  <2>1. CASE n \in 2..Len(Blocks)
    <3>1. Blocks[n] \in ForeignBlocks \/ Blocks[n] = OwnBlock(n - 1)
      BY <2>1 DEF TypeInv, TypeOK
    <3>2. n \in 1..Len(Blocks)
      BY <2>1, <1>1
    <3> QED BY <1>3, <3>1, <3>2
  <2>2. CASE n = Len(Blocks) + 1
    BY <1>1, <1>3, <2>2
  <2> QED BY <1>1, <1>3, <2>1, <2>2
<1>5. Blocks' # <<>> /\ Blocks'[1] = <<>>
  <2>1. Blocks[1] = <<>> /\ 1 \in 1..Len(Blocks)
    <3>1. Blocks[1] = <<>>
      BY DEF TypeInv, TypeOK
    <3>2. 1 \in 1..Len(Blocks)
      BY <1>1
    <3> QED BY <3>1, <3>2
  <2>2. Len(Blocks') # 0
    BY <1>1, <1>3
  <2> QED BY <1>3, <2>1, <2>2, EmptySeq
<1>6. Len(Blocks') <= MaxLen
  BY <1>1, <1>3, RewardAssumption
<1> QED BY <1>3, <1>4, <1>5, <1>6 DEF TypeInv, TypeOK

LEMMA StepType == TypeInv /\ [Next]_vars => TypeInv'
<1> SUFFICES ASSUME TypeInv, [Next]_vars PROVE TypeInv'
  OBVIOUS
<1>1. CASE Mine
  BY <1>1, AppendType DEF Mine
<1>2. ASSUME NEW amount \in Amounts, Send(amount) PROVE TypeInv'
  BY <1>2 DEF Send, NewTransaction, TypeInv, TypeOK
<1>3. ASSUME NEW block \in ForeignBlocks, ConnectOrphan(block) PROVE TypeInv'
  BY <1>3, AppendType DEF ConnectOrphan
<1>4. CASE UNCHANGED vars
  BY <1>4 DEF vars, TypeInv, TypeOK
<1> QED BY <1>1, <1>2, <1>3, <1>4 DEF Next

(* Type correctness: blocks are this node's own or those offered.          *)
THEOREM TypeCorrect == Spec => []TypeOK
<1>1. TypeInv => TypeOK
  BY DEF TypeInv
<1> QED BY <1>1, InitType, StepType, PTL DEF Spec

(* The chain is a sequence of sequences of transactions, within its bound. *)
THEOREM TypeInvCorrect == Spec => []TypeInv
  BY InitType, StepType, PTL DEF Spec

LEMMA TransactionsType ==
  ASSUME TypeInv
  PROVE  Transactions \in Seq(Tx) /\ Len(Transactions) \in Nat
         /\ DOMAIN Transactions = 1..Len(Transactions)
  BY FlattenType DEF TypeInv, Transactions
-----------------------------------------------------------------------------
(***************************************************************************)
(* The walk of UTXOIndex: after n transactions the entries are those they  *)
(* create and none of them spends.                                         *)
(***************************************************************************)
Keys(utxos) == {u.at : u \in utxos}

Outputs(tx) == {Outpoint(tx, i) : i \in DOMAIN tx.outputs}

(* One step of the walk, as far as the keys go.                            *)
LEMMA ApplyKeys ==
  ASSUME NEW utxos, NEW tx
  PROVE  Keys(Apply(utxos, tx)) = (Keys(utxos) \cup Outputs(tx)) \ Spends(tx)
<1> DEFINE entry(i) == [at |-> Outpoint(tx, i), value |-> tx.outputs[i].value,
                        key |-> tx.outputs[i].key]
           created == {entry(i) : i \in DOMAIN tx.outputs}
           older == {u \in utxos : \A new \in created : new.at # u.at}
<1>1. \A i : entry(i).at = Outpoint(tx, i)
  OBVIOUS
<1>2. Keys(created) = Outputs(tx)
  BY <1>1 DEF Keys, Outputs
<1> HIDE DEF entry, created
<1>3. Keys(older \cup created) = Keys(utxos) \cup Keys(created)
  BY DEF Keys
<1>4. Apply(utxos, tx) = {u \in older \cup created : u.at \notin Spends(tx)}
  BY DEF Apply, entry, created
<1> HIDE DEF older
<1> DEFINE both == older \cup created
<1>5. Keys({u \in both : u.at \notin Spends(tx)}) = Keys(both) \ Spends(tx)
  <2> HIDE DEF both
  <2> QED BY DEF Keys
<1> QED BY <1>2, <1>3, <1>4, <1>5

WalkUpTo(f, txs, n) ==
  f = [i \in 0..n |-> IF i = 0 THEN {} ELSE Apply(f[i - 1], txs[i])]

(* The recursive function of the walk exists.                              *)
LEMMA WalkUnfolds ==
  ASSUME NEW txs, NEW n \in Nat
  PROVE  \E f : WalkUpTo(f, txs, n)
<1> DEFINE T == {k \in Nat : \E f : WalkUpTo(f, txs, k)}
<1>1. 0 \in T
  <2> DEFINE f == [i \in 0..0 |-> {}]
  <2>1. WalkUpTo(f, txs, 0)
    BY DEF WalkUpTo
  <2> QED BY <2>1
<1>2. ASSUME NEW k \in T PROVE k + 1 \in T
  <2>1. PICK f : WalkUpTo(f, txs, k)
    BY <1>2
  <2> DEFINE g == [i \in 0..(k + 1) |-> IF i = k + 1 THEN Apply(f[k], txs[k + 1]) ELSE f[i]]
  <2>2. ASSUME NEW i \in 0..(k + 1) PROVE g[i] = IF i = 0 THEN {} ELSE Apply(g[i - 1], txs[i])
    <3>1. CASE i = k + 1
      BY <3>1
    <3>2. CASE i = 0
      BY <3>2, <2>1 DEF WalkUpTo
    <3>3. CASE i # 0 /\ i # k + 1
      <4>1. i \in 0..k /\ i - 1 \in 0..k /\ g[i] = f[i] /\ g[i - 1] = f[i - 1]
        BY <3>3
      <4>2. f[i] = Apply(f[i - 1], txs[i])
        BY <2>1, <3>3, <4>1 DEF WalkUpTo
      <4> QED BY <4>1, <4>2, <3>3
    <3> QED BY <3>1, <3>2, <3>3
  <2>3. WalkUpTo(g, txs, k + 1)
    BY <2>2 DEF WalkUpTo
  <2> QED BY <2>3
<1>3. T = Nat
  <2>1. T \in SUBSET Nat
    OBVIOUS
  <2> HIDE DEF T
  <2> QED BY <1>1, <1>2, <2>1, NatSetInduction
<1> QED BY <1>3

(* UTXOIndex as a function of the transactions it walks over. *)
Walk(txs) ==
  LET after[n \in 0..Len(txs)] == IF n = 0 THEN {} ELSE Apply(after[n - 1], txs[n])
  IN  after[Len(txs)]

LEMMA WalkIs ==
  ASSUME NEW txs, Len(txs) \in Nat
  PROVE  \E f : WalkUpTo(f, txs, Len(txs)) /\ Walk(txs) = f[Len(txs)]
<1> DEFINE after == CHOOSE f : WalkUpTo(f, txs, Len(txs))
<1>1. WalkUpTo(after, txs, Len(txs))
  BY WalkUnfolds
<1>2. Walk(txs) = after[Len(txs)]
  BY DEF Walk, WalkUpTo
<1> QED BY <1>1, <1>2

(* A transaction more is one step more of the walk. *)
LEMMA WalkAppend ==
  ASSUME NEW S, NEW txs \in Seq(S), NEW tx \in S
  PROVE  Walk(Append(txs, tx)) = Apply(Walk(txs), tx)
<1> DEFINE n == Len(txs)
           longer == Append(txs, tx)
<1>1. n \in Nat /\ Len(longer) = n + 1 /\ longer[n + 1] = tx
      /\ \A i \in 1..n : txs[i] = longer[i]
  OBVIOUS
<1> HIDE DEF longer
<1>2. PICK f : WalkUpTo(f, txs, n) /\ Walk(txs) = f[n]
  BY <1>1, WalkIs
<1>3. PICK g : WalkUpTo(g, longer, n + 1) /\ Walk(longer) = g[n + 1]
  BY <1>1, WalkIs
<1>4. f[n] = g[n]
  <2> DEFINE T == {k \in Nat : k <= n => f[k] = g[k]}
  <2> HIDE DEF n
  <2>1. 0 \in T
    <3>1. f[0] = {} /\ g[0] = {}
      BY <1>1, <1>2, <1>3 DEF WalkUpTo
    <3> QED BY <3>1
  <2>2. ASSUME NEW k \in T, k + 1 <= n PROVE f[k + 1] = g[k + 1]
    <3>1. k \in Nat /\ f[k] = g[k]
      BY <1>1, <2>2
    <3>2. /\ k + 1 \in 0..n /\ k + 1 \in 0..(n + 1) /\ k + 1 \in 1..n
          /\ k + 1 # 0 /\ (k + 1) - 1 = k
      BY <1>1, <2>2, <3>1
    <3>3. f[k + 1] = Apply(f[k], txs[k + 1])
      BY <1>2, <3>2 DEF WalkUpTo
    <3>4. g[k + 1] = Apply(g[k], longer[k + 1])
      BY <1>3, <3>2 DEF WalkUpTo
    <3> QED BY <1>1, <3>1, <3>2, <3>3, <3>4
  <2>3. T = Nat
    <3>1. T \in SUBSET Nat /\ \A k \in T : k + 1 \in T
      BY <2>2
    <3> HIDE DEF T
    <3> QED BY <2>1, <3>1, NatSetInduction
  <2>4. n \in T
    BY <1>1, <2>3
  <2> QED BY <2>4
<1>5. g[n + 1] = Apply(g[n], longer[n + 1])
  <2>1. n + 1 \in 0..(n + 1) /\ n + 1 # 0 /\ (n + 1) - 1 = n
    BY <1>1
  <2> QED BY <1>3, <2>1 DEF WalkUpTo
<1> QED BY <1>1, <1>2, <1>3, <1>4, <1>5 DEF longer

(* The entries a transaction makes, and what one step does to the set. *)
Entry(tx, i) == [at |-> Outpoint(tx, i), value |-> tx.outputs[i].value,
                 key |-> tx.outputs[i].key]

Made(tx) == {Entry(tx, i) : i \in DOMAIN tx.outputs}

LEMMA ApplyIs ==
  ASSUME NEW utxos, NEW tx
  PROVE  Apply(utxos, tx) =
           {u \in {v \in utxos : \A new \in Made(tx) : new.at # v.at} \cup Made(tx) :
              u.at \notin Spends(tx)}
  BY DEF Apply, Made, Entry

(* Finitely many entries, one for a key, each made by a transaction of a sequence. *)
Entries(txs, n, utxos) ==
  /\ IsFiniteSet(utxos)
  /\ \A u, v \in utxos : u.at = v.at => u = v
  /\ \A u \in utxos : \E m \in 1..n : \E i \in DOMAIN txs[m].outputs : u = Entry(txs[m], i)

LEMMA MadeType ==
  ASSUME NEW tx \in Tx
  PROVE  /\ IsFiniteSet(Made(tx))
         /\ \A u, v \in Made(tx) : u.at = v.at => u = v
<1>1. DOMAIN tx.outputs = 1..Len(tx.outputs) /\ Len(tx.outputs) \in Nat
  BY TxType
<1>2. IsFiniteSet(Made(tx))
  <2>1. IsFiniteSet(1..Len(tx.outputs))
    BY <1>1, FS_Interval
  <2> DEFINE made == [i \in DOMAIN tx.outputs |-> Entry(tx, i)]
  <2>2. made \in Surjection(DOMAIN tx.outputs, Made(tx))
    <3>1. made \in [DOMAIN tx.outputs -> Made(tx)]
      BY DEF Made
    <3>2. \A u \in Made(tx) : \E i \in DOMAIN tx.outputs : made[i] = u
      BY DEF Made
    <3> HIDE DEF made
    <3> QED BY <3>1, <3>2, Fun_IsSurj
  <2> HIDE DEF made
  <2> QED BY <1>1, <2>1, <2>2, FS_Surjection
<1>3. ASSUME NEW i \in DOMAIN tx.outputs, NEW j \in DOMAIN tx.outputs,
             Entry(tx, i).at = Entry(tx, j).at
      PROVE  i = j
  <2>1. i - 1 = j - 1
    BY <1>3 DEF Entry, Outpoint
  <2> QED BY <1>1, <2>1
<1> QED BY <1>2, <1>3 DEF Made

LEMMA WalkEntries ==
  ASSUME NEW txs \in Seq(Tx)
  PROVE  Entries(txs, Len(txs), Walk(txs))
<1>1. PICK f : WalkUpTo(f, txs, Len(txs)) /\ Walk(txs) = f[Len(txs)]
  BY WalkIs
<1> DEFINE T == {k \in Nat : k <= Len(txs) => Entries(txs, k, f[k])}
<1>2. Len(txs) \in Nat
  OBVIOUS
<1>3. 0 \in T
  <2>1. f[0] = {}
    BY <1>1, <1>2 DEF WalkUpTo
  <2> QED BY <2>1, FS_EmptySet DEF Entries
<1>4. ASSUME NEW k \in T, k + 1 <= Len(txs) PROVE Entries(txs, k + 1, f[k + 1])
  <2>1. k \in Nat /\ Entries(txs, k, f[k])
    BY <1>2, <1>4
  <2> DEFINE tx == txs[k + 1]
             older == {v \in f[k] : \A new \in Made(tx) : new.at # v.at}
             all == older \cup Made(tx)
  <2>2. tx \in Tx /\ k + 1 \in 1..(k + 1) /\ \A m \in 1..k : m \in 1..(k + 1)
    BY <1>2, <1>4, <2>1
  <2>3. f[k + 1] = {u \in all : u.at \notin Spends(tx)}
    <3>1. k + 1 \in 0..Len(txs) /\ k + 1 # 0 /\ (k + 1) - 1 = k
      BY <1>2, <1>4, <2>1
    <3>2. f[k + 1] = Apply(f[k], tx)
      BY <1>1, <3>1 DEF WalkUpTo
    <3> QED BY <3>2, ApplyIs
  <2>4. IsFiniteSet(f[k + 1])
    <3>1. IsFiniteSet(f[k])
      BY <2>1 DEF Entries
    <3>2. IsFiniteSet(older)
      BY <3>1, FS_Subset
    <3>3. IsFiniteSet(all)
      BY <2>2, <3>2, MadeType, FS_Union
    <3> QED BY <2>3, <3>3, FS_Subset
  <2>5. \A u \in f[k + 1] : u \in f[k] \/ u \in Made(tx)
    BY <2>3
  <2>6. \A u, v \in f[k + 1] : u.at = v.at => u = v
    <3> SUFFICES ASSUME NEW u \in all, NEW v \in all, u.at = v.at PROVE u = v
      BY <2>3
    <3>1. CASE u \in Made(tx) /\ v \in Made(tx)
      BY <2>2, <3>1, MadeType
    <3>2. CASE u \in older /\ v \in older
      BY <2>1, <3>2 DEF Entries
    <3> QED BY <3>1, <3>2
  <2>7. ASSUME NEW u \in f[k + 1]
        PROVE  \E m \in 1..(k + 1) : \E i \in DOMAIN txs[m].outputs : u = Entry(txs[m], i)
    <3>1. CASE u \in f[k]
      BY <2>1, <2>2, <3>1 DEF Entries
    <3>2. CASE u \in Made(tx)
      BY <2>2, <3>2 DEF Made
    <3> QED BY <2>5, <3>1, <3>2
  <2> QED BY <2>4, <2>6, <2>7 DEF Entries
<1>5. T = Nat
  <2>1. T \in SUBSET Nat /\ \A k \in T : k + 1 \in T
    BY <1>4
  <2> HIDE DEF T
  <2> QED BY <1>3, <2>1, NatSetInduction
<1> QED BY <1>1, <1>2, <1>5

(* What the first n transactions create and spend.                         *)
CreatedBy(txs, n) == UNION {Outputs(txs[m]) : m \in 1..n}
SpentBy(txs, n) == UNION {Spends(txs[m]) : m \in 1..n}

(* No transaction of the first n spends an output the next one creates.    *)
LEMMA NotSpentBefore ==
  ASSUME TypeInv, ParentsFirst, NEW n \in Nat, n + 1 <= Len(Transactions)
  PROVE  Outputs(Transactions[n + 1]) \cap SpentBy(Transactions, n) = {}
<1> DEFINE txs == Transactions
<1>1. DOMAIN txs = 1..Len(txs) /\ Len(txs) \in Nat
  BY TransactionsType
<1> SUFFICES ASSUME NEW m \in 1..n, NEW i \in DOMAIN txs[n + 1].outputs,
                    Outpoint(txs[n + 1], i) \in Spends(txs[m])
             PROVE  FALSE
  BY DEF Outputs, SpentBy
<1>2. m \in DOMAIN txs /\ n + 1 \in DOMAIN txs
  BY <1>1
<1>3. Outpoint(txs[n + 1], i).txid = txs[n + 1].id
  BY DEF Outpoint
<1>4. n + 1 < m
  BY <1>2, <1>3 DEF ParentsFirst
<1> QED BY <1>4

LEMMA WalkExact ==
  ASSUME TypeInv, ParentsFirst, NEW f, WalkUpTo(f, Transactions, Len(Transactions))
  PROVE  Keys(f[Len(Transactions)]) =
           CreatedBy(Transactions, Len(Transactions)) \ SpentBy(Transactions, Len(Transactions))
<1> DEFINE txs == Transactions
           Exact(n) == Keys(f[n]) = CreatedBy(txs, n) \ SpentBy(txs, n)
           T == {n \in Nat : n <= Len(txs) => Exact(n)}
<1>1. Len(txs) \in Nat
  BY TransactionsType
<1>2. 0 \in T
  <2>1. f[0] = {}
    BY <1>1 DEF WalkUpTo
  <2>2. CreatedBy(txs, 0) = {}
    BY DEF CreatedBy
  <2> QED BY <2>1, <2>2 DEF Keys
<1>3. ASSUME NEW n \in T, n + 1 <= Len(txs) PROVE Exact(n + 1)
  <2>1. n \in Nat /\ Exact(n)
    BY <1>1, <1>3
  <2>2. f[n + 1] = Apply(f[n], txs[n + 1])
    <3>1. n + 1 \in 0..Len(txs) /\ n + 1 # 0 /\ (n + 1) - 1 = n
      BY <1>1, <1>3, <2>1
    <3> QED BY <3>1 DEF WalkUpTo
  <2>3. 1..(n + 1) = (1..n) \cup {n + 1}
    BY <2>1
  <2>4. /\ CreatedBy(txs, n + 1) = CreatedBy(txs, n) \cup Outputs(txs[n + 1])
        /\ SpentBy(txs, n + 1) = SpentBy(txs, n) \cup Spends(txs[n + 1])
    BY <2>3 DEF CreatedBy, SpentBy
  <2>5. Outputs(txs[n + 1]) \cap SpentBy(txs, n) = {}
    BY <1>3, <2>1, NotSpentBefore
  <2>6. Keys(f[n + 1]) = (Keys(f[n]) \cup Outputs(txs[n + 1])) \ Spends(txs[n + 1])
    BY <2>2, ApplyKeys
  <2> QED BY <2>1, <2>4, <2>5, <2>6
<1>4. T = Nat
  <2>1. T \in SUBSET Nat /\ \A n \in T : n + 1 \in T
    BY <1>3
  <2> HIDE DEF T
  <2> QED BY <1>2, <2>1, NatSetInduction
<1> QED BY <1>1, <1>4

(***************************************************************************)
(* The unspent outputs are exact on every chain whose parents come first,  *)
(* whatever its blocks do beside.                                          *)
(***************************************************************************)
LEMMA UnspentExact == TypeInv => UTXOExact
<1> SUFFICES ASSUME TypeInv, ParentsFirst PROVE Unspent = Created \ Spent
  BY DEF UTXOExact
<1> DEFINE txs == Transactions
           after == CHOOSE f : WalkUpTo(f, txs, Len(txs))
<1>1. Len(txs) \in Nat /\ DOMAIN txs = 1..Len(txs)
  BY TransactionsType
<1>2. WalkUpTo(after, txs, Len(txs))
  BY <1>1, WalkUnfolds
<1>3. UTXOIndex = after[Len(txs)]
  BY DEF UTXOIndex, WalkUpTo
<1> HIDE DEF after
<1>4. Unspent = Keys(after[Len(txs)])
  BY <1>3 DEF Unspent, Keys
<1>5. Created = CreatedBy(txs, Len(txs)) /\ Spent = SpentBy(txs, Len(txs))
  BY <1>1 DEF Created, Spent, CreatedBy, SpentBy, Outputs
<1> QED BY <1>2, <1>4, <1>5, WalkExact

(* UTXOIndex holds just the outputs no transaction spends, where parents   *)
(* come first, on a chain of any blocks and of any length.                 *)
THEOREM InvCorrect == Spec => []Inv
<1>1. TypeInv => Inv
  BY UnspentExact DEF Inv, TypeInv
<1> QED BY <1>1, TypeInvCorrect, PTL

(***************************************************************************)
(* What the mempool check accepts Validate accepts in the next block, on   *)
(* any chain: an output that is still there was spent by no transaction.   *)
(***************************************************************************)
THEOREM AcceptedStaysValidCorrect == Spec => []AcceptedStaysValid
<1>1. TypeInv => AcceptedStaysValid
  <2> SUFFICES ASSUME TypeInv, NEW tx \in ForeignTx, ParentsFirst, ValidateTxs(Transactions),
                      ValidateTransactionForMempool(tx), DistinctInputs(tx)
               PROVE  ValidateTxs(Append(Transactions, tx))
    BY DEF AcceptedStaysValid
  <2> DEFINE txs == Transactions
             longer == Append(txs, tx)
             last == Len(txs) + 1
  <2>1. /\ Len(txs) \in Nat /\ DOMAIN txs = 1..Len(txs) /\ DOMAIN longer = 1..last
        /\ \A n \in 1..Len(txs) : longer[n] = txs[n]
        /\ longer[last] = tx
    <3>1. txs \in Seq(Tx) /\ tx \in Tx
      BY TransactionsType DEF Tx
    <3> HIDE DEF txs
    <3> QED BY <3>1
  <2>2. Spends(tx) \cap Spent = {} /\ (IsCoinbase(tx) \/ tx.signed)
    BY UnspentExact DEF UTXOExact, ValidateTransactionForMempool, ValidateTransaction
  <2>3. ASSUME NEW n \in DOMAIN longer, ~IsCoinbase(longer[n]) PROVE longer[n].signed
    <3>1. CASE n \in 1..Len(txs)
      BY <2>1, <2>3, <3>1 DEF ValidateTxs
    <3>2. CASE n = last
      BY <2>1, <2>2, <2>3, <3>2
    <3> QED BY <2>1, <3>1, <3>2
  <2>4. ASSUME NEW n \in 1..Len(txs), NEW i \in DOMAIN txs[n].inputs,
               NEW j \in DOMAIN tx.inputs, txs[n].inputs[i] = tx.inputs[j],
               txs[n].inputs[i].out # -1
        PROVE  FALSE
    <3>1. txs[n].inputs[i] \in Spends(txs[n]) /\ tx.inputs[j] \in Spends(tx)
      BY <2>4 DEF Spends
    <3>2. txs[n].inputs[i] \in Spent
      BY <2>1, <3>1 DEF Spent
    <3> QED BY <2>2, <2>4, <3>1, <3>2
  <2>5. ASSUME NEW m \in DOMAIN longer, NEW n \in DOMAIN longer,
               ~IsCoinbase(longer[m]), ~IsCoinbase(longer[n]),
               NEW i \in DOMAIN longer[m].inputs, NEW j \in DOMAIN longer[n].inputs,
               longer[m].inputs[i] = longer[n].inputs[j], longer[m].inputs[i].out # -1
        PROVE  m = n /\ i = j
    <3>1. CASE m \in 1..Len(txs) /\ n \in 1..Len(txs)
      <4>1. longer[m] = txs[m] /\ longer[n] = txs[n] /\ m \in DOMAIN txs /\ n \in DOMAIN txs
        BY <2>1, <3>1
      <4> HIDE DEF longer
      <4> QED BY <4>1, <2>5 DEF ValidateTxs
    <3>2. CASE m \in 1..Len(txs) /\ n = last
      BY <2>1, <2>4, <2>5, <3>2
    <3>3. CASE m = last /\ n \in 1..Len(txs)
      BY <2>1, <2>4, <2>5, <3>3
    <3>4. CASE m = last /\ n = last
      BY <2>1, <2>5, <3>4 DEF DistinctInputs
    <3> QED BY <2>1, <3>1, <3>2, <3>3, <3>4
  <2> HIDE DEF longer
  <2>6. ValidateTxs(longer)
    BY <2>3, <2>5 DEF ValidateTxs
  <2> QED BY <2>6 DEF longer
<1> QED BY <1>1, TypeInvCorrect, PTL
-----------------------------------------------------------------------------
(***************************************************************************)
(* IsFeeSufficient takes the inputs for nothing, so the fee of outputs     *)
(* that are more than nothing and fit is negative, and no size and rate    *)
(* make what is asked for negative.                                        *)
(***************************************************************************)
LEMMA FeeType ==
  ASSUME NEW tx \in Tx, NEW rate \in Int
  PROVE  CalculateFee(SetFeeRate(rate), tx) \in Nat
<1> DEFINE r == SetFeeRate(rate)
<1>1. r \in Nat /\ r <= MaxFeeRate
  BY RewardAssumption DEF SetFeeRate
<1>2. Size(tx) \in Nat /\ Size(tx) * MaxFeeRate <= MaxValue
  BY SizeAssumption DEF Tx
<1> HIDE DEF r
<1>3. Size(tx) * r \in Nat /\ Size(tx) * r <= Size(tx) * MaxFeeRate
  <2>1. MaxFeeRate - r \in Nat /\ MaxFeeRate \in Nat
    BY <1>1, RewardAssumption
  <2>2. Size(tx) * (MaxFeeRate - r) >= 0
    BY <1>2, <2>1
  <2>3. Size(tx) * (MaxFeeRate - r) = Size(tx) * MaxFeeRate - Size(tx) * r
    BY <1>1, <1>2, <2>1
  <2>4. Size(tx) * r \in Nat /\ Size(tx) * MaxFeeRate \in Nat
    BY <1>1, <1>2, <2>1
  <2> QED BY <2>2, <2>3, <2>4
<1> DEFINE fee == Size(tx) * r
<1>4. fee \in (-MaxValue - 1)..MaxValue /\ fee \in Nat
  <2>1. Size(tx) * MaxFeeRate \in Nat
    BY <1>2, RewardAssumption
  <2> QED BY <1>2, <1>3, <2>1, WidthType
<1>5. CalculateFee(r, tx) = Wrap(fee)
  BY DEF CalculateFee
<1> HIDE DEF fee
<1> QED BY <1>4, <1>5, WrapFits DEF r

LEMMA OutputsPositive ==
  ASSUME NEW tx \in Tx, ValidateTransaction(tx)
  PROVE  OutputsExact(tx) \in Nat /\ OutputsExact(tx) > 0
<1> DEFINE values == [i \in DOMAIN tx.outputs |-> tx.outputs[i].value]
<1>1. /\ Len(tx.outputs) \in Nat /\ DOMAIN tx.outputs = 1..Len(tx.outputs)
      /\ \A i \in DOMAIN tx.outputs : tx.outputs[i].value \in Int
  BY TxType
<1>2. \A i \in DOMAIN tx.outputs : values[i] \in Nat /\ values[i] > 0
  BY <1>1 DEF ValidateTransaction
<1>3. PICK i \in DOMAIN tx.outputs : TRUE
  <2>1. Len(tx.outputs) >= 1
    BY <1>1, RewardAssumption DEF ValidateTransaction
  <2>2. 1 \in DOMAIN tx.outputs
    BY <1>1, <2>1
  <2> QED BY <2>2
<1>4. IsFiniteSet(DOMAIN tx.outputs)
  BY <1>1, FS_Interval
<1>5. DOMAIN values = DOMAIN tx.outputs
  OBVIOUS
<1>6. OutputsExact(tx) = SumFunctionOnSet(values, DOMAIN tx.outputs)
  BY <1>5 DEF OutputsExact, SumFunction
<1> HIDE DEF values
<1>7. /\ SumFunctionOnSet(values, DOMAIN tx.outputs) \in Nat
      /\ values[i] <= SumFunctionOnSet(values, DOMAIN tx.outputs)
  BY <1>2, <1>4, SumNotLess
<1> QED BY <1>2, <1>3, <1>6, <1>7

(* IsFeeSufficient accepts a valid transaction only when the sum of its    *)
(* outputs overflows, at every rate SetFeeRate lets through.               *)
THEOREM SufficientOnlyByOverflowCorrect == Spec => []SufficientOnlyByOverflow
<1>1. TypeInv => SufficientOnlyByOverflow
  <2> SUFFICES ASSUME TypeInv, NEW n \in DOMAIN Transactions,
                      NEW rate \in -1..(MaxFeeRate + 1),
                      ValidateTransaction(Transactions[n]),
                      IsFeeSufficient(SetFeeRate(rate), Transactions[n]),
                      ~(OutputsExact(Transactions[n]) > MaxValue)
               PROVE  FALSE
    BY DEF SufficientOnlyByOverflow
  <2> DEFINE tx == Transactions[n]
             out == OutputsExact(tx)
  <2>1. tx \in Tx /\ rate \in Int
    BY TransactionsType, RewardAssumption
  <2>2. out \in 1..MaxValue
    BY <2>1, OutputsPositive, WidthType
  <2>3. CalculateTotalOutputs(tx) = out
    <3>1. out \in (-MaxValue - 1)..MaxValue
      BY <2>2, WidthType
    <3>2. Wrap(out) = out
      BY <3>1, WrapFits
    <3> QED BY <3>2 DEF CalculateTotalOutputs
  <2>4. Wrap(CalculateTotalInputs(tx) - CalculateTotalOutputs(tx)) = -out
    <3>1. -out \in (-MaxValue - 1)..MaxValue /\ 0 - out = -out
      BY <2>2, WidthType
    <3>2. Wrap(-out) = -out
      BY <3>1, WrapFits
    <3> QED BY <2>3, <3>1, <3>2 DEF CalculateTotalInputs
  <2>5. CalculateFee(SetFeeRate(rate), tx) \in Nat
    BY <2>1, FeeType
  <2>6. -out >= CalculateFee(SetFeeRate(rate), tx)
    BY <2>4 DEF IsFeeSufficient
  <2> HIDE DEF out, tx
  <2> QED BY <2>2, <2>5, <2>6
<1> QED BY <1>1, TypeInvCorrect, PTL
-----------------------------------------------------------------------------
(***************************************************************************)
(* The coins there are: totals over sets of entries, taken apart into what *)
(* a transaction makes, what it spends and the rest.                       *)
(***************************************************************************)
Coins(utxos) == IsFiniteSet(utxos) /\ \A u \in utxos : u.value \in Int

LEMMA TotalParts ==
  ASSUME NEW A, Coins(A), NEW B, Coins(B), A \cap B = {}
  PROVE  /\ Coins(A \cup B) /\ Total(A) \in Int /\ Total(B) \in Int
         /\ Total(A \cup B) = Total(A) + Total(B)
<1> DEFINE U == A \cup B
           all == [u \in U |-> u.value]
<1>1. IsFiniteSet(A) /\ IsFiniteSet(B) /\ \A u \in U : u.value \in Int
  BY DEF Coins
<1>2. \A u \in U : all[u] = u.value
  OBVIOUS
<1> HIDE DEF all
<1>3. ASSUME NEW S, S \subseteq U, IsFiniteSet(S)
      PROVE  Total(S) = SumFunctionOnSet(all, S) /\ SumFunctionOnSet(all, S) \in Int
  <2> DEFINE f == [u \in S |-> u.value]
  <2>1. Total(S) = SumFunctionOnSet(f, S)
    BY DEF Total, SumFunction
  <2>2. \A u \in S : f[u] = all[u] /\ all[u] \in Int
    BY <1>1, <1>2, <1>3
  <2> HIDE DEF f
  <2> QED BY <1>3, <2>1, <2>2, SumSame, SumType
<1>4. \A u \in U : all[u] \in Int
  BY <1>1, <1>2
<1>5. /\ IsFiniteSet(U)
      /\ SumFunctionOnSet(all, U) = SumFunctionOnSet(all, A) + SumFunctionOnSet(all, B)
  BY <1>1, <1>4, SumUnion
<1> QED BY <1>1, <1>3, <1>5 DEF Coins

LEMMA TotalFew ==
  /\ Coins({}) /\ Total({}) = 0
  /\ \A u : u.value \in Int => Coins({u}) /\ Total({u}) = u.value
<1>1. Coins({}) /\ Total({}) = 0
  <2> DEFINE f == [u \in {} |-> u.value]
  <2>1. Total({}) = SumFunctionOnSet(f, {})
    BY DEF Total, SumFunction
  <2> HIDE DEF f
  <2> QED BY <2>1, SumEmpty, FS_EmptySet DEF Coins
<1>2. ASSUME NEW u, u.value \in Int PROVE Coins({u}) /\ Total({u}) = u.value
  <2> DEFINE f == [v \in {u} |-> v.value]
  <2>1. Total({u}) = SumFunctionOnSet(f, {u})
    BY DEF Total, SumFunction
  <2>2. f[u] = u.value
    OBVIOUS
  <2> HIDE DEF f
  <2>3. IsFiniteSet({u}) /\ SumFunctionOnSet(f, {u}) = f[u]
    BY <1>2, <2>2, SumOne
  <2> QED BY <1>2, <2>1, <2>2, <2>3 DEF Coins
<1> QED BY <1>1, <1>2

LEMMA PartCoins ==
  ASSUME NEW A, Coins(A), NEW B, B \subseteq A
  PROVE  Coins(B)
  BY FS_Subset DEF Coins

(* What a transaction makes is worth what its outputs add up to. *)
LEMMA MadeTotal ==
  ASSUME NEW tx \in Tx
  PROVE  /\ Coins(Made(tx)) /\ OutputsExact(tx) \in Int
         /\ Total(Made(tx)) = OutputsExact(tx)
<1> DEFINE values == [i \in DOMAIN tx.outputs |-> tx.outputs[i].value]
           some(k) == {Entry(tx, i) : i \in 1..k}
           same(k) == Coins(some(k)) /\ Total(some(k)) = SumFunctionOnSet(values, 1..k)
           T == {k \in Nat : k <= Len(tx.outputs) => same(k)}
<1>1. /\ Len(tx.outputs) \in Nat /\ DOMAIN tx.outputs = 1..Len(tx.outputs)
      /\ \A i \in DOMAIN tx.outputs : tx.outputs[i].value \in Int
  BY TxType
<1>2. \A i \in 1..Len(tx.outputs) : values[i] = tx.outputs[i].value /\ values[i] \in Int
  BY <1>1
<1>3. OutputsExact(tx) = SumFunctionOnSet(values, 1..Len(tx.outputs))
  BY <1>1 DEF OutputsExact, SumFunction
<1> HIDE DEF values
<1>4. 0 \in T
  <2>1. 1..0 = {} /\ some(0) = {}
    OBVIOUS
  <2> HIDE DEF some
  <2> QED BY <2>1, TotalFew, SumEmpty
<1>5. ASSUME NEW k \in T, k + 1 <= Len(tx.outputs) PROVE same(k + 1)
  <2>1. k \in Nat /\ same(k)
    <3> HIDE DEF same
    <3> QED BY <1>1, <1>5
  <2> DEFINE new == Entry(tx, k + 1)
  <2>2. /\ some(k + 1) = some(k) \cup {new}
        /\ new.value = values[k + 1] /\ values[k + 1] \in Int
    <3>1. 1..(k + 1) = (1..k) \cup {k + 1} /\ k + 1 \in 1..Len(tx.outputs)
      BY <1>1, <1>5, <2>1
    <3>2. new.value = tx.outputs[k + 1].value
      BY DEF Entry
    <3> QED BY <1>2, <3>1, <3>2
  <2>3. new \notin some(k)
    <3> SUFFICES ASSUME NEW i \in 1..k, new = Entry(tx, i) PROVE FALSE
      OBVIOUS
    <3>1. new.at.out = k /\ Entry(tx, i).at.out = i - 1
      BY <2>1 DEF Entry, Outpoint
    <3> QED BY <2>1, <3>1
  <2>4. SumFunctionOnSet(values, 1..(k + 1)) = SumFunctionOnSet(values, 1..k) + values[k + 1]
    <3>1. \A i \in 1..(k + 1) : values[i] \in Int
      BY <1>1, <1>2, <1>5, <2>1
    <3> QED BY <2>1, <3>1, SumNext
  <2> HIDE DEF some, new
  <2>5. Coins({new}) /\ Total({new}) = new.value
    BY <2>2, TotalFew
  <2>6. /\ Coins(some(k) \cup {new})
        /\ Total(some(k) \cup {new}) = Total(some(k)) + Total({new})
    <3>1. some(k) \cap {new} = {}
      BY <2>3
    <3> QED BY <2>1, <2>5, <3>1, TotalParts
  <2> QED BY <2>1, <2>2, <2>4, <2>5, <2>6
<1>6. T = Nat
  <2> HIDE DEF same
  <2>1. T \in SUBSET Nat /\ \A k \in T : k + 1 \in T
    BY <1>5
  <2> HIDE DEF T
  <2> QED BY <1>4, <2>1, NatSetInduction
<1>7. same(Len(tx.outputs))
  <2> HIDE DEF same
  <2> QED BY <1>1, <1>6
<1>8. Made(tx) = some(Len(tx.outputs))
  BY <1>1 DEF Made
<1> HIDE DEF some
<1>9. OutputsExact(tx) \in Int
  <2>1. IsFiniteSet(1..Len(tx.outputs))
    BY <1>1, FS_Interval
  <2> QED BY <1>2, <1>3, <2>1, SumType
<1> QED BY <1>3, <1>7, <1>8, <1>9

(* What inputs pay, one by one, is what all of them pay and what those that *)
(* name an output again are counted for. *)
LEMMA PaidTotal ==
  ASSUME NEW tx \in Tx, NEW utxos, Coins(utxos),
         NEW paid, paid = [i \in DOMAIN tx.inputs |-> Total({u \in utxos : u.at = tx.inputs[i]})],
         NEW again, again = {i \in DOMAIN tx.inputs : \E j \in 1..(i - 1) : tx.inputs[j] = tx.inputs[i]}
  PROVE  /\ SumFunction(paid) \in Int /\ SumFunctionOnSet(paid, again) \in Int
         /\ SumFunction(paid) =
              Total({u \in utxos : \E i \in DOMAIN tx.inputs : u.at = tx.inputs[i]})
                + SumFunctionOnSet(paid, again)
<1> DEFINE by(i) == {u \in utxos : u.at = tx.inputs[i]}
           some(k) == {u \in utxos : \E i \in 1..k : u.at = tx.inputs[i]}
           more(k) == {i \in 1..k : \E j \in 1..(i - 1) : tx.inputs[j] = tx.inputs[i]}
           sum(k) == SumFunctionOnSet(paid, 1..k)
           total(k) == Total(some(k))
           extra(k) == SumFunctionOnSet(paid, more(k))
           same(k) == sum(k) = total(k) + extra(k)
           T == {k \in Nat : k <= Len(tx.inputs) => same(k)}
<1>1. Len(tx.inputs) \in Nat /\ DOMAIN tx.inputs = 1..Len(tx.inputs)
  BY TxType
<1>2. SumFunction(paid) = SumFunctionOnSet(paid, 1..Len(tx.inputs))
  BY <1>1 DEF SumFunction
<1>3. \A S : S \subseteq utxos => Coins(S) /\ Total(S) \in Int
  <2> SUFFICES ASSUME NEW S, S \subseteq utxos PROVE Coins(S) /\ Total(S) \in Int
    OBVIOUS
  <2>1. Coins(S) /\ Coins({}) /\ S \cap {} = {}
    BY PartCoins, TotalFew
  <2> QED BY <2>1, TotalParts
<1>4. \A i \in 1..Len(tx.inputs) : paid[i] = Total(by(i)) /\ paid[i] \in Int
  BY <1>1, <1>3
<1>5. 0 \in T
  <2>1. 1..0 = {} /\ some(0) = {} /\ more(0) = {}
    OBVIOUS
  <2> HIDE DEF some, more
  <2>2. sum(0) = 0 /\ extra(0) = 0
    BY <2>1, SumEmpty
  <2>3. total(0) = 0
    BY <2>1, TotalFew
  <2> HIDE DEF sum, extra, total
  <2> QED BY <2>2, <2>3
<1>6. ASSUME NEW k \in Nat, k <= Len(tx.inputs)
      PROVE  /\ IsFiniteSet(more(k)) /\ \A i \in more(k) : paid[i] \in Int
             /\ SumFunctionOnSet(paid, more(k)) \in Int
  <2>1. IsFiniteSet(1..k) /\ more(k) \subseteq 1..k
    BY FS_Interval
  <2>2. \A i \in 1..k : i \in 1..Len(tx.inputs)
    BY <1>1, <1>6
  <2> HIDE DEF more, by
  <2>3. IsFiniteSet(more(k)) /\ \A i \in more(k) : paid[i] \in Int
    BY <1>4, <2>1, <2>2, FS_Subset
  <2> QED BY <2>3, SumType
<1>7. ASSUME NEW k \in T, k + 1 <= Len(tx.inputs) PROVE same(k + 1)
  <2>1. k \in Nat /\ k <= Len(tx.inputs) /\ same(k) /\ k + 1 \in 1..Len(tx.inputs)
    <3> HIDE DEF same
    <3> QED BY <1>1, <1>7
  <2>2. 1..(k + 1) = (1..k) \cup {k + 1} /\ (k + 1) - 1 = k
    BY <2>1
  <2>3. some(k + 1) = some(k) \cup by(k + 1)
    BY <2>2
  <2>4. paid[k + 1] = Total(by(k + 1)) /\ paid[k + 1] \in Int
    BY <1>4, <2>1
  <2>5. SumFunctionOnSet(paid, 1..(k + 1)) = SumFunctionOnSet(paid, 1..k) + paid[k + 1]
    <3>1. \A i \in 1..(k + 1) : paid[i] \in Int
      <4> HIDE DEF T, same, by
      <4>1. \A i \in 1..(k + 1) : i \in 1..Len(tx.inputs)
        BY <1>1, <1>7, <2>1
      <4> QED BY <1>4, <4>1
    <3> QED BY <2>1, <3>1, SumNext
  <2>6. Total(some(k)) \in Int /\ some(k) \subseteq utxos /\ by(k + 1) \subseteq utxos
    BY <1>3
  <2>7. CASE \E j \in 1..k : tx.inputs[j] = tx.inputs[k + 1]
    <3>1. some(k + 1) = some(k)
      BY <2>3, <2>7
    <3>2. more(k + 1) = more(k) \cup {k + 1}
      BY <2>2, <2>7
    <3>3. more(k) \cap {k + 1} = {}
      BY <2>1
    <3>4. /\ IsFiniteSet(more(k)) /\ \A i \in more(k) : paid[i] \in Int
          /\ SumFunctionOnSet(paid, more(k)) \in Int
      BY <1>6, <2>1
    <3> HIDE DEF more, some, by
    <3>5. extra(k + 1) = extra(k) + paid[k + 1]
      <4> DEFINE A == more(k)
                 B == {k + 1}
      <4>1. IsFiniteSet(B) /\ SumFunctionOnSet(paid, B) = paid[k + 1]
        BY <2>4, SumOne
      <4>2. \A y \in A \cup B : paid[y] \in Int
        BY <2>4, <3>4
      <4>3. IsFiniteSet(A) /\ A \cap B = {} /\ more(k + 1) = A \cup B
        BY <3>2, <3>3, <3>4
      <4> HIDE DEF A, B
      <4>4. SumFunctionOnSet(paid, A \cup B) = SumFunctionOnSet(paid, A) + SumFunctionOnSet(paid, B)
        BY <4>1, <4>2, <4>3, SumUnion
      <4> QED BY <4>1, <4>3, <4>4 DEF A
    <3>6. total(k + 1) = total(k)
      BY <3>1
    <3>7. sum(k + 1) = sum(k) + paid[k + 1] /\ extra(k) \in Int /\ total(k) \in Int
      BY <2>5, <2>6, <3>4
    <3>8. sum(k) = total(k) + extra(k) /\ paid[k + 1] \in Int
      BY <2>1, <2>4
    <3> HIDE DEF sum, total, extra
    <3> QED BY <3>5, <3>6, <3>7, <3>8
  <2>8. CASE \A j \in 1..k : tx.inputs[j] # tx.inputs[k + 1]
    <3>1. some(k) \cap by(k + 1) = {}
      BY <2>8
    <3>2. more(k + 1) = more(k)
      BY <2>2, <2>8
    <3>3. SumFunctionOnSet(paid, more(k)) \in Int
      BY <1>6, <2>1
    <3> HIDE DEF more, some, by
    <3>4. Total(some(k) \cup by(k + 1)) = Total(some(k)) + Total(by(k + 1))
      BY <1>3, <2>6, <3>1, TotalParts
    <3>5. total(k + 1) = total(k) + paid[k + 1]
      BY <2>3, <2>4, <3>4
    <3>6. extra(k + 1) = extra(k)
      BY <3>2
    <3>7. sum(k + 1) = sum(k) + paid[k + 1] /\ extra(k) \in Int /\ total(k) \in Int
      BY <2>5, <2>6, <3>3
    <3>8. sum(k) = total(k) + extra(k) /\ paid[k + 1] \in Int
      BY <2>1, <2>4
    <3> HIDE DEF sum, total, extra
    <3> QED BY <3>5, <3>6, <3>7, <3>8
  <2> QED BY <2>7, <2>8
<1>8. T = Nat
  <2> HIDE DEF same
  <2>1. T \in SUBSET Nat /\ \A k \in T : k + 1 \in T
    BY <1>1, <1>7
  <2> HIDE DEF T
  <2> QED BY <1>5, <2>1, NatSetInduction
<1>9. same(Len(tx.inputs))
  <2> HIDE DEF same
  <2> QED BY <1>1, <1>8
<1>10. again = more(Len(tx.inputs))
  BY <1>1
<1>11. /\ SumFunctionOnSet(paid, more(Len(tx.inputs))) \in Int
       /\ Total(some(Len(tx.inputs))) \in Int
  <2>1. some(Len(tx.inputs)) \subseteq utxos
    OBVIOUS
  <2> HIDE DEF some, more
  <2> QED BY <1>1, <1>3, <1>6, <2>1
<1>12. {u \in utxos : \E i \in DOMAIN tx.inputs : u.at = tx.inputs[i]} = some(Len(tx.inputs))
  BY <1>1
<1> DEFINE last == Len(tx.inputs)
<1>13. /\ SumFunction(paid) = sum(last) /\ SumFunctionOnSet(paid, again) = extra(last)
       /\ extra(last) \in Int /\ total(last) \in Int /\ sum(last) = total(last) + extra(last)
       /\ Total({u \in utxos : \E i \in DOMAIN tx.inputs : u.at = tx.inputs[i]}) = total(last)
  <2> HIDE DEF some, more
  <2> QED BY <1>2, <1>9, <1>10, <1>11, <1>12
<1> HIDE DEF sum, total, extra, last
<1> QED BY <1>13

(* The entries of the index of any chain. *)
LEMMA IndexType ==
  ASSUME TypeInv
  PROVE  /\ UTXOIndex = Walk(Transactions) /\ Coins(UTXOIndex)
         /\ \A u \in UTXOIndex : /\ u.at.out \in Nat
                                 /\ \E m \in DOMAIN Transactions : u.at.txid = Transactions[m].id
<1> DEFINE txs == Transactions
<1>1. txs \in Seq(Tx) /\ Len(txs) \in Nat /\ DOMAIN txs = 1..Len(txs)
  BY TransactionsType
<1>2. UTXOIndex = Walk(txs)
  BY DEF UTXOIndex, Walk
<1>3. Entries(txs, Len(txs), Walk(txs))
  BY <1>1, WalkEntries
<1> HIDE DEF txs
<1>4. ASSUME NEW u \in UTXOIndex
      PROVE  /\ u.value \in Int /\ u.at.out \in Nat
             /\ \E m \in DOMAIN txs : u.at.txid = txs[m].id
  <2>1. PICK m \in 1..Len(txs) : \E i \in DOMAIN txs[m].outputs : u = Entry(txs[m], i)
    BY <1>2, <1>3, <1>4 DEF Entries
  <2>2. PICK i \in DOMAIN txs[m].outputs : u = Entry(txs[m], i)
    BY <2>1
  <2>3. txs[m] \in Tx
    BY <1>1, <2>1
  <2>4. i \in Nat \ {0} /\ txs[m].outputs[i].value \in Int
    <3> DEFINE tx == txs[m]
    <3>1. tx \in Tx /\ i \in DOMAIN tx.outputs
      BY <2>3
    <3> HIDE DEF tx
    <3>2. /\ Len(tx.outputs) \in Nat /\ DOMAIN tx.outputs = 1..Len(tx.outputs)
          /\ tx.outputs[i].value \in Int
      BY <3>1, TxType
    <3>3. i \in Nat \ {0}
      BY <3>1, <3>2
    <3> QED BY <3>2, <3>3 DEF tx
  <2>5. u.value = txs[m].outputs[i].value /\ u.at.out = i - 1 /\ u.at.txid = txs[m].id
    BY <2>2 DEF Entry, Outpoint
  <2> QED BY <1>1, <2>1, <2>4, <2>5
<1>5. IsFiniteSet(UTXOIndex)
  BY <1>2, <1>3 DEF Entries
<1>6. Coins(UTXOIndex)
  BY <1>4, <1>5 DEF Coins
<1> QED BY <1>2, <1>4, <1>6 DEF txs

(* A block of one transaction takes the walk one step further. *)
LEMMA IndexAppend ==
  ASSUME TypeInv, NEW tx \in Tx, Blocks' = Append(Blocks, << tx >>)
  PROVE  UTXOIndex' = Apply(UTXOIndex, tx)
<1>1. Blocks \in Seq(Seq(Tx)) /\ << tx >> \in Seq(Tx) /\ Len(Blocks) # 0
  <2>1. Blocks \in Seq(Seq(Tx)) /\ Blocks # <<>>
    BY DEF TypeInv, TypeOK
  <2> QED BY <2>1, EmptySeq
<1>2. FlattenSeq(Blocks') = FlattenSeq(Blocks) \o << tx >>
  BY <1>1, FlattenAppend
<1>3. FlattenSeq(Blocks) \in Seq(Tx)
  BY TransactionsType DEF Transactions
<1> DEFINE txs == FlattenSeq(Blocks)
<1>4. FlattenSeq(Blocks') = Append(txs, tx)
  <2>1. txs \o << tx >> = Append(txs, tx)
    <3> HIDE DEF txs
    <3> QED BY <1>3, AppendIsConcat
  <2> QED BY <1>2, <2>1
<1>5. UTXOIndex' = Walk(FlattenSeq(Blocks'))
  BY DEF UTXOIndex, Walk, Transactions
<1>6. UTXOIndex = Walk(txs)
  BY DEF UTXOIndex, Walk, Transactions
<1>7. Walk(Append(txs, tx)) = Apply(Walk(txs), tx)
  BY <1>3, WalkAppend
<1> HIDE DEF txs
<1> QED BY <1>4, <1>5, <1>6, <1>7

(* A transaction with a new ID writes over no entry. *)
LEMMA NewEntries ==
  ASSUME TypeInv, NEW tx, NewID(tx.id)
  PROVE  /\ \A u \in UTXOIndex : \A new \in Made(tx) : new.at # u.at
         /\ Apply(UTXOIndex, tx) =
              {u \in UTXOIndex \cup Made(tx) : u.at \notin Spends(tx)}
<1>1. \A new \in Made(tx) : new.at.txid = tx.id
  BY DEF Made, Entry, Outpoint
<1>2. \A u \in UTXOIndex : u.at.txid # tx.id
  BY IndexType DEF NewID
<1>3. \A u \in UTXOIndex : \A new \in Made(tx) : new.at # u.at
  BY <1>1, <1>2
<1>4. {v \in UTXOIndex : \A new \in Made(tx) : new.at # v.at} = UTXOIndex
  BY <1>3
<1> QED BY <1>3, <1>4, ApplyIs

(* A coinbase adds its one entry. *)
LEMMA MineMoves ==
  ASSUME TypeInv, Blocks' = Append(Blocks, OwnBlock(Len(Blocks))), NewID(Len(Blocks))
  PROVE  /\ GetBalance(Wallet)' = Wrap(GetBalance(Wallet) + GetBlockReward(Len(Blocks)))
         /\ UTXOIndex \subseteq UTXOIndex'
<1> DEFINE h == Len(Blocks)
           cb == OwnBlock(h)[1]
           reward == GetBlockReward(h)
           new == Entry(cb, 1)
           mine == {u \in UTXOIndex : u.key = Wallet}
<1>1. h \in Nat /\ h \in 1..MaxLen
  <2>1. Blocks \in Seq(Seq(Tx)) /\ Blocks # <<>> /\ h <= MaxLen
    BY DEF TypeInv, TypeOK
  <2>2. h \in Nat /\ h # 0
    BY <2>1, EmptySeq
  <2> HIDE DEF h
  <2> QED BY <2>1, <2>2, RewardAssumption
<1>2. OwnBlock(h) = << cb >> /\ cb \in Tx
  BY <1>1 DEF OwnBlock, Tx
<1>3. /\ cb.id = h /\ DOMAIN cb.outputs = {1} /\ Spends(cb) = {}
      /\ cb.outputs[1].value = reward /\ cb.outputs[1].key = Wallet
  BY DEF OwnBlock, CoinbaseTx, Spends
<1>4. reward \in Int
  BY <1>1, RewardType, WidthType
<1> HIDE DEF h, cb, reward
<1>5. UTXOIndex' = Apply(UTXOIndex, cb)
  BY <1>2, IndexAppend DEF h
<1>6. Made(cb) = {new} /\ new.value = reward /\ new.key = Wallet
  BY <1>3 DEF Made, Entry
<1> HIDE DEF new
<1>7. UTXOIndex' = UTXOIndex \cup {new} /\ new \notin UTXOIndex
  <2>1. NewID(cb.id)
    BY <1>3 DEF h
  <2>2. /\ \A u \in UTXOIndex : \A x \in Made(cb) : x.at # u.at
        /\ Apply(UTXOIndex, cb) = {u \in UTXOIndex \cup Made(cb) : u.at \notin Spends(cb)}
    BY <2>1, NewEntries
  <2> QED BY <1>3, <1>5, <1>6, <2>2
<1>8. Coins(mine) /\ Coins({new}) /\ Total({new}) = reward /\ mine \cap {new} = {}
  BY <1>4, <1>6, <1>7, IndexType, PartCoins, TotalFew
<1>9. Total(mine \cup {new}) = Total(mine) + reward /\ Total(mine) \in Int
  BY <1>8, TotalParts
<1>10. {u \in UTXOIndex' : u.key = Wallet} = mine \cup {new}
  BY <1>6, <1>7
<1>11. GetBalance(Wallet)' = Wrap(Total(mine \cup {new}))
  <2>1. GetBalance(Wallet)' = Wrap(Total({u \in UTXOIndex' : u.key = Wallet}))
    BY DEF GetBalance
  <2> QED BY <1>10, <2>1
<1>12. GetBalance(Wallet) = Wrap(Total(mine))
  BY DEF GetBalance
<1> HIDE DEF mine
<1>13. Wrap(Total(mine) + reward) = Wrap(Wrap(Total(mine)) + reward)
  BY <1>4, <1>9, WrapSum
<1> QED BY <1>7, <1>9, <1>11, <1>12, <1>13 DEF reward, h

(* A transfer spends what its inputs pay and makes what its outputs say. *)
LEMMA TransferMoves ==
  ASSUME TypeInv, NEW tx \in ForeignTx, Blocks' = Append(Blocks, << tx >>),
         ~IsCoinbase(tx), ValidateTransactionForMempool(tx), NewID(tx.id)
  PROVE  Wrap(Total(UTXOIndex')) = Wrap(Total(UTXOIndex) - GetTxFee(tx) + Repeated(tx))
<1> DEFINE utxos == UTXOIndex
           spent == {u \in utxos : \E i \in DOMAIN tx.inputs : u.at = tx.inputs[i]}
           rest == utxos \ spent
           paid == [i \in DOMAIN tx.inputs |-> Total({u \in utxos : u.at = tx.inputs[i]})]
           again == {i \in DOMAIN tx.inputs : \E j \in 1..(i - 1) : tx.inputs[j] = tx.inputs[i]}
           out == OutputsExact(tx)
<1>1. tx \in Tx
  BY DEF Tx
<1>2. /\ Coins(utxos) /\ \A u \in utxos : u.at.out \in Nat
      /\ \A u \in utxos : \A new \in Made(tx) : new.at # u.at
  BY IndexType, NewEntries
<1>3. Spends(tx) \subseteq {u.at : u \in utxos}
  BY DEF ValidateTransactionForMempool, Unspent
<1>4. \A u \in utxos : u.at \in Spends(tx) <=> u \in spent
  <2> SUFFICES ASSUME NEW u \in utxos PROVE u.at \in Spends(tx) <=> u \in spent
    OBVIOUS
  <2>1. u.at.out # -1
    BY <1>2
  <2> HIDE DEF utxos
  <2> QED BY <2>1 DEF Spends
<1>5. \A new \in Made(tx) : new.at \notin Spends(tx)
  BY <1>2, <1>3
<1>6. UTXOIndex' = rest \cup Made(tx)
  <2>1. UTXOIndex' = {u \in utxos \cup Made(tx) : u.at \notin Spends(tx)}
    BY <1>1, IndexAppend, NewEntries
  <2> HIDE DEF utxos, spent
  <2> QED BY <1>4, <1>5, <2>1
<1>7. GetTxFee(tx) = Wrap(SumFunction(paid) - Wrap(out))
  BY DEF GetTxFee, CalculateTotalOutputs
<1>8. /\ SumFunction(paid) \in Int /\ SumFunctionOnSet(paid, again) \in Int
      /\ SumFunction(paid) = Total(spent) + SumFunctionOnSet(paid, again)
  <2>1. /\ paid = [i \in DOMAIN tx.inputs |-> Total({u \in utxos : u.at = tx.inputs[i]})]
        /\ again = {i \in DOMAIN tx.inputs : \E j \in 1..(i - 1) : tx.inputs[j] = tx.inputs[i]}
    OBVIOUS
  <2> HIDE DEF utxos, paid, again
  <2> QED BY <1>1, <1>2, <2>1, PaidTotal
<1>9. Coins(Made(tx)) /\ out \in Int /\ Total(Made(tx)) = out
  BY <1>1, MadeTotal
<1>10. Repeated(tx) = SumFunctionOnSet(paid, again)
  <2> DEFINE extra == [i \in again |-> Total({u \in utxos : u.at = tx.inputs[i]})]
  <2>1. Repeated(tx) = SumFunctionOnSet(extra, again)
    <3>1. DOMAIN extra = again
      OBVIOUS
    <3>2. Repeated(tx) = SumFunction(extra)
      BY DEF Repeated
    <3> HIDE DEF extra, again
    <3> QED BY <3>1, <3>2 DEF SumFunction
  <2>2. \A i \in again : extra[i] = paid[i]
    OBVIOUS
  <2>3. IsFiniteSet(again)
    <3>1. Len(tx.inputs) \in Nat /\ DOMAIN tx.inputs = 1..Len(tx.inputs)
      BY <1>1, TxType
    <3>2. again \subseteq 1..Len(tx.inputs)
      BY <3>1
    <3>3. IsFiniteSet(1..Len(tx.inputs))
      BY <3>1, FS_Interval
    <3> HIDE DEF again
    <3> QED BY <3>2, <3>3, FS_Subset
  <2> HIDE DEF extra, again, paid
  <2> QED BY <2>1, <2>2, <2>3, SumSame
<1> HIDE DEF paid, again, out, utxos
<1>11. Coins(spent) /\ Coins(rest) /\ spent \cup rest = utxos /\ spent \cap rest = {}
  <2>1. spent \subseteq utxos /\ rest \subseteq utxos
    OBVIOUS
  <2> HIDE DEF spent, rest
  <2>2. Coins(spent) /\ Coins(rest)
    BY <1>2, <2>1, PartCoins
  <2> QED BY <2>1, <2>2 DEF spent, rest
<1>12. rest \cap Made(tx) = {}
  BY <1>2
<1> HIDE DEF spent, rest
<1>13. /\ Total(utxos) = Total(spent) + Total(rest) /\ Total(spent) \in Int /\ Total(rest) \in Int
       /\ Total(rest \cup Made(tx)) = Total(rest) + out
  BY <1>9, <1>11, <1>12, TotalParts
<1> DEFINE s == Total(spent)
           r == Total(rest)
           m == SumFunctionOnSet(paid, again)
<1>14. /\ s \in Int /\ r \in Int /\ m \in Int /\ Total(utxos) = s + r
       /\ Total(UTXOIndex') = r + out /\ SumFunction(paid) = s + m
  BY <1>6, <1>8, <1>13
<1> HIDE DEF s, r, m
<1>15. GetTxFee(tx) = Wrap((s + m) - out)
  <2>1. s + m \in Int
    BY <1>14
  <2> QED BY <1>7, <1>9, <1>14, <2>1, WrapSum
<1> DEFINE fee == Wrap((s + m) - out)
<1>16. fee \in Int
  <2>1. (s + m) - out \in Int
    BY <1>9, <1>14
  <2> QED BY <2>1, WrapExact, WidthType
<1>17. Wrap((s + r + m) - fee) = Wrap((s + r + m) - ((s + m) - out))
  <2>1. (s + m) - out \in Int /\ s + r + m \in Int
    BY <1>9, <1>14
  <2> QED BY <2>1, WrapSum
<1>18. (s + r + m) - ((s + m) - out) = r + out
  BY <1>9, <1>14
<1> HIDE DEF fee
<1>19. Total(utxos) - fee + m = (s + r + m) - fee
  BY <1>14, <1>16
<1> QED BY <1>10, <1>14, <1>15, <1>17, <1>18, <1>19 DEF utxos, m, fee

(***************************************************************************)
(* How coins come and go: the totals follow the one step of the walk that  *)
(* a block of one transaction adds, with fees that nobody gets and, for an *)
(* output that is named again, coins that nobody pays.                     *)
(***************************************************************************)
THEOREM CoinsMoveCorrect == Spec => CoinsMove
<1> DEFINE Moves ==
      /\ Blocks' = Append(Blocks, OwnBlock(Len(Blocks))) /\ NewID(Len(Blocks)) =>
           /\ GetBalance(Wallet)' = Wrap(GetBalance(Wallet) + GetBlockReward(Len(Blocks)))
           /\ UTXOIndex \subseteq UTXOIndex'
      /\ \A tx \in ForeignTx :
           /\ Blocks' = Append(Blocks, <<tx>>) /\ ~IsCoinbase(tx)
           /\ ValidateTransactionForMempool(tx) /\ NewID(tx.id)
           => Wrap(Total(UTXOIndex')) =
                Wrap(Total(UTXOIndex) - GetTxFee(tx) + Repeated(tx))
<1>1. TypeInv => Moves
  BY MineMoves, TransferMoves
<1> HIDE DEF Moves
<1>2. TypeInv => [Moves]_vars
  BY <1>1
<1>3. Spec => [][Moves]_vars
  BY <1>2, TypeInvCorrect, PTL
<1> QED BY <1>3 DEF CoinsMove, Moves
-----------------------------------------------------------------------------
(***************************************************************************)
(* A chain this node mined alone: one coinbase for each height above zero. *)
(***************************************************************************)
Coinbase(h) == OwnBlock(h)[1]

LEMMA CoinbaseIs ==
  ASSUME NEW h
  PROVE  /\ OwnBlock(h) = << Coinbase(h) >> /\ Len(OwnBlock(h)) = 1 /\ DOMAIN OwnBlock(h) = {1}
         /\ IsCoinbase(Coinbase(h)) /\ Spends(Coinbase(h)) = {}
         /\ Coinbase(h).id = h /\ DOMAIN Coinbase(h).outputs = {1}
         /\ Coinbase(h).outputs[1].value = GetBlockReward(h)
         /\ Coinbase(h).outputs[1].key = Wallet
         /\ Coinbase(h).inputs # <<>> /\ Coinbase(h).outputs # <<>>
  BY DEF Coinbase, OwnBlock, CoinbaseTx, IsCoinbase, Spends

LEMMA OwnTransactions ==
  ASSUME TypeInv, OnlyOwn
  PROVE  /\ Len(Blocks) \in Nat \ {0} /\ Len(Transactions) = Len(Blocks) - 1
         /\ \A n \in 1..(Len(Blocks) - 1) : Transactions[n] = Coinbase(n)
<1> DEFINE L == Len(Blocks)
           own(s, k) == /\ s \in Seq(Tx) /\ Len(s) = k
                        /\ \A n \in 1..k : s[n] = Coinbase(n)
<1>1. L \in Nat \ {0} /\ L <= MaxLen /\ Blocks \in Seq(Seq(Tx)) /\ Blocks[1] = <<>>
  <2>1. Blocks \in Seq(Seq(Tx)) /\ Blocks # <<>> /\ L <= MaxLen /\ Blocks[1] = <<>>
    BY DEF TypeInv, TypeOK
  <2> QED BY <2>1, EmptySeq
<1>2. \A n \in 2..L : Blocks[n] = << Coinbase(n - 1) >> /\ Coinbase(n - 1) \in Tx
  <2> SUFFICES ASSUME NEW n \in 2..L
               PROVE  Blocks[n] = << Coinbase(n - 1) >> /\ Coinbase(n - 1) \in Tx
    OBVIOUS
  <2>1. Blocks[n] = OwnBlock(n - 1)
    BY DEF OnlyOwn
  <2>2. n - 1 \in 1..MaxLen
    BY <1>1, RewardAssumption
  <2> HIDE DEF L
  <2> QED BY <2>1, <2>2, CoinbaseIs DEF Tx, Coinbase
<1>3. PICK f : FlatUpTo(f, Blocks, L) /\ FlattenSeq(Blocks) = f[L]
  BY <1>1, FlattenIs
<1> HIDE DEF L
<1> DEFINE T == {k \in Nat : k + 1 <= L => own(f[k + 1], k)}
<1>4. 0 \in T
  <2>1. f[1] = <<>>
    <3>1. 1 \in 1..L
      BY <1>1
    <3> QED BY <1>1, <1>3, <3>1 DEF FlatUpTo
  <2>2. own(f[1], 0)
    BY <2>1
  <2> HIDE DEF own
  <2> QED BY <2>2
<1>5. ASSUME NEW k \in T, (k + 1) + 1 <= L PROVE own(f[(k + 1) + 1], k + 1)
  <2>1. k \in Nat /\ own(f[k + 1], k)
    <3> HIDE DEF own
    <3> QED BY <1>1, <1>5
  <2> DEFINE i == (k + 1) + 1
             s == f[k + 1]
  <2>2. i \in 2..L /\ i \in 1..L /\ i # 1 /\ i - 1 = k + 1
    BY <1>1, <1>5, <2>1
  <2> HIDE DEF i
  <2>3. f[i] = s \o Blocks[i]
    BY <1>3, <2>2 DEF FlatUpTo
  <2>4. Blocks[i] = << Coinbase(k + 1) >> /\ Coinbase(k + 1) \in Tx
    BY <1>2, <2>2
  <2>5. s \in Seq(Tx) /\ Len(s) = k /\ \A n \in 1..k : s[n] = Coinbase(n)
    BY <2>1
  <2> HIDE DEF s
  <2>6. s \o << Coinbase(k + 1) >> = Append(s, Coinbase(k + 1))
    BY <2>4, <2>5, AppendIsConcat
  <2>7. own(Append(s, Coinbase(k + 1)), k + 1)
    BY <2>1, <2>4, <2>5
  <2> QED BY <2>3, <2>4, <2>6, <2>7 DEF i
<1>6. T = Nat
  <2> HIDE DEF own
  <2>1. T \in SUBSET Nat /\ \A k \in T : k + 1 \in T
    BY <1>5
  <2> HIDE DEF T
  <2> QED BY <1>4, <2>1, NatSetInduction
<1>7. own(f[L], L - 1)
  <2> HIDE DEF own
  <2>1. L - 1 \in Nat /\ (L - 1) + 1 = L /\ L <= L
    BY <1>1
  <2>2. L - 1 \in T
    BY <1>6, <2>1
  <2>3. (L - 1) + 1 <= L => own(f[(L - 1) + 1], L - 1)
    BY <2>2
  <2> QED BY <2>1, <2>3
<1>8. Transactions = f[L]
  BY <1>3 DEF Transactions
<1> QED BY <1>1, <1>7, <1>8 DEF L

(* The outputs of the first k coinbases. *)
Mined(k) == {Entry(Coinbase(h), 1) : h \in 1..k}

LEMMA OwnIndex ==
  ASSUME TypeInv, OnlyOwn
  PROVE  UTXOIndex = Mined(Len(Blocks) - 1)
<1> DEFINE txs == Transactions
           n == Len(Blocks) - 1
<1>1. n \in Nat /\ Len(txs) = n /\ \A h \in 1..n : txs[h] = Coinbase(h)
  BY OwnTransactions
<1>2. UTXOIndex = Walk(txs)
  BY DEF UTXOIndex, Walk
<1> HIDE DEF txs, n
<1>3. PICK f : WalkUpTo(f, txs, n) /\ Walk(txs) = f[n]
  BY <1>1, WalkIs
<1> DEFINE T == {k \in Nat : k <= n => f[k] = Mined(k)}
<1>4. 0 \in T
  <2>1. f[0] = {}
    BY <1>1, <1>3 DEF WalkUpTo
  <2>2. Mined(0) = {}
    BY DEF Mined
  <2> QED BY <2>1, <2>2
<1>5. ASSUME NEW k \in T, k + 1 <= n PROVE f[k + 1] = Mined(k + 1)
  <2> DEFINE cb == Coinbase(k + 1)
  <2>1. k \in Nat /\ f[k] = Mined(k)
    BY <1>1, <1>5
  <2>2. f[k + 1] = Apply(f[k], cb)
    <3>1. k + 1 \in 0..n /\ k + 1 \in 1..n /\ k + 1 # 0 /\ (k + 1) - 1 = k
      BY <1>1, <1>5, <2>1
    <3> HIDE DEF cb
    <3>2. f[k + 1] = Apply(f[k], txs[k + 1])
      BY <1>3, <3>1 DEF WalkUpTo
    <3> QED BY <1>1, <3>1, <3>2 DEF cb
  <2>3. Made(cb) = {Entry(cb, 1)} /\ Spends(cb) = {}
    BY CoinbaseIs DEF Made
  <2>4. Entry(cb, 1).at.txid = k + 1
    <3>1. cb.id = k + 1
      BY CoinbaseIs
    <3> QED BY <3>1 DEF Entry, Outpoint
  <2>5. \A u \in Mined(k) : Entry(cb, 1).at # u.at
    <3> SUFFICES ASSUME NEW h \in 1..k, Entry(cb, 1).at = Entry(Coinbase(h), 1).at PROVE FALSE
      BY DEF Mined
    <3>1. Entry(Coinbase(h), 1).at.txid = h
      BY CoinbaseIs DEF Entry, Outpoint
    <3> QED BY <2>1, <2>4, <3>1
  <2>6. Mined(k + 1) = Mined(k) \cup {Entry(cb, 1)}
    <3>1. 1..(k + 1) = (1..k) \cup {k + 1}
      BY <2>1
    <3> QED BY <3>1 DEF Mined
  <2> HIDE DEF cb
  <2>7. Apply(Mined(k), cb) = Mined(k) \cup {Entry(cb, 1)}
    <3>1. {v \in Mined(k) : \A new \in Made(cb) : new.at # v.at} = Mined(k)
      BY <2>3, <2>5
    <3> QED BY <2>3, <3>1, ApplyIs
  <2> QED BY <2>1, <2>2, <2>6, <2>7
<1>6. T = Nat
  <2>1. T \in SUBSET Nat /\ \A k \in T : k + 1 \in T
    BY <1>5
  <2> HIDE DEF T
  <2> QED BY <1>4, <2>1, NatSetInduction
<1>7. f[n] = Mined(n)
  BY <1>1, <1>6
<1> QED BY <1>2, <1>3, <1>7 DEF n

(* The rewards up to a height added up, before they are held in an int. *)
RewardsUpTo(f, n) == f = [h \in -1..n |-> IF h = -1 THEN 0 ELSE f[h - 1] + GetBlockReward(h)]

Rewards(n) == (CHOOSE f : RewardsUpTo(f, n))[n]

LEMMA RewardsIs ==
  ASSUME NEW n \in Nat
  PROVE  /\ \E f : RewardsUpTo(f, n) /\ Rewards(n) = f[n]
         /\ GetTotalMined(n) = Wrap(Rewards(n))
<1> DEFINE T == {k \in Nat : \E f : RewardsUpTo(f, k)}
<1>1. 0 \in T
  <2> DEFINE f == [h \in -1..0 |-> IF h = -1 THEN 0 ELSE 0 + GetBlockReward(0)]
  <2>1. RewardsUpTo(f, 0)
    BY DEF RewardsUpTo
  <2> QED BY <2>1
<1>2. ASSUME NEW k \in T PROVE k + 1 \in T
  <2>1. PICK f : RewardsUpTo(f, k)
    BY <1>2
  <2> DEFINE g == [h \in -1..(k + 1) |-> IF h = k + 1 THEN f[k] + GetBlockReward(h) ELSE f[h]]
  <2>2. ASSUME NEW h \in -1..(k + 1)
        PROVE  g[h] = IF h = -1 THEN 0 ELSE g[h - 1] + GetBlockReward(h)
    <3>1. CASE h = k + 1
      BY <3>1
    <3>2. CASE h = -1
      BY <3>2, <2>1 DEF RewardsUpTo
    <3>3. CASE h # -1 /\ h # k + 1
      <4>1. h \in -1..k /\ h - 1 \in -1..k /\ g[h] = f[h] /\ g[h - 1] = f[h - 1]
        BY <3>3
      <4>2. f[h] = f[h - 1] + GetBlockReward(h)
        BY <2>1, <3>3, <4>1 DEF RewardsUpTo
      <4> QED BY <4>1, <4>2, <3>3
    <3> QED BY <3>1, <3>2, <3>3
  <2>3. RewardsUpTo(g, k + 1)
    BY <2>2 DEF RewardsUpTo
  <2> QED BY <2>3
<1>3. T = Nat
  <2>1. T \in SUBSET Nat
    OBVIOUS
  <2> HIDE DEF T
  <2> QED BY <1>1, <1>2, <2>1, NatSetInduction
<1>4. \E f : RewardsUpTo(f, n) /\ Rewards(n) = f[n]
  <2>1. \E f : RewardsUpTo(f, n)
    BY <1>3
  <2> QED BY <2>1 DEF Rewards
<1>5. GetTotalMined(n) = Wrap(Rewards(n))
  BY DEF GetTotalMined, Rewards, RewardsUpTo
<1> QED BY <1>4, <1>5

LEMMA RewardsSteps ==
  /\ Rewards(0) = GetBlockReward(0)
  /\ \A n \in Nat : Rewards(n + 1) = Rewards(n) + GetBlockReward(n + 1) /\ Rewards(n) \in Nat
<1>1. \A h \in Nat : GetBlockReward(h) \in Nat
  BY RewardType, WidthType
<1>2. Rewards(0) = GetBlockReward(0)
  <2>1. PICK f : RewardsUpTo(f, 0) /\ Rewards(0) = f[0]
    BY RewardsIs
  <2>2. 0 \in -1..0 /\ -1 \in -1..0 /\ 0 # -1 /\ 0 - 1 = -1
    OBVIOUS
  <2>3. f[0] = f[0 - 1] + GetBlockReward(0) /\ f[-1] = 0
    BY <2>1, <2>2 DEF RewardsUpTo
  <2>4. GetBlockReward(0) \in Nat
    BY <1>1
  <2> QED BY <2>1, <2>2, <2>3, <2>4
<1>3. ASSUME NEW n \in Nat PROVE Rewards(n + 1) = Rewards(n) + GetBlockReward(n + 1)
  <2>1. PICK f : RewardsUpTo(f, n) /\ Rewards(n) = f[n]
    BY RewardsIs
  <2>2. PICK g : RewardsUpTo(g, n + 1) /\ Rewards(n + 1) = g[n + 1]
    <3>1. n + 1 \in Nat
      OBVIOUS
    <3> QED BY <3>1, RewardsIs
  <2> DEFINE T == {k \in Nat : k - 1 <= n => f[k - 1] = g[k - 1]}
  <2>3. 0 \in T
    <3>1. -1 \in -1..n /\ -1 \in -1..(n + 1) /\ 0 - 1 = -1
      OBVIOUS
    <3>2. f[-1] = 0 /\ g[-1] = 0
      BY <2>1, <2>2, <3>1 DEF RewardsUpTo
    <3> QED BY <3>1, <3>2
  <2>4. ASSUME NEW k \in T, (k + 1) - 1 <= n PROVE f[(k + 1) - 1] = g[(k + 1) - 1]
    <3>1. k \in Nat /\ f[k - 1] = g[k - 1] /\ (k + 1) - 1 = k
      BY <2>4
    <3>2. k \in -1..n /\ k \in -1..(n + 1) /\ k # -1
      BY <2>4, <3>1
    <3>3. f[k] = f[k - 1] + GetBlockReward(k)
      BY <2>1, <3>2 DEF RewardsUpTo
    <3>4. g[k] = g[k - 1] + GetBlockReward(k)
      BY <2>2, <3>2 DEF RewardsUpTo
    <3> QED BY <3>1, <3>3, <3>4
  <2>5. T = Nat
    <3>1. T \in SUBSET Nat /\ \A k \in T : k + 1 \in T
      BY <2>4
    <3> HIDE DEF T
    <3> QED BY <2>3, <3>1, NatSetInduction
  <2>6. f[n] = g[n]
    <3>1. n + 1 \in T /\ (n + 1) - 1 = n /\ n <= n
      <4> HIDE DEF T
      <4> QED BY <2>5
    <3>2. (n + 1) - 1 <= n => f[(n + 1) - 1] = g[(n + 1) - 1]
      BY <3>1
    <3> QED BY <3>1, <3>2
  <2>7. g[n + 1] = g[n] + GetBlockReward(n + 1)
    <3>1. n + 1 \in -1..(n + 1) /\ n + 1 # -1 /\ (n + 1) - 1 = n
      OBVIOUS
    <3> QED BY <2>2, <3>1 DEF RewardsUpTo
  <2> QED BY <2>1, <2>2, <2>6, <2>7
<1> DEFINE N == {n \in Nat : Rewards(n) \in Nat}
<1>4. 0 \in N
  BY <1>1, <1>2
<1>5. ASSUME NEW n \in N PROVE n + 1 \in N
  BY <1>1, <1>3, <1>5
<1>6. N = Nat
  <2>1. N \in SUBSET Nat
    OBVIOUS
  <2> HIDE DEF N
  <2> QED BY <1>4, <1>5, <2>1, NatSetInduction
<1> QED BY <1>2, <1>3, <1>6

(* The next number has the next remainder, or none and the next quotient. *)
LEMMA DivNext ==
  ASSUME NEW a \in Nat, NEW b \in Nat \ {0}
  PROVE  \/ /\ (a % b) + 1 < b
            /\ (a + 1) \div b = a \div b /\ (a + 1) % b = (a % b) + 1
         \/ /\ (a % b) + 1 = b
            /\ (a + 1) \div b = (a \div b) + 1 /\ (a + 1) % b = 0
<1> DEFINE q == a \div b
           r == a % b
           p == (a + 1) \div b
           s == (a + 1) % b
<1>1. q \in Nat /\ r \in 0..(b - 1) /\ a = b * q + r
  BY DivType
<1>2. p \in Nat /\ s \in 0..(b - 1) /\ a + 1 = b * p + s
  <2>1. a + 1 \in Nat
    OBVIOUS
  <2> QED BY <2>1, DivType
<1> HIDE DEF q, r, p, s
<1>3. b * q \in Int /\ b * p \in Int /\ b * (q + 1) = b * q + b
  BY <1>1, <1>2
<1>4. CASE r + 1 < b
  <2>1. r + 1 \in 0..(b - 1) /\ b * q + (r + 1) = b * p + s
    BY <1>1, <1>2, <1>3, <1>4
  <2>2. r + 1 = s /\ q = p
    <3>1. q \in Int /\ p \in Int
      BY <1>1, <1>2
    <3> HIDE DEF q, p
    <3> QED BY <1>2, <2>1, <3>1, ModUnique
  <2> QED BY <1>4, <2>2 DEF q, r, p, s
<1>5. CASE r + 1 = b
  <2>1. 0 \in 0..(b - 1) /\ b * (q + 1) + 0 = b * p + s
    BY <1>1, <1>2, <1>3, <1>5
  <2>2. 0 = s /\ q + 1 = p
    <3>1. q + 1 \in Int /\ p \in Int
      BY <1>1, <1>2
    <3> QED BY <1>2, <2>1, <3>1, ModUnique
  <2> QED BY <1>5, <2>2 DEF q, r, p, s
<1> QED BY <1>1, <1>4, <1>5

(***************************************************************************)
(* Above the floor the rewards stay below GetMaxSupply: what was mined and *)
(* what the rest of this interval and all later ones can bring add up to   *)
(* no more than that.                                                      *)
(***************************************************************************)
LEMMA RewardsBounded ==
  ASSUME NEW height \in Nat, GetBlockReward(height) > MinReward
  PROVE  Rewards(height) <= GetMaxSupply
<1> DEFINE I == HalvingInterval
           halved(h) == Halved(h \div I)
           left(h) == 2 * I - 1 - (h % I)
           B == InitialReward * 2 * I
           bounded(h) == Rewards(h) + left(h) * halved(h) <= B
           T == {h \in Nat : GetBlockReward(h) > MinReward => bounded(h)}
<1>1. I \in Nat \ {0} /\ MinReward \in Nat \ {0} /\ InitialReward \in Nat /\ B \in Int
  BY RewardAssumption
<1>2. ASSUME NEW h \in Nat
      PROVE  /\ halved(h) \in Nat /\ left(h) \in Nat /\ Rewards(h) \in Nat
             /\ GetBlockReward(h) > MinReward => GetBlockReward(h) = halved(h)
             /\ halved(h) > MinReward => GetBlockReward(h) = halved(h)
  <2>1. h \div I \in Nat /\ h % I \in 0..(I - 1)
    BY <1>1, DivType
  <2>2. halved(h) \in Nat
    BY <1>1, <2>1, HalvedSteps
  <2>3. GetBlockReward(h) = IF halved(h) < MinReward THEN MinReward ELSE halved(h)
    BY RewardType
  <2>4. left(h) \in Nat
    <3> DEFINE r == h % I
    <3>1. r \in 0..(I - 1)
      BY <2>1
    <3> HIDE DEF r, I
    <3>2. 2 * I - 1 - r \in Nat
      BY <1>1, <3>1
    <3> QED BY <3>2 DEF r
  <2>5. Rewards(h) \in Nat
    BY RewardsSteps
  <2> HIDE DEF halved, left
  <2> QED BY <1>1, <2>2, <2>3, <2>4, <2>5
<1>3. 0 \in T
  <2> SUFFICES ASSUME GetBlockReward(0) > MinReward PROVE bounded(0)
    OBVIOUS
  <2>1. 0 \div I = 0 /\ 0 % I = 0
    <3>1. /\ 0 \div I \in Nat /\ 0 % I \in 0..(I - 1)
          /\ 0 = I * (0 \div I) + (0 % I)
      BY <1>1, DivType
    <3>2. 0 \in 0..(I - 1) /\ 0 = I * 0 + 0 /\ 0 \div I \in Int /\ 0 \in Int
      BY <1>1, <3>1
    <3> DEFINE q == 0 \div I
               r == 0 % I
    <3>3. q \in Int /\ r \in 0..(I - 1) /\ I * q + r = I * 0 + 0
      BY <3>1, <3>2
    <3> HIDE DEF q, r, I
    <3>4. r = 0 /\ q = 0
      BY <1>1, <3>2, <3>3, ModUnique
    <3> QED BY <3>4 DEF q, r
  <2>2. halved(0) = InitialReward /\ left(0) = 2 * I - 1
    <3>1. halved(0) = InitialReward
      BY <2>1, HalvedSteps
    <3>2. left(0) = 2 * I - 1 - 0
      BY <2>1
    <3> QED BY <1>1, <3>1, <3>2
  <2>3. Rewards(0) = InitialReward
    BY <1>2, <2>2, RewardsSteps
  <2>4. InitialReward + (2 * I - 1) * InitialReward = B
    BY <1>1
  <2> HIDE DEF halved, left, B
  <2> QED BY <1>1, <2>2, <2>3, <2>4
<1>4. ASSUME NEW h \in T, GetBlockReward(h + 1) > MinReward PROVE bounded(h + 1)
  <2> DEFINE H == halved(h)
             G == halved(h + 1)
             R == Rewards(h)
             m == left(h)
  <2>1. h \in Nat /\ h + 1 \in Nat
    OBVIOUS
  <2>2. H \in Nat /\ G \in Nat /\ R \in Nat /\ m \in Nat /\ left(h + 1) \in Nat
    BY <1>2, <2>1
  <2>3. Rewards(h + 1) = R + G /\ G > MinReward
    <3>1. GetBlockReward(h + 1) = G
      BY <1>2, <1>4, <2>1
    <3>2. Rewards(h + 1) = R + GetBlockReward(h + 1)
      BY <2>1, RewardsSteps
    <3> QED BY <1>4, <3>1, <3>2
  <2>4. H > MinReward => R + m * H <= B
    <3>1. H > MinReward => GetBlockReward(h) = H
      BY <1>2, <2>1
    <3>2. GetBlockReward(h) > MinReward => bounded(h)
      OBVIOUS
    <3> QED BY <3>1, <3>2
  <2> DEFINE r == h % I
  <2>5. r \in 0..(I - 1)
    BY <1>1, <2>1, DivType
  <2>6. CASE /\ r + 1 < I
             /\ (h + 1) \div I = h \div I /\ (h + 1) % I = r + 1
    <3>1. G = H
      BY <2>6
    <3>2. left(h + 1) = m - 1
      <4>1. left(h + 1) = 2 * I - 1 - (r + 1) /\ m = 2 * I - 1 - r
        BY <2>6
      <4> HIDE DEF left, r, I, m
      <4> QED BY <1>1, <2>5, <4>1
    <3>3. (m - 1) * H = m * H - H /\ m * H \in Int
      <4> HIDE DEF m, H
      <4> QED BY <2>2
    <3> HIDE DEF left, halved, H, G, R, m, B, r
    <3>4. Rewards(h + 1) + left(h + 1) * G <= B
      BY <1>1, <2>2, <2>3, <2>4, <3>1, <3>2, <3>3
    <3> QED BY <3>4 DEF G
  <2>7. CASE /\ r + 1 = I
             /\ (h + 1) \div I = (h \div I) + 1 /\ (h + 1) % I = 0
    <3>1. G = H \div 2
      <4>1. h \div I \in Nat
        BY <1>1, <2>1, DivType
      <4> DEFINE k == h \div I
      <4>2. Halved(k + 1) = Halved(k) \div 2
        <5> HIDE DEF k
        <5> QED BY <4>1, HalvedSteps DEF k
      <4> QED BY <2>7, <4>2
    <3>2. left(h + 1) = 2 * I - 1 /\ m = I
      <4>1. left(h + 1) = 2 * I - 1 - 0 /\ m = 2 * I - 1 - r
        BY <2>7
      <4> HIDE DEF left, r, I, m
      <4> QED BY <1>1, <2>5, <2>7, <4>1 DEF r
    <3> HIDE DEF left, halved, H, G, R, m, B, r, I
    <3>3. 2 * G <= H
      BY <2>2, <3>1
    <3>4. R + I * H <= B
      <4>1. H > MinReward
        BY <1>1, <2>2, <2>3, <3>3
      <4> QED BY <2>4, <3>2, <4>1
    <3>5. I * (2 * G) <= I * H
      <4>1. I * (H - 2 * G) >= 0
        BY <1>1, <2>2, <3>3
      <4> QED BY <1>1, <2>2, <4>1
    <3>6. G + (2 * I - 1) * G = I * (2 * G)
      BY <1>1, <2>2
    <3>7. I * (2 * G) \in Int /\ I * H \in Int /\ (2 * I - 1) * G \in Int
      BY <1>1, <2>2
    <3> DEFINE x == I * (2 * G)
               y == I * H
               z == (2 * I - 1) * G
    <3>8. Rewards(h + 1) + left(h + 1) * G <= B
      <4>1. Rewards(h + 1) = R + G /\ left(h + 1) * G = z /\ R + y <= B /\ x <= y /\ G + z = x
        BY <2>3, <3>2, <3>4, <3>5, <3>6
      <4>2. x \in Int /\ y \in Int /\ z \in Int
        BY <3>7
      <4> HIDE DEF x, y, z
      <4> QED BY <1>1, <2>2, <4>1, <4>2
    <3> QED BY <3>8 DEF G
  <2>8. \/ /\ r + 1 < I
           /\ (h + 1) \div I = h \div I /\ (h + 1) % I = r + 1
        \/ /\ r + 1 = I
           /\ (h + 1) \div I = (h \div I) + 1 /\ (h + 1) % I = 0
    BY <1>1, <2>1, DivNext
  <2> QED BY <2>6, <2>7, <2>8
<1>5. T = Nat
  <2> HIDE DEF bounded
  <2>1. T \in SUBSET Nat /\ \A h \in T : h + 1 \in T
    BY <1>4
  <2> HIDE DEF T
  <2> QED BY <1>3, <2>1, NatSetInduction
<1>6. bounded(height)
  <2> HIDE DEF bounded
  <2> QED BY <1>5
<1>7. left(height) * halved(height) >= 0
  <2> DEFINE x == left(height)
             y == halved(height)
  <2>1. x \in Nat /\ y \in Nat
    BY <1>2
  <2> HIDE DEF x, y
  <2>2. x * y >= 0
    BY <2>1
  <2> QED BY <2>2 DEF x, y
<1>8. left(height) * halved(height) \in Int /\ Rewards(height) \in Int
  <2> DEFINE x == left(height)
             y == halved(height)
  <2>1. x \in Nat /\ y \in Nat /\ Rewards(height) \in Int
    BY <1>2
  <2> HIDE DEF x, y
  <2>2. x * y \in Int
    BY <2>1
  <2> QED BY <2>1, <2>2 DEF x, y
<1>9. GetMaxSupply = B
  BY DEF GetMaxSupply
<1> DEFINE rest == left(height) * halved(height)
<1>10. Rewards(height) + rest <= B /\ rest >= 0 /\ rest \in Int
  BY <1>6, <1>7, <1>8
<1> HIDE DEF rest, B
<1> QED BY <1>1, <1>8, <1>9, <1>10

(* The coins on an own chain are the rewards less that of height zero. *)
LEMMA MinedTotal ==
  ASSUME NEW n \in Nat
  PROVE  /\ Coins(Mined(n)) /\ \A u \in Mined(n) : u.value \in Nat \ {0} /\ u.key = Wallet
         /\ Total(Mined(n)) = Rewards(n) - GetBlockReward(0)
<1> DEFINE zero == GetBlockReward(0)
           same(k) == Coins(Mined(k)) /\ Total(Mined(k)) = Rewards(k) - zero
           T == {k \in Nat : same(k)}
           new(h) == Entry(Coinbase(h), 1)
<1>1. \A h \in Nat : /\ new(h).value = GetBlockReward(h) /\ new(h).value \in Nat \ {0}
                     /\ new(h).key = Wallet /\ new(h).at.txid = h
  <2> SUFFICES ASSUME NEW h \in Nat
               PROVE  /\ new(h).value = GetBlockReward(h) /\ new(h).value \in Nat \ {0}
                      /\ new(h).key = Wallet /\ new(h).at.txid = h
    OBVIOUS
  <2>1. GetBlockReward(h) \in Nat \ {0}
    BY RewardType, WidthType
  <2> QED BY <2>1, CoinbaseIs DEF Entry, Outpoint
<1>2. zero \in Int /\ Rewards(0) = zero
  BY RewardType, WidthType, RewardsSteps
<1>3. \A k \in Nat : Mined(k) = {new(h) : h \in 1..k}
  BY DEF Mined
<1> HIDE DEF new, zero
<1>4. 0 \in T
  <2>1. Mined(0) = {}
    <3>1. 1..0 = {}
      OBVIOUS
    <3> QED BY <1>3, <3>1
  <2>2. Rewards(0) - zero = 0
    BY <1>2
  <2> QED BY <2>1, <2>2, TotalFew
<1>5. ASSUME NEW k \in T PROVE k + 1 \in T
  <2>1. k \in Nat /\ k + 1 \in Nat /\ same(k)
    OBVIOUS
  <2>2. Mined(k + 1) = Mined(k) \cup {new(k + 1)}
    <3>1. 1..(k + 1) = (1..k) \cup {k + 1}
      BY <2>1
    <3> QED BY <1>3, <2>1, <3>1
  <2>3. Mined(k) \cap {new(k + 1)} = {}
    <3> SUFFICES ASSUME NEW h \in 1..k, new(h) = new(k + 1) PROVE FALSE
      BY <1>3, <2>1
    <3>1. h = k + 1
      BY <1>1, <2>1
    <3> QED BY <2>1, <3>1
  <2>4. Coins({new(k + 1)}) /\ Total({new(k + 1)}) = GetBlockReward(k + 1)
        /\ GetBlockReward(k + 1) \in Int
    <3>1. new(k + 1).value \in Int /\ new(k + 1).value = GetBlockReward(k + 1)
      BY <1>1, <2>1
    <3> QED BY <3>1, TotalFew
  <2>5. /\ Coins(Mined(k + 1))
        /\ Total(Mined(k + 1)) = Total(Mined(k)) + GetBlockReward(k + 1)
    <3> DEFINE A == Mined(k)
               B == {new(k + 1)}
    <3>1. Coins(A) /\ Coins(B) /\ A \cap B = {}
      BY <2>1, <2>3, <2>4
    <3> HIDE DEF A, B
    <3>2. Coins(A \cup B) /\ Total(A \cup B) = Total(A) + Total(B)
      BY <3>1, TotalParts
    <3> QED BY <2>2, <2>4, <3>2 DEF A, B
  <2>6. Rewards(k + 1) = Rewards(k) + GetBlockReward(k + 1) /\ Rewards(k) \in Nat
    BY <2>1, RewardsSteps
  <2>7. Total(Mined(k + 1)) = Rewards(k + 1) - zero
    BY <1>2, <2>1, <2>4, <2>5, <2>6
  <2> QED BY <2>1, <2>5, <2>7
<1>6. T = Nat
  <2>1. T \in SUBSET Nat
    OBVIOUS
  <2> HIDE DEF T
  <2> QED BY <1>4, <1>5, <2>1, NatSetInduction
<1>7. same(n)
  BY <1>6
<1>8. \A u \in Mined(n) : u.value \in Nat \ {0} /\ u.key = Wallet
  BY <1>1, <1>3
<1> QED BY <1>7, <1>8 DEF zero

(* A coinbase passes the checks of a transaction. *)
LEMMA CoinbaseValid ==
  ASSUME NEW h \in Nat
  PROVE  ValidateTransaction(Coinbase(h))
<1> DEFINE cb == Coinbase(h)
           f == [i \in 1..1 |-> cb.outputs[i].value]
<1>1. /\ IsCoinbase(cb) /\ cb.inputs # <<>> /\ cb.outputs # <<>>
      /\ DOMAIN cb.outputs = {1} /\ cb.outputs[1].value = GetBlockReward(h)
  BY CoinbaseIs
<1>0. /\ cb.id = h /\ Len(cb.inputs) = 1 /\ Len(cb.outputs) = 1
      /\ cb.outputs[1].key = Wallet
  <2>1. /\ cb.id = h /\ cb.inputs = << [txid |-> NoTx, out |-> -1] >>
        /\ cb.outputs = << [value |-> GetBlockReward(h), key |-> Wallet] >>
    BY DEF Coinbase, CoinbaseTx, OwnBlock
  <2> HIDE DEF cb
  <2> QED BY <2>1
<1>2. GetBlockReward(h) \in 1..MaxValue
  BY RewardType
<1> HIDE DEF cb
<1>3. TotalOut(cb, 1) <= MaxValue
  <2>1. f[1] \in Int /\ DOMAIN f = 1..1 /\ 1..1 = {1}
    BY <1>1, <1>2
  <2>2. TotalOut(cb, 1) = Wrap(SumFunctionOnSet(f, {1}))
    BY <2>1 DEF TotalOut, SumFunction
  <2> HIDE DEF f
  <2>3. SumFunctionOnSet(f, {1}) \in Int
    BY <2>1, SumOne
  <2>4. Wrap(SumFunctionOnSet(f, {1})) \in (-MaxValue - 1)..MaxValue
    BY <2>3, WrapExact
  <2> QED BY <2>2, <2>4, WidthType
<1>4. \A i \in DOMAIN cb.outputs : /\ cb.outputs[i].value > 0 /\ cb.outputs[i].value <= MaxValue
                                   /\ cb.outputs[i].key # NoKey /\ TotalOut(cb, i) <= MaxValue
  BY <1>0, <1>1, <1>2, <1>3, WidthType, EmptyAssumption
<1>5. cb.id # NoTx /\ 1 \in 1..MaxInputsPerTransaction /\ 1 \in 1..MaxOutputsPerTransaction
  BY <1>0, EmptyAssumption, RewardAssumption
<1>6. ValidateTransaction(cb)
  BY <1>0, <1>1, <1>4, <1>5 DEF ValidateTransaction
<1> QED BY <1>6 DEF cb

(***************************************************************************)
(* The transactions of a chain of own blocks pass the checks of both       *)
(* validators, and its coins are the rewards above height zero: bounded    *)
(* until the reward is at its floor.                                       *)
(***************************************************************************)
THEOREM OwnRewardsAcceptedCorrect == Spec => []OwnRewardsAccepted
<1>1. TypeInv => OwnRewardsAccepted
  <2> SUFFICES ASSUME TypeInv, OnlyOwn
               PROVE  /\ ValidateTxs(Transactions) /\ ValidateBlockTxs /\ ValidateUTXO
                      /\ GetBalance(Wallet) =
                           Wrap(GetTotalMined(Len(Blocks) - 1) - GetBlockReward(0))
                      /\ GetBlockReward(Len(Blocks) - 1) > MinReward =>
                           GetBalance(Wallet) <= GetMaxSupply
    BY DEF OwnRewardsAccepted
  <2> DEFINE h == Len(Blocks) - 1
             zero == GetBlockReward(0)
  <2>1. h \in Nat /\ Len(Transactions) = h /\ \A n \in 1..h : Transactions[n] = Coinbase(n)
    BY OwnTransactions
  <2>2. ValidateTxs(Transactions)
    <3>1. \A n \in DOMAIN Transactions : IsCoinbase(Transactions[n])
      BY <2>1, TransactionsType, CoinbaseIs
    <3> QED BY <3>1 DEF ValidateTxs
  <2>3. ValidateBlockTxs
    <3> SUFFICES ASSUME NEW n \in 2..Len(Blocks)
                 PROVE  /\ Blocks[n] # <<>> /\ IsCoinbase(Blocks[n][1])
                        /\ \A i \in DOMAIN Blocks[n] : ValidateTransaction(Blocks[n][i])
      BY DEF ValidateBlockTxs
    <3>1. n - 1 \in Nat
      BY <2>1
    <3>2. Blocks[n] = OwnBlock(n - 1)
      BY DEF OnlyOwn
    <3>3. Blocks[n] = << Coinbase(n - 1) >> /\ DOMAIN Blocks[n] = {1}
      BY <3>2, CoinbaseIs
    <3>4. IsCoinbase(Coinbase(n - 1)) /\ ValidateTransaction(Coinbase(n - 1))
      BY <3>1, CoinbaseIs, CoinbaseValid
    <3> QED BY <3>3, <3>4
  <2>4. UTXOIndex = Mined(h)
    BY OwnIndex
  <2>5. /\ Coins(Mined(h)) /\ \A u \in Mined(h) : u.value \in Nat \ {0} /\ u.key = Wallet
        /\ Total(Mined(h)) = Rewards(h) - zero
    BY <2>1, MinedTotal
  <2>6. ValidateUTXO
    <3>1. \A u, v \in UTXOIndex : u.at = v.at => u = v
      BY IndexType, TransactionsType, WalkEntries DEF Entries
    <3>2. \A u \in UTXOIndex : u.value > 0
      BY <2>4, <2>5
    <3> QED BY <3>1, <3>2 DEF ValidateUTXO
  <2> HIDE DEF h
  <2>7. GetBalance(Wallet) = Wrap(Rewards(h) - zero)
    <3>1. {u \in UTXOIndex : u.key = Wallet} = Mined(h)
      BY <2>4, <2>5
    <3> QED BY <2>5, <3>1 DEF GetBalance
  <2>8. Rewards(h) \in Nat /\ zero \in Nat
    BY <2>1, RewardsSteps, RewardType, WidthType
  <2>9. GetBalance(Wallet) = Wrap(GetTotalMined(h) - zero)
    <3>1. GetTotalMined(h) = Wrap(Rewards(h))
      BY <2>1, RewardsIs
    <3> DEFINE minus == -zero
    <3>2. minus \in Int /\ Rewards(h) \in Int
      BY <2>8
    <3>3. Wrap(Wrap(Rewards(h)) + minus) = Wrap(Rewards(h) + minus)
      <4> HIDE DEF minus
      <4> QED BY <3>2, WrapSum
    <3>4. Wrap(Rewards(h)) + minus = Wrap(Rewards(h)) - zero /\ Rewards(h) + minus = Rewards(h) - zero
      <4>1. Wrap(Rewards(h)) \in Int
        BY <3>2, WrapExact, WidthType
      <4> HIDE DEF zero
      <4> QED BY <2>8, <4>1
    <3> QED BY <2>7, <3>1, <3>3, <3>4
  <2>10. ASSUME GetBlockReward(h) > MinReward PROVE GetBalance(Wallet) <= GetMaxSupply
    <3>1. Rewards(h) <= GetMaxSupply
      BY <2>1, <2>10, RewardsBounded
    <3>2. Rewards(h) - zero \in Nat
      <4> DEFINE value == [u \in Mined(h) |-> u.value]
      <4>1. IsFiniteSet(Mined(h)) /\ \A u \in Mined(h) : value[u] \in Nat
        BY <2>5 DEF Coins
      <4>2. Total(Mined(h)) = SumFunctionOnSet(value, Mined(h))
        BY DEF Total, SumFunction
      <4> HIDE DEF value
      <4> QED BY <2>5, <4>1, <4>2, SumNotLess
    <3>3. Wrap(Rewards(h) - zero) <= Rewards(h) - zero
      BY <3>2, WrapNotMore
    <3>4. GetMaxSupply \in Int
      BY RewardAssumption DEF GetMaxSupply
    <3>5. Wrap(Rewards(h) - zero) \in Int
      BY <3>2, WrapExact, WidthType
    <3> HIDE DEF zero
    <3> QED BY <2>7, <2>8, <3>1, <3>3, <3>4, <3>5
  <2> QED BY <2>2, <2>3, <2>6, <2>9, <2>10 DEF h
<1> QED BY <1>1, TypeInvCorrect, PTL
=============================================================================
