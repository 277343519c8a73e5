-------------------------- MODULE NatSetInduction --------------------------
(***************************************************************************)
(* Induction over the natural numbers for a set instead of an operator.    *)
(* The induction rule of the library takes an operator as its parameter,   *)
(* which the first-order provers cannot instantiate; the set               *)
(* {n \in Nat : ...} of the numbers for which a claim holds they can.      *)
(***************************************************************************)
EXTENDS Integers, FiniteSetTheorems, TLAPS

(* Every nonempty set of natural numbers has a least element: the          *)
(* intervals 0..n ordered by strict inclusion are well founded.            *)
LEMMA LeastElement ==
  ASSUME NEW T \in SUBSET Nat, T # {}
  PROVE  \E n \in T : \A m \in T : n <= m
<1> DEFINE R == StrictSubsetOrdering(Nat)
           F == FiniteSubsetsOf(Nat)
           I == {0..n : n \in T}
<1>1. IsWellFoundedOn(R, F)
  BY FS_StrictSubsetOrderingWellFounded
<1>2. I \subseteq F /\ I # {}
  <2>1. \A n \in T : IsFiniteSet(0..n)
    BY FS_Interval
  <2>2. \A n \in T : 0..n \in F
    BY <2>1 DEF FiniteSubsetsOf
  <2>3. PICK n \in T : TRUE
    OBVIOUS
  <2>4. 0..n \in I
    BY <2>3
  <2> HIDE DEF F
  <2> QED BY <2>2, <2>4
<1>3. \E i \in I : \A j \in I : ~(<<j, i>> \in R)
  <2> HIDE DEF R, F, I
  <2> QED BY <1>1, <1>2, WFMin
<1>4. PICK n \in T : \A j \in I : ~(<<j, 0..n>> \in R)
  <2> HIDE DEF R
  <2> QED BY <1>3
<1>5. ASSUME NEW m \in T, m < n PROVE FALSE
  <2>1. 0..m \subseteq 0..n /\ 0..m # 0..n
    <3>1. n \in 0..n /\ ~(n \in 0..m)
      BY <1>5
    <3> QED BY <3>1, <1>5
  <2>2. 0..m \in I /\ <<0..m, 0..n>> \in R
    BY <2>1 DEF StrictSubsetOrdering
  <2> QED BY <2>2, <1>4
<1> QED BY <1>5

(* A set of naturals that holds 0 and is closed under successor is Nat.    *)
THEOREM NatSetInduction ==
  ASSUME NEW T \in SUBSET Nat, 0 \in T, \A n \in T : n + 1 \in T
  PROVE  T = Nat
<1> SUFFICES ASSUME Nat \ T # {} PROVE FALSE
  OBVIOUS
<1>1. PICK n \in Nat \ T : \A m \in Nat \ T : n <= m
  <2> DEFINE U == Nat \ T
  <2>1. U \in SUBSET Nat /\ U # {}
    OBVIOUS
  <2> HIDE DEF U
  <2>2. \E n \in U : \A m \in U : n <= m
    BY <2>1, LeastElement
  <2> QED BY <2>2 DEF U
<1>2. n # 0 /\ n - 1 \in T
  BY <1>1
<1> QED BY <1>2, <1>1
=============================================================================
