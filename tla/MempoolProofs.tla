--------------------------- MODULE MempoolProofs ---------------------------
(***************************************************************************)
(* The pool's index is exact, its size bounded and its order kept, for any *)
(* transactions, IDs, keys and size.                                       *)
(***************************************************************************)
EXTENDS Mempool, FiniteSetTheorems, FunctionTheorems, SequenceTheorems, NatSetInduction, TLAPS

(* Closing the gap at i moves the later entries one place down.            *)
LEMMA WithoutEntries ==
  ASSUME NEW S, NEW s \in Seq(S), NEW i \in DOMAIN s
  PROVE  /\ Without(s, i) \in Seq(S)
         /\ Len(Without(s, i)) = Len(s) - 1
         /\ \A j \in 1..(Len(s) - 1) :
              Without(s, i)[j] = IF j < i THEN s[j] ELSE s[j + 1]
<1>1. i \in 1..Len(s) /\ Len(s) \in Nat
  OBVIOUS
<1>2. /\ SubSeq(s, 1, i - 1) \in Seq(S) /\ Len(SubSeq(s, 1, i - 1)) = i - 1
      /\ \A j \in 1..(i - 1) : SubSeq(s, 1, i - 1)[j] = s[j]
  BY <1>1
<1>3. /\ SubSeq(s, i + 1, Len(s)) \in Seq(S)
      /\ Len(SubSeq(s, i + 1, Len(s))) = Len(s) - i
      /\ \A j \in 1..(Len(s) - i) : SubSeq(s, i + 1, Len(s))[j] = s[j + i]
  BY <1>1
<1> DEFINE p == SubSeq(s, 1, i - 1)
           q == SubSeq(s, i + 1, Len(s))
<1>4. /\ p \in Seq(S) /\ Len(p) = i - 1 /\ \A j \in 1..(i - 1) : p[j] = s[j]
      /\ q \in Seq(S) /\ Len(q) = Len(s) - i
      /\ \A j \in 1..(Len(s) - i) : q[j] = s[j + i]
  BY <1>2, <1>3
<1>5. Without(s, i) = p \o q
  BY DEF Without
<1> HIDE DEF p, q
<1>6. /\ p \o q \in Seq(S) /\ Len(p \o q) = Len(s) - 1
      /\ \A j \in 1..(Len(s) - 1) :
           (p \o q)[j] = IF j < i THEN p[j] ELSE q[j - (i - 1)]
  <2>1. p \o q \in Seq(S) /\ Len(p \o q) = Len(p) + Len(q)
    BY <1>4, ConcatProperties
  <2>2. \A j \in 1..(Len(p) + Len(q)) :
          (p \o q)[j] = IF j <= Len(p) THEN p[j] ELSE q[j - Len(p)]
    BY <1>4, ConcatProperties
  <2>3. Len(p) = i - 1 /\ Len(p) + Len(q) = Len(s) - 1
    BY <1>1, <1>4
  <2>4. \A j \in 1..(Len(s) - 1) : j <= i - 1 <=> j < i
    BY <1>1
  <2>5. \A j \in 1..(Len(s) - 1) :
          (p \o q)[j] = IF j <= i - 1 THEN p[j] ELSE q[j - (i - 1)]
    BY <2>2, <2>3, Zenon
  <2>6. \A j \in 1..(Len(s) - 1) :
          (p \o q)[j] = IF j < i THEN p[j] ELSE q[j - (i - 1)]
    BY <2>4, <2>5, Zenon
  <2> QED BY <2>1, <2>3, <2>6, Zenon
<1>7. ASSUME NEW j \in 1..(Len(s) - 1)
      PROVE  (p \o q)[j] = IF j < i THEN s[j] ELSE s[j + 1]
  <2>1. CASE j < i
    BY <1>1, <1>4, <1>6, <2>1
  <2>2. CASE ~(j < i)
    <3>1. j - (i - 1) \in 1..(Len(s) - i) /\ j - (i - 1) + i = j + 1
      BY <1>1, <2>2
    <3> QED BY <1>4, <1>6, <2>2, <3>1
  <2> QED BY <2>1, <2>2
<1> QED BY <1>5, <1>6, <1>7

Entries(s) == {s[i] : i \in DOMAIN s}

Injective(s) == \A i, j \in DOMAIN s : s[i] = s[j] => i = j

(* Where the entries of a list without its entry i come from: from other   *)
(* places than i, and in the same order.                                   *)
Skip(i, j) == IF j < i THEN j ELSE j + 1

LEMMA WithoutSkips ==
  ASSUME NEW S, NEW s \in Seq(S), NEW i \in DOMAIN s
  PROVE  LET t == Without(s, i)
         IN  /\ DOMAIN t \subseteq Nat
             /\ \A j \in DOMAIN t : Skip(i, j) \in DOMAIN s \ {i} /\ t[j] = s[Skip(i, j)]
             /\ \A k, l \in DOMAIN t : k < l => Skip(i, k) < Skip(i, l)
<1> DEFINE t == Without(s, i)
<1>1. /\ t \in Seq(S) /\ Len(t) = Len(s) - 1
      /\ \A j \in 1..(Len(s) - 1) : t[j] = IF j < i THEN s[j] ELSE s[j + 1]
  BY WithoutEntries
<1> HIDE DEF t
<1>2. DOMAIN t = 1..(Len(s) - 1) /\ DOMAIN s = 1..Len(s) /\ i \in 1..Len(s) /\ Len(s) \in Nat
  BY <1>1
<1>3. ASSUME NEW j \in DOMAIN t
      PROVE  Skip(i, j) \in DOMAIN s \ {i} /\ t[j] = s[Skip(i, j)]
  <2>1. CASE j < i
    BY <1>1, <1>2, <2>1 DEF Skip
  <2>2. CASE ~(j < i)
    BY <1>1, <1>2, <2>2 DEF Skip
  <2> QED BY <2>1, <2>2
<1>4. ASSUME NEW k \in DOMAIN t, NEW l \in DOMAIN t, k < l PROVE Skip(i, k) < Skip(i, l)
  BY <1>2, <1>4 DEF Skip
<1>5. DOMAIN t \subseteq Nat
  BY <1>2
<1> QED BY <1>3, <1>4, <1>5 DEF t

(* Removing an entry from a list without repetitions takes just that one   *)
(* out and repeats none of the others.                                     *)
LEMMA WithoutRemoves ==
  ASSUME NEW S, NEW s \in Seq(S), NEW i \in DOMAIN s, Injective(s)
  PROVE  Entries(Without(s, i)) = Entries(s) \ {s[i]} /\ Injective(Without(s, i))
<1> DEFINE t == Without(s, i)
<1>1. /\ t \in Seq(S) /\ Len(t) = Len(s) - 1
      /\ \A j \in 1..(Len(s) - 1) : t[j] = IF j < i THEN s[j] ELSE s[j + 1]
  BY WithoutEntries
<1> HIDE DEF t
<1>2. DOMAIN t = 1..(Len(s) - 1) /\ DOMAIN s = 1..Len(s) /\ i \in 1..Len(s) /\ Len(s) \in Nat
  BY <1>1
<1>3. /\ DOMAIN t \subseteq Nat
      /\ \A j \in DOMAIN t : Skip(i, j) \in DOMAIN s \ {i} /\ t[j] = s[Skip(i, j)]
      /\ \A k, l \in DOMAIN t : k < l => Skip(i, k) < Skip(i, l)
  BY WithoutSkips DEF t
<1>4. ASSUME NEW j \in DOMAIN t PROVE t[j] \in Entries(s) \ {s[i]}
  BY <1>3 DEF Entries, Injective
<1>5. ASSUME NEW x \in Entries(s) \ {s[i]} PROVE x \in Entries(t)
  <2>1. PICK j \in DOMAIN s : s[j] = x
    BY DEF Entries
  <2>2. CASE j < i
    BY <1>1, <1>2, <2>1, <2>2 DEF Entries
  <2>3. CASE j > i
    <3>1. j - 1 \in DOMAIN t /\ t[j - 1] = s[j]
      BY <1>1, <1>2, <2>3
    <3> QED BY <2>1, <3>1 DEF Entries
  <2> QED BY <1>2, <2>1, <2>2, <2>3
<1>6. Injective(t)
  <2> SUFFICES ASSUME NEW k \in DOMAIN t, NEW l \in DOMAIN t, t[k] = t[l], k # l
               PROVE  FALSE
    BY DEF Injective
  <2>1. Skip(i, k) = Skip(i, l)
    BY <1>3 DEF Injective
  <2>2. k < l \/ l < k
    BY <1>3
  <2>3. Skip(i, k) < Skip(i, l) \/ Skip(i, l) < Skip(i, k)
    BY <1>3, <2>2
  <2>4. Skip(i, k) \in Nat
    BY <1>2, <1>3
  <2> QED BY <2>1, <2>3, <2>4
<1>7. Entries(t) = Entries(s) \ {s[i]}
  BY <1>4, <1>5 DEF Entries
<1> QED BY <1>6, <1>7 DEF t

(* Neither appending a new entry nor removing one swaps two others.        *)
LEMMA AppendOrder ==
  ASSUME NEW S, NEW s \in Seq(S), NEW id \in S, Injective(s), id \notin Entries(s),
         NEW x \in S, NEW y \in S, Before(s, x, y)
  PROVE  ~Before(Append(s, id), y, x)
<1>1. PICK i, j \in DOMAIN s : i < j /\ s[i] = x /\ s[j] = y
  BY DEF Before
<1> SUFFICES ASSUME NEW k \in DOMAIN Append(s, id), NEW l \in DOMAIN Append(s, id),
                    k < l, Append(s, id)[k] = y, Append(s, id)[l] = x
             PROVE  FALSE
  BY DEF Before
<1>2. k \in DOMAIN s /\ l \in DOMAIN s
  BY <1>1 DEF Entries
<1> QED BY <1>1, <1>2 DEF Injective

LEMMA WithoutOrder ==
  ASSUME NEW S, NEW s \in Seq(S), NEW r \in DOMAIN s, Injective(s),
         NEW x \in S, NEW y \in S, Before(s, x, y)
  PROVE  ~Before(Without(s, r), y, x)
<1> DEFINE t == Without(s, r)
<1>1. PICK i, j \in DOMAIN s : i < j /\ s[i] = x /\ s[j] = y
  BY DEF Before
<1> SUFFICES ASSUME NEW k \in DOMAIN t, NEW l \in DOMAIN t, k < l, t[k] = y, t[l] = x
             PROVE  FALSE
  BY DEF Before, t
<1>2. /\ Skip(r, k) \in DOMAIN s /\ s[Skip(r, k)] = y
      /\ Skip(r, l) \in DOMAIN s /\ s[Skip(r, l)] = x
      /\ Skip(r, k) < Skip(r, l)
  BY WithoutSkips
<1>3. Skip(r, k) = j /\ Skip(r, l) = i
  BY <1>1, <1>2 DEF Injective
<1>4. j < i /\ i \in Nat /\ j \in Nat
  BY <1>2, <1>3
<1> QED BY <1>1, <1>4

(* The invariant is inductive. *)
LEMMA ListedType ==
  ASSUME Inv, NEW a \in PubKey
  PROVE  /\ Listed(a) \in Seq(TxID) /\ Injective(Listed(a))
         /\ Entries(Listed(a)) = Pending(a)
  BY DEF Inv, TypeOK, Listed, IndexExact, Injective, Entries

LEMMA InitInv == Init => Inv
<1> SUFFICES ASSUME Init PROVE Inv
  OBVIOUS
<1>1. DOMAIN txs = {} /\ DOMAIN bySender = {}
  BY DEF Init
<1>2. SizeBounded
  BY <1>1, FS_EmptySet, MempoolAssumption DEF SizeBounded
<1>3. \A a \in PubKey : Listed(a) = <<>> /\ Pending(a) = {}
  BY <1>1 DEF Listed, Pending
<1> QED BY <1>1, <1>2, <1>3 DEF Inv, TypeOK, IndexExact

(* One addition. *)
LEMMA AddInv ==
  ASSUME Inv, NEW tx \in Transaction, Add(tx)
  PROVE  Inv'
<1> DEFINE id == ID[tx]
           a == Sender[tx]
<1>1. id \in TxID /\ a \in PubKey /\ tx \in Valid /\ id \notin DOMAIN txs
  BY MempoolAssumption DEF Add
<1>2. /\ DOMAIN txs' = DOMAIN txs \cup {id}
      /\ txs'[id] = tx
      /\ \A o \in DOMAIN txs : txs'[o] = txs[o]
  BY <1>1 DEF Add
<1>3. \A o \in DOMAIN txs' : txs'[o] \in Valid /\ ID[txs'[o]] = o
  BY <1>1, <1>2 DEF Inv, TypeOK
<1>4. SizeBounded'
  <2>1. IsFiniteSet(DOMAIN txs) /\ Cardinality(DOMAIN txs) < MaxMempoolSize
    BY DEF Add, Inv, SizeBounded
  <2>2. /\ IsFiniteSet(DOMAIN txs \cup {id})
        /\ Cardinality(DOMAIN txs \cup {id}) = Cardinality(DOMAIN txs) + 1
    BY <1>1, <2>1, FS_AddElement
  <2>3. Cardinality(DOMAIN txs) \in Nat
    BY <2>1, FS_CardinalityType
  <2> QED BY <1>2, <2>1, <2>2, <2>3, MempoolAssumption DEF SizeBounded
<1>5. \A b \in PubKey : Pending(b)' =
        IF b = a /\ tx \notin Coinbase THEN Pending(b) \cup {id} ELSE Pending(b)
  BY <1>1, <1>2 DEF Pending
<1>6. CASE tx \in Coinbase
  <2>1. bySender' = bySender
    BY <1>6 DEF Add
  <2> QED BY <1>1, <1>2, <1>3, <1>4, <1>5, <1>6, <2>1 DEF Inv, TypeOK, IndexExact, Listed
<1>7. CASE tx \notin Coinbase
  <2> DEFINE s == Listed(a)
  <2>1. s \in Seq(TxID) /\ Injective(s) /\ Entries(s) = Pending(a)
    BY <1>1, ListedType
  <2>2. /\ DOMAIN bySender' = DOMAIN bySender \cup {a}
        /\ bySender'[a] = Append(s, id)
        /\ \A b \in DOMAIN bySender \ {a} : bySender'[b] = bySender[b]
    BY <1>7 DEF Add, Indexed
  <2> HIDE DEF s, id, a
  <2>3. id \notin Entries(s)
    BY <1>1, <2>1 DEF Pending
  <2>4. /\ Append(s, id) \in Seq(TxID)
        /\ Entries(Append(s, id)) = Entries(s) \cup {id}
        /\ Injective(Append(s, id))
    <3>1. /\ Append(s, id) \in Seq(TxID) /\ Len(Append(s, id)) = Len(s) + 1
          /\ \A i \in 1..Len(s) : Append(s, id)[i] = s[i]
          /\ Append(s, id)[Len(s) + 1] = id
      BY <1>1, <2>1
    <3>2. DOMAIN s = 1..Len(s) /\ DOMAIN Append(s, id) = 1..(Len(s) + 1) /\ Len(s) \in Nat
      BY <2>1, <3>1
    <3>3. Entries(Append(s, id)) = Entries(s) \cup {id}
      BY <3>1, <3>2 DEF Entries
    <3>4. Injective(Append(s, id))
      BY <2>1, <2>3, <3>1, <3>2 DEF Entries, Injective
    <3> QED BY <3>1, <3>3, <3>4
  <2>5. \A b \in PubKey : Entries(Listed(b)') = Pending(b)'
    <3> TAKE b \in PubKey
    <3>1. CASE b = a
      BY <1>5, <1>7, <2>1, <2>2, <2>4, <3>1 DEF Listed
    <3>2. CASE b # a
      <4>1. Listed(b)' = Listed(b)
        BY <2>2, <3>2 DEF Listed
      <4> QED BY <1>5, <3>2, <4>1, ListedType
    <3> QED BY <3>1, <3>2
  <2>6. \A b \in DOMAIN bySender' : bySender'[b] \in Seq(TxID) /\ Injective(bySender'[b])
    BY <2>2, <2>4 DEF Inv, TypeOK, IndexExact, Injective
  <2>7. IndexExact'
    BY <2>5, <2>6 DEF IndexExact, Injective, Entries
  <2> QED BY <1>1, <1>2, <1>3, <1>4, <2>2, <2>6, <2>7 DEF Inv, TypeOK
<1> QED BY <1>6, <1>7

(* The list a removal shortens, and where. *)
LEMMA RemoveWhere ==
  ASSUME Inv, NEW id \in TxID, Remove(id)
  PROVE  LET a == Sender[txs[id]]
         IN  /\ a \in PubKey
             /\ txs[id] \in Coinbase => bySender' = bySender
             /\ txs[id] \notin Coinbase =>
                  \E i \in DOMAIN bySender[a] :
                    /\ a \in DOMAIN bySender /\ bySender[a][i] = id
                    /\ bySender' = [bySender EXCEPT ![a] = Without(bySender[a], i)]
<1> DEFINE a == Sender[txs[id]]
<1>1. id \in DOMAIN txs /\ a \in PubKey
  BY MempoolAssumption DEF Remove, Inv, TypeOK, Valid
<1>2. ASSUME txs[id] \notin Coinbase
      PROVE  \E i \in DOMAIN bySender[a] :
               /\ a \in DOMAIN bySender /\ bySender[a][i] = id
               /\ bySender' = [bySender EXCEPT ![a] = Without(bySender[a], i)]
  <2>1. id \in Entries(Listed(a))
    BY <1>1, <1>2, ListedType DEF Pending
  <2>2. a \in DOMAIN bySender
    BY <2>1 DEF Entries, Listed
  <2>3. PICK i \in DOMAIN bySender[a] :
          /\ FirstAt(bySender[a], id, i)
          /\ bySender' = [bySender EXCEPT ![a] = Without(@, i)]
    BY <1>2, <2>1 DEF Remove, Entries
  <2> QED BY <2>2, <2>3 DEF FirstAt
<1> QED BY <1>1, <1>2 DEF Remove

LEMMA RemoveInv ==
  ASSUME Inv, NEW id \in TxID, Remove(id)
  PROVE  Inv'
<1> DEFINE a == Sender[txs[id]]
<1>1. id \in DOMAIN txs /\ a \in PubKey
  BY RemoveWhere DEF Remove
<1>2. DOMAIN txs' = DOMAIN txs \ {id} /\ \A o \in DOMAIN txs' : txs'[o] = txs[o]
  BY DEF Remove
<1>3. SizeBounded'
  <2>1. /\ IsFiniteSet(DOMAIN txs \ {id})
        /\ Cardinality(DOMAIN txs \ {id}) = Cardinality(DOMAIN txs) - 1
    BY <1>1, FS_RemoveElement DEF Inv, SizeBounded
  <2>2. Cardinality(DOMAIN txs) \in Nat
    BY FS_CardinalityType DEF Inv, SizeBounded
  <2> QED BY <1>2, <2>1, <2>2, MempoolAssumption DEF Inv, SizeBounded
<1>4. \A b \in PubKey : Pending(b)' = Pending(b) \ {id}
  BY <1>2 DEF Pending
<1>5. \A b \in PubKey : b # a \/ txs[id] \in Coinbase => id \notin Pending(b)
  BY DEF Pending
<1>6. CASE txs[id] \in Coinbase
  <2>1. bySender' = bySender
    BY <1>6, RemoveWhere
  <2>2. \A b \in PubKey : Pending(b)' = Pending(b)
    BY <1>4, <1>5, <1>6
  <2> QED BY <1>2, <1>3, <2>1, <2>2 DEF Inv, TypeOK, IndexExact, Listed
<1>7. CASE txs[id] \notin Coinbase
  <2>1. PICK i \in DOMAIN bySender[a] :
          /\ a \in DOMAIN bySender /\ bySender[a][i] = id
          /\ bySender' = [bySender EXCEPT ![a] = Without(bySender[a], i)]
    BY <1>7, RemoveWhere
  <2> DEFINE s == bySender[a]
             t == Without(s, i)
  <2>2. s \in Seq(TxID) /\ Injective(s) /\ Entries(s) = Pending(a) /\ s = Listed(a)
    BY <1>1, <2>1, ListedType DEF Listed
  <2>3. t \in Seq(TxID) /\ Entries(t) = Entries(s) \ {id} /\ Injective(t)
    BY <2>1, <2>2, WithoutEntries, WithoutRemoves
  <2>4. /\ DOMAIN bySender' = DOMAIN bySender
        /\ bySender'[a] = t
        /\ \A b \in DOMAIN bySender \ {a} : bySender'[b] = bySender[b]
    BY <2>1
  <2> HIDE DEF s, t, a
  <2>5. \A b \in PubKey : Entries(Listed(b)') = Pending(b)'
    <3> TAKE b \in PubKey
    <3>1. CASE b = a
      BY <1>4, <2>1, <2>2, <2>3, <2>4, <3>1 DEF Listed
    <3>2. CASE b # a
      <4>1. Listed(b)' = Listed(b)
        BY <2>4, <3>2 DEF Listed
      <4> QED BY <1>4, <1>5, <3>2, <4>1, ListedType
    <3> QED BY <3>1, <3>2
  <2>6. \A b \in DOMAIN bySender' : bySender'[b] \in Seq(TxID) /\ Injective(bySender'[b])
    BY <2>3, <2>4 DEF Inv, TypeOK, IndexExact, Injective
  <2>7. IndexExact'
    BY <2>5, <2>6 DEF IndexExact, Injective, Entries
  <2> QED BY <1>2, <1>3, <2>4, <2>6, <2>7 DEF Inv, TypeOK
<1> QED BY <1>6, <1>7

LEMMA StepInv == Inv /\ [Next]_vars => Inv'
<1> SUFFICES ASSUME Inv, [Next]_vars PROVE Inv'
  OBVIOUS
<1>1. CASE Clear
  <2>1. DOMAIN txs' = {} /\ DOMAIN bySender' = {}
    BY <1>1 DEF Clear
  <2>2. SizeBounded'
    BY <2>1, FS_EmptySet, MempoolAssumption DEF SizeBounded
  <2>3. \A a \in PubKey : Listed(a)' = <<>> /\ Pending(a)' = {}
    BY <2>1 DEF Listed, Pending
  <2> QED BY <2>1, <2>2, <2>3 DEF Inv, TypeOK, IndexExact
<1>2. CASE UNCHANGED vars
  BY <1>2 DEF vars, Inv, TypeOK, IndexExact, SizeBounded, Listed, Pending
<1> QED BY <1>1, <1>2, AddInv, RemoveInv DEF Next

(* The pool and its index by sender agree and its limit is kept: the       *)
(* inductive invariant.                                                    *)
THEOREM InvCorrect == Spec => []Inv
  BY InitInv, StepInv, PTL DEF Spec

(* Type correctness.                                                       *)
THEOREM TypeCorrect == Spec => []TypeOK
<1>1. Inv => TypeOK
  BY DEF Inv
<1> QED BY <1>1, InvCorrect, PTL

(* The index of senders lists the pending transactions, each once.         *)
THEOREM IndexExactCorrect == Spec => []IndexExact
<1>1. Inv => IndexExact
  BY DEF Inv
<1> QED BY <1>1, InvCorrect, PTL

(* The pool stays within its size.                                         *)
THEOREM SizeBoundedCorrect == Spec => []SizeBounded
<1>1. Inv => SizeBounded
  BY DEF Inv
<1> QED BY <1>1, InvCorrect, PTL

(* The transactions of a sender stay in the order they came.               *)
THEOREM ArrivalOrderCorrect == Spec => ArrivalOrder
<1> DEFINE Ordered == \A a \in DOMAIN bySender \cap DOMAIN bySender' : \A x, y \in TxID :
                        ~(Before(bySender[a], x, y) /\ Before(bySender'[a], y, x))
<1>1. ASSUME Inv, Next PROVE Ordered
  <2> SUFFICES ASSUME NEW a \in DOMAIN bySender, a \in DOMAIN bySender',
                      NEW x \in TxID, NEW y \in TxID, Before(bySender[a], x, y)
               PROVE  ~Before(bySender'[a], y, x)
    OBVIOUS
  <2>1. /\ bySender[a] \in Seq(TxID) /\ Injective(bySender[a])
        /\ a \in PubKey /\ Listed(a) = bySender[a]
    BY <1>1 DEF Inv, TypeOK, IndexExact, Injective, Listed
  <2>2. CASE bySender'[a] = bySender[a]
    BY <2>1, <2>2 DEF Before, Injective
  <2>3. ASSUME NEW tx \in Transaction, Add(tx), bySender'[a] # bySender[a]
        PROVE  ~Before(bySender'[a], y, x)
    <3>1. bySender'[a] = Append(bySender[a], ID[tx])
      BY <2>1, <2>3 DEF Add, Indexed
    <3>2. ID[tx] \in TxID /\ ID[tx] \notin DOMAIN txs
      BY <2>3, MempoolAssumption DEF Add
    <3>3. ID[tx] \notin Entries(bySender[a])
      BY <1>1, <2>1, <3>2, ListedType DEF Pending
    <3> QED BY <2>1, <3>1, <3>2, <3>3, AppendOrder
  <2>4. ASSUME NEW id \in TxID, Remove(id), bySender'[a] # bySender[a]
        PROVE  ~Before(bySender'[a], y, x)
    <3>1. PICK i \in DOMAIN bySender[a] : bySender'[a] = Without(bySender[a], i)
      BY <1>1, <2>4, RemoveWhere
    <3> QED BY <2>1, <3>1, WithoutOrder
  <2>5. CASE Clear
    BY <2>5 DEF Clear
  <2> QED BY <1>1, <2>2, <2>3, <2>4, <2>5 DEF Next
<1>2. Inv /\ [Next]_vars => [Ordered]_vars
  BY <1>1
<1> QED BY <1>2, InvCorrect, PTL DEF Spec, ArrivalOrder
(***************************************************************************)
(* The readers.  GetBySender is a loop, so its result is found by          *)
(* induction on how far the loop is; as the index is exact, no ID is       *)
(* skipped and the result has the transactions of the whole list.          *)
(***************************************************************************)
ResultUpTo(f, ids) ==
  f = [n \in 0..Len(ids) |->
         IF n = 0 THEN <<>>
         ELSE IF ids[n] \in DOMAIN txs THEN Append(f[n - 1], txs[ids[n]])
         ELSE f[n - 1]]

Looked(ids, n) == [i \in 1..n |-> txs[ids[i]]]

LEMMA GetBySenderIs ==
  ASSUME Inv, NEW a \in PubKey
  PROVE  GetBySender(a) = Looked(Listed(a), Len(Listed(a)))
<1> DEFINE ids == Listed(a)
           result == CHOOSE f : ResultUpTo(f, ids)
<1>1. ids \in Seq(TxID) /\ Entries(ids) \subseteq DOMAIN txs
  BY ListedType DEF Pending
<1>2. Len(ids) \in Nat /\ \A i \in 1..Len(ids) : ids[i] \in DOMAIN txs
  BY <1>1 DEF Entries
<1>3. GetBySender(a) = result[Len(ids)]
  BY DEF GetBySender, ResultUpTo
<1> HIDE DEF ids
<1>4. \A n \in Nat : Append(Looked(ids, n), txs[ids[n + 1]]) = Looked(ids, n + 1)
  <2> SUFFICES ASSUME NEW n \in Nat
               PROVE  Append(Looked(ids, n), txs[ids[n + 1]]) = Looked(ids, n + 1)
    OBVIOUS
  <2> DEFINE S == {txs[ids[i]] : i \in 1..(n + 1)}
             p == Looked(ids, n)
             q == Looked(ids, n + 1)
             x == txs[ids[n + 1]]
  <2>1. p \in Seq(S) /\ q \in Seq(S) /\ Len(p) = n /\ Len(q) = n + 1 /\ x \in S
    BY DEF Looked
  <2>2. \A i \in 1..n : p[i] = q[i]
    BY DEF Looked
  <2>3. q[n + 1] = x
    BY DEF Looked
  <2> HIDE DEF p, q, x, S
  <2>4. Append(p, x) \in Seq(S) /\ Len(Append(p, x)) = n + 1
        /\ \A i \in 1..(n + 1) : Append(p, x)[i] = q[i]
    BY <2>1, <2>2, <2>3
  <2> QED BY <2>1, <2>4, SeqEqual DEF p, q, x
<1>5. Looked(ids, 0) = <<>>
  BY DEF Looked
<1>6. ResultUpTo([n \in 0..Len(ids) |-> Looked(ids, n)], ids)
  <2> DEFINE whole == [n \in 0..Len(ids) |-> Looked(ids, n)]
  <2>1. ASSUME NEW n \in 0..Len(ids)
        PROVE  whole[n] = IF n = 0 THEN <<>>
                          ELSE IF ids[n] \in DOMAIN txs THEN Append(whole[n - 1], txs[ids[n]])
                          ELSE whole[n - 1]
    <3>1. CASE n = 0
      BY <1>5, <3>1
    <3>2. CASE n # 0
      <4>1. n - 1 \in Nat /\ n - 1 \in 0..Len(ids) /\ (n - 1) + 1 = n /\ ids[n] \in DOMAIN txs
        BY <1>2, <3>2
      <4> QED BY <1>4, <3>2, <4>1
    <3> QED BY <3>1, <3>2
  <2> QED BY <2>1 DEF ResultUpTo
<1>7. ResultUpTo(result, ids)
  BY <1>6
<1> HIDE DEF result
<1> DEFINE T == {n \in Nat : n <= Len(ids) => result[n] = Looked(ids, n)}
<1>8. 0 \in T
  BY <1>2, <1>5, <1>7 DEF ResultUpTo
<1>9. ASSUME NEW n \in T PROVE n + 1 \in T
  <2>1. CASE n + 1 <= Len(ids)
    <3>1. n \in Nat /\ n + 1 \in 0..Len(ids) /\ ids[n + 1] \in DOMAIN txs /\ (n + 1) - 1 = n
      BY <1>2, <2>1
    <3> DEFINE m == n + 1
    <3>2. result[m] = Append(result[m - 1], txs[ids[m]])
      <4>1. m \in 0..Len(ids) /\ m # 0 /\ ids[m] \in DOMAIN txs
        BY <3>1
      <4> HIDE DEF m
      <4> QED BY <1>7, <4>1 DEF ResultUpTo
    <3>3. result[n] = Looked(ids, n)
      BY <1>2, <2>1, <3>1
    <3>4. m - 1 = n /\ Append(Looked(ids, n), txs[ids[m]]) = Looked(ids, m)
      BY <1>4, <3>1
    <3>5. result[m] = Looked(ids, m)
      BY <3>2, <3>3, <3>4
    <3> QED BY <3>1, <3>5
  <2> QED BY <1>2, <2>1
<1>10. T = Nat
  <2>1. T \in SUBSET Nat
    OBVIOUS
  <2> HIDE DEF T
  <2> QED BY <1>8, <1>9, <2>1, NatSetInduction
<1>11. result[Len(ids)] = Looked(ids, Len(ids))
  BY <1>2, <1>10
<1> QED BY <1>3, <1>11 DEF ids

LEMMA GetBySenderIsExact == Inv => GetBySenderExact
<1> SUFFICES ASSUME Inv, NEW a \in PubKey
             PROVE  LET found == GetBySender(a)
                    IN  /\ {found[i] : i \in DOMAIN found} = {txs[id] : id \in Pending(a)}
                        /\ Len(found) = Cardinality(Pending(a))
  BY DEF GetBySenderExact
<1> DEFINE ids == Listed(a)
           found == GetBySender(a)
<1>1. ids \in Seq(TxID) /\ Injective(ids) /\ Entries(ids) = Pending(a)
  BY ListedType
<1>2. found = Looked(ids, Len(ids))
  BY GetBySenderIs
<1> HIDE DEF ids, found
<1>3. DOMAIN ids = 1..Len(ids) /\ Len(ids) \in Nat
  BY <1>1
<1>4. DOMAIN found = 1..Len(ids) /\ Len(found) = Len(ids)
      /\ \A i \in 1..Len(ids) : found[i] = txs[ids[i]]
  BY <1>2, <1>3 DEF Looked
<1>5. {found[i] : i \in DOMAIN found} = {txs[id] : id \in Pending(a)}
  BY <1>1, <1>3, <1>4 DEF Entries
<1>6. Cardinality(Pending(a)) = Len(ids)
  <2>1. ids \in Bijection(1..Len(ids), Pending(a))
    BY <1>1, <1>3, Fun_IsBij DEF Entries, Injective
  <2> DEFINE n == Len(ids)
  <2>2. IsFiniteSet(1..n) /\ Cardinality(1..n) = n
    <3>1. n \in Nat
      BY <1>3
    <3> HIDE DEF n
    <3>2. IsFiniteSet(1..n) /\ Cardinality(1..n) = IF 1 > n THEN 0 ELSE n - 1 + 1
      BY <3>1, FS_Interval
    <3> QED BY <3>1, <3>2
  <2>3. ExistsBijection(1..Len(ids), Pending(a))
    BY <2>1 DEF ExistsBijection
  <2> QED BY <2>2, <2>3, FS_Bijection
<1> QED BY <1>4, <1>5, <1>6 DEF found

(***************************************************************************)
(* GetConflicts counts pairs of equal inputs.  Between two transfers there *)
(* are none if and only if they share no output; in one there are as many  *)
(* as inputs if and only if the pairs are those of each with itself.       *)
(***************************************************************************)
Places(a) == DOMAIN Inputs[txs[a]]

Pairs(a, b) ==
  {p \in Places(a) \X Places(b) : Inputs[txs[a]][p[1]] = Inputs[txs[b]][p[2]]}

Diagonal(a) == {<<i, i>> : i \in Places(a)}

LEMMA PlacesAre ==
  ASSUME Inv, NEW a \in Transfers
  PROVE  /\ Len(Inputs[txs[a]]) \in Nat /\ Places(a) = 1..Len(Inputs[txs[a]])
         /\ IsFiniteSet(Places(a)) /\ Cardinality(Places(a)) = Len(Inputs[txs[a]])
<1> DEFINE s == Inputs[txs[a]]
           n == Len(s)
<1>1. txs[a] \in Transaction
  BY DEF Transfers, Inv, TypeOK, Valid
<1>2. s \in Seq({s[i] : i \in DOMAIN s})
  BY <1>1, MempoolAssumption
<1>3. n \in Nat /\ DOMAIN s = 1..n
  <2> HIDE DEF s
  <2> QED BY <1>2
<1>4. IsFiniteSet(1..n) /\ Cardinality(1..n) = n
  <2> HIDE DEF n
  <2>1. IsFiniteSet(1..n) /\ Cardinality(1..n) = IF 1 > n THEN 0 ELSE n - 1 + 1
    BY <1>3, FS_Interval
  <2> QED BY <1>3, <2>1
<1> QED BY <1>3, <1>4 DEF Places

LEMMA PairsAre ==
  ASSUME Inv, NEW a \in Transfers, NEW b \in Transfers
  PROVE  IsFiniteSet(Pairs(a, b)) /\ GetConflicts(txs[a])[b] = Cardinality(Pairs(a, b))
<1>1. \A i \in Places(a) : Inputs[txs[a]][i].txid # NilTxid
  BY DEF Transfers, Places
<1>2. b \in DOMAIN txs
  BY DEF Transfers
<1>3. {p \in Places(a) \X Places(b) : /\ Inputs[txs[a]][p[1]].txid # NilTxid
                                      /\ Inputs[txs[a]][p[1]] = Inputs[txs[b]][p[2]]}
      = Pairs(a, b)
  BY <1>1 DEF Pairs
<1>4. GetConflicts(txs[a])[b] = Cardinality(Pairs(a, b))
  BY <1>2, <1>3 DEF GetConflicts, Places
<1>5. IsFiniteSet(Places(a) \X Places(b))
  BY PlacesAre, FS_Product
<1>6. Pairs(a, b) \subseteq Places(a) \X Places(b)
  BY DEF Pairs
<1> QED BY <1>4, <1>5, <1>6, FS_Subset

LEMMA DiagonalIs ==
  ASSUME Inv, NEW a \in Transfers
  PROVE  /\ IsFiniteSet(Diagonal(a)) /\ Cardinality(Diagonal(a)) = Len(Inputs[txs[a]])
         /\ Diagonal(a) \subseteq Pairs(a, a)
<1> DEFINE f == [i \in Places(a) |-> <<i, i>>]
<1>1. f \in Bijection(Places(a), Diagonal(a))
  <2>1. f \in [Places(a) -> Diagonal(a)] /\ \A t \in Diagonal(a) : \E i \in Places(a) : f[i] = t
    BY DEF Diagonal
  <2>2. \A i, j \in Places(a) : f[i] = f[j] => i = j
    OBVIOUS
  <2> HIDE DEF f
  <2> QED BY <2>1, <2>2, Fun_IsBij
<1>2. ExistsBijection(Places(a), Diagonal(a))
  BY <1>1 DEF ExistsBijection
<1>3. Diagonal(a) \subseteq Pairs(a, a)
  BY DEF Diagonal, Pairs
<1> QED BY <1>2, <1>3, PlacesAre, FS_Bijection

(* Two different transfers, and one with itself. *)
LEMMA NoneShared ==
  ASSUME Inv, NEW a \in Transfers, NEW b \in Transfers
  PROVE  GetConflicts(txs[a])[b] = 0 <=>
           \A i \in Places(a), j \in Places(b) : Inputs[txs[a]][i] # Inputs[txs[b]][j]
<1>1. Cardinality(Pairs(a, b)) = 0 <=> Pairs(a, b) = {}
  BY PairsAre, FS_EmptySet
<1>2. Pairs(a, b) = {} <=>
        \A i \in Places(a), j \in Places(b) : Inputs[txs[a]][i] # Inputs[txs[b]][j]
  <2>1. ASSUME NEW i \in Places(a), NEW j \in Places(b), Inputs[txs[a]][i] = Inputs[txs[b]][j]
        PROVE  <<i, j>> \in Pairs(a, b)
    BY <2>1 DEF Pairs
  <2>2. ASSUME NEW p \in Pairs(a, b)
        PROVE  /\ p[1] \in Places(a) /\ p[2] \in Places(b)
               /\ Inputs[txs[a]][p[1]] = Inputs[txs[b]][p[2]]
    BY <2>2 DEF Pairs
  <2>3. CASE Pairs(a, b) = {}
    BY <2>1, <2>3
  <2>4. CASE Pairs(a, b) # {}
    <3>1. PICK p : p \in Pairs(a, b)
      BY <2>4
    <3>2. /\ p[1] \in Places(a) /\ p[2] \in Places(b)
          /\ Inputs[txs[a]][p[1]] = Inputs[txs[b]][p[2]]
      BY <2>2, <3>1
    <3> QED BY <2>4, <3>2
  <2> QED BY <2>3, <2>4
<1> QED BY <1>1, <1>2, PairsAre

LEMMA OncePerInput ==
  ASSUME Inv, NEW a \in Transfers
  PROVE  GetConflicts(txs[a])[a] = Len(Inputs[txs[a]]) <=>
           \A i, j \in Places(a) : Inputs[txs[a]][i] = Inputs[txs[a]][j] => i = j
<1> DEFINE D == Diagonal(a)
           P == Pairs(a, a)
<1>1. /\ IsFiniteSet(D) /\ Cardinality(D) = Len(Inputs[txs[a]]) /\ D \subseteq P
      /\ IsFiniteSet(P) /\ GetConflicts(txs[a])[a] = Cardinality(P)
  BY DiagonalIs, PairsAre
<1>2. Cardinality(P) = Cardinality(D) <=> P = D
  <2> HIDE DEF D, P
  <2>1. Cardinality(D) = Cardinality(P) => D = P
    BY <1>1, FS_Subset
  <2> QED BY <2>1
<1>3. P = D <=> \A i, j \in Places(a) : Inputs[txs[a]][i] = Inputs[txs[a]][j] => i = j
  <2>1. ASSUME P = D, NEW i \in Places(a), NEW j \in Places(a),
               Inputs[txs[a]][i] = Inputs[txs[a]][j]
        PROVE  i = j
    <3>1. <<i, j>> \in P
      BY <2>1 DEF Pairs
    <3> QED BY <2>1, <3>1 DEF Diagonal
  <2>2. ASSUME \A i, j \in Places(a) : Inputs[txs[a]][i] = Inputs[txs[a]][j] => i = j
        PROVE  P \subseteq D
    BY <2>2 DEF Pairs, Diagonal
  <2> QED BY <1>1, <2>1, <2>2
<1> QED BY <1>1, <1>2, <1>3

LEMMA ConflictsTell == Inv => ConflictsTellDoubleSpends
<1> SUFFICES ASSUME Inv, NEW ids \in SUBSET Transfers
             PROVE  SpentOnce(ids) <=>
                      \A a, b \in ids :
                        GetConflicts(txs[a])[b] = IF a = b THEN Len(Inputs[txs[a]]) ELSE 0
  BY DEF ConflictsTellDoubleSpends
<1>1. \A a, b \in ids :
        GetConflicts(txs[a])[b] = 0 <=>
          \A i \in Places(a), j \in Places(b) : Inputs[txs[a]][i] # Inputs[txs[b]][j]
  BY NoneShared
<1>2. \A a \in ids :
        GetConflicts(txs[a])[a] = Len(Inputs[txs[a]]) <=>
          \A i, j \in Places(a) : Inputs[txs[a]][i] = Inputs[txs[a]][j] => i = j
  BY OncePerInput
<1>3. SpentOnce(ids) <=>
        /\ \A a \in ids : \A i, j \in Places(a) :
             Inputs[txs[a]][i] = Inputs[txs[a]][j] => i = j
        /\ \A a, b \in ids : a # b =>
             \A i \in Places(a), j \in Places(b) : Inputs[txs[a]][i] # Inputs[txs[b]][j]
  BY DEF SpentOnce, Places
<1> QED BY <1>1, <1>2, <1>3

(* Both readers answer from the two maps as they are together: GetBySender *)
(* leaves out no pending transaction of a sender, GetConflicts tells which *)
(* pending transfers may share a block.                                    *)
THEOREM ReadersExactCorrect == Spec => []ReadersExact
<1>1. Inv => ReadersExact
  BY GetBySenderIsExact, ConflictsTell DEF ReadersExact
<1> QED BY <1>1, InvCorrect, PTL
=============================================================================
