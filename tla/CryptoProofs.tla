---------------------------- MODULE CryptoProofs ----------------------------
(***************************************************************************)
(* The algorithms that stand on their own, for inputs of every size:       *)
(* hierarchical keys, Merkle trees and Base58Check.                        *)
(*                                                                         *)
(* Each loop of these modules is a recursive function.  A lemma, by        *)
(* induction on its rounds, says that the function exists; the others      *)
(* unfold it.                                                              *)
(***************************************************************************)
EXTENDS Merkle, Base58, HD, NatSetInduction, SequenceTheorems, TLAPS

(***************************************************************************)
(* Hierarchical keys.  A chain code of depth n is n HMACs around that of a *)
(* master key.  The depth is a function of the term, which takes the place *)
(* of "no term occurs in itself".                                          *)
(***************************************************************************)
Master == {[master |-> seed] : seed \in Seed}

Deep(c, n) ==
  \E f : /\ f[0] \in Master /\ f[n] = c
         /\ \A k \in 1..n : \E data : f[k] = Hmac(f[k - 1], data)

LEMMA HmacIs ==
  /\ \A c, d, e, x : Hmac(c, d) = Hmac(e, x) <=> c = e /\ d = x
  /\ \A c, d : Hmac(c, d) \notin Master
<1>1. \A c, d : Hmac(c, d).hmac = c /\ Hmac(c, d).of = d
  BY DEF Hmac
<1>2. \A c, d : Hmac(c, d) \notin Master
  BY DEF Hmac, Master
<1> QED BY <1>1, <1>2

LEMMA DeepZero == \A c : Deep(c, 0) <=> c \in Master
<1>1. ASSUME NEW c, Deep(c, 0) PROVE c \in Master
  BY <1>1 DEF Deep
<1>2. ASSUME NEW c \in Master PROVE Deep(c, 0)
  <2> DEFINE f == [k \in {0} |-> c]
  <2>1. f[0] = c /\ \A k \in 1..0 : FALSE
    OBVIOUS
  <2> HIDE DEF f
  <2> QED BY <2>1 DEF Deep
<1> QED BY <1>1, <1>2

LEMMA DeepStep ==
  ASSUME NEW n \in Nat, NEW c
  PROVE  Deep(c, n + 1) <=> \E e, data : Deep(e, n) /\ c = Hmac(e, data)
<1>1. ASSUME Deep(c, n + 1) PROVE \E e, data : Deep(e, n) /\ c = Hmac(e, data)
  <2>1. PICK f : /\ f[0] \in Master /\ f[n + 1] = c
                 /\ \A k \in 1..(n + 1) : \E data : f[k] = Hmac(f[k - 1], data)
    BY <1>1 DEF Deep
  <2>2. \A k \in 1..n : k \in 1..(n + 1)
    OBVIOUS
  <2>3. Deep(f[n], n)
    BY <2>1, <2>2 DEF Deep
  <2>4. n + 1 \in 1..(n + 1) /\ (n + 1) - 1 = n
    OBVIOUS
  <2>5. \E data : f[n + 1] = Hmac(f[n], data)
    BY <2>1, <2>4
  <2> QED BY <2>1, <2>3, <2>5
<1>2. ASSUME NEW e, NEW data, Deep(e, n), c = Hmac(e, data) PROVE Deep(c, n + 1)
  <2>1. PICK f : /\ f[0] \in Master /\ f[n] = e
                 /\ \A k \in 1..n : \E d : f[k] = Hmac(f[k - 1], d)
    BY <1>2 DEF Deep
  <2> DEFINE g == [k \in 0..(n + 1) |-> IF k = n + 1 THEN c ELSE f[k]]
  <2>2. g[0] = f[0] /\ g[n + 1] = c /\ g[n] = e
    BY <2>1
  <2>3. ASSUME NEW k \in 1..(n + 1) PROVE \E d : g[k] = Hmac(g[k - 1], d)
    <3>1. CASE k = n + 1
      <4>1. g[k] = c /\ g[k - 1] = e
        BY <2>2, <3>1
      <4> QED BY <1>2, <4>1
    <3>2. CASE k # n + 1
      <4>1. k \in 1..n /\ g[k] = f[k] /\ g[k - 1] = f[k - 1]
        BY <3>2
      <4> QED BY <2>1, <4>1
    <3> QED BY <3>1, <3>2
  <2> HIDE DEF g
  <2> QED BY <2>1, <2>2, <2>3 DEF Deep
<1> QED BY <1>1, <1>2

LEMMA OneDepth ==
  ASSUME NEW c, NEW n \in Nat, NEW m \in Nat, Deep(c, n), Deep(c, m)
  PROVE  n = m
<1> DEFINE T == {i \in Nat : \A x : \A j \in Nat : Deep(x, i) /\ Deep(x, j) => i = j}
<1>1. \A j \in Nat : j = 0 \/ \E i \in Nat : j = i + 1
  <2> TAKE j \in Nat
  <2>1. j = 0 \/ (j - 1 \in Nat /\ j = (j - 1) + 1)
    OBVIOUS
  <2> QED BY <2>1
<1>2. \A x : \A j \in Nat : Deep(x, 0) /\ Deep(x, j) => 0 = j
  <2> SUFFICES ASSUME NEW x, NEW j \in Nat, Deep(x, 0), Deep(x, j), j # 0 PROVE FALSE
    OBVIOUS
  <2>1. PICK i \in Nat : j = i + 1
    BY <1>1
  <2>2. x \in Master
    BY DeepZero
  <2>3. \E e, d : x = Hmac(e, d)
    BY <2>1, DeepStep
  <2> QED BY <2>2, <2>3, HmacIs
<1>3. ASSUME NEW i \in T PROVE i + 1 \in T
  <2>1. \A x : \A j \in Nat : Deep(x, i) /\ Deep(x, j) => i = j
    OBVIOUS
  <2> SUFFICES ASSUME NEW x, NEW j \in Nat, Deep(x, i + 1), Deep(x, j) PROVE i + 1 = j
    OBVIOUS
  <2>2. PICK e, d : Deep(e, i) /\ x = Hmac(e, d)
    BY DeepStep
  <2>3. j # 0
    BY <2>2, DeepZero, HmacIs
  <2>4. PICK k \in Nat : j = k + 1
    BY <1>1, <2>3
  <2>5. PICK e2, d2 : Deep(e2, k) /\ x = Hmac(e2, d2)
    BY <2>4, DeepStep
  <2>6. e = e2
    <3>1. Hmac(e, d) = Hmac(e2, d2)
      BY <2>2, <2>5
    <3> QED BY <3>1, HmacIs
  <2> QED BY <2>1, <2>2, <2>4, <2>5, <2>6
<1>4. T = Nat
  <2>1. T \in SUBSET Nat
    OBVIOUS
  <2>2. 0 \in T
    BY <1>2
  <2> HIDE DEF T
  <2> QED BY <1>3, <2>1, <2>2, NatSetInduction
<1>5. n \in T
  BY <1>4
<1> QED BY <1>5

(***************************************************************************)
(* A key of depth n holds the halves added up in it, its own chain code    *)
(* the deepest of them: so a key, in whatever form, tells its chain code.  *)
(***************************************************************************)
Form == {"private", "public", "bare"}

Bytes33(form, halves) ==
  CASE form = "private" -> PrivateBytes(halves)
    [] form = "public" -> PublicBytes(halves)
    [] form = "bare" -> <<[scalar |-> halves]>>

IsKey(key) ==
  key = [Version |-> key.Version, Depth |-> key.Depth, ParentF |-> key.ParentF,
         ChildNum |-> key.ChildNum, ChainCode |-> key.ChainCode, Key |-> key.Key,
         IsPrivate |-> key.IsPrivate]

Topped(halves, c, n) ==
  /\ c \in halves /\ Deep(c, n)
  /\ \A x \in halves : \E m \in 0..n : Deep(x, m) /\ (m = n => x = c)

Keyed(key, form, halves, n) ==
  /\ IsKey(key) /\ form \in Form /\ key.Key = Bytes33(form, halves)
  /\ key.IsPrivate = (form = "private")
  /\ Topped(halves, key.ChainCode, n)

LEMMA ToppedTells ==
  ASSUME NEW S, NEW c, NEW d, NEW n \in Nat, NEW m \in Nat, Topped(S, c, n), Topped(S, d, m)
  PROVE  c = d /\ n = m
<1>1. PICK i \in 0..m : Deep(c, i) /\ (i = m => c = d)
  BY DEF Topped
<1>2. PICK j \in 0..n : Deep(d, j)
  BY DEF Topped
<1>3. i \in Nat /\ j \in Nat /\ Deep(c, n) /\ Deep(d, m)
  BY <1>1, <1>2 DEF Topped
<1>4. i = n /\ j = m
  BY <1>1, <1>2, <1>3, OneDepth
<1> QED BY <1>1, <1>2, <1>4

LEMMA ToppedChild ==
  ASSUME NEW S, NEW c, NEW n \in Nat, NEW data, Topped(S, c, n)
  PROVE  /\ Topped(S \cup {Hmac(c, data)}, Hmac(c, data), n + 1)
         /\ Topped({Hmac(c, data)}, Hmac(c, data), n + 1)
<1> DEFINE d == Hmac(c, data)
<1>1. Deep(d, n + 1)
  BY DeepStep DEF Topped
<1> HIDE DEF d
<1>2. ASSUME NEW x \in S PROVE \E m \in 0..(n + 1) : Deep(x, m) /\ (m = n + 1 => x = d)
  <2>1. PICK m \in 0..n : Deep(x, m)
    BY DEF Topped
  <2>2. m \in 0..(n + 1) /\ m # n + 1
    OBVIOUS
  <2> QED BY <2>1, <2>2
<1>3. n + 1 \in 0..(n + 1)
  OBVIOUS
<1> QED BY <1>1, <1>2, <1>3 DEF Topped, d

(* The bytes of a key tell its halves. *)
LEMMA BytesTell ==
  ASSUME NEW f \in Form, NEW g \in Form, NEW S, NEW R
  PROVE  /\ Bytes33(f, S) = Bytes33(g, R) => f = g /\ S = R
         /\ Len(Bytes33(f, S)) = IF f = "bare" THEN 1 ELSE 2
<1>1. /\ Bytes33("private", S) = <<Zero, [scalar |-> S]>>
      /\ Bytes33("public", S) = <<[byte |-> "sign"], [point |-> S]>>
      /\ Bytes33("bare", S) = <<[scalar |-> S]>>
  BY DEF Bytes33, PrivateBytes, PublicBytes
<1>2. /\ Bytes33("private", R) = <<Zero, [scalar |-> R]>>
      /\ Bytes33("public", R) = <<[byte |-> "sign"], [point |-> R]>>
      /\ Bytes33("bare", R) = <<[scalar |-> R]>>
  BY DEF Bytes33, PrivateBytes, PublicBytes
<1>3. Zero # [byte |-> "sign"]
  BY DEF Zero
<1>4. /\ [scalar |-> S] = [scalar |-> R] => S = R
      /\ [point |-> S] = [point |-> R] => S = R
  <2>1. [scalar |-> S].scalar = S /\ [scalar |-> R].scalar = R
    OBVIOUS
  <2>2. [point |-> S].point = S /\ [point |-> R].point = R
    OBVIOUS
  <2> QED BY <2>1, <2>2
<1> QED BY <1>1, <1>2, <1>3, <1>4 DEF Form

(* The keys the package makes. *)
LEMMA MasterKeyed == ASSUME NEW seed \in Seed PROVE Keyed(MasterKey(seed), "private", {[master |-> seed]}, 0)
<1> DEFINE il == [master |-> seed]
           key == MasterKey(seed)
<1>1. IsKey(key) /\ key.Key = PrivateBytes({il}) /\ key.IsPrivate = TRUE /\ key.ChainCode = il
  BY DEF MasterKey, IsKey
<1>2. Deep(il, 0)
  BY DeepZero DEF Master
<1>3. Topped({il}, il, 0)
  BY <1>2 DEF Topped
<1> HIDE DEF key, il
<1> QED BY <1>1, <1>3 DEF Keyed, Form, Bytes33, key, il

LEMMA PublicKeyed ==
  ASSUME NEW key, NEW S, NEW n, Keyed(key, "private", S, n)
  PROVE  /\ Keyed(AsPublic(key), "public", S, n) /\ AsPublic(key).Key = PublicBytes(S)
         /\ AsPublic(key).ChainCode = key.ChainCode
<1> DEFINE pub == [key EXCEPT !.Version = "xpub", !.Key = PublicBytes(Scalar(key)),
                              !.IsPrivate = FALSE]
<1>1. IsKey(key) /\ key.IsPrivate = TRUE /\ key.Key = PrivateBytes(S)
  BY DEF Keyed, Bytes33
<1>2. Scalar(key) = S
  BY <1>1 DEF Scalar, PrivateBytes
<1>3. AsPublic(key) = pub
  BY <1>1 DEF AsPublic
<1>4. pub = [key EXCEPT !.Version = "xpub", !.Key = PublicBytes(S), !.IsPrivate = FALSE]
  BY <1>2
<1> HIDE DEF pub
<1>5. /\ IsKey(pub) /\ pub.Key = PublicBytes(S) /\ pub.IsPrivate = FALSE
      /\ pub.ChainCode = key.ChainCode
  BY <1>1, <1>4 DEF IsKey
<1> QED BY <1>3, <1>5 DEF Keyed, Form, Bytes33

LEMMA NeuteredKeyed ==
  ASSUME NEW key, NEW S, NEW n, Keyed(key, "private", S, n)
  PROVE  /\ Keyed(Neutered(key), "bare", S, n) /\ Neutered(key).Key = <<[scalar |-> S]>>
         /\ Neutered(key).ChainCode = key.ChainCode
<1>1. IsKey(key) /\ key.IsPrivate = TRUE /\ key.Key = PrivateBytes(S)
  BY DEF Keyed, Bytes33
<1>2. Tail(key.Key) = <<[scalar |-> S]>>
  BY <1>1 DEF PrivateBytes
<1>3. Neutered(key) = [key EXCEPT !.Version = "xpub", !.Key = <<[scalar |-> S]>>,
                                 !.IsPrivate = FALSE]
  BY <1>2 DEF Neutered
<1> DEFINE cut == Neutered(key)
<1>4. /\ IsKey(cut) /\ cut.Key = <<[scalar |-> S]>> /\ cut.IsPrivate = FALSE
      /\ cut.ChainCode = key.ChainCode
  <2> HIDE DEF cut
  <2> QED BY <1>1, <1>3 DEF IsKey, cut
<1> HIDE DEF cut
<1> QED BY <1>4 DEF Keyed, Form, Bytes33, cut

(* What a child is made of: its chain code is an HMAC under that of its    *)
(* parent which has the index in it, and is one of its halves.             *)
ChildForm(form) == IF form = "private" THEN "private" ELSE "public"
ChildHalves(form, S, il) == IF form = "private" THEN S \cup {il} ELSE {il}
Data(key, index) == <<IF index >= hardenedOffset THEN key.Key ELSE AsPublic(key).Key, index>>

LEMMA ChildKeyed ==
  ASSUME NEW key, NEW form, NEW S, NEW n \in Nat, Keyed(key, form, S, n), NEW index
  PROVE  LET il == Hmac(key.ChainCode, Data(key, index))
         IN  /\ Child(key, index).ChainCode = il
             /\ Keyed(Child(key, index), ChildForm(form), ChildHalves(form, S, il), n + 1)
<1> DEFINE il == Hmac(key.ChainCode, Data(key, index))
           child == Child(key, index)
           bytes == IF key.IsPrivate THEN PrivateBytes(Scalar(key) \cup {il}) ELSE PublicBytes({il})
<1>1. IsKey(key) /\ form \in Form /\ key.Key = Bytes33(form, S)
      /\ key.IsPrivate = (form = "private")
  BY DEF Keyed
<1>2. child = [key EXCEPT !.Depth = (@ + 1) % DepthModulus, !.ChildNum = index, !.ChainCode = il,
                          !.Key = bytes, !.ParentF = IF @ = <<>> THEN <<key.Key>> ELSE @]
  BY DEF Child, Data
<1>3. bytes = Bytes33(ChildForm(form), ChildHalves(form, S, il))
  <2> HIDE DEF il
  <2>1. CASE form = "private"
    <3>1. Scalar(key) = S
      BY <1>1, <2>1 DEF Scalar, PrivateBytes, Bytes33
    <3> QED BY <1>1, <2>1, <3>1 DEF ChildForm, ChildHalves, Bytes33
  <2>2. CASE form # "private"
    BY <1>1, <2>2 DEF ChildForm, ChildHalves, Bytes33
  <2> QED BY <2>1, <2>2
<1> HIDE DEF bytes, il, child
<1>4. child.ChainCode = il /\ child.Key = bytes /\ child.IsPrivate = key.IsPrivate
      /\ IsKey(child)
  BY <1>1, <1>2 DEF IsKey
<1>5. Topped(ChildHalves(form, S, il), il, n + 1)
  BY ToppedChild DEF ChildHalves, Keyed, il
<1>6. ChildForm(form) \in Form /\ (form = "private") = (ChildForm(form) = "private")
  BY <1>1 DEF ChildForm, Form
<1>7. child.IsPrivate = (ChildForm(form) = "private")
  BY <1>1, <1>4, <1>6
<1>8. Keyed(child, ChildForm(form), ChildHalves(form, S, il), n + 1)
  BY <1>3, <1>4, <1>5, <1>6, <1>7 DEF Keyed
<1> QED BY <1>4, <1>8 DEF il, child

(***************************************************************************)
(* Sequences: induction by appending, for a set of sequences.              *)
(***************************************************************************)
LEMMA SeqSetInduction ==
  ASSUME NEW S, NEW T \in SUBSET Seq(S), <<>> \in T,
         \A s \in T : \A e \in S : Append(s, e) \in T
  PROVE  T = Seq(S)
<1> DEFINE N == {n \in Nat : \A s \in Seq(S) : Len(s) = n => s \in T}
<1>1. 0 \in N
  <2>1. \A s \in Seq(S) : Len(s) = 0 => s = <<>>
    BY EmptySeq
  <2> QED BY <2>1
<1>2. ASSUME NEW n \in N PROVE n + 1 \in N
  <2> SUFFICES ASSUME NEW s \in Seq(S), Len(s) = n + 1 PROVE s \in T
    OBVIOUS
  <2>1. s # <<>> /\ n \in Nat
    OBVIOUS
  <2>2. PICK p \in Seq(S), e \in S : s = Append(p, e)
    BY <2>1, SequenceEmptyOrAppend
  <2>3. Len(p) = n
    BY <2>1, <2>2
  <2> QED BY <2>2, <2>3
<1>3. N = Nat
  <2>1. N \in SUBSET Nat
    OBVIOUS
  <2> HIDE DEF N
  <2> QED BY <1>1, <1>2, <2>1, NatSetInduction
<1>4. \A s \in Seq(S) : Len(s) \in N
  BY <1>3
<1> QED BY <1>4

(***************************************************************************)
(* A derivation: one index more is one step more.                          *)
(***************************************************************************)
Step(key, index) == IF key = Failed \/ ~Derivable(key, index) THEN Failed ELSE Child(key, index)

DerivedUpTo(f, key, indices, n) ==
  f = [i \in 0..n |-> IF i = 0 THEN key
                      ELSE IF f[i - 1] = Failed \/ ~Derivable(f[i - 1], indices[i]) THEN Failed
                      ELSE Child(f[i - 1], indices[i])]

LEMMA DerivedRounds ==
  ASSUME NEW f, NEW key, NEW indices, NEW n \in Nat, DerivedUpTo(f, key, indices, n)
  PROVE  f[0] = key /\ \A k \in Nat : k + 1 <= n => f[k + 1] = Step(f[k], indices[k + 1])
<1>1. f[0] = key
  BY DEF DerivedUpTo
<1>2. ASSUME NEW i \in 1..n PROVE f[i] = Step(f[i - 1], indices[i])
  <2>1. i \in 0..n /\ i # 0
    OBVIOUS
  <2> QED BY <2>1 DEF DerivedUpTo, Step
<1>3. \A k \in Nat : k + 1 <= n => k + 1 \in 1..n /\ (k + 1) - 1 = k
  OBVIOUS
<1> QED BY <1>1, <1>2, <1>3

LEMMA DerivedExists ==
  ASSUME NEW key, NEW indices, NEW n \in Nat
  PROVE  \E f : DerivedUpTo(f, key, indices, n)
<1> DEFINE T == {k \in Nat : \E f : DerivedUpTo(f, key, indices, k)}
<1>1. 0 \in T
  <2>1. DerivedUpTo([i \in 0..0 |-> key], key, indices, 0)
    BY DEF DerivedUpTo
  <2> QED BY <2>1
<1>2. ASSUME NEW k \in T PROVE k + 1 \in T
  <2>1. PICK f : DerivedUpTo(f, key, indices, k)
    BY <1>2
  <2> DEFINE g == [i \in 0..(k + 1) |-> IF i = k + 1 THEN Step(f[k], indices[k + 1]) ELSE f[i]]
  <2>2. ASSUME NEW i \in 0..(k + 1)
        PROVE  g[i] = IF i = 0 THEN key ELSE Step(g[i - 1], indices[i])
    <3>1. CASE i = k + 1
      <4>1. i # 0 /\ g[i] = Step(f[k], indices[i]) /\ g[i - 1] = f[k]
        BY <3>1
      <4> QED BY <4>1
    <3>2. CASE i = 0
      BY <3>2, <2>1 DEF DerivedUpTo
    <3>3. CASE i # 0 /\ i # k + 1
      <4>1. i \in 0..k /\ i - 1 \in 0..k /\ g[i] = f[i] /\ g[i - 1] = f[i - 1]
        BY <3>3
      <4>2. f[i] = Step(f[i - 1], indices[i])
        BY <2>1, <3>3, <4>1 DEF DerivedUpTo, Step
      <4> QED BY <4>1, <4>2, <3>3
    <3> QED BY <3>1, <3>2, <3>3
  <2>3. DerivedUpTo(g, key, indices, k + 1)
    BY <2>2 DEF DerivedUpTo, Step
  <2> QED BY <2>3
<1>3. T = Nat
  <2>1. T \in SUBSET Nat
    OBVIOUS
  <2> HIDE DEF T
  <2> QED BY <1>1, <1>2, <2>1, NatSetInduction
<1> QED BY <1>3

LEMMA DeriveIs ==
  ASSUME NEW key, NEW indices, Len(indices) \in Nat
  PROVE  \E f : /\ DerivedUpTo(f, key, indices, Len(indices))
                /\ DeriveIndices(key, indices) = f[Len(indices)]
<1> DEFINE child == CHOOSE f : DerivedUpTo(f, key, indices, Len(indices))
<1>1. DerivedUpTo(child, key, indices, Len(indices))
  BY DerivedExists
<1>2. DeriveIndices(key, indices) = child[Len(indices)]
  BY DEF DeriveIndices, DerivedUpTo
<1> QED BY <1>1, <1>2

LEMMA DeriveNothing == ASSUME NEW key PROVE DeriveIndices(key, <<>>) = key
<1>1. Len(<<>>) = 0
  OBVIOUS
<1>2. PICK f : DerivedUpTo(f, key, <<>>, 0) /\ DeriveIndices(key, <<>>) = f[0]
  BY <1>1, DeriveIs
<1> QED BY <1>2, DerivedRounds

LEMMA DeriveAppend ==
  ASSUME NEW S, NEW indices \in Seq(S), NEW index \in S, NEW key
  PROVE  DeriveIndices(key, Append(indices, index)) = Step(DeriveIndices(key, indices), index)
<1> DEFINE n == Len(indices)
           longer == Append(indices, index)
<1>1. n \in Nat /\ Len(longer) = n + 1 /\ longer[n + 1] = index
      /\ \A i \in 1..n : indices[i] = longer[i]
  OBVIOUS
<1> HIDE DEF longer
<1>2. PICK f : DerivedUpTo(f, key, indices, n) /\ DeriveIndices(key, indices) = f[n]
  BY <1>1, DeriveIs
<1>3. PICK g : DerivedUpTo(g, key, longer, n + 1) /\ DeriveIndices(key, longer) = g[n + 1]
  BY <1>1, DeriveIs
<1> HIDE DEF n
<1>4. /\ f[0] = key /\ \A k \in Nat : k + 1 <= n => f[k + 1] = Step(f[k], indices[k + 1])
      /\ g[0] = key /\ \A k \in Nat : k + 1 <= n + 1 => g[k + 1] = Step(g[k], longer[k + 1])
  <2>1. n + 1 \in Nat
    BY <1>1
  <2> QED BY <1>1, <1>2, <1>3, <2>1, DerivedRounds
<1> DEFINE T == {k \in Nat : k <= n => f[k] = g[k]}
<1>5. 0 \in T
  BY <1>4
<1>6. ASSUME NEW k \in T PROVE k + 1 \in T
  <2>1. CASE k + 1 <= n
    <3>1. k \in Nat /\ f[k] = g[k] /\ k + 1 \in 1..n /\ k + 1 <= n + 1
      BY <1>1, <2>1
    <3>2. f[k + 1] = g[k + 1]
      BY <1>1, <1>4, <2>1, <3>1
    <3> QED BY <3>1, <3>2
  <2> QED BY <2>1
<1>7. T = Nat
  <2>1. T \in SUBSET Nat
    OBVIOUS
  <2> HIDE DEF T
  <2> QED BY <1>5, <1>6, <2>1, NatSetInduction
<1>8. f[n] = g[n]
  BY <1>1, <1>7
<1>9. g[n + 1] = Step(g[n], longer[n + 1])
  BY <1>1, <1>4
<1> QED BY <1>1, <1>2, <1>3, <1>8, <1>9 DEF longer, n

LEMMA StepIs ==
  ASSUME NEW key, NEW index, Step(key, index) # Failed
  PROVE  key # Failed /\ Derivable(key, index) /\ Step(key, index) = Child(key, index)
  BY DEF Step

LEMMA DerivedKeyed ==
  ASSUME NEW X, NEW key, NEW form, NEW S, NEW n \in Nat, Keyed(key, form, S, n),
         NEW indices \in Seq(X), DeriveIndices(key, indices) # Failed
  PROVE  \E f, R : Keyed(DeriveIndices(key, indices), f, R, n + Len(indices))
<1> DEFINE T == {p \in Seq(X) : DeriveIndices(key, p) # Failed =>
                   \E f, R : Keyed(DeriveIndices(key, p), f, R, n + Len(p))}
<1>1. <<>> \in T
  <2>1. n + Len(<<>>) = n /\ <<>> \in Seq(X)
    OBVIOUS
  <2> QED BY <2>1, DeriveNothing
<1>2. ASSUME NEW p \in T, NEW i \in X PROVE Append(p, i) \in T
  <2>1. p \in Seq(X) /\ Append(p, i) \in Seq(X) /\ Len(p) \in Nat /\ Len(Append(p, i)) = Len(p) + 1
    OBVIOUS
  <2> SUFFICES ASSUME DeriveIndices(key, Append(p, i)) # Failed
               PROVE  \E f, R : Keyed(DeriveIndices(key, Append(p, i)), f, R, n + Len(Append(p, i)))
    BY <2>1
  <2> DEFINE parent == DeriveIndices(key, p)
  <2>2. DeriveIndices(key, Append(p, i)) = Step(parent, i)
    BY <2>1, DeriveAppend
  <2>3. parent # Failed /\ DeriveIndices(key, Append(p, i)) = Child(parent, i)
    BY <2>2, StepIs
  <2>4. PICK f, R : Keyed(parent, f, R, n + Len(p))
    BY <2>3
  <2> HIDE DEF parent
  <2>5. n + Len(p) \in Nat
    BY <2>1
  <2>6. \E g, Q : Keyed(Child(parent, i), g, Q, (n + Len(p)) + 1)
    BY <2>4, <2>5, ChildKeyed
  <2>7. (n + Len(p)) + 1 = n + Len(Append(p, i))
    BY <2>1
  <2> QED BY <2>3, <2>6, <2>7
<1>3. T = Seq(X)
  <2>1. T \in SUBSET Seq(X)
    OBVIOUS
  <2> HIDE DEF T
  <2> QED BY <1>1, <1>2, <2>1, SeqSetInduction
<1> QED BY <1>3

(* A chain code tells the way to it: its depth the number of indices, each *)
(* HMAC an index and the chain code it was taken under.                    *)
LEMMA DerivedDeep ==
  ASSUME NEW X, NEW key, NEW form, NEW S, NEW n \in Nat, Keyed(key, form, S, n),
         NEW p \in Seq(X), DeriveIndices(key, p) # Failed
  PROVE  Deep(DeriveIndices(key, p).ChainCode, n + Len(p)) /\ n + Len(p) \in Nat
<1>1. PICK f, R : Keyed(DeriveIndices(key, p), f, R, n + Len(p))
  BY DerivedKeyed
<1> QED BY <1>1 DEF Keyed, Topped

LEMMA DerivedChild ==
  ASSUME NEW X, NEW key, NEW form, NEW S, NEW n \in Nat, Keyed(key, form, S, n),
         NEW p \in Seq(X), NEW i \in X, DeriveIndices(key, Append(p, i)) # Failed
  PROVE  /\ DeriveIndices(key, p) # Failed
         /\ DeriveIndices(key, Append(p, i)).ChainCode
              = Hmac(DeriveIndices(key, p).ChainCode, Data(DeriveIndices(key, p), i))
<1> DEFINE parent == DeriveIndices(key, p)
<1>1. parent # Failed /\ DeriveIndices(key, Append(p, i)) = Child(parent, i)
  BY DeriveAppend, StepIs
<1>2. PICK f, R : Keyed(parent, f, R, n + Len(p))
  BY <1>1, DerivedKeyed
<1> HIDE DEF parent
<1>3. n + Len(p) \in Nat
  OBVIOUS
<1>4. Child(parent, i).ChainCode = Hmac(parent.ChainCode, Data(parent, i))
  BY <1>2, <1>3, ChildKeyed
<1> QED BY <1>1, <1>4 DEF parent

LEMMA ChainTells ==
  ASSUME NEW X, NEW key, NEW form, NEW S, NEW n \in Nat, Keyed(key, form, S, n),
         NEW p \in Seq(X), NEW q \in Seq(X),
         DeriveIndices(key, p) # Failed, DeriveIndices(key, q) # Failed,
         DeriveIndices(key, p).ChainCode = DeriveIndices(key, q).ChainCode
  PROVE  p = q
<1> DEFINE D(s) == DeriveIndices(key, s)
           T == {s \in Seq(X) : \A t \in Seq(X) :
                   D(s) # Failed /\ D(t) # Failed /\ D(s).ChainCode = D(t).ChainCode => s = t}
<1>1. ASSUME NEW s \in Seq(X), NEW t \in Seq(X),
             D(s) # Failed, D(t) # Failed, D(s).ChainCode = D(t).ChainCode
      PROVE  Len(s) = Len(t)
  <2>1. Deep(D(s).ChainCode, n + Len(s)) /\ n + Len(s) \in Nat
    BY <1>1, DerivedDeep
  <2>2. Deep(D(t).ChainCode, n + Len(t)) /\ n + Len(t) \in Nat
    BY <1>1, DerivedDeep
  <2>3. n + Len(s) = n + Len(t)
    BY <1>1, <2>1, <2>2, OneDepth
  <2> QED BY <2>3
<1>2. <<>> \in T
  <2>1. <<>> \in Seq(X) /\ Len(<<>>) = 0 /\ \A t \in Seq(X) : Len(t) = 0 => t = <<>>
    BY EmptySeq
  <2> HIDE DEF D
  <2> QED BY <1>1, <2>1
<1>3. ASSUME NEW s \in T, NEW i \in X PROVE Append(s, i) \in T
  <2>1. s \in Seq(X) /\ Append(s, i) \in Seq(X) /\ Len(s) \in Nat /\ Len(Append(s, i)) = Len(s) + 1
    OBVIOUS
  <2>2. \A t \in Seq(X) :
          D(s) # Failed /\ D(t) # Failed /\ D(s).ChainCode = D(t).ChainCode => s = t
    BY <1>3
  <2> SUFFICES ASSUME NEW t \in Seq(X), D(Append(s, i)) # Failed, D(t) # Failed,
                      D(Append(s, i)).ChainCode = D(t).ChainCode
               PROVE  Append(s, i) = t
    BY <2>1
  <2>3. Len(t) = Len(s) + 1
    BY <1>1, <2>1
  <2>4. t # <<>>
    BY <2>1, <2>3
  <2>5. PICK u \in Seq(X), j \in X : t = Append(u, j)
    BY <2>4, SequenceEmptyOrAppend
  <2>6. D(s) # Failed /\ D(Append(s, i)).ChainCode = Hmac(D(s).ChainCode, Data(D(s), i))
    BY <2>1, DerivedChild
  <2>7. D(u) # Failed /\ D(Append(u, j)).ChainCode = Hmac(D(u).ChainCode, Data(D(u), j))
    BY <2>5, DerivedChild
  <2> HIDE DEF D
  <2>8. D(s).ChainCode = D(u).ChainCode /\ Data(D(s), i) = Data(D(u), j)
    <3>1. Hmac(D(s).ChainCode, Data(D(s), i)) = Hmac(D(u).ChainCode, Data(D(u), j))
      BY <2>5, <2>6, <2>7
    <3> QED BY <3>1, HmacIs
  <2>9. s = u
    BY <2>2, <2>6, <2>7, <2>8
  <2>10. i = j
    <3>1. Data(D(s), i)[2] = i /\ Data(D(u), j)[2] = j
      BY DEF Data
    <3> QED BY <2>8, <3>1
  <2> QED BY <2>5, <2>9, <2>10
<1>4. T = Seq(X)
  <2>1. T \in SUBSET Seq(X)
    OBVIOUS
  <2> HIDE DEF T
  <2> QED BY <1>2, <1>3, <2>1, SeqSetInduction
<1> QED BY <1>4

LEMMA KeyedIsNone ==
  ASSUME NEW key, NEW f, NEW S, NEW n, Keyed(key, f, S, n)
  PROVE  key # NoKey /\ key # Failed
<1>1. "Version" \in DOMAIN key
  <2>1. key = [Version |-> key.Version, Depth |-> key.Depth, ParentF |-> key.ParentF,
               ChildNum |-> key.ChildNum, ChainCode |-> key.ChainCode, Key |-> key.Key,
               IsPrivate |-> key.IsPrivate]
    BY DEF Keyed, IsKey
  <2> QED BY <2>1
<1>2. "Version" \notin DOMAIN NoKey /\ "Version" \notin DOMAIN Failed
  BY DEF NoKey, Failed
<1> QED BY <1>1, <1>2

HashedForm(f) == IF f = "private" THEN "public" ELSE f

LEMMA HashedIs ==
  ASSUME NEW key, NEW f, NEW S, NEW n, Keyed(key, f, S, n)
  PROVE  Hashed(key) = Bytes33(HashedForm(f), S) /\ HashedForm(f) \in Form
<1>1. f \in Form /\ key.Key = Bytes33(f, S) /\ key.IsPrivate = (f = "private")
  BY DEF Keyed
<1>2. CASE f = "private"
  <2>1. Hashed(key) = PublicBytes(S)
    BY <1>2, PublicKeyed DEF Hashed
  <2> QED BY <1>2, <2>1 DEF Bytes33, Form, HashedForm
<1>3. CASE f # "private"
  <2>1. AsPublic(key) = key
    BY <1>1, <1>3 DEF AsPublic
  <2> QED BY <1>1, <1>3, <2>1 DEF Hashed, HashedForm
<1> QED BY <1>2, <1>3

(* Two keys with the same bytes, or the same address, share their halves.  *)
LEMMA KeysTell ==
  ASSUME NEW k1, NEW f, NEW S, NEW n \in Nat, Keyed(k1, f, S, n),
         NEW k2, NEW g, NEW R, NEW m \in Nat, Keyed(k2, g, R, m),
         k1.Key = k2.Key \/ Hashed(k1) = Hashed(k2)
  PROVE  S = R /\ k1.ChainCode = k2.ChainCode /\ n = m
<1>1. f \in Form /\ g \in Form /\ k1.Key = Bytes33(f, S) /\ k2.Key = Bytes33(g, R)
      /\ Topped(S, k1.ChainCode, n) /\ Topped(R, k2.ChainCode, m)
  BY DEF Keyed
<1>2. Hashed(k1) = Bytes33(HashedForm(f), S) /\ HashedForm(f) \in Form
  BY HashedIs
<1>3. Hashed(k2) = Bytes33(HashedForm(g), R) /\ HashedForm(g) \in Form
  BY HashedIs
<1>4. S = R
  <2>1. CASE k1.Key = k2.Key
    <3>1. Bytes33(f, S) = Bytes33(g, R)
      BY <1>1, <2>1
    <3> QED BY <1>1, <3>1, BytesTell
  <2>2. CASE Hashed(k1) = Hashed(k2)
    <3> DEFINE a == HashedForm(f)
               b == HashedForm(g)
    <3>1. a \in Form /\ b \in Form /\ Bytes33(a, S) = Bytes33(b, R)
      BY <1>2, <1>3, <2>2
    <3> HIDE DEF a, b
    <3> QED BY <3>1, BytesTell
  <2> QED BY <2>1, <2>2
<1> QED BY <1>1, <1>4, ToppedTells

(***************************************************************************)
(* The invariant of the derivations: the key in hand is the one its route  *)
(* leads to from the key it began with, which is one of some depth.        *)
(***************************************************************************)
HDInv ==
  ek # NoKey =>
    /\ \E n \in Nat : \E f, S : Keyed(root, f, S, n)
    /\ route \in Seq(Index) /\ Len(route) <= MaxRoute
    /\ ek = DeriveIndices(root, route) /\ ek # Failed

LEMMA InHandKeyed ==
  ASSUME HDInv, ek # NoKey
  PROVE  \E n \in Nat : \E f, S : Keyed(ek, f, S, n)
<1>1. PICK n \in Nat : \E f, S : Keyed(root, f, S, n)
  BY DEF HDInv
<1>2. PICK f, S : Keyed(root, f, S, n)
  BY <1>1
<1>3. route \in Seq(Index) /\ ek = DeriveIndices(root, route) /\ ek # Failed
  BY DEF HDInv
<1>4. \E g, R : Keyed(ek, g, R, n + Len(route))
  BY <1>2, <1>3, DerivedKeyed
<1>5. n + Len(route) \in Nat
  BY <1>3
<1> QED BY <1>4, <1>5

LEMMA BeginInv ==
  ASSUME NEW key, NEW n \in Nat, NEW f, NEW S, Keyed(key, f, S, n), Begin(key)
  PROVE  HDInv'
<1>1. ek' = key /\ root' = key /\ route' = <<>>
  BY DEF Begin
<1>2. key = DeriveIndices(key, <<>>) /\ key # Failed
  BY DeriveNothing, KeyedIsNone
<1>3. <<>> \in Seq(Index) /\ Len(<<>>) <= MaxRoute
  BY HDAssumption
<1> QED BY <1>1, <1>2, <1>3 DEF HDInv

LEMMA HDStep ==
  ASSUME HDInv, [HDNext]_vars
  PROVE  HDInv'
<1>1. ASSUME NEW seed \in Seed, NewMasterKey(seed) PROVE HDInv'
  BY <1>1, MasterKeyed, BeginInv DEF NewMasterKey
<1>2. ASSUME ek.IsPrivate
      PROVE  \E n \in Nat : \E S : Keyed(ek, "private", S, n)
  <2>1. ek # NoKey
    BY <1>2 DEF NoKey
  <2>2. PICK n \in Nat : \E f, S : Keyed(ek, f, S, n)
    BY <2>1, InHandKeyed
  <2>3. PICK f, S : Keyed(ek, f, S, n)
    BY <2>2
  <2>4. f = "private"
    BY <1>2, <2>3 DEF Keyed
  <2> QED BY <2>3, <2>4
<1>3. CASE PublicKey
  <2>1. ek.IsPrivate /\ Begin(AsPublic(ek))
    BY <1>3 DEF PublicKey
  <2>2. PICK n \in Nat : \E S : Keyed(ek, "private", S, n)
    BY <1>2, <2>1
  <2>3. \E S : Keyed(AsPublic(ek), "public", S, n)
    BY <2>2, PublicKeyed
  <2> QED BY <2>1, <2>3, BeginInv
<1>4. CASE NeuteredKey
  <2>1. ek.IsPrivate /\ Begin(Neutered(ek))
    BY <1>4 DEF NeuteredKey
  <2>2. PICK n \in Nat : \E S : Keyed(ek, "private", S, n)
    BY <1>2, <2>1
  <2>3. \E S : Keyed(Neutered(ek), "bare", S, n)
    BY <2>2, NeuteredKeyed
  <2> QED BY <2>1, <2>3, BeginInv
<1>5. ASSUME NEW index \in Index, ChildKey(index) PROVE HDInv'
  <2>1. /\ ek # NoKey /\ Derivable(ek, index) /\ Len(route) < MaxRoute
        /\ ek' = Child(ek, index) /\ route' = Append(route, index) /\ root' = root
    BY <1>5 DEF ChildKey
  <2>2. route \in Seq(Index) /\ ek = DeriveIndices(root, route) /\ ek # Failed
        /\ \E n \in Nat : \E f, S : Keyed(root, f, S, n)
    BY <2>1 DEF HDInv
  <2>3. ek' = Step(ek, index)
    BY <2>1, <2>2 DEF Step
  <2>4. ek' = DeriveIndices(root, Append(route, index))
    BY <2>2, <2>3, DeriveAppend
  <2>5. ek' # Failed
    <3>1. PICK n \in Nat : \E f, S : Keyed(ek, f, S, n)
      BY <2>1, InHandKeyed
    <3>2. \E f, S : Keyed(Child(ek, index), f, S, n + 1)
      BY <3>1, ChildKeyed
    <3> QED BY <2>1, <3>2, KeyedIsNone
  <2>6. Append(route, index) \in Seq(Index) /\ Len(Append(route, index)) <= MaxRoute
    BY <2>1, <2>2, HDAssumption
  <2> QED BY <2>1, <2>2, <2>4, <2>5, <2>6 DEF HDInv
<1>6. CASE UNCHANGED vars
  BY <1>6 DEF vars, HDInv
<1> QED BY <1>1, <1>3, <1>4, <1>5, <1>6 DEF HDNext

LEMMA HDInvCorrect == HDSpec => []HDInv
<1>1. HDInit => HDInv
  BY DEF HDInit, HDInv
<1> QED BY <1>1, HDStep, PTL DEF HDSpec

(* Two different derivations from the same key lead to keys that share     *)
(* neither key, nor chain code, nor address.                               *)
THEOREM RoutesSeparateCorrect == HDSpec => []RoutesSeparate
<1>1. HDInv => RoutesSeparate
  <2> SUFFICES ASSUME HDInv, ek # NoKey, NEW other \in BoundedSeq(Index, MaxRoute),
                      DeriveIndices(root, other) # Failed,
                      \/ DeriveIndices(root, other).Key = ek.Key
                      \/ DeriveIndices(root, other).ChainCode = ek.ChainCode
                      \/ Hashed(DeriveIndices(root, other)) = Hashed(ek)
               PROVE  other = route
    BY DEF RoutesSeparate
  <2>1. other \in Seq(Index)
    BY HDAssumption DEF BoundedSeq, SeqOf
  <2>2. route \in Seq(Index) /\ ek = DeriveIndices(root, route) /\ ek # Failed
    BY DEF HDInv
  <2>3. PICK n \in Nat : \E f, S : Keyed(root, f, S, n)
    BY DEF HDInv
  <2>4. PICK f, S : Keyed(root, f, S, n)
    BY <2>3
  <2> DEFINE key == DeriveIndices(root, other)
  <2>5. PICK g, R : Keyed(key, g, R, n + Len(other))
    BY <2>1, <2>4, DerivedKeyed
  <2>6. PICK h, Q : Keyed(ek, h, Q, n + Len(route))
    BY <2>2, <2>4, DerivedKeyed
  <2>7. key.ChainCode = ek.ChainCode
    <3>1. n + Len(other) \in Nat /\ n + Len(route) \in Nat
      BY <2>1, <2>2
    <3>2. key.ChainCode = ek.ChainCode \/ key.Key = ek.Key \/ Hashed(key) = Hashed(ek)
      OBVIOUS
    <3> HIDE DEF key
    <3> QED BY <2>5, <2>6, <3>1, <3>2, KeysTell
  <2>8. key # Failed
    OBVIOUS
  <2> QED BY <2>1, <2>2, <2>4, <2>7, <2>8, ChainTells
<1> QED BY <1>1, HDInvCorrect, PTL

(* The public side of a private key, and what NeuteredKey makes of it. *)
THEOREM PublicSideCorrect == HDSpec => []PublicSide
<1>1. HDInv => PublicSide
  <2> SUFFICES ASSUME HDInv, ek # NoKey, ek.IsPrivate, NEW index \in 0..(hardenedOffset - 1)
               PROVE  LET private == Child(ek, index)
                          public == Child(AsPublic(ek), index)
                          neutered == Child(Neutered(ek), index)
                      IN  /\ Hashed(AsPublic(ek)) = Hashed(ek)
                          /\ public.ChainCode = private.ChainCode
                          /\ Hashed(public) # Hashed(private)
                          /\ Hashed(Neutered(ek)) # Hashed(ek)
                          /\ neutered.ChainCode # private.ChainCode
    BY DEF PublicSide
  <2>1. PICK n \in Nat : \E f, S : Keyed(ek, f, S, n)
    BY InHandKeyed
  <2>2. PICK S : Keyed(ek, "private", S, n)
    <3>1. PICK f, S : Keyed(ek, f, S, n)
      BY <2>1
    <3>2. f = "private"
      BY <3>1 DEF Keyed
    <3> QED BY <3>1, <3>2
  <2> DEFINE pub == AsPublic(ek)
             cut == Neutered(ek)
             c == ek.ChainCode
  <2>3. Keyed(pub, "public", S, n) /\ pub.Key = PublicBytes(S) /\ pub.ChainCode = c
    BY <2>2, PublicKeyed
  <2>4. Keyed(cut, "bare", S, n) /\ cut.Key = <<[scalar |-> S]>> /\ cut.ChainCode = c
    BY <2>2, NeuteredKeyed
  <2>5. AsPublic(pub) = pub /\ AsPublic(cut) = cut
    BY <2>3, <2>4 DEF Keyed, AsPublic
  <2>6. Hashed(pub) = PublicBytes(S) /\ Hashed(ek) = PublicBytes(S)
        /\ Hashed(cut) = <<[scalar |-> S]>>
    BY <2>3, <2>4, <2>5 DEF Hashed
  <2>7. ~(index >= hardenedOffset)
    BY HDAssumption DEF hardenedOffset
  <2>8. /\ Data(ek, index) = <<PublicBytes(S), index>>
        /\ Data(pub, index) = <<PublicBytes(S), index>>
        /\ Data(cut, index) = <<<<[scalar |-> S]>>, index>>
    BY <2>3, <2>4, <2>5, <2>7 DEF Data
  <2> HIDE DEF pub, cut, c
  <2>9. PublicBytes(S) # <<[scalar |-> S]>>
    <3>1. Len(PublicBytes(S)) = 2 /\ Len(<<[scalar |-> S]>>) = 1
      BY DEF PublicBytes
    <3> QED BY <3>1
  <2> DEFINE il == Hmac(c, <<PublicBytes(S), index>>)
             nl == Hmac(c, <<<<[scalar |-> S]>>, index>>)
  <2>10. Child(ek, index).ChainCode = il /\ Keyed(Child(ek, index), "private", S \cup {il}, n + 1)
    BY <2>2, <2>8, ChildKeyed DEF ChildForm, ChildHalves, c
  <2>11. Child(pub, index).ChainCode = il /\ Keyed(Child(pub, index), "public", {il}, n + 1)
    BY <2>3, <2>8, ChildKeyed DEF ChildForm, ChildHalves
  <2>12. Child(cut, index).ChainCode = nl
    BY <2>4, <2>8, ChildKeyed
  <2>13. il # nl
    <3>1. <<PublicBytes(S), index>>[1] = PublicBytes(S)
          /\ <<<<[scalar |-> S]>>, index>>[1] = <<[scalar |-> S]>>
      OBVIOUS
    <3>2. <<PublicBytes(S), index>> # <<<<[scalar |-> S]>>, index>>
      BY <2>9, <3>1
    <3> QED BY <3>2, HmacIs
  <2>14. Hashed(Child(pub, index)) # Hashed(Child(ek, index))
    <3>1. c \in S /\ Deep(c, n) /\ Deep(il, n + 1)
      <4>1. Topped(S, c, n) /\ Topped({il}, il, n + 1)
        BY <2>2, <2>11 DEF Keyed, c
      <4> QED BY <4>1 DEF Topped
    <3> HIDE DEF il
    <3>2. c # il
      <4>1. n + 1 \in Nat /\ n + 1 # n
        OBVIOUS
      <4> QED BY <3>1, <4>1, OneDepth
    <3>3. {il} # S \cup {il}
      BY <3>1, <3>2
    <3>4. n + 1 \in Nat
      OBVIOUS
    <3> QED BY <2>10, <2>11, <3>3, <3>4, KeysTell
  <2> HIDE DEF il, nl
  <2> QED BY <2>6, <2>9, <2>10, <2>11, <2>12, <2>13, <2>14 DEF pub, cut
<1> QED BY <1>1, HDInvCorrect, PTL

(***************************************************************************)
(* Printing and reading: the text is the key and four bytes of checksum.   *)
(***************************************************************************)
Head78(key) ==
  [Version |-> key.Version, Depth |-> key.Depth, ParentF |-> key.ParentF,
   ChildNum |-> key.ChildNum, ChainCode |-> key.ChainCode]

LEMMA StringIs ==
  ASSUME NEW key
  PROVE  String(key) = [head |-> Head78(key), tail |-> key.Key \o Checksum(<<Head78(key), key.Key>>)]
  BY DEF String, Head78

LEMMA ChecksumIs ==
  ASSUME NEW data
  PROVE  \E a, b, c, d : Checksum(data) = <<a, b, c, d>>
  BY DEF Checksum

LEMMA PairThenFour ==
  ASSUME NEW x, NEW y, NEW a, NEW b, NEW c, NEW d
  PROVE  <<x, y>> \o <<a, b, c, d>> = <<x, y, a, b, c, d>>
<1> DEFINE S == {x, y, a, b, c, d}
           p == <<x, y>>
           q == <<a, b, c, d>>
           r == <<x, y, a, b, c, d>>
<1>1. p \in Seq(S) /\ q \in Seq(S) /\ r \in Seq(S) /\ Len(p) = 2 /\ Len(q) = 4 /\ Len(r) = 6
  OBVIOUS
<1>2. /\ p \o q \in Seq(S) /\ Len(p \o q) = 6
      /\ \A i \in 1..6 : (p \o q)[i] = IF i <= 2 THEN p[i] ELSE q[i - 2]
  <2> HIDE DEF p, q, r, S
  <2>1. p \o q \in Seq(S) /\ Len(p \o q) = Len(p) + Len(q)
    BY <1>1, ConcatProperties
  <2>2. \A i \in 1..(Len(p) + Len(q)) :
          (p \o q)[i] = IF i <= Len(p) THEN p[i] ELSE q[i - Len(p)]
    BY <1>1, ConcatProperties
  <2>3. Len(p) + Len(q) = 6
    BY <1>1
  <2>4. \A i \in 1..6 : (p \o q)[i] = IF i <= 2 THEN p[i] ELSE q[i - 2]
    BY <1>1, <2>2, <2>3, Zenon
  <2> QED BY <2>1, <2>3, <2>4
<1>3. \A i \in 1..6 : r[i] = IF i <= 2 THEN p[i] ELSE q[i - 2]
  OBVIOUS
<1> HIDE DEF p, q, r, S
<1>4. p \o q = r
  <2> DEFINE t == p \o q
  <2>1. t \in Seq(S) /\ r \in Seq(S) /\ Len(t) = 6 /\ Len(r) = 6
    BY <1>1, <1>2
  <2>2. \A i \in 1..6 : t[i] = r[i]
    BY <1>2, <1>3, Zenon
  <2> HIDE DEF t
  <2>3. t = r
    BY <2>1, <2>2, SeqEqual
  <2> QED BY <2>3 DEF t
<1> QED BY <1>4 DEF p, q, r

LEMMA SixInParts ==
  ASSUME NEW x, NEW y, NEW a, NEW b, NEW c, NEW d
  PROVE  LET r == <<x, y, a, b, c, d>>
         IN  Len(r) = 6 /\ SubSeq(r, 3, 6) = <<a, b, c, d>> /\ SubSeq(r, 1, 2) = <<x, y>>
<1> DEFINE S == {x, y, a, b, c, d}
           r == <<x, y, a, b, c, d>>
<1>1. /\ r \in Seq(S) /\ Len(r) = 6 /\ r[1] = x /\ r[2] = y
      /\ r[3] = a /\ r[4] = b /\ r[5] = c /\ r[6] = d
  OBVIOUS
<1> HIDE DEF r
<1>2. SubSeq(r, 3, 6) = <<a, b, c, d>>
  <2> DEFINE q == <<a, b, c, d>>
             t == SubSeq(r, 3, 6)
  <2>1. q \in Seq(S) /\ Len(q) = 4 /\ q[1] = a /\ q[2] = b /\ q[3] = c /\ q[4] = d
    OBVIOUS
  <2>2. t \in Seq(S) /\ Len(t) = 4 /\ \A i \in 1..4 : t[i] = r[i + 2]
    BY <1>1, SubSeqProperties
  <2>3. t[1] = a /\ t[2] = b /\ t[3] = c /\ t[4] = d
    BY <1>1, <2>2
  <2> HIDE DEF q, t
  <2>4. \A i \in 1..4 : t[i] = q[i]
    BY <2>1, <2>3
  <2> QED BY <2>1, <2>2, <2>4, SeqEqual DEF q, t
<1>3. SubSeq(r, 1, 2) = <<x, y>>
  <2> DEFINE q == <<x, y>>
             t == SubSeq(r, 1, 2)
  <2>1. q \in Seq(S) /\ Len(q) = 2 /\ q[1] = x /\ q[2] = y
    OBVIOUS
  <2>2. t \in Seq(S) /\ Len(t) = 2 /\ \A i \in 1..2 : t[i] = r[i]
    BY <1>1, SubSeqProperties
  <2> HIDE DEF q, t
  <2>3. \A i \in 1..2 : t[i] = q[i]
    BY <1>1, <2>1, <2>2
  <2> QED BY <2>1, <2>2, <2>3, SeqEqual DEF q, t
<1> QED BY <1>1, <1>2, <1>3 DEF r

(* A key of a byte and 32 more. *)
LEMMA WholeReadBack ==
  ASSUME NEW key, NEW x, NEW y, IsKey(key), key.Key = <<x, y>>, Has32(y),
         StartsWithZero(<<x, y>> \o Checksum(<<Head78(key), key.Key>>)) = key.IsPrivate
  PROVE  ParseExtendedKey(String(key)) = key
<1> DEFINE data == <<Head78(key), key.Key>>
           tail == <<x, y>> \o Checksum(data)
<1>1. PICK a, b, c, d : Checksum(data) = <<a, b, c, d>>
  BY ChecksumIs
<1> HIDE DEF data
<1>2. tail = <<x, y, a, b, c, d>>
  BY <1>1, PairThenFour
<1> HIDE DEF tail
<1>3. Len(tail) = 6 /\ SubSeq(tail, 3, 6) = <<a, b, c, d>> /\ SubSeq(tail, 1, 2) = <<x, y>>
  BY <1>2, SixInParts
<1>4. String(key).head = Head78(key) /\ String(key).tail = tail
  BY StringIs DEF tail, data
<1>5. SubSeq(tail, 3, 6) = Checksum(<<Head78(key), SubSeq(tail, 1, 2)>>)
  BY <1>1, <1>3 DEF data
<1>6. StartsWithZero(tail) = key.IsPrivate
  BY DEF tail, data
<1>7. ParseExtendedKey(String(key))
        = [Version |-> Head78(key).Version, Depth |-> Head78(key).Depth,
           ParentF |-> Head78(key).ParentF, ChildNum |-> Head78(key).ChildNum,
           ChainCode |-> Head78(key).ChainCode, Key |-> SubSeq(tail, 1, 2),
           IsPrivate |-> StartsWithZero(tail)]
  <2>1. Len(tail) - 3 = 3 /\ Len(tail) - 4 = 2
    BY <1>3
  <2>2. tail[2] = y
    BY <1>2
  <2>3. ~TooShort(tail)
    BY <1>3, <2>2 DEF TooShort
  <2> QED BY <1>3, <1>4, <1>5, <2>1, <2>3 DEF ParseExtendedKey
<1> QED BY <1>3, <1>6, <1>7 DEF IsKey, Head78

(* A key that lacks its byte. *)
LEMMA OneThenFour ==
  ASSUME NEW x, NEW a, NEW b, NEW c, NEW d
  PROVE  LET r == <<x>> \o <<a, b, c, d>>
         IN  /\ Len(r) = 5 /\ SubSeq(r, 2, 5) = <<a, b, c, d>> /\ SubSeq(r, 1, 1) = <<x>>
             /\ SubSeq(r, 1, 2) = <<x, a>> /\ r[1] = x
<1> DEFINE S == {x, a, b, c, d}
           p == <<x>>
           q == <<a, b, c, d>>
           r == p \o q
<1>1. /\ p \in Seq(S) /\ q \in Seq(S) /\ Len(p) = 1 /\ Len(q) = 4
      /\ p[1] = x /\ q[1] = a /\ q[2] = b /\ q[3] = c /\ q[4] = d
  OBVIOUS
<1> HIDE DEF p, q
<1>2. /\ r \in Seq(S) /\ Len(r) = 5
      /\ r[1] = x /\ r[2] = a /\ r[3] = b /\ r[4] = c /\ r[5] = d
  <2> HIDE DEF S
  <2>1. r \in Seq(S) /\ Len(r) = Len(p) + Len(q)
    BY <1>1, ConcatProperties
  <2>2. \A i \in 1..(Len(p) + Len(q)) : r[i] = IF i <= Len(p) THEN p[i] ELSE q[i - Len(p)]
    BY <1>1, ConcatProperties
  <2>3. Len(p) + Len(q) = 5
    BY <1>1
  <2>4. \A i \in 1..5 : r[i] = IF i <= 1 THEN p[i] ELSE q[i - 1]
    BY <1>1, <2>2, <2>3, Zenon
  <2> HIDE DEF r
  <2>5. r[1] = p[1] /\ r[2] = q[1] /\ r[3] = q[2] /\ r[4] = q[3] /\ r[5] = q[4]
    BY <2>4
  <2> QED BY <1>1, <2>1, <2>3, <2>5
<1> HIDE DEF r
<1>3. SubSeq(r, 2, 5) = q
  <2> DEFINE t == SubSeq(r, 2, 5)
  <2>1. t \in Seq(S) /\ Len(t) = 4 /\ \A i \in 1..4 : t[i] = r[i + 1]
    BY <1>2, SubSeqProperties
  <2>2. t[1] = a /\ t[2] = b /\ t[3] = c /\ t[4] = d
    BY <1>2, <2>1
  <2> HIDE DEF t, S
  <2>3. \A i \in 1..4 : t[i] = q[i]
    BY <1>1, <2>2
  <2> QED BY <1>1, <2>1, <2>3, SeqEqual DEF t
<1>4. SubSeq(r, 1, 1) = p
  <2> DEFINE t == SubSeq(r, 1, 1)
  <2>1. t \in Seq(S) /\ Len(t) = 1 /\ \A i \in 1..1 : t[i] = r[i]
    BY <1>2, SubSeqProperties
  <2> HIDE DEF t, S
  <2>2. \A i \in 1..1 : t[i] = p[i]
    BY <1>1, <1>2, <2>1
  <2> QED BY <1>1, <2>1, <2>2, SeqEqual DEF t
<1>5. SubSeq(r, 1, 2) = <<x, a>>
  <2> DEFINE t == SubSeq(r, 1, 2)
             u == <<x, a>>
  <2>1. t \in Seq(S) /\ Len(t) = 2 /\ \A i \in 1..2 : t[i] = r[i]
    BY <1>2, SubSeqProperties
  <2>2. u \in Seq(S) /\ Len(u) = 2 /\ u[1] = x /\ u[2] = a
    OBVIOUS
  <2> HIDE DEF t, u, S
  <2>3. \A i \in 1..2 : t[i] = u[i]
    BY <1>2, <2>1, <2>2
  <2> QED BY <2>1, <2>2, <2>3, SeqEqual DEF t, u
<1> QED BY <1>2, <1>3, <1>4, <1>5 DEF p, q, r

LEMMA BareReadBack ==
  ASSUME NEW key, NEW x, key.Key = <<x>>, Has32(x)
  PROVE  LET read == ParseExtendedKey(String(key))
             tail == key.Key \o Checksum(<<Head78(key), key.Key>>)
         IN  /\ read # Failed /\ Len(read.Key) = 2 /\ tail[1] = x
             /\ read.IsPrivate = StartsWithZero(tail)
<1> DEFINE data == <<Head78(key), key.Key>>
           tail == <<x>> \o Checksum(data)
           read == ParseExtendedKey(String(key))
<1>1. PICK a, b, c, d : Checksum(data) = <<a, b, c, d>>
  BY ChecksumIs
<1> HIDE DEF data
<1>2. /\ Len(tail) = 5 /\ SubSeq(tail, 2, 5) = <<a, b, c, d>> /\ SubSeq(tail, 1, 1) = <<x>>
      /\ SubSeq(tail, 1, 2) = <<x, a>> /\ tail[1] = x
  BY <1>1, OneThenFour
<1> HIDE DEF tail
<1>3. String(key).head = Head78(key) /\ String(key).tail = tail
  BY StringIs DEF tail, data
<1>4. SubSeq(tail, 2, 5) = Checksum(<<Head78(key), SubSeq(tail, 1, 1)>>)
  BY <1>1, <1>2 DEF data
<1>5. read = [Version |-> Head78(key).Version, Depth |-> Head78(key).Depth,
              ParentF |-> Head78(key).ParentF, ChildNum |-> Head78(key).ChildNum,
              ChainCode |-> Head78(key).ChainCode, Key |-> SubSeq(tail, 1, 2),
              IsPrivate |-> StartsWithZero(tail)]
  <2>1. Len(tail) - 3 = 2 /\ Len(tail) - 4 = 1
    BY <1>2
  <2>2. ~TooShort(tail)
    BY <1>2 DEF TooShort
  <2> QED BY <1>2, <1>3, <1>4, <2>1, <2>2 DEF ParseExtendedKey
<1> HIDE DEF read
<1>6. "Version" \in DOMAIN read /\ "Version" \notin DOMAIN Failed
  BY <1>5 DEF Failed
<1>7. read.Key = <<x, a>> /\ read.IsPrivate = StartsWithZero(tail)
  BY <1>2, <1>5
<1> QED BY <1>2, <1>6, <1>7 DEF tail, data, read

(* A printed key read again is the same key, but for one that NeuteredKey  *)
(* made.                                                                   *)
THEOREM PrintedKeyReadBackCorrect == HDSpec => []PrintedKeyReadBack
<1>1. HDInv => PrintedKeyReadBack
  <2> SUFFICES ASSUME HDInv, ek # NoKey
               PROVE  LET read == ParseExtendedKey(String(ek))
                      IN  IF Len(ek.Key) = 2 THEN read = ek /\ Hashed(read) = Hashed(ek)
                          ELSE /\ read # Failed /\ read.Key # ek.Key
                               /\ read.IsPrivate <=> LeadsWithZero(ek.Key[1].scalar)
    BY DEF PrintedKeyReadBack
  <2>1. PICK n \in Nat : \E f, S : Keyed(ek, f, S, n)
    BY InHandKeyed
  <2>2. PICK f, S : Keyed(ek, f, S, n)
    BY <2>1
  <2>3. f \in Form /\ ek.Key = Bytes33(f, S) /\ ek.IsPrivate = (f = "private") /\ IsKey(ek)
    BY <2>2 DEF Keyed
  <2>4. Len(ek.Key) = IF f = "bare" THEN 1 ELSE 2
    BY <2>3, BytesTell
  <2> DEFINE sum == Checksum(<<Head78(ek), ek.Key>>)
             tail == ek.Key \o sum
  <2>5. PICK a, b, c, d : sum = <<a, b, c, d>>
    BY ChecksumIs
  <2> HIDE DEF sum
  <2>6. CASE f \in {"private", "public"}
    <3> DEFINE x == IF f = "private" THEN Zero ELSE [byte |-> "sign"]
               y == IF f = "private" THEN [scalar |-> S] ELSE [point |-> S]
    <3>1. ek.Key = <<x, y>>
      BY <2>3, <2>6 DEF Bytes33, PrivateBytes, PublicBytes
    <3>2. tail[1] = x
      <4> HIDE DEF x, y
      <4>1. tail = <<x, y, a, b, c, d>>
        BY <2>5, <3>1, PairThenFour
      <4> QED BY <4>1
    <3>3. StartsWithZero(tail) = (f = "private")
      <4> HIDE DEF tail
      <4>1. CASE f = "private"
        BY <3>2, <4>1 DEF StartsWithZero
      <4>2. CASE f = "public"
        <5>1. x = [byte |-> "sign"] /\ x # Zero /\ "scalar" \notin DOMAIN x
          BY <4>2 DEF Zero
        <5> QED BY <3>2, <4>2, <5>1 DEF StartsWithZero
      <4> QED BY <2>6, <4>1, <4>2
    <3>6. Has32(y)
      BY DEF Has32
    <3> HIDE DEF x, y
    <3>4. ParseExtendedKey(String(ek)) = ek
      <4>1. StartsWithZero(<<x, y>> \o Checksum(<<Head78(ek), ek.Key>>)) = ek.IsPrivate
        BY <2>3, <3>1, <3>3 DEF tail, sum
      <4> QED BY <2>3, <3>1, <3>6, <4>1, WholeReadBack
    <3>5. Len(ek.Key) = 2
      BY <2>4, <2>6
    <3> QED BY <3>4, <3>5
  <2>7. CASE f = "bare"
    <3> DEFINE x == [scalar |-> S]
               read == ParseExtendedKey(String(ek))
    <3>1. ek.Key = <<x>> /\ Len(ek.Key) = 1 /\ ek.Key[1] = x
      BY <2>3, <2>7 DEF Bytes33
    <3>2. x # Zero /\ "scalar" \in DOMAIN x /\ x.scalar = S
      <4>1. "scalar" \notin DOMAIN Zero /\ "scalar" \in DOMAIN x
        BY DEF Zero
      <4> QED BY <4>1
    <3>6. Has32(x)
      BY <3>2 DEF Has32
    <3> HIDE DEF x
    <3>3. read # Failed /\ Len(read.Key) = 2 /\ tail[1] = x /\ read.IsPrivate = StartsWithZero(tail)
      BY <3>1, <3>6, BareReadBack DEF tail, sum
    <3> HIDE DEF read, tail
    <3>4. StartsWithZero(tail) <=> LeadsWithZero(x.scalar)
      BY <3>2, <3>3 DEF StartsWithZero
    <3>5. read.IsPrivate <=> LeadsWithZero(ek.Key[1].scalar)
      BY <3>1, <3>3, <3>4
    <3> QED BY <3>1, <3>3, <3>5 DEF read
  <2> QED BY <2>3, <2>6, <2>7 DEF Form
<1> QED BY <1>1, HDInvCorrect, PTL

(***************************************************************************)
(* Paths of text.                                                          *)
(***************************************************************************)
KeptUpTo(f, parts, n) ==
  f = [i \in 0..n |-> IF i = 0 THEN <<>>
                      ELSE IF parts[i] = Empty THEN f[i - 1] ELSE Append(f[i - 1], parts[i])]

KeepStep(list, part) == IF part = Empty THEN list ELSE Append(list, part)

LEMMA KeptRounds ==
  ASSUME NEW f, NEW parts, NEW n \in Nat, KeptUpTo(f, parts, n)
  PROVE  f[0] = <<>> /\ \A k \in Nat : k + 1 <= n => f[k + 1] = KeepStep(f[k], parts[k + 1])
<1>1. f[0] = <<>>
  BY DEF KeptUpTo
<1>2. ASSUME NEW i \in 1..n PROVE f[i] = KeepStep(f[i - 1], parts[i])
  <2>1. i \in 0..n /\ i # 0
    OBVIOUS
  <2> QED BY <2>1 DEF KeptUpTo, KeepStep
<1>3. \A k \in Nat : k + 1 <= n => k + 1 \in 1..n /\ (k + 1) - 1 = k
  OBVIOUS
<1> QED BY <1>1, <1>2, <1>3

LEMMA KeptExists ==
  ASSUME NEW parts, NEW n \in Nat
  PROVE  \E f : KeptUpTo(f, parts, n)
<1> DEFINE T == {k \in Nat : \E f : KeptUpTo(f, parts, k)}
<1>1. 0 \in T
  <2>1. KeptUpTo([i \in 0..0 |-> <<>>], parts, 0)
    BY DEF KeptUpTo
  <2> QED BY <2>1
<1>2. ASSUME NEW k \in T PROVE k + 1 \in T
  <2>1. PICK f : KeptUpTo(f, parts, k)
    BY <1>2
  <2> DEFINE g == [i \in 0..(k + 1) |-> IF i = k + 1 THEN KeepStep(f[k], parts[k + 1]) ELSE f[i]]
  <2>2. ASSUME NEW i \in 0..(k + 1)
        PROVE  g[i] = IF i = 0 THEN <<>> ELSE KeepStep(g[i - 1], parts[i])
    <3>1. CASE i = k + 1
      <4>1. i # 0 /\ g[i] = KeepStep(f[k], parts[i]) /\ g[i - 1] = f[k]
        BY <3>1
      <4> QED BY <4>1
    <3>2. CASE i = 0
      BY <3>2, <2>1 DEF KeptUpTo
    <3>3. CASE i # 0 /\ i # k + 1
      <4>1. i \in 0..k /\ i - 1 \in 0..k /\ g[i] = f[i] /\ g[i - 1] = f[i - 1]
        BY <3>3
      <4>2. f[i] = KeepStep(f[i - 1], parts[i])
        BY <2>1, <3>3, <4>1 DEF KeptUpTo, KeepStep
      <4> QED BY <4>1, <4>2, <3>3
    <3> QED BY <3>1, <3>2, <3>3
  <2>3. KeptUpTo(g, parts, k + 1)
    BY <2>2 DEF KeptUpTo, KeepStep
  <2> QED BY <2>3
<1>3. T = Nat
  <2>1. T \in SUBSET Nat
    OBVIOUS
  <2> HIDE DEF T
  <2> QED BY <1>1, <1>2, <2>1, NatSetInduction
<1> QED BY <1>3

Parts(path) == IF Len(path) >= 2 /\ path[1] = M THEN Tail(path) ELSE path

Keeps(f, parts, n) ==
  f[0] = <<>> /\ \A k \in Nat : k + 1 <= n => f[k + 1] = KeepStep(f[k], parts[k + 1])

LEMMA ComponentsAre ==
  ASSUME NEW path, NEW n \in Nat, Len(Parts(path)) = n
  PROVE  \E f : Components(path) = f[n] /\ Keeps(f, Parts(path), n)
<1> DEFINE parts == Parts(path)
           kept == CHOOSE f : KeptUpTo(f, parts, Len(parts))
<1>1. KeptUpTo(kept, parts, n)
  BY KeptExists
<1>2. Components(path) = kept[n]
  BY DEF Components, KeptUpTo, Parts
<1> HIDE DEF kept, parts
<1>3. Keeps(kept, parts, n)
  BY <1>1, KeptRounds DEF Keeps
<1> QED BY <1>2, <1>3 DEF parts

(* The parts of the paths at hand. *)
LEMMA OneComponent ==
  ASSUME NEW p, p # Empty
  PROVE  Components(<<p>>) = <<p>> /\ Components(<<M, p>>) = <<p>>
<1>1. ASSUME NEW path, Parts(path) = <<p>>
      PROVE  Components(path) = <<p>>
  <2>1. Len(<<p>>) = 1 /\ <<p>>[1] = p
    OBVIOUS
  <2>2. PICK f : Components(path) = f[1] /\ Keeps(f, Parts(path), 1)
    BY <1>1, <2>1, ComponentsAre
  <2>3. f[1] = KeepStep(<<>>, p)
    <3>1. f[0 + 1] = KeepStep(f[0], <<p>>[0 + 1]) /\ f[0] = <<>>
      BY <1>1, <2>2 DEF Keeps
    <3> QED BY <2>1, <3>1
  <2>4. Append(<<>>, p) = <<p>>
    OBVIOUS
  <2> QED BY <2>2, <2>3, <2>4 DEF KeepStep
<1>2. Parts(<<p>>) = <<p>>
  <2>1. ~(Len(<<p>>) >= 2)
    OBVIOUS
  <2> QED BY <2>1 DEF Parts
<1>3. Parts(<<M, p>>) = <<p>>
  <2>1. Len(<<M, p>>) >= 2 /\ <<M, p>>[1] = M /\ Tail(<<M, p>>) = <<p>>
    OBVIOUS
  <2> QED BY <2>1 DEF Parts
<1> QED BY <1>1, <1>2, <1>3

LEMMA TwoComponents ==
  ASSUME NEW p, NEW q, p # Empty, p # M, q # Empty
  PROVE  Components(<<p, Empty, q>>) = <<p, q>>
<1> DEFINE path == <<p, Empty, q>>
<1>1. Len(path) = 3 /\ path[1] = p /\ path[2] = Empty /\ path[3] = q
  OBVIOUS
<1> HIDE DEF path
<1>2. Parts(path) = path
  BY <1>1 DEF Parts
<1>3. PICK f : Components(path) = f[3] /\ Keeps(f, path, 3)
  BY <1>1, <1>2, ComponentsAre
<1>4. /\ f[0] = <<>> /\ f[0 + 1] = KeepStep(f[0], path[0 + 1])
      /\ f[1 + 1] = KeepStep(f[1], path[1 + 1]) /\ f[2 + 1] = KeepStep(f[2], path[2 + 1])
  <2>1. 0 + 1 <= 3 /\ 1 + 1 <= 3 /\ 2 + 1 <= 3
    OBVIOUS
  <2> QED BY <1>3, <2>1 DEF Keeps
<1>5. f[1] = KeepStep(<<>>, p) /\ f[2] = KeepStep(f[1], Empty) /\ f[3] = KeepStep(f[2], q)
  <2>1. 0 + 1 = 1 /\ 1 + 1 = 2 /\ 2 + 1 = 3
    OBVIOUS
  <2> QED BY <1>1, <1>4, <2>1
<1>6. f[3] = Append(Append(<<>>, p), q)
  BY <1>5 DEF KeepStep
<1>7. Append(<<>>, p) = <<p>> /\ Append(<<p>>, q) = <<p, q>>
  <2>1. Append(<<>>, p) = <<p>>
    OBVIOUS
  <2>2. Append(<<p>>, q) = <<p, q>>
    <3> DEFINE a == Append(<<p>>, q)
               b == <<p, q>>
    <3>1. a \in Seq({p, q}) /\ Len(a) = 2 /\ a[1] = p /\ a[2] = q
      OBVIOUS
    <3>2. b \in Seq({p, q}) /\ Len(b) = 2 /\ b[1] = p /\ b[2] = q
      OBVIOUS
    <3> HIDE DEF a, b
    <3>3. \A i \in 1..2 : a[i] = b[i]
      BY <3>1, <3>2
    <3>4. a = b
      BY <3>1, <3>2, <3>3, SeqEqual
    <3> QED BY <3>4 DEF a, b
  <2> QED BY <2>1, <2>2
<1> QED BY <1>3, <1>6, <1>7 DEF path

(* What is no number is refused; of numbers each is one step. *)
LEMMA OneNumber ==
  ASSUME NEW key, NEW path, NEW p, path # <<Empty>>, Components(path) = <<p>>
  PROVE  DerivePath(key, path) = IF p \in NumberPart THEN Step(key, ParsedIndex(p)) ELSE Failed
<1>1. Parses(path) <=> p \in NumberPart
  <2>1. ToSet(<<p>>) = {p}
    BY DEF ToSet
  <2> QED BY <2>1 DEF Parses
<1>2. parsePath(path) = Append(<<>>, ParsedIndex(p))
  <2> DEFINE x == ParsedIndex(p)
             s == [i \in DOMAIN <<p>> |-> ParsedIndex(<<p>>[i])]
  <2>1. parsePath(path) = s
    BY DEF parsePath
  <2>2. DOMAIN <<p>> = 1..1 /\ <<p>>[1] = p
    OBVIOUS
  <2>3. s = [i \in 1..1 |-> x]
    BY <2>2
  <2> HIDE DEF x, s
  <2>4. Append(<<>>, x) = [i \in 1..1 |-> x]
    OBVIOUS
  <2> QED BY <2>1, <2>3, <2>4 DEF x
<1>3. DeriveIndices(key, Append(<<>>, ParsedIndex(p))) = Step(key, ParsedIndex(p))
  <2> DEFINE x == ParsedIndex(p)
  <2>1. <<>> \in Seq({x}) /\ x \in {x}
    OBVIOUS
  <2> HIDE DEF x
  <2>2. DeriveIndices(key, Append(<<>>, x)) = Step(DeriveIndices(key, <<>>), x)
    BY <2>1, DeriveAppend
  <2>3. DeriveIndices(key, <<>>) = key
    BY DeriveNothing
  <2> QED BY <2>2, <2>3 DEF x
<1> QED BY <1>1, <1>2, <1>3 DEF DerivePath

LEMMA TwoNumbers ==
  ASSUME NEW key, NEW path, NEW p, NEW q, path # <<Empty>>, Components(path) = <<p, q>>
  PROVE  DerivePath(key, path) = IF p \in NumberPart /\ q \in NumberPart
                                 THEN Step(Step(key, ParsedIndex(p)), ParsedIndex(q)) ELSE Failed
<1> DEFINE x == ParsedIndex(p)
           y == ParsedIndex(q)
<1>1. Parses(path) <=> p \in NumberPart /\ q \in NumberPart
  <2>1. ToSet(<<p, q>>) = {p, q}
    BY DEF ToSet
  <2> QED BY <2>1 DEF Parses
<1>2. parsePath(path) = Append(Append(<<>>, x), y)
  <2> DEFINE s == [i \in DOMAIN <<p, q>> |-> ParsedIndex(<<p, q>>[i])]
             t == Append(Append(<<>>, x), y)
  <2>1. parsePath(path) = s
    BY DEF parsePath
  <2>2. DOMAIN <<p, q>> = 1..2 /\ <<p, q>>[1] = p /\ <<p, q>>[2] = q
    OBVIOUS
  <2>3. DOMAIN s = 1..2 /\ s[1] = x /\ s[2] = y /\ s = [i \in 1..2 |-> s[i]]
    BY <2>2
  <2> HIDE DEF x, y, s
  <2>4. t \in Seq({x, y}) /\ Len(t) = 2 /\ t[1] = x /\ t[2] = y
    OBVIOUS
  <2> HIDE DEF t
  <2>5. s \in Seq({x, y}) /\ Len(s) = 2
    <3>1. \A i \in 1..2 : s[i] \in {x, y}
      BY <2>3
    <3> QED BY <2>3, <3>1
  <2>6. \A i \in 1..2 : s[i] = t[i]
    BY <2>3, <2>4
  <2> QED BY <2>1, <2>4, <2>5, <2>6, SeqEqual DEF t
<1>3. DeriveIndices(key, Append(Append(<<>>, x), y)) = Step(Step(key, x), y)
  <2> HIDE DEF x, y
  <2>1. <<>> \in Seq({x, y}) /\ Append(<<>>, x) \in Seq({x, y}) /\ x \in {x, y} /\ y \in {x, y}
    OBVIOUS
  <2>2. DeriveIndices(key, Append(<<>>, x)) = Step(DeriveIndices(key, <<>>), x)
    BY <2>1, DeriveAppend
  <2>3. DeriveIndices(key, Append(<<>>, x)) = Step(key, x)
    BY <2>2, DeriveNothing
  <2> QED BY <2>1, <2>3, DeriveAppend
<1> QED BY <1>1, <1>2, <1>3 DEF DerivePath

LEMMA PartsDiffer ==
  /\ \A p \in NumberPart : p # Empty /\ p # M /\ p.n \in 0..MaxNumber
  /\ Empty # M
<1>1. ASSUME NEW p \in NumberPart PROVE p # Empty /\ p # M /\ p.n \in 0..MaxNumber
  <2> DEFINE I == 0..MaxNumber
  <2>1. p \in {Number(n, rest) : n \in I, rest \in Rest}
    BY DEF NumberPart
  <2> HIDE DEF I
  <2>2. \E n \in I : \E rest \in Rest : p = Number(n, rest)
    BY <2>1
  <2>3. PICK n \in I : \E rest \in Rest : p = Number(n, rest)
    BY <2>2
  <2>4. PICK rest \in Rest : p = Number(n, rest)
    BY <2>3
  <2>5. "n" \in DOMAIN p /\ p.n = n
    BY <2>4 DEF Number
  <2>6. "n" \notin DOMAIN Empty /\ "n" \notin DOMAIN M
    BY DEF Empty, M
  <2> QED BY <2>5, <2>6 DEF I
<1>2. Empty # M
  <2>1. Empty.word = "" /\ M.word = "m"
    BY DEF Empty, M
  <2> QED BY <2>1
<1> QED BY <1>1, <1>2

(* Adding the offset turns the half of the numbers around. *)
LEMMA OffsetTurns ==
  ASSUME NEW r \in 0..(IndexModulus - 1)
  PROVE  /\ hardenedOffset \in Nat
         /\ (r + 0) % IndexModulus >= hardenedOffset <=> r >= hardenedOffset
         /\ (r + hardenedOffset) % IndexModulus >= hardenedOffset <=> ~(r >= hardenedOffset)
<1> DEFINE w == hardenedOffset
<1>1. w \in Nat /\ IndexModulus = 2 * w /\ w > 0
  BY HDAssumption DEF hardenedOffset
<1> HIDE DEF w
<1>2. (r + 0) % IndexModulus = r
  BY <1>1
<1>3. (r + w) % IndexModulus = IF r >= w THEN r - w ELSE r + w
  <2>1. CASE r >= w
    <3>1. r + w = IndexModulus + (r - w) /\ r - w \in 0..(IndexModulus - 1)
      BY <1>1, <2>1
    <3>2. (IndexModulus + (r - w)) % IndexModulus = r - w
      BY <1>1, <2>1, <3>1
    <3> QED BY <2>1, <3>1, <3>2
  <2>2. CASE ~(r >= w)
    <3>1. r + w \in 0..(IndexModulus - 1)
      BY <1>1, <2>2
    <3> QED BY <1>1, <2>2, <3>1
  <2> QED BY <2>1, <2>2
<1>4. r \in Int
  OBVIOUS
<1>5. (r + w) % IndexModulus >= w <=> ~(r >= w)
  BY <1>1, <1>3, <1>4
<1> QED BY <1>1, <1>2, <1>5 DEF w

LEMMA InHandSteps ==
  ASSUME HDInv, ek # NoKey, NEW index
  PROVE  Step(ek, index) = Failed <=> ~ek.IsPrivate /\ ~(index < hardenedOffset)
<1>1. PICK n \in Nat : \E f, S : Keyed(ek, f, S, n)
  BY InHandKeyed
<1>2. PICK f, S : Keyed(ek, f, S, n)
  BY <1>1
<1>3. ek # Failed
  BY <1>2, KeyedIsNone
<1>4. Child(ek, index) # Failed
  <2>1. \E g, R : Keyed(Child(ek, index), g, R, n + 1)
    BY <1>2, ChildKeyed
  <2> QED BY <2>1, KeyedIsNone
<1> QED BY <1>3, <1>4 DEF Step, Derivable

LEMMA HardenedNeeds ==
  ASSUME HDInv, ek # NoKey, NEW part \in NumberPart
  PROVE  LET hardened == (part.rest = Mark) # (part.n % IndexModulus >= hardenedOffset)
         IN  DerivePath(ek, <<M, part>>) = Failed <=> hardened /\ ~ek.IsPrivate
<1> DEFINE marked == part.rest = Mark
           r == part.n % IndexModulus
           index == ParsedIndex(part)
<1>1. r \in 0..(IndexModulus - 1)
  <2>1. part.n \in Nat
    BY PartsDiffer, HDAssumption
  <2> QED BY <2>1, HDAssumption
<1>2. index = (r + IF marked THEN hardenedOffset ELSE 0) % IndexModulus
  BY DEF ParsedIndex
<1>3. marked \in BOOLEAN
  OBVIOUS
<1>4. DerivePath(ek, <<M, part>>) = Step(ek, index)
  <2>1. <<M, part>> # <<Empty>>
    <3>1. Len(<<M, part>>) = 2 /\ Len(<<Empty>>) = 1
      OBVIOUS
    <3> QED BY <3>1
  <2>2. Components(<<M, part>>) = <<part>>
    BY PartsDiffer, OneComponent
  <2> QED BY <2>1, <2>2, OneNumber
<1> HIDE DEF marked, r, index
<1>5. /\ hardenedOffset \in Nat /\ index \in Int
      /\ index >= hardenedOffset <=> (marked # (r >= hardenedOffset))
  <2>1. CASE marked
    <3>1. index = (r + hardenedOffset) % IndexModulus
      BY <1>2, <2>1
    <3>2. index >= hardenedOffset <=> ~(r >= hardenedOffset)
      BY <1>1, <3>1, OffsetTurns
    <3>3. hardenedOffset \in Nat /\ index \in Int
      BY <1>1, <3>1, OffsetTurns, HDAssumption
    <3> QED BY <2>1, <3>2, <3>3
  <2>2. CASE ~marked
    <3>1. index = (r + 0) % IndexModulus
      BY <1>2, <2>2
    <3>2. index >= hardenedOffset <=> r >= hardenedOffset
      BY <1>1, <3>1, OffsetTurns
    <3>3. hardenedOffset \in Nat /\ index \in Int
      BY <1>1, <3>1, OffsetTurns, HDAssumption
    <3> DEFINE high == r >= hardenedOffset
               hard == index >= hardenedOffset
    <3>4. high \in BOOLEAN /\ (hard <=> high)
      BY <1>1, <3>2, <3>3
    <3> HIDE DEF high, hard
    <3>5. hard <=> (marked # high)
      BY <1>3, <2>2, <3>4
    <3> QED BY <3>3, <3>5 DEF high, hard
  <2> QED BY <2>1, <2>2
<1>6. Step(ek, index) = Failed <=> ~ek.IsPrivate /\ ~(index < hardenedOffset)
  BY InHandSteps
<1>7. ~(index < hardenedOffset) <=> index >= hardenedOffset
  BY <1>5
<1>8. DerivePath(ek, <<M, part>>) = Failed <=> (marked # (r >= hardenedOffset)) /\ ~ek.IsPrivate
  BY <1>4, <1>5, <1>6, <1>7
<1> QED BY <1>8 DEF marked, r

(* Hardened children need the private key, and a path may be followed in   *)
(* legs.                                                                   *)
THEOREM PathsDeriveCorrect == HDSpec => []PathsDerive
<1>1. HDInv => HardenedNeedsPrivate
  BY HardenedNeeds DEF HardenedNeedsPrivate
<1>2. HDInv => PathsCompose
  <2> SUFFICES ASSUME HDInv, ek # NoKey, NEW p \in Part \ {M, Empty}
               PROVE  LET first == DerivePath(ek, <<p>>)
                      IN  /\ DerivePath(ek, <<M, p>>) = first
                          /\ \A q \in Part \ {Empty} :
                               DerivePath(ek, <<p, Empty, q>>)
                                 = IF first = Failed THEN Failed ELSE DerivePath(first, <<q>>)
    BY DEF PathsCompose
  <2>1. \A q : q # Empty => <<q>> # <<Empty>>
    <3> SUFFICES ASSUME NEW q, <<q>> = <<Empty>> PROVE q = Empty
      OBVIOUS
    <3>1. <<q>>[1] = q /\ <<Empty>>[1] = Empty
      OBVIOUS
    <3> QED BY <3>1
  <2>2. \A q : <<M, q>> # <<Empty>> /\ <<p, Empty, q>> # <<Empty>>
    <3> TAKE q
    <3>1. Len(<<M, q>>) = 2 /\ Len(<<p, Empty, q>>) = 3 /\ Len(<<Empty>>) = 1
      OBVIOUS
    <3> QED BY <3>1
  <2> DEFINE first == DerivePath(ek, <<p>>)
             one == IF p \in NumberPart THEN Step(ek, ParsedIndex(p)) ELSE Failed
  <2>3. first = one /\ DerivePath(ek, <<M, p>>) = one
    <3>1. Components(<<p>>) = <<p>> /\ Components(<<M, p>>) = <<p>>
      BY OneComponent
    <3> QED BY <2>1, <2>2, <3>1, OneNumber
  <2>4. ASSUME NEW q \in Part \ {Empty}
        PROVE  DerivePath(ek, <<p, Empty, q>>)
                 = IF first = Failed THEN Failed ELSE DerivePath(first, <<q>>)
    <3>1. Components(<<p, Empty, q>>) = <<p, q>>
      BY TwoComponents
    <3>2. DerivePath(ek, <<p, Empty, q>>)
            = IF p \in NumberPart /\ q \in NumberPart
              THEN Step(Step(ek, ParsedIndex(p)), ParsedIndex(q)) ELSE Failed
      BY <2>2, <3>1, TwoNumbers
    <3> HIDE DEF first
    <3>3. DerivePath(first, <<q>>)
            = IF q \in NumberPart THEN Step(first, ParsedIndex(q)) ELSE Failed
      <4>1. Components(<<q>>) = <<q>>
        BY OneComponent
      <4> QED BY <2>1, <4>1, OneNumber
    <3>4. \A i : Step(Failed, i) = Failed
      BY DEF Step
    <3> QED BY <2>3, <3>2, <3>3, <3>4
  <2> QED BY <2>3, <2>4
<1> QED BY <1>1, <1>2, HDInvCorrect, PTL DEF PathsDerive

(***************************************************************************)
(* Merkle trees.  The levels of the tree over a list.                      *)
(***************************************************************************)
LevelUpTo(f, list, n) ==
  f = [i \in 0..n |-> IF i = 0 THEN Leaves(list) ELSE NextLevel(f[i - 1])]

LEMMA LevelExists ==
  ASSUME NEW list, NEW n \in Nat
  PROVE  \E f : LevelUpTo(f, list, n)
<1> DEFINE T == {k \in Nat : \E f : LevelUpTo(f, list, k)}
<1>1. 0 \in T
  <2>1. LevelUpTo([i \in 0..0 |-> Leaves(list)], list, 0)
    BY DEF LevelUpTo
  <2> QED BY <2>1
<1>2. ASSUME NEW k \in T PROVE k + 1 \in T
  <2>1. PICK f : LevelUpTo(f, list, k)
    BY <1>2
  <2> DEFINE g == [i \in 0..(k + 1) |-> IF i = k + 1 THEN NextLevel(f[k]) ELSE f[i]]
  <2>2. ASSUME NEW i \in 0..(k + 1)
        PROVE  g[i] = IF i = 0 THEN Leaves(list) ELSE NextLevel(g[i - 1])
    <3>1. CASE i = k + 1
      <4>1. i # 0 /\ g[i] = NextLevel(f[k]) /\ g[i - 1] = f[k]
        BY <3>1
      <4> QED BY <4>1
    <3>2. CASE i = 0
      BY <3>2, <2>1 DEF LevelUpTo
    <3>3. CASE i # 0 /\ i # k + 1
      <4>1. i \in 0..k /\ i - 1 \in 0..k /\ g[i] = f[i] /\ g[i - 1] = f[i - 1]
        BY <3>3
      <4>2. f[i] = NextLevel(f[i - 1])
        BY <2>1, <3>3, <4>1 DEF LevelUpTo
      <4> QED BY <4>1, <4>2, <3>3
    <3> QED BY <3>1, <3>2, <3>3
  <2>3. LevelUpTo(g, list, k + 1)
    BY <2>2 DEF LevelUpTo
  <2> QED BY <2>3
<1>3. T = Nat
  <2>1. T \in SUBSET Nat
    OBVIOUS
  <2> HIDE DEF T
  <2> QED BY <1>1, <1>2, <2>1, NatSetInduction
<1> QED BY <1>3

LEMMA LevelsAre ==
  ASSUME NEW list, Len(list) \in Nat
  PROVE  /\ Levels(list)[0] = Leaves(list)
         /\ \A k \in Nat : k + 1 <= Len(list) => Levels(list)[k + 1] = NextLevel(Levels(list)[k])
<1> DEFINE n == Len(list)
           level == CHOOSE f : LevelUpTo(f, list, n)
<1>1. LevelUpTo(level, list, n)
  BY LevelExists
<1>2. Levels(list) = level
  BY DEF Levels, LevelUpTo
<1> HIDE DEF level, n
<1>3. n \in Nat
  BY DEF n
<1>4. level[0] = Leaves(list)
  BY <1>1, <1>3 DEF LevelUpTo
<1>5. ASSUME NEW i \in 1..n PROVE level[i] = NextLevel(level[i - 1])
  <2>1. i \in 0..n /\ i # 0
    BY <1>3
  <2> QED BY <1>1, <2>1 DEF LevelUpTo
<1>6. \A k \in Nat : k + 1 <= n => k + 1 \in 1..n /\ (k + 1) - 1 = k
  BY <1>3
<1> QED BY <1>2, <1>4, <1>5, <1>6 DEF n

(* A level is a sequence of one or more nodes; the next has half as many,  *)
(* rounded up.                                                             *)
Row(nodes) == Len(nodes) \in Nat \ {0} /\ DOMAIN nodes = 1..Len(nodes)

Partner(nodes, i) == IF 2 * i <= Len(nodes) THEN 2 * i ELSE 2 * i - 1

LEMMA NextLevelIs ==
  ASSUME NEW nodes, Row(nodes)
  PROVE  /\ Row(NextLevel(nodes)) /\ Len(NextLevel(nodes)) = (Len(nodes) + 1) \div 2
         /\ \A i \in 1..((Len(nodes) + 1) \div 2) :
              /\ NextLevel(nodes)[i] = DoubleHash(<<nodes[2 * i - 1], nodes[Partner(nodes, i)]>>)
              /\ 2 * i - 1 \in DOMAIN nodes /\ Partner(nodes, i) \in DOMAIN nodes
<1> DEFINE n == Len(nodes)
           m == (n + 1) \div 2
           next == NextLevel(nodes)
<1>1. n \in Nat \ {0} /\ m \in Nat \ {0} /\ 2 * m <= n + 1 /\ DOMAIN nodes = 1..n
  BY DEF Row
<1>2. next = [i \in 1..m |-> DoubleHash(<<nodes[2 * i - 1], nodes[Partner(nodes, i)]>>)]
  BY DEF NextLevel, Partner
<1>3. \A i \in 1..m : 2 * i - 1 \in 1..n /\ Partner(nodes, i) \in 1..n
  BY <1>1 DEF Partner
<1> HIDE DEF m, next
<1>4. DOMAIN next = 1..m /\ Len(next) = m
  BY <1>1, <1>2
<1> QED BY <1>1, <1>2, <1>3, <1>4 DEF Row, m, next

LEMMA LeavesAre ==
  ASSUME NEW S, NEW list \in Seq(S), list # <<>>
  PROVE  /\ Row(Leaves(list)) /\ \A i \in DOMAIN Leaves(list) : Leaves(list)[i] \in S
         /\ Len(list) \in Nat \ {0} /\ DOMAIN list = 1..Len(list)
         /\ \A i \in DOMAIN list : i \in DOMAIN Leaves(list) /\ Leaves(list)[i] = list[i]
         /\ Len(Leaves(list)) = IF Len(list) = 1 THEN 2 ELSE Len(list)
         /\ Len(list) = 1 => Leaves(list)[2] = list[1]
<1>1. Len(list) \in Nat \ {0} /\ DOMAIN list = 1..Len(list) /\ \A i \in DOMAIN list : list[i] \in S
  BY EmptySeq
<1>2. CASE Len(list) # 1
  BY <1>1, <1>2 DEF Leaves, Row
<1>3. CASE Len(list) = 1
  <2> DEFINE two == list \o list
  <2>1. two \in Seq(S) /\ Len(two) = 2
    <3>1. two \in Seq(S) /\ Len(two) = Len(list) + Len(list)
      BY ConcatProperties
    <3> HIDE DEF two
    <3> QED BY <1>3, <3>1
  <2>2. \A i \in 1..(Len(list) + Len(list)) :
          two[i] = IF i <= Len(list) THEN list[i] ELSE list[i - Len(list)]
    BY ConcatProperties
  <2>3. \A i \in 1..2 : two[i] = list[1]
    <3>1. \A i \in 1..2 : two[i] = IF i <= 1 THEN list[i] ELSE list[i - 1]
      <4>1. Len(list) + Len(list) = 2
        BY <1>3
      <4> QED BY <1>3, <2>2, <4>1, Zenon
    <3> HIDE DEF two
    <3>2. two[1] = list[1] /\ two[2] = list[1]
      BY <3>1
    <3>3. \A i \in 1..2 : i = 1 \/ i = 2
      OBVIOUS
    <3> QED BY <3>2, <3>3
  <2>4. Leaves(list) = two
    BY <1>3 DEF Leaves
  <2> HIDE DEF two
  <2>5. DOMAIN two = 1..2 /\ Row(two)
    BY <2>1 DEF Row
  <2>6. two[1] = list[1] /\ two[2] = list[1] /\ list[1] \in S
    BY <1>1, <1>3, <2>3
  <2>7. DOMAIN list = 1..1 /\ \A i \in 1..1 : i = 1 /\ i \in 1..2
    BY <1>1, <1>3
  <2>8. \A i \in DOMAIN two : two[i] \in S
    BY <2>3, <2>5, <2>6
  <2>9. \A i \in DOMAIN list : i \in DOMAIN two /\ two[i] = list[i]
    BY <2>5, <2>6, <2>7
  <2> QED BY <1>1, <1>3, <2>1, <2>4, <2>5, <2>6, <2>8, <2>9
<1> QED BY <1>2, <1>3

LEMMA RowsAre ==
  ASSUME NEW S, NEW list \in Seq(S), list # <<>>
  PROVE  \A n \in 0..Len(list) : Row(Levels(list)[n])
<1>1. Len(list) \in Nat \ {0} /\ Row(Leaves(list))
  BY LeavesAre
<1>2. /\ Levels(list)[0] = Leaves(list)
      /\ \A k \in Nat : k + 1 <= Len(list) => Levels(list)[k + 1] = NextLevel(Levels(list)[k])
  BY <1>1, LevelsAre
<1> DEFINE T == {k \in Nat : k <= Len(list) => Row(Levels(list)[k])}
<1>3. 0 \in T
  BY <1>1, <1>2
<1>4. ASSUME NEW k \in T PROVE k + 1 \in T
  <2>1. CASE k + 1 <= Len(list)
    <3>1. k \in Nat /\ Row(Levels(list)[k])
      BY <1>1, <2>1
    <3>2. Levels(list)[k + 1] = NextLevel(Levels(list)[k])
      BY <1>2, <2>1, <3>1
    <3>3. Row(Levels(list)[k + 1])
      BY <3>1, <3>2, NextLevelIs
    <3> QED BY <3>1, <3>3
  <2> QED BY <2>1
<1>5. T = Nat
  <2>1. T \in SUBSET Nat
    OBVIOUS
  <2> HIDE DEF T
  <2> QED BY <1>3, <1>4, <2>1, NatSetInduction
<1>6. \A n \in 0..Len(list) : n \in T /\ n <= Len(list)
  BY <1>1, <1>5
<1> QED BY <1>6

(* The rounds stop, as a level of two or more nodes is longer than the     *)
(* next: the height is the first level of one node, and the level below it *)
(* has two.                                                                *)
LEMMA HeightIs ==
  ASSUME NEW S, NEW list \in Seq(S), list # <<>>
  PROVE  /\ Height(list) \in 1..Len(list) /\ Len(Levels(list)[Height(list)]) = 1
         /\ \A m \in 0..(Height(list) - 1) : Len(Levels(list)[m]) # 1
<1> DEFINE level == Levels(list)
           N == Len(list)
<1>1. /\ N \in Nat \ {0} /\ level[0] = Leaves(list)
      /\ Len(Leaves(list)) = IF N = 1 THEN 2 ELSE N
  BY LeavesAre, LevelsAre
<1>2. \A n \in 0..N : Len(level[n]) \in Nat \ {0}
  BY RowsAre DEF Row
<1>3. \A k \in Nat : k + 1 <= N => Len(level[k + 1]) = (Len(level[k]) + 1) \div 2
  <2> SUFFICES ASSUME NEW k \in Nat, k + 1 <= N
               PROVE  Len(level[k + 1]) = (Len(level[k]) + 1) \div 2
    OBVIOUS
  <2>1. Row(level[k])
    BY <1>1, RowsAre
  <2>2. level[k + 1] = NextLevel(level[k])
    BY <1>1, LevelsAre
  <2> QED BY <2>1, <2>2, NextLevelIs
<1> DEFINE len(k) == Len(level[k])
           top == len(0)
<1>t. top \in Nat \ {0, 1} /\ top <= N + 1 /\ (N # 1 => top = N)
  BY <1>1
<1>l. \A k \in Nat : k + 1 <= N => /\ len(k) \in Nat \ {0} /\ len(k + 1) \in Nat \ {0}
                                  /\ len(k + 1) = (len(k) + 1) \div 2
  <2> SUFFICES ASSUME NEW k \in Nat, k + 1 <= N
               PROVE  k \in 0..N /\ k + 1 \in 0..N
    BY <1>2, <1>3
  <2> QED BY <1>1
<1> HIDE DEF top, len, level, N
<1> DEFINE T == {k \in Nat : k <= N => len(k) = 1 \/ len(k) + k <= top}
<1>4. 0 \in T
  BY <1>t DEF top
<1>5. ASSUME NEW k \in T PROVE k + 1 \in T
  <2>1. k \in Nat
    OBVIOUS
  <2> SUFFICES ASSUME k + 1 <= N PROVE len(k + 1) = 1 \/ len(k + 1) + (k + 1) <= top
    BY <2>1
  <2>2. len(k) = 1 \/ len(k) + k <= top
    BY <1>1, <2>1
  <2>3. /\ len(k) \in Nat \ {0} /\ len(k + 1) \in Nat \ {0}
        /\ len(k + 1) = (len(k) + 1) \div 2
    BY <1>l, <2>1
  <2> QED BY <1>t, <2>1, <2>2, <2>3
<1>6. T = Nat
  <2>1. T \in SUBSET Nat
    OBVIOUS
  <2> HIDE DEF T
  <2> QED BY <1>4, <1>5, <2>1, NatSetInduction
<1>7. Len(level[N]) = 1
  <2>1. N \in T /\ N \in 0..N
    BY <1>1, <1>6
  <2>2. len(N) = 1 \/ len(N) + N <= top
    BY <1>1, <2>1
  <2>3. len(N) \in Nat \ {0}
    BY <1>2, <2>1 DEF len
  <2>4. len(N) = 1
    BY <1>1, <1>t, <2>2, <2>3
  <2> QED BY <2>4 DEF len
<1> DEFINE One == {n \in 0..N : Len(level[n]) = 1}
<1>8. PICK n \in One : \A m \in One : n <= m
  <2>1. One \in SUBSET Nat /\ One # {}
    BY <1>1, <1>7
  <2> HIDE DEF One
  <2> QED BY <2>1, LeastElement
<1>9. n \in 0..N /\ Len(level[n]) = 1 /\ \A m \in 0..(n - 1) : Len(level[m]) # 1
  BY <1>1, <1>8
<1> DEFINE h == CHOOSE k \in 0..N : Len(level[k]) = 1 /\ \A m \in 0..(k - 1) : Len(level[m]) # 1
<1>10. h \in 0..N /\ Len(level[h]) = 1 /\ \A m \in 0..(h - 1) : Len(level[m]) # 1
  BY <1>9
<1>11. Height(list) = h
  BY DEF Height, level, N
<1>12. Len(level[0]) # 1
  BY <1>1
<1> HIDE DEF h
<1>13. h \in 1..N
  BY <1>1, <1>10, <1>12
<1> QED BY <1>10, <1>11, <1>13 DEF level, N

LEMMA RootIs ==
  ASSUME NEW S, NEW list \in Seq(S), list # <<>>
  PROVE  LET level == Levels(list)
             h == Height(list)
         IN  /\ MerkleRoot(list) = level[h][1] /\ NewMerkleTree(list) = level[h][1]
             /\ Len(level[h - 1]) = 2
             /\ level[h][1] = DoubleHash(<<level[h - 1][1], level[h - 1][2]>>)
<1> DEFINE level == Levels(list)
           h == Height(list)
<1>1. /\ h \in 1..Len(list) /\ Len(level[h]) = 1 /\ Len(list) \in Nat
      /\ \A m \in 0..(h - 1) : Len(level[m]) # 1
  BY HeightIs, LeavesAre
<1>2. h - 1 \in 0..Len(list) /\ h - 1 \in Nat /\ h - 1 \in 0..(h - 1) /\ (h - 1) + 1 = h
  BY <1>1
<1>3. Row(level[h - 1]) /\ Len(level[h - 1]) # 1
  BY <1>1, <1>2, RowsAre
<1>4. level[h] = NextLevel(level[h - 1])
  <2>1. \A k \in Nat : k + 1 <= Len(list) => level[k + 1] = NextLevel(level[k])
    BY <1>1, LevelsAre
  <2>2. h <= Len(list)
    BY <1>1
  <2> HIDE DEF level, h
  <2> QED BY <1>2, <2>1, <2>2
<1>5. Len(level[h - 1]) = 2
  <2>1. (Len(level[h - 1]) + 1) \div 2 = 1
    BY <1>1, <1>3, <1>4, NextLevelIs
  <2>2. Len(level[h - 1]) \in Nat \ {0, 1}
    BY <1>3 DEF Row
  <2> DEFINE n == Len(level[h - 1])
  <2> HIDE DEF n
  <2>3. \A i \in Nat \ {0, 1} : (i + 1) \div 2 = 1 => i = 2
    OBVIOUS
  <2>4. n = 2
    BY <2>1, <2>2, <2>3 DEF n
  <2> QED BY <2>4 DEF n
<1>6. level[h][1] = DoubleHash(<<level[h - 1][1], level[h - 1][2]>>)
  <2> DEFINE nodes == level[h - 1]
  <2>1. 1 \in 1..((Len(nodes) + 1) \div 2) /\ 2 * 1 - 1 = 1 /\ Partner(nodes, 1) = 2
    BY <1>5 DEF Partner
  <2> HIDE DEF nodes
  <2>2. Row(nodes) /\ level[h] = NextLevel(nodes)
    BY <1>3, <1>4 DEF nodes
  <2> HIDE DEF level, h
  <2>3. NextLevel(nodes)[1] = DoubleHash(<<nodes[2 * 1 - 1], nodes[Partner(nodes, 1)]>>)
    BY <2>1, <2>2, NextLevelIs
  <2>4. NextLevel(nodes)[1] = DoubleHash(<<nodes[1], nodes[2]>>)
    BY <2>1, <2>3
  <2> QED BY <2>2, <2>4 DEF nodes
<1>7. MerkleRoot(list) = level[h][1] /\ NewMerkleTree(list) = level[h][1]
  BY DEF MerkleRoot, NewMerkleTree
<1> QED BY <1>5, <1>6, <1>7

LEMMA PairIs ==
  /\ \A v, w : DoubleHash(v) = DoubleHash(w) <=> v = w
  /\ \A a, b, c, d : DoubleHash(<<a, b>>) = DoubleHash(<<c, d>>) <=> a = c /\ b = d
  /\ \A a, b : Left(DoubleHash(<<a, b>>)) = a /\ Right(DoubleHash(<<a, b>>)) = b
<1>1. \A v : DoubleHash(v).hash = v
  BY DEF DoubleHash
<1>2. \A a, b : <<a, b>>[1] = a /\ <<a, b>>[2] = b
  OBVIOUS
<1>3. \A v, w : DoubleHash(v) = DoubleHash(w) <=> v = w
  BY <1>1
<1>4. \A a, b, c, d : DoubleHash(<<a, b>>) = DoubleHash(<<c, d>>) <=> a = c /\ b = d
  BY <1>2, <1>3
<1>5. \A a, b : Left(DoubleHash(<<a, b>>)) = a /\ Right(DoubleHash(<<a, b>>)) = b
  BY <1>1, <1>2 DEF Left, Right
<1> QED BY <1>3, <1>4, <1>5

(* The recursions over a number: the index halved, the places doubled.     *)
HalfUpTo(f, index, n) ==
  f = [i \in 0..n |-> IF i = 0 THEN index ELSE f[i - 1] \div 2]

LEMMA HalfExists ==
  ASSUME NEW index \in Nat, NEW n \in Nat
  PROVE  \E f : HalfUpTo(f, index, n)
<1> DEFINE T == {k \in Nat : \E f : HalfUpTo(f, index, k)}
<1>1. 0 \in T
  <2>1. HalfUpTo([i \in 0..0 |-> index], index, 0)
    BY DEF HalfUpTo
  <2> QED BY <2>1
<1>2. ASSUME NEW k \in T PROVE k + 1 \in T
  <2>1. PICK f : HalfUpTo(f, index, k)
    BY <1>2
  <2> DEFINE g == [i \in 0..(k + 1) |-> IF i = k + 1 THEN f[k] \div 2 ELSE f[i]]
  <2>2. ASSUME NEW i \in 0..(k + 1)
        PROVE  g[i] = IF i = 0 THEN index ELSE g[i - 1] \div 2
    <3>1. CASE i = k + 1
      <4>1. i # 0 /\ g[i] = f[k] \div 2 /\ g[i - 1] = f[k]
        BY <3>1
      <4> QED BY <4>1
    <3>2. CASE i = 0
      BY <3>2, <2>1 DEF HalfUpTo
    <3>3. CASE i # 0 /\ i # k + 1
      <4>1. i \in 0..k /\ i - 1 \in 0..k /\ g[i] = f[i] /\ g[i - 1] = f[i - 1]
        BY <3>3
      <4>2. f[i] = f[i - 1] \div 2
        BY <2>1, <3>3, <4>1 DEF HalfUpTo
      <4> QED BY <4>1, <4>2, <3>3
    <3> QED BY <3>1, <3>2, <3>3
  <2>3. HalfUpTo(g, index, k + 1)
    BY <2>2 DEF HalfUpTo
  <2> QED BY <2>3
<1>3. T = Nat
  <2>1. T \in SUBSET Nat
    OBVIOUS
  <2> HIDE DEF T
  <2> QED BY <1>1, <1>2, <2>1, NatSetInduction
<1> QED BY <1>3

(* Two such functions agree as far as both are defined. *)
LEMMA HalfUnique ==
  ASSUME NEW index \in Nat, NEW n \in Nat, NEW m \in Nat, n <= m,
         NEW f, HalfUpTo(f, index, n), NEW g, HalfUpTo(g, index, m)
  PROVE  f[n] = g[n]
<1> DEFINE T == {k \in Nat : k <= n => f[k] = g[k]}
<1>1. 0 \in T
  BY DEF HalfUpTo
<1>2. ASSUME NEW k \in T PROVE k + 1 \in T
  <2>1. k \in Nat
    OBVIOUS
  <2> SUFFICES ASSUME k + 1 <= n PROVE f[k + 1] = g[k + 1]
    BY <2>1
  <2>2. f[k] = g[k] /\ k + 1 \in 0..n /\ k + 1 \in 0..m /\ k + 1 # 0 /\ (k + 1) - 1 = k
    BY <2>1
  <2>3. f[k + 1] = f[k] \div 2 /\ g[k + 1] = g[k] \div 2
    BY <2>2 DEF HalfUpTo
  <2> QED BY <2>2, <2>3
<1>3. T = Nat
  <2>1. T \in SUBSET Nat
    OBVIOUS
  <2> HIDE DEF T
  <2> QED BY <1>1, <1>2, <2>1, NatSetInduction
<1>4. n \in T
  BY <1>3
<1> QED BY <1>4

LEMMA HalvedIs ==
  ASSUME NEW index \in Nat
  PROVE  /\ Halved(index, 0) = index
         /\ \A k \in Nat : /\ Halved(index, k) \in Nat
                           /\ Halved(index, k + 1) = Halved(index, k) \div 2
<1>1. ASSUME NEW n \in Nat
      PROVE  \E f : HalfUpTo(f, index, n) /\ Halved(index, n) = f[n]
  <2> DEFINE half == CHOOSE f : HalfUpTo(f, index, n)
  <2>1. HalfUpTo(half, index, n)
    BY HalfExists
  <2>2. Halved(index, n) = half[n]
    BY DEF Halved, HalfUpTo
  <2> HIDE DEF half
  <2> QED BY <2>1, <2>2
<1>2. Halved(index, 0) = index
  <2>1. PICK f : HalfUpTo(f, index, 0) /\ Halved(index, 0) = f[0]
    BY <1>1
  <2> QED BY <2>1 DEF HalfUpTo
<1>3. ASSUME NEW k \in Nat PROVE Halved(index, k + 1) = Halved(index, k) \div 2
  <2>1. PICK f : HalfUpTo(f, index, k) /\ Halved(index, k) = f[k]
    BY <1>1
  <2>2. PICK g : HalfUpTo(g, index, k + 1) /\ Halved(index, k + 1) = g[k + 1]
    BY <1>1
  <2>3. k + 1 \in Nat /\ k <= k + 1 /\ k + 1 \in 0..(k + 1) /\ k + 1 # 0 /\ (k + 1) - 1 = k
    OBVIOUS
  <2>4. f[k] = g[k]
    BY <2>1, <2>2, <2>3, HalfUnique
  <2>5. g[k + 1] = g[k] \div 2
    BY <2>2, <2>3 DEF HalfUpTo
  <2> QED BY <2>1, <2>2, <2>4, <2>5
<1> DEFINE T == {k \in Nat : Halved(index, k) \in Nat}
<1>4. 0 \in T
  BY <1>2
<1>5. ASSUME NEW k \in T PROVE k + 1 \in T
  <2> DEFINE i == Halved(index, k)
             j == Halved(index, k + 1)
  <2>1. i \in Nat /\ j = i \div 2
    BY <1>3
  <2> HIDE DEF i, j
  <2>2. j \in Nat
    BY <2>1
  <2> QED BY <2>2 DEF j
<1>6. T = Nat
  <2>1. T \in SUBSET Nat
    OBVIOUS
  <2> HIDE DEF T
  <2> QED BY <1>4, <1>5, <2>1, NatSetInduction
<1> QED BY <1>2, <1>3, <1>6

(* The loop of VerifyMerkleProof.                                          *)
Join(node, sibling, bit) ==
  IF bit = 0 THEN DoubleHash(<<node, sibling>>) ELSE DoubleHash(<<sibling, node>>)

UpTo(f, txHash, proof, index, n) ==
  f = [i \in 0..n |-> IF i = 0 THEN txHash ELSE Join(f[i - 1], proof[i], Bit(index, i))]

LEMMA UpExists ==
  ASSUME NEW txHash, NEW proof, NEW index, NEW n \in Nat
  PROVE  \E f : UpTo(f, txHash, proof, index, n)
<1> DEFINE T == {k \in Nat : \E f : UpTo(f, txHash, proof, index, k)}
<1>1. 0 \in T
  <2>1. UpTo([i \in 0..0 |-> txHash], txHash, proof, index, 0)
    BY DEF UpTo
  <2> QED BY <2>1
<1>2. ASSUME NEW k \in T PROVE k + 1 \in T
  <2>1. PICK f : UpTo(f, txHash, proof, index, k)
    BY <1>2
  <2> DEFINE up == Join(f[k], proof[k + 1], Bit(index, k + 1))
             g == [i \in 0..(k + 1) |-> IF i = k + 1 THEN up ELSE f[i]]
  <2>2. ASSUME NEW i \in 0..(k + 1)
        PROVE  g[i] = IF i = 0 THEN txHash ELSE Join(g[i - 1], proof[i], Bit(index, i))
    <3>1. CASE i = k + 1
      <4>1. i # 0 /\ g[i] = up /\ g[i - 1] = f[k]
        BY <3>1
      <4> QED BY <3>1, <4>1
    <3>2. CASE i = 0
      BY <3>2, <2>1 DEF UpTo
    <3>3. CASE i # 0 /\ i # k + 1
      <4>1. i \in 0..k /\ i - 1 \in 0..k /\ g[i] = f[i] /\ g[i - 1] = f[i - 1]
        BY <3>3
      <4>2. f[i] = Join(f[i - 1], proof[i], Bit(index, i))
        BY <2>1, <3>3, <4>1 DEF UpTo
      <4> QED BY <4>1, <4>2, <3>3
    <3> QED BY <3>1, <3>2, <3>3
  <2>3. UpTo(g, txHash, proof, index, k + 1)
    BY <2>2 DEF UpTo
  <2> QED BY <2>3
<1>3. T = Nat
  <2>1. T \in SUBSET Nat
    OBVIOUS
  <2> HIDE DEF T
  <2> QED BY <1>1, <1>2, <2>1, NatSetInduction
<1> QED BY <1>3

LEMMA HashUpIs ==
  ASSUME NEW txHash, NEW proof, NEW index, Len(proof) \in Nat
  PROVE  \E f : /\ f[0] = txHash /\ HashUp(txHash, proof, index) = f[Len(proof)]
                /\ \A k \in Nat : k + 1 <= Len(proof) =>
                     f[k + 1] = Join(f[k], proof[k + 1], Bit(index, k + 1))
<1> DEFINE n == Len(proof)
           f == CHOOSE f : UpTo(f, txHash, proof, index, n)
<1>1. UpTo(f, txHash, proof, index, n)
  BY UpExists
<1>2. HashUp(txHash, proof, index) = f[n]
  BY DEF HashUp, UpTo, Join
<1> HIDE DEF f, n
<1>3. n \in Nat
  BY DEF n
<1>4. f[0] = txHash
  BY <1>1, <1>3 DEF UpTo
<1>5. ASSUME NEW k \in Nat, k + 1 <= n
      PROVE  f[k + 1] = Join(f[k], proof[k + 1], Bit(index, k + 1))
  <2>1. k + 1 \in 0..n /\ k + 1 # 0 /\ (k + 1) - 1 = k
    BY <1>3, <1>5
  <2> QED BY <1>1, <2>1 DEF UpTo
<1> QED BY <1>2, <1>4, <1>5 DEF n

(* Hashing up never forgets what it began with, whatever the proof.        *)
LEMMA ProofBinds ==
  ASSUME NEW proof, NEW index, NEW merkle, Len(proof) \in Nat
  PROVE  Binds(proof, index, merkle)
<1> SUFFICES ASSUME NEW id1, NEW id2, HashUp(id1, proof, index) = HashUp(id2, proof, index)
             PROVE  id1 = id2
  BY DEF Binds, VerifyMerkleProof
<1> DEFINE n == Len(proof)
<1>1. PICK f : /\ f[0] = id1 /\ HashUp(id1, proof, index) = f[n]
               /\ \A k \in Nat : k + 1 <= n => f[k + 1] = Join(f[k], proof[k + 1], Bit(index, k + 1))
  BY HashUpIs
<1>2. PICK g : /\ g[0] = id2 /\ HashUp(id2, proof, index) = g[n]
               /\ \A k \in Nat : k + 1 <= n => g[k + 1] = Join(g[k], proof[k + 1], Bit(index, k + 1))
  BY HashUpIs
<1> HIDE DEF n
<1> DEFINE T == {k \in Nat : k <= n => (f[k] = g[k] => id1 = id2)}
<1>3. 0 \in T
  BY <1>1, <1>2
<1>4. ASSUME NEW k \in T PROVE k + 1 \in T
  <2>1. k \in Nat
    OBVIOUS
  <2> SUFFICES ASSUME k + 1 <= n, f[k + 1] = g[k + 1] PROVE id1 = id2
    BY <2>1
  <2>2. Join(f[k], proof[k + 1], Bit(index, k + 1)) = Join(g[k], proof[k + 1], Bit(index, k + 1))
    BY <1>1, <1>2, <2>1
  <2>3. f[k] = g[k]
    BY <2>2, PairIs DEF Join
  <2>4. k <= n
    BY <2>1 DEF n
  <2> QED BY <2>3, <2>4
<1>5. T = Nat
  <2>1. T \in SUBSET Nat
    OBVIOUS
  <2> HIDE DEF T
  <2> QED BY <1>3, <1>4, <2>1, NatSetInduction
<1>6. f[n] = g[n] => id1 = id2
  <2>1. n \in Nat /\ n <= n
    BY DEF n
  <2>2. n \in T
    BY <1>5, <2>1
  <2> QED BY <2>1, <2>2
<1> QED BY <1>1, <1>2, <1>6

LEMMA ProofLengths ==
  ASSUME NEW S, NEW list \in Seq(S), list # <<>>, NEW index
  PROVE  /\ Len(AuditPath(list, index)) = Height(list)
         /\ Len(MerkleProof(list, index)) = Height(list)
         /\ DOMAIN AuditPath(list, index) = 1..Height(list)
         /\ DOMAIN MerkleProof(list, index) = 1..Height(list)
<1>1. Height(list) \in Nat
  BY HeightIs, LeavesAre
<1> QED BY <1>1 DEF AuditPath, MerkleProof

(* Up the siblings a transaction arrives at the root: after i rounds the   *)
(* node is the one at the halved index in level i.                         *)
LEMMA AuditUp ==
  ASSUME NEW S, NEW list \in Seq(S), list # <<>>, NEW index \in Indices(list)
  PROVE  HashUp(list[index + 1], AuditPath(list, index), index) = MerkleRoot(list)
<1> DEFINE level == Levels(list)
           H == Height(list)
           N == Len(list)
           path == AuditPath(list, index)
           at(i) == Halved(index, i)
<1>1. /\ N \in Nat \ {0} /\ H \in 1..N /\ Len(level[H]) = 1 /\ index \in Nat
      /\ index + 1 \in DOMAIN list /\ Len(path) = H
  BY LeavesAre, HeightIs, ProofLengths DEF Indices
<1>2. /\ at(0) = index
      /\ \A k \in Nat : at(k) \in Nat /\ at(k + 1) = at(k) \div 2
  BY <1>1, HalvedIs
<1>3. PICK f : /\ f[0] = list[index + 1] /\ HashUp(list[index + 1], path, index) = f[H]
               /\ \A k \in Nat : k + 1 <= H =>
                    f[k + 1] = Join(f[k], path[k + 1], Bit(index, k + 1))
  <2>1. Len(path) \in Nat
    BY <1>1
  <2> DEFINE id == list[index + 1]
  <2> HIDE DEF path, id
  <2>2. \E f : /\ f[0] = id /\ HashUp(id, path, index) = f[Len(path)]
               /\ \A k \in Nat : k + 1 <= Len(path) =>
                    f[k + 1] = Join(f[k], path[k + 1], Bit(index, k + 1))
    BY <2>1, HashUpIs
  <2> HIDE DEF H
  <2>3. Len(path) = H
    BY <1>1
  <2> QED BY <2>2, <2>3 DEF id
<1>4. ASSUME NEW k \in Nat, k + 1 <= H
      PROVE  /\ Row(level[k]) /\ level[k + 1] = NextLevel(level[k])
             /\ Bit(index, k + 1) = at(k) % 2
             /\ path[k + 1] = level[k][(IF at(k) % 2 = 1 THEN at(k) - 1
                                        ELSE IF at(k) + 1 < Len(level[k]) THEN at(k) + 1
                                        ELSE at(k)) + 1]
  <2>1. k \in 0..N /\ k + 1 <= N /\ (k + 1) - 1 = k /\ k + 1 \in 1..H
    BY <1>1, <1>4
  <2>2. Row(level[k]) /\ level[k + 1] = NextLevel(level[k])
    BY <1>1, <2>1, RowsAre, LevelsAre
  <2>3. Bit(index, k + 1) = at(k) % 2
    BY <2>1 DEF Bit
  <2> QED BY <2>1, <2>2, <2>3 DEF AuditPath
<1>5. level[0] = Leaves(list)
  BY <1>1, LevelsAre
<1>6. /\ index + 1 \in DOMAIN Leaves(list) /\ Leaves(list)[index + 1] = list[index + 1]
      /\ Row(Leaves(list))
  BY <1>1, LeavesAre
<1>7. MerkleRoot(list) = level[H][1]
  BY RootIs
<1> HIDE DEF path, level, H, N, at
<1> DEFINE T == {k \in Nat : k <= H => at(k) < Len(level[k]) /\ f[k] = level[k][at(k) + 1]}
<1>8. 0 \in T
  <2>1. index < Len(Leaves(list))
    BY <1>1, <1>6 DEF Row
  <2> QED BY <1>2, <1>3, <1>5, <1>6, <2>1
<1>9. ASSUME NEW k \in T PROVE k + 1 \in T
  <2>1. k \in Nat
    OBVIOUS
  <2> SUFFICES ASSUME k + 1 <= H
               PROVE  at(k + 1) < Len(level[k + 1]) /\ f[k + 1] = level[k + 1][at(k + 1) + 1]
    BY <2>1
  <2> DEFINE nodes == level[k]
             n == Len(nodes)
             h == at(k)
             p == at(k + 1) + 1
  <2>2. h < n /\ f[k] = nodes[h + 1]
    BY <1>1, <2>1
  <2>3. Row(nodes) /\ level[k + 1] = NextLevel(nodes)
    BY <1>4, <2>1
  <2>4. h \in Nat /\ at(k + 1) = h \div 2
    BY <1>2, <2>1
  <2>5. f[k + 1] = Join(f[k], path[k + 1], h % 2)
    BY <1>3, <1>4, <2>1
  <2>6. path[k + 1] = nodes[(IF h % 2 = 1 THEN h - 1 ELSE IF h + 1 < n THEN h + 1 ELSE h) + 1]
    BY <1>4, <2>1
  <2>7. n \in Nat \ {0}
    BY <2>3 DEF Row
  <2>8. Partner(nodes, p) = IF 2 * p <= n THEN 2 * p ELSE 2 * p - 1
    BY DEF Partner
  <2>9. /\ Len(level[k + 1]) = (n + 1) \div 2
        /\ \A i \in 1..((n + 1) \div 2) :
             level[k + 1][i] = DoubleHash(<<nodes[2 * i - 1], nodes[Partner(nodes, i)]>>)
    BY <2>3, NextLevelIs
  <2> HIDE DEF nodes, n, h
  <2>10. p = (h \div 2) + 1
    BY <2>4
  <2> HIDE DEF p
  <2>11. p \in 1..((n + 1) \div 2) /\ (h % 2 = 0 \/ h % 2 = 1)
    BY <2>2, <2>4, <2>7, <2>10
  <2>12. level[k + 1][p] = Join(f[k], path[k + 1], h % 2)
    <3>1. CASE h % 2 = 0
      <4>1. 2 * p - 1 = h + 1
        BY <2>4, <2>10, <3>1
      <4>2. Partner(nodes, p) = (IF h + 1 < n THEN h + 1 ELSE h) + 1
        BY <2>4, <2>7, <2>8, <2>11, <4>1
      <4>3. path[k + 1] = nodes[Partner(nodes, p)]
        BY <2>6, <3>1, <4>2
      <4> QED BY <2>2, <2>9, <2>11, <3>1, <4>1, <4>3 DEF Join
    <3>2. CASE h % 2 = 1
      <4>1. 2 * p - 1 = (h - 1) + 1 /\ 2 * p = h + 1
        BY <2>4, <2>10, <3>2
      <4>2. Partner(nodes, p) = h + 1
        BY <2>2, <2>4, <2>7, <2>8, <4>1
      <4>3. path[k + 1] = nodes[2 * p - 1]
        BY <2>6, <3>2, <4>1
      <4> QED BY <2>2, <2>9, <2>11, <3>2, <4>2, <4>3 DEF Join
    <3> QED BY <2>11, <3>1, <3>2
  <2>13. at(k + 1) < Len(level[k + 1])
    BY <2>4, <2>7, <2>9, <2>10, <2>11
  <2> QED BY <2>5, <2>12, <2>13 DEF p
<1>10. T = Nat
  <2>1. T \in SUBSET Nat
    OBVIOUS
  <2> HIDE DEF T
  <2> QED BY <1>8, <1>9, <2>1, NatSetInduction
<1>11. at(H) < 1 /\ f[H] = level[H][at(H) + 1] /\ at(H) \in Nat
  <2>1. H \in Nat /\ H <= H
    BY <1>1
  <2>2. H \in T
    BY <1>10, <2>1
  <2>3. at(H) < Len(level[H]) /\ f[H] = level[H][at(H) + 1]
    BY <2>1, <2>2
  <2> QED BY <1>1, <1>2, <2>1, <2>3
<1>12. at(H) = 0
  BY <1>11
<1> QED BY <1>3, <1>7, <1>11, <1>12 DEF path

(* The leftmost node of a level below the root and its neighbour make the  *)
(* leftmost node above.                                                    *)
LEMMA Leftmost ==
  ASSUME NEW S, NEW list \in Seq(S), list # <<>>, NEW k \in Nat, k + 1 <= Height(list)
  PROVE  /\ Levels(list)[k + 1][1] = DoubleHash(<<Levels(list)[k][1], Levels(list)[k][2]>>)
         /\ 1 \in DOMAIN Levels(list)[k] /\ 2 \in DOMAIN Levels(list)[k]
<1> DEFINE nodes == Levels(list)[k]
           N == Len(list)
           H == Height(list)
<1>1. N \in Nat /\ H \in 1..N /\ \A m \in 0..(H - 1) : Len(Levels(list)[m]) # 1
  BY HeightIs, LeavesAre
<1>2. k \in 0..N /\ k + 1 <= N /\ k \in 0..(H - 1)
  BY <1>1
<1>3. Row(nodes) /\ Levels(list)[k + 1] = NextLevel(nodes)
  BY <1>1, <1>2, RowsAre, LevelsAre
<1>4. Len(nodes) # 1
  BY <1>1, <1>2
<1> HIDE DEF nodes, N, H
<1>5. Len(nodes) \in Nat \ {0, 1}
  BY <1>3, <1>4 DEF Row
<1>6. 1 \in 1..((Len(nodes) + 1) \div 2) /\ 2 * 1 - 1 = 1 /\ Partner(nodes, 1) = 2
  <2> DEFINE n == Len(nodes)
  <2>1. Partner(nodes, 1) = IF 2 * 1 <= n THEN 2 * 1 ELSE 2 * 1 - 1
    BY DEF Partner
  <2>2. n \in Nat \ {0, 1}
    BY <1>5
  <2> HIDE DEF n
  <2>3. 2 * 1 <= n /\ 1 \in 1..((n + 1) \div 2)
    BY <2>2
  <2>4. Partner(nodes, 1) = 2 /\ 2 * 1 - 1 = 1
    BY <2>1, <2>3
  <2> QED BY <2>3, <2>4 DEF n
<1>7. NextLevel(nodes)[1] = DoubleHash(<<nodes[2 * 1 - 1], nodes[Partner(nodes, 1)]>>)
  BY <1>3, <1>6, NextLevelIs
<1>8. NextLevel(nodes)[1] = DoubleHash(<<nodes[1], nodes[2]>>)
  BY <1>6, <1>7
<1>9. 1 \in DOMAIN nodes /\ 2 \in DOMAIN nodes
  BY <1>3, <1>5 DEF Row
<1> QED BY <1>3, <1>8, <1>9 DEF nodes

(* MerkleProof walks down the left edge: entry d is a child of the         *)
(* leftmost node at level Height - d + 1, whatever the index.              *)
Walk(f, list) ==
  f = [d \in 0..Height(list) |-> IF d = 0 THEN NewMerkleTree(list) ELSE Left(f[d - 1])]

LEMMA WalkIs ==
  ASSUME NEW S, NEW list \in Seq(S), list # <<>>
  PROVE  /\ \E f : Walk(f, list)
         /\ \A f : Walk(f, list) =>
              \A d \in 0..Height(list) : f[d] = Levels(list)[Height(list) - d][1]
<1> DEFINE level == Levels(list)
           H == Height(list)
           merkle == NewMerkleTree(list)
           g == [d \in 0..H |-> level[H - d][1]]
<1>1. H \in Nat /\ merkle = level[H][1]
  <2>1. Len(list) \in Nat /\ H \in 1..Len(list)
    BY HeightIs, LeavesAre
  <2>2. merkle = level[H][1]
    BY RootIs
  <2> QED BY <2>1, <2>2
<1>2. ASSUME NEW d \in Nat, d + 1 <= H
      PROVE  Left(level[H - d][1]) = level[H - (d + 1)][1]
  <2> DEFINE k == H - (d + 1)
  <2>1. k \in Nat /\ k + 1 <= H /\ k + 1 = H - d
    BY <1>1, <1>2
  <2> HIDE DEF k
  <2>2. level[k + 1][1] = DoubleHash(<<level[k][1], level[k][2]>>)
    BY <2>1, Leftmost
  <2>3. Left(level[k + 1][1]) = level[k][1]
    BY <2>2, PairIs
  <2> HIDE DEF level, H
  <2> QED BY <2>1, <2>3 DEF k
<1> HIDE DEF level, H, merkle
<1>3. Walk(g, list)
  <2>1. ASSUME NEW d \in 0..H PROVE g[d] = IF d = 0 THEN merkle ELSE Left(g[d - 1])
    <3>1. CASE d = 0
      BY <1>1, <3>1
    <3>2. CASE d # 0
      <4> DEFINE e == d - 1
      <4>1. e \in Nat /\ e + 1 = d /\ e + 1 <= H /\ e \in 0..H
        BY <1>1, <3>2
      <4>2. g[e] = level[H - e][1] /\ g[d] = level[H - d][1]
        BY <4>1
      <4> HIDE DEF e
      <4>3. Left(level[H - e][1]) = level[H - (e + 1)][1]
        BY <1>2, <4>1
      <4>4. g[d] = Left(g[e])
        BY <4>1, <4>2, <4>3
      <4> QED BY <3>2, <4>4 DEF e
    <3> QED BY <3>1, <3>2
  <2> QED BY <2>1 DEF Walk, H, merkle
<1>4. ASSUME NEW f, Walk(f, list), NEW d \in 0..H PROVE f[d] = level[H - d][1]
  <2>1. f = [i \in 0..H |-> IF i = 0 THEN merkle ELSE Left(f[i - 1])]
    BY <1>4 DEF Walk, H, merkle
  <2> DEFINE T == {i \in Nat : i <= H => f[i] = level[H - i][1]}
  <2>2. 0 \in T
    BY <1>1, <2>1
  <2>3. ASSUME NEW i \in T PROVE i + 1 \in T
    <3>1. i \in Nat
      OBVIOUS
    <3> SUFFICES ASSUME i + 1 <= H PROVE f[i + 1] = level[H - (i + 1)][1]
      BY <3>1
    <3>2. i + 1 \in 0..H /\ i + 1 # 0 /\ (i + 1) - 1 = i /\ i <= H
      BY <1>1, <3>1
    <3>3. f[i] = level[H - i][1]
      BY <3>2
    <3>4. f[i + 1] = Left(f[i])
      BY <2>1, <3>2
    <3> QED BY <1>2, <3>1, <3>3, <3>4
  <2>4. T = Nat
    <3>1. T \in SUBSET Nat
      OBVIOUS
    <3> HIDE DEF T
    <3> QED BY <2>2, <2>3, <3>1, NatSetInduction
  <2>5. d \in T /\ d <= H
    BY <1>1, <2>4
  <2> QED BY <2>5
<1> QED BY <1>3, <1>4 DEF level, H

LEMMA ProofIs ==
  ASSUME NEW S, NEW list \in Seq(S), list # <<>>, NEW index, NEW d \in 1..Height(list)
  PROVE  MerkleProof(list, index)[d]
           = IF Bit(index, d) = 0 THEN Levels(list)[Height(list) - d][2]
             ELSE Levels(list)[Height(list) - d][1]
<1> DEFINE level == Levels(list)
           H == Height(list)
           walk == CHOOSE f : Walk(f, list)
<1>1. Walk(walk, list)
  BY WalkIs
<1>2. MerkleProof(list, index)
        = [i \in 1..H |-> IF Bit(index, i) = 0 THEN Right(walk[i - 1]) ELSE Left(walk[i - 1])]
  BY DEF MerkleProof, Walk
<1> HIDE DEF walk
<1>3. H \in Nat
  BY HeightIs, LeavesAre
<1> DEFINE k == H - d
<1>4. k \in Nat /\ k + 1 <= H /\ d - 1 \in 0..H /\ H - (d - 1) = k + 1
  BY <1>3
<1>5. level[k + 1][1] = DoubleHash(<<level[k][1], level[k][2]>>)
  <2> HIDE DEF k
  <2> QED BY <1>4, Leftmost
<1>6. walk[d - 1] = level[H - (d - 1)][1]
  BY <1>1, <1>4, WalkIs
<1> HIDE DEF k, level, H
<1>7. walk[d - 1] = DoubleHash(<<level[k][1], level[k][2]>>)
  BY <1>4, <1>5, <1>6
<1>8. Right(walk[d - 1]) = level[k][2] /\ Left(walk[d - 1]) = level[k][1]
  BY <1>7, PairIs
<1>9. d \in 1..H
  BY DEF H
<1> QED BY <1>2, <1>8, <1>9 DEF k, level, H

(* The lists of a block, and what stays true of one as it grows.           *)
Listed(list) == list \in Seq(TxHash) /\ Len(list) <= MaxTxs

MerkleInv == Listed(txHashes)

LEMMA ListedIs == \A list : list \in BoundedSeq(TxHash, MaxTxs) <=> Listed(list)
<1>1. ASSUME NEW list \in BoundedSeq(TxHash, MaxTxs) PROVE Listed(list)
  <2>1. PICK m \in 0..MaxTxs : list \in [1..m -> TxHash]
    BY DEF BoundedSeq, SeqOf
  <2>2. m \in Nat /\ m <= MaxTxs
    BY MaxTxsAssumption
  <2>3. list \in Seq(TxHash) /\ Len(list) = m
    BY <2>1, <2>2
  <2> QED BY <2>2, <2>3 DEF Listed
<1>2. ASSUME NEW list, Listed(list) PROVE list \in BoundedSeq(TxHash, MaxTxs)
  <2>1. list \in Seq(TxHash) /\ Len(list) \in Nat /\ Len(list) <= MaxTxs
    BY <1>2 DEF Listed
  <2>2. list \in [1..Len(list) -> TxHash] /\ Len(list) \in 0..MaxTxs
    BY <2>1, MaxTxsAssumption
  <2> QED BY <2>2 DEF BoundedSeq, SeqOf
<1> QED BY <1>1, <1>2

LEMMA MerkleInvCorrect == MerkleSpec => []MerkleInv
<1>1. MerkleInit => MerkleInv
  BY MaxTxsAssumption DEF MerkleInit, MerkleInv, Listed
<1>2. MerkleInv /\ [MerkleNext]_txHashes => MerkleInv'
  <2> SUFFICES ASSUME MerkleInv, NEW id \in TxHash, CollectID(id) PROVE MerkleInv'
    BY DEF MerkleInv, MerkleNext
  <2>1. txHashes \in Seq(TxHash) /\ Len(txHashes) < MaxTxs /\ txHashes' = Append(txHashes, id)
    BY DEF MerkleInv, Listed, CollectID
  <2>2. txHashes' \in Seq(TxHash) /\ Len(txHashes') = Len(txHashes) + 1 /\ Len(txHashes) \in Nat
    BY <2>1, AppendProperties
  <2> QED BY <2>1, <2>2, MaxTxsAssumption DEF MerkleInv, Listed
<1> QED BY <1>1, <1>2, PTL DEF MerkleSpec

(* VerifyMerkleProof decides: with the siblings on the way up of an index  *)
(* it accepts the transaction at that index and no other, for a block of   *)
(* any size.                                                               *)
LEMMA VerifyExactIs == MerkleInv => VerifyExact
<1> SUFFICES ASSUME MerkleInv, NEW index \in Indices(txHashes)
             PROVE  LET path == AuditPath(txHashes, index)
                        merkle == MerkleRoot(txHashes)
                    IN  /\ \A id \in TxHash : VerifyMerkleProof(id, merkle, path, index)
                                                <=> id = txHashes[index + 1]
                        /\ \A j \in Indices(txHashes) :
                             Binds(path, j, merkle) /\ Binds(MerkleProof(txHashes, index), j, merkle)
  BY DEF VerifyExact
<1>1. txHashes \in Seq(TxHash) /\ Len(txHashes) \in Nat
  BY DEF MerkleInv, Listed
<1>2. txHashes # <<>>
  BY DEF Indices
<1>3. index + 1 \in 1..Len(txHashes) /\ txHashes[index + 1] \in TxHash
  BY <1>1 DEF Indices
<1> DEFINE path == AuditPath(txHashes, index)
           merkle == MerkleRoot(txHashes)
           proof == MerkleProof(txHashes, index)
           tx == txHashes[index + 1]
<1>4. Len(path) \in Nat /\ Len(proof) \in Nat
  BY <1>1, <1>2, ProofLengths, HeightIs
<1>5. HashUp(tx, path, index) = merkle
  BY <1>1, <1>2, AuditUp
<1> HIDE DEF path, merkle, proof, tx
<1>6. \A j : Binds(path, j, merkle) /\ Binds(proof, j, merkle)
  BY <1>4, ProofBinds
<1>7. \A id \in TxHash : HashUp(id, path, index) = merkle <=> id = tx
  BY <1>3, <1>5, <1>6 DEF Binds, VerifyMerkleProof, tx
<1> QED BY <1>6, <1>7 DEF VerifyMerkleProof, path, merkle, proof, tx

(* VerifyMerkleProof accepts the transaction at an index, with the         *)
(* siblings on its way up, and no other, in a block of any size; and no    *)
(* proof verifies two.                                                     *)
THEOREM VerifyExactCorrect == MerkleSpec => []VerifyExact
<1> QED BY MerkleInvCorrect, VerifyExactIs, PTL

(* With one or two transactions the tree has one round, and what           *)
(* MerkleProof finds there is the one sibling there is.                    *)
LEMMA PairProof ==
  ASSUME NEW S, NEW list \in Seq(S), list # <<>>, Len(list) <= 2, NEW index \in Indices(list)
  PROVE  MerkleProof(list, index) = AuditPath(list, index)
<1> DEFINE level == Levels(list)
           H == Height(list)
           there == IF index % 2 = 1 THEN index - 1
                    ELSE IF index + 1 < 2 THEN index + 1 ELSE index
<1>1. /\ Len(list) \in 1..2 /\ index \in {0, 1} /\ level[0] = Leaves(list) /\ Len(level[0]) = 2
      /\ H \in 1..Len(list) /\ \A m \in 0..(H - 1) : Len(level[m]) # 1
  <2>1. /\ Len(list) \in Nat \ {0}
        /\ Len(Leaves(list)) = IF Len(list) = 1 THEN 2 ELSE Len(list)
    BY LeavesAre
  <2>2. level[0] = Leaves(list)
    BY <2>1, LevelsAre
  <2>3. H \in 1..Len(list) /\ \A m \in 0..(H - 1) : Len(level[m]) # 1
    BY HeightIs
  <2>4. Len(list) \in 1..2 /\ index \in {0, 1}
    <3> DEFINE n == Len(list)
    <3>1. n \in Nat \ {0} /\ n <= 2 /\ index \in 0..(n - 1)
      BY <2>1 DEF Indices
    <3> HIDE DEF n
    <3>2. n \in 1..2 /\ index \in {0, 1}
      BY <3>1
    <3> QED BY <3>2 DEF n
  <2>5. Len(Leaves(list)) = 2
    BY <2>1, <2>4
  <2> QED BY <2>2, <2>3, <2>4, <2>5
<1>2. H = 1
  <2> SUFFICES ASSUME H = 2 PROVE FALSE
    BY <1>1
  <2>1. Row(level[0]) /\ level[0 + 1] = NextLevel(level[0])
    <3>1. Row(Leaves(list)) /\ 0 \in Nat /\ 0 + 1 <= Len(list) /\ Len(list) \in Nat
      BY <1>1, LeavesAre
    <3>2. \A k \in Nat : k + 1 <= Len(list) => level[k + 1] = NextLevel(level[k])
      BY <3>1, LevelsAre
    <3> HIDE DEF level
    <3> QED BY <1>1, <3>1, <3>2
  <2>2. Len(NextLevel(level[0])) = (Len(level[0]) + 1) \div 2
    BY <2>1, NextLevelIs
  <2> HIDE DEF level, H
  <2>3. (2 + 1) \div 2 = 1 /\ 0 + 1 = 1 /\ 1 \in 0..(H - 1)
    OBVIOUS
  <2> QED BY <1>1, <2>1, <2>2, <2>3
<1>3. Bit(index, 1) = index % 2 /\ Halved(index, 0) = index
  <2>1. index \in Nat
    BY <1>1
  <2>2. Halved(index, 0) = index /\ 1 - 1 = 0
    BY <2>1, HalvedIs
  <2> QED BY <2>2 DEF Bit
<1>4. AuditPath(list, index) = [i \in 1..1 |-> level[0][there + 1]]
  <2>1. \A i \in 1..1 : i = 1 /\ i - 1 = 0
    OBVIOUS
  <2> HIDE DEF level
  <2> QED BY <1>1, <1>2, <1>3, <2>1 DEF AuditPath, level
<1>5. MerkleProof(list, index)[1] = IF Bit(index, 1) = 0 THEN level[0][2] ELSE level[0][1]
  <2>1. 1 \in 1..H /\ H - 1 = 0
    BY <1>2
  <2> HIDE DEF level
  <2> QED BY <2>1, ProofIs DEF level
<1>6. MerkleProof(list, index)[1] = level[0][there + 1]
  <2> HIDE DEF level
  <2>1. CASE index = 0
    <3>1. there + 1 = 2 /\ index % 2 = 0
      BY <2>1
    <3> QED BY <1>3, <1>5, <3>1
  <2>2. CASE index = 1
    <3>1. there + 1 = 1 /\ index % 2 = 1
      BY <2>2
    <3> QED BY <1>3, <1>5, <3>1
  <2> QED BY <1>1, <2>1, <2>2
<1>7. \E e : MerkleProof(list, index) = [i \in 1..H |-> e[i]]
  <2> DEFINE walk == CHOOSE f : Walk(f, list)
             e == [i \in 1..H |-> IF Bit(index, i) = 0 THEN Right(walk[i - 1]) ELSE Left(walk[i - 1])]
  <2>1. MerkleProof(list, index) = e
    BY DEF MerkleProof, Walk
  <2>2. e = [i \in 1..H |-> e[i]]
    OBVIOUS
  <2> QED BY <2>1, <2>2
<1> HIDE DEF level, H, there
<1>8. PICK e : MerkleProof(list, index) = [i \in 1..1 |-> e[i]]
  BY <1>2, <1>7
<1>9. 1 \in 1..1 /\ \A i \in 1..1 : i = 1
  OBVIOUS
<1> QED BY <1>4, <1>6, <1>8, <1>9

(* With three or more its last entry is a transaction ID, hashed in the    *)
(* last round, where the root has no transaction for a child.              *)
LEMMA LongProof ==
  ASSUME NEW list, Listed(list), Len(list) > 2, NEW index, NEW id
  PROVE  HashUp(id, MerkleProof(list, index), index) # MerkleRoot(list)
<1> DEFINE level == Levels(list)
           H == Height(list)
           proof == MerkleProof(list, index)
<1>1. list \in Seq(TxHash) /\ list # <<>> /\ Len(list) \in Nat
  BY DEF Listed
<1>2. /\ H \in 1..Len(list) /\ Len(level[H - 1]) = 2 /\ MerkleRoot(list) = level[H][1]
      /\ level[H][1] = DoubleHash(<<level[H - 1][1], level[H - 1][2]>>)
  BY <1>1, HeightIs, RootIs
<1>3. /\ level[0] = Leaves(list) /\ Len(level[0]) = Len(list)
      /\ \A i \in DOMAIN level[0] : level[0][i] \in TxHash
  BY <1>1, LeavesAre, LevelsAre
<1>4. H # 1
  <2> SUFFICES ASSUME H = 1 PROVE FALSE
    OBVIOUS
  <2>1. H - 1 = 0
    OBVIOUS
  <2>2. Len(level[H - 1]) = Len(level[0])
    BY <2>1
  <2> HIDE DEF level, H
  <2>3. Len(list) = 2
    BY <1>2, <1>3, <2>2
  <2> QED BY <2>3
<1>5. H \in Nat /\ H - 1 \in 1..H /\ H - 1 \in Nat /\ H \in 1..H /\ (H - 1) + 1 = H /\ H - H = 0
  BY <1>1, <1>2, <1>4
<1>6. proof[H] \in TxHash
  <2>1. proof[H] = IF Bit(index, H) = 0 THEN level[H - H][2] ELSE level[H - H][1]
    BY <1>1, <1>5, ProofIs
  <2>2. 1 \in DOMAIN level[0] /\ 2 \in DOMAIN level[0]
    <3>1. 0 \in Nat /\ 0 + 1 <= H
      BY <1>5
    <3> QED BY <1>1, <3>1, Leftmost
  <2> HIDE DEF level, H, proof
  <2> QED BY <1>3, <1>5, <2>1, <2>2
<1>7. level[H - 1][1] \notin TxHash /\ level[H - 1][2] \notin TxHash
  <2>1. list \in BoundedSeq(TxHash, MaxTxs) \ {<<>>}
    BY <1>1, ListedIs
  <2>2. 1 \in DOMAIN level[H - 1] /\ 2 \in DOMAIN level[H - 1]
    <3> DEFINE k == H - 1
    <3>1. k \in Nat /\ k + 1 <= H
      BY <1>5
    <3> HIDE DEF k
    <3>2. 1 \in DOMAIN level[k] /\ 2 \in DOMAIN level[k]
      BY <1>1, <3>1, Leftmost
    <3> QED BY <3>2 DEF k
  <2>3. \A n \in 1..H : \A i \in DOMAIN level[n] : level[n][i] \notin TxHash
    BY <2>1, LeafAssumption
  <2> HIDE DEF level, H
  <2> QED BY <1>5, <2>2, <2>3
<1>8. Len(proof) = H
  BY <1>1, ProofLengths
<1> HIDE DEF level, H, proof
<1>9. PICK f : /\ HashUp(id, proof, index) = f[H]
               /\ \A k \in Nat : k + 1 <= H => f[k + 1] = Join(f[k], proof[k + 1], Bit(index, k + 1))
  <2>1. Len(proof) \in Nat
    BY <1>5, <1>8
  <2>2. \E f : /\ f[0] = id /\ HashUp(id, proof, index) = f[Len(proof)]
               /\ \A k \in Nat : k + 1 <= Len(proof) =>
                    f[k + 1] = Join(f[k], proof[k + 1], Bit(index, k + 1))
    BY <2>1, HashUpIs
  <2> QED BY <1>8, <2>2
<1>10. f[H] = Join(f[H - 1], proof[H], Bit(index, H))
  <2> DEFINE k == H - 1
  <2>1. k \in Nat /\ k + 1 = H /\ k + 1 <= H
    BY <1>5
  <2> HIDE DEF k
  <2>2. f[k + 1] = Join(f[k], proof[k + 1], Bit(index, k + 1))
    BY <1>9, <2>1
  <2> QED BY <2>1, <2>2 DEF k
<1>11. f[H] # DoubleHash(<<level[H - 1][1], level[H - 1][2]>>)
  BY <1>6, <1>7, <1>10, PairIs DEF Join
<1> QED BY <1>2, <1>9, <1>11 DEF proof, level, H

(* What MerkleProof returns verifies its transaction in blocks of one or   *)
(* two, and in no larger block anything.                                   *)
THEOREM ProofsOfPairsOnlyCorrect == MerkleSpec => []ProofsOfPairsOnly
<1>1. MerkleInv => ProofsOfPairsOnly
  <2> SUFFICES ASSUME MerkleInv, NEW index \in Indices(txHashes), NEW id \in TxHash
               PROVE  VerifyMerkleProof(id, MerkleRoot(txHashes), MerkleProof(txHashes, index), index)
                        <=> Len(txHashes) <= 2 /\ id = txHashes[index + 1]
    BY DEF ProofsOfPairsOnly
  <2>1. txHashes \in Seq(TxHash) /\ Len(txHashes) \in Nat /\ Listed(txHashes)
    BY DEF MerkleInv, Listed
  <2>2. txHashes # <<>>
    BY DEF Indices
  <2>3. CASE Len(txHashes) <= 2
    <3>1. MerkleProof(txHashes, index) = AuditPath(txHashes, index)
      BY <2>1, <2>2, <2>3, PairProof
    <3>2. VerifyExact
      BY VerifyExactIs
    <3>3. VerifyMerkleProof(id, MerkleRoot(txHashes), AuditPath(txHashes, index), index)
            <=> id = txHashes[index + 1]
      BY <3>2 DEF VerifyExact
    <3> QED BY <2>3, <3>1, <3>3
  <2>4. CASE Len(txHashes) > 2
    <3>1. HashUp(id, MerkleProof(txHashes, index), index) # MerkleRoot(txHashes)
      BY <2>1, <2>4, LongProof
    <3>2. ~(Len(txHashes) <= 2)
      BY <2>1, <2>4
    <3> QED BY <3>1, <3>2 DEF VerifyMerkleProof
  <2> QED BY <2>1, <2>3, <2>4
<1> QED BY <1>1, MerkleInvCorrect, PTL

(* Two trees of the same root have the same height: down the left edge the *)
(* same nodes follow, and only at the bottom is a node a transaction ID.   *)
LEMMA NotHigher ==
  ASSUME NEW A, Listed(A), A # <<>>, NEW B, Listed(B), B # <<>>,
         Height(A) < Height(B)
  PROVE  MerkleRoot(A) # MerkleRoot(B)
<1> DEFINE a == Levels(A)
           b == Levels(B)
           H == Height(A)
           K == Height(B)
<1>1. /\ A \in Seq(TxHash) /\ B \in Seq(TxHash) /\ Len(A) \in Nat /\ Len(B) \in Nat
      /\ H \in 1..Len(A) /\ K \in 1..Len(B)
  <2>1. A \in Seq(TxHash) /\ B \in Seq(TxHash) /\ Len(A) \in Nat /\ Len(B) \in Nat
    BY DEF Listed
  <2>2. H \in 1..Len(A) /\ K \in 1..Len(B)
    BY <2>1, HeightIs
  <2> QED BY <2>1, <2>2
<1>2. H \in Nat /\ K \in Nat /\ H < K /\ 1 <= H
  BY <1>1
<1>3. \A k \in Nat : k + 1 <= H => a[k + 1][1] = DoubleHash(<<a[k][1], a[k][2]>>)
  BY <1>1, Leftmost
<1>4. \A k \in Nat : k + 1 <= K => /\ b[k + 1][1] = DoubleHash(<<b[k][1], b[k][2]>>)
                                  /\ 1 \in DOMAIN b[k]
  BY <1>1, Leftmost
<1>5. MerkleRoot(A) = a[H][1] /\ MerkleRoot(B) = b[K][1]
  BY <1>1, RootIs
<1>6. a[0][1] \in TxHash
  <2>1. a[0] = Leaves(A) /\ \A i \in DOMAIN Leaves(A) : Leaves(A)[i] \in TxHash
    BY <1>1, LevelsAre, LeavesAre
  <2>2. 0 \in Nat /\ 0 + 1 <= Height(A)
    BY <1>2
  <2>3. 1 \in DOMAIN Levels(A)[0]
    BY <1>1, <2>2, Leftmost
  <2> QED BY <2>1, <2>3
<1>7. b[K - H][1] \notin TxHash
  <2>1. B \in BoundedSeq(TxHash, MaxTxs) \ {<<>>}
    BY ListedIs
  <2>2. \A n \in 1..K : \A i \in DOMAIN b[n] : b[n][i] \notin TxHash
    BY <2>1, LeafAssumption
  <2>3. K - H \in Nat /\ K - H \in 1..K /\ (K - H) + 1 <= K
    BY <1>2
  <2> HIDE DEF a, b, H, K
  <2>4. 1 \in DOMAIN b[K - H]
    BY <1>4, <2>3
  <2> QED BY <2>2, <2>3, <2>4
<1> HIDE DEF a, b, H, K
<1> SUFFICES ASSUME a[H][1] = b[K][1] PROVE FALSE
  BY <1>5
<1> DEFINE T == {d \in Nat : d <= H => a[H - d][1] = b[K - d][1]}
<1>8. 0 \in T
  BY <1>2
<1>9. ASSUME NEW d \in T PROVE d + 1 \in T
  <2>1. d \in Nat
    OBVIOUS
  <2> SUFFICES ASSUME d + 1 <= H PROVE a[H - (d + 1)][1] = b[K - (d + 1)][1]
    BY <2>1
  <2> DEFINE k == H - (d + 1)
             l == K - (d + 1)
  <2>2. /\ k \in Nat /\ k + 1 <= H /\ k + 1 = H - d
        /\ l \in Nat /\ l + 1 <= K /\ l + 1 = K - d /\ d <= H
    BY <1>2, <2>1
  <2>3. a[H - d][1] = b[K - d][1]
    BY <2>2
  <2> HIDE DEF k, l
  <2>4. DoubleHash(<<a[k][1], a[k][2]>>) = DoubleHash(<<b[l][1], b[l][2]>>)
    BY <1>3, <1>4, <2>2, <2>3
  <2>5. a[k][1] = b[l][1]
    BY <2>4, PairIs
  <2> QED BY <2>5 DEF k, l
<1>10. T = Nat
  <2>1. T \in SUBSET Nat
    OBVIOUS
  <2> HIDE DEF T
  <2> QED BY <1>8, <1>9, <2>1, NatSetInduction
<1>11. a[H - H][1] = b[K - H][1]
  <2>1. H \in Nat /\ H <= H
    BY <1>2
  <2>2. H \in T
    BY <1>10, <2>1
  <2> QED BY <2>1, <2>2
<1>12. H - H = 0
  BY <1>2
<1> QED BY <1>6, <1>7, <1>11, <1>12

(* A level of one tree and the same level of the other: the shorter one is *)
(* a prefix of the longer, whose nodes it all holds.  What holds of a      *)
(* level holds of the one below it.                                        *)
Agree(a, b) ==
  /\ \A i \in 1..Len(a) : a[i] = b[i]
  /\ \A j \in 1..Len(b) : \E i \in 1..Len(a) : b[j] = a[i]

LEMMA AgreeDown ==
  ASSUME NEW a, Row(a), NEW b, Row(b), Len(a) <= Len(b), Agree(NextLevel(a), NextLevel(b))
  PROVE  Agree(a, b)
<1> DEFINE n == Len(a)
           m == Len(b)
           above == NextLevel(a)
           over == NextLevel(b)
<1>1. n \in Nat \ {0} /\ m \in Nat \ {0} /\ n <= m
  BY DEF Row
<1>2. /\ Len(above) = (n + 1) \div 2
      /\ \A i \in 1..((n + 1) \div 2) : above[i] = DoubleHash(<<a[2 * i - 1], a[Partner(a, i)]>>)
  BY NextLevelIs
<1>3. /\ Len(over) = (m + 1) \div 2
      /\ \A i \in 1..((m + 1) \div 2) : over[i] = DoubleHash(<<b[2 * i - 1], b[Partner(b, i)]>>)
  BY NextLevelIs
<1>4. /\ \A i \in 1..((n + 1) \div 2) : above[i] = over[i]
      /\ \A j \in 1..((m + 1) \div 2) : \E i \in 1..((n + 1) \div 2) : over[j] = above[i]
  BY <1>2, <1>3 DEF Agree
<1>p. /\ \A i : Partner(a, i) = IF 2 * i <= n THEN 2 * i ELSE 2 * i - 1
      /\ \A i : Partner(b, i) = IF 2 * i <= m THEN 2 * i ELSE 2 * i - 1
  BY DEF Partner
<1> HIDE DEF n, m, above, over
<1>s. ASSUME NEW k \in Nat \ {0}, NEW i \in 1..k
      PROVE  (i + 1) \div 2 \in 1..((k + 1) \div 2) /\ i \in {2 * ((i + 1) \div 2) - 1, 2 * ((i + 1) \div 2)}
  OBVIOUS
<1>5. ASSUME NEW i \in 1..n PROVE a[i] = b[i]
  <2> DEFINE p == (i + 1) \div 2
  <2>1. p \in 1..((n + 1) \div 2) /\ p \in 1..((m + 1) \div 2) /\ i \in {2 * p - 1, 2 * p}
    BY <1>1, <1>s
  <2> HIDE DEF p
  <2>2. DoubleHash(<<a[2 * p - 1], a[Partner(a, p)]>>) = DoubleHash(<<b[2 * p - 1], b[Partner(b, p)]>>)
    BY <1>2, <1>3, <1>4, <2>1
  <2>3. a[2 * p - 1] = b[2 * p - 1] /\ a[Partner(a, p)] = b[Partner(b, p)]
    BY <2>2, PairIs
  <2>4. i = 2 * p => Partner(a, p) = i /\ Partner(b, p) = i
    <3>1. i <= n /\ i <= m
      BY <1>1
    <3> QED BY <3>1, <1>p
  <2> QED BY <2>1, <2>3, <2>4
<1>6. ASSUME NEW j \in 1..m PROVE \E i \in 1..n : b[j] = a[i]
  <2> DEFINE q == (j + 1) \div 2
  <2>1. q \in 1..((m + 1) \div 2) /\ j \in {2 * q - 1, 2 * q}
    BY <1>1, <1>s
  <2> HIDE DEF q
  <2>2. PICK p \in 1..((n + 1) \div 2) : over[q] = above[p]
    BY <1>4, <2>1
  <2>3. DoubleHash(<<a[2 * p - 1], a[Partner(a, p)]>>) = DoubleHash(<<b[2 * q - 1], b[Partner(b, q)]>>)
    BY <1>2, <1>3, <2>1, <2>2
  <2>4. a[2 * p - 1] = b[2 * q - 1] /\ a[Partner(a, p)] = b[Partner(b, q)]
    BY <2>3, PairIs
  <2>5. j = 2 * q => Partner(b, q) = j
    <3>1. j <= m
      BY <1>1
    <3> QED BY <3>1, <1>p
  <2>6. 2 * p - 1 \in 1..n /\ Partner(a, p) \in 1..n
    BY <1>1, <1>p
  <2> QED BY <2>1, <2>4, <2>5, <2>6
<1> QED BY <1>5, <1>6 DEF Agree, n, m

LEMMA LeavesAgree ==
  ASSUME NEW A, Listed(A), A # <<>>, NEW B, Listed(B), B # <<>>, Len(A) <= Len(B),
         Agree(Leaves(A), Leaves(B))
  PROVE  IsPrefix(A, B) /\ ToSet(B) = ToSet(A)
<1> DEFINE n == Len(A)
           m == Len(B)
           a == Leaves(A)
           b == Leaves(B)
<1>1. A \in Seq(TxHash) /\ B \in Seq(TxHash)
  BY DEF Listed
<1>2. /\ n \in Nat \ {0} /\ DOMAIN A = 1..n /\ Row(a)
      /\ \A i \in DOMAIN A : i \in DOMAIN a /\ a[i] = A[i]
      /\ Len(a) = IF n = 1 THEN 2 ELSE n
      /\ n = 1 => a[2] = A[1]
  BY <1>1, LeavesAre
<1>3. /\ m \in Nat \ {0} /\ DOMAIN B = 1..m /\ Row(b)
      /\ \A i \in DOMAIN B : i \in DOMAIN b /\ b[i] = B[i]
  BY <1>1, LeavesAre
<1>4. DOMAIN a = 1..Len(a) /\ DOMAIN b = 1..Len(b)
  BY <1>2, <1>3 DEF Row
<1>5. n <= m
  OBVIOUS
<1> HIDE DEF n, m, a, b
<1>6. /\ \A i \in 1..Len(a) : a[i] = b[i]
      /\ \A j \in 1..Len(b) : \E i \in 1..Len(a) : b[j] = a[i]
  BY DEF Agree, a, b
<1>7. \A i \in 1..n : A[i] = B[i]
  <2> TAKE i \in 1..n
  <2>1. i \in 1..m
    BY <1>2, <1>3, <1>5
  <2>2. i \in 1..Len(a) /\ a[i] = A[i] /\ b[i] = B[i]
    BY <1>2, <1>3, <1>4, <2>1
  <2> QED BY <1>6, <2>2
<1>8. \A i \in 1..Len(a) : \E k \in 1..n : a[i] = A[k]
  <2> TAKE i \in 1..Len(a)
  <2>1. CASE n = 1
    <3>1. (i = 1 \/ i = 2) /\ 1 \in 1..n
      BY <1>2, <2>1
    <3>2. a[1] = A[1] /\ a[2] = A[1]
      BY <1>2, <2>1, <3>1
    <3> QED BY <3>1, <3>2
  <2>2. CASE n # 1
    <3>1. i \in 1..n
      BY <1>2, <2>2
    <3> QED BY <1>2, <3>1
  <2> QED BY <2>1, <2>2
<1>9. \A j \in 1..m : \E k \in 1..n : B[j] = A[k]
  <2> TAKE j \in 1..m
  <2>1. j \in 1..Len(b) /\ b[j] = B[j]
    BY <1>3, <1>4
  <2>2. PICK i \in 1..Len(a) : b[j] = a[i]
    BY <1>6, <2>1
  <2> QED BY <1>8, <2>1, <2>2
<1>10. ToSet(B) = ToSet(A)
  <2>1. ToSet(A) = {A[i] : i \in 1..n} /\ ToSet(B) = {B[i] : i \in 1..m}
    BY <1>2, <1>3 DEF ToSet
  <2>2. \A i \in 1..n : i \in 1..m
    BY <1>2, <1>3, <1>5
  <2> QED BY <1>7, <1>9, <2>1, <2>2
<1>11. IsPrefix(A, B)
  <2> DEFINE s == SubSeq(A, 1, n)
             t == SubSeq(B, 1, n)
  <2>1. s = [i \in 1..n |-> A[i]] /\ t = [i \in 1..n |-> B[i]]
    <3>1. SubSeq(A, 1, n) = [i \in 1..(1 + n - 1) |-> A[1 + i - 1]]
      BY <1>1, <1>2
    <3>2. SubSeq(B, 1, n) = [i \in 1..(1 + n - 1) |-> B[1 + i - 1]]
      BY <1>1, <1>2
    <3>3. 1 + n - 1 = n /\ \A i \in 1..n : 1 + i - 1 = i
      BY <1>2
    <3> QED BY <3>1, <3>2, <3>3
  <2>2. s = t
    BY <1>7, <2>1
  <2> QED BY <1>5, <2>2 DEF IsPrefix, n, m
<1> QED BY <1>10, <1>11

(* The root commits to the list: trees of one root have one height, and    *)
(* their levels agree from the top down to the leaves.                     *)
LEMMA RootTells ==
  ASSUME NEW A, Listed(A), A # <<>>, NEW B, Listed(B), B # <<>>, Len(A) <= Len(B),
         MerkleRoot(A) = MerkleRoot(B)
  PROVE  IsPrefix(A, B) /\ ToSet(B) = ToSet(A)
<1> DEFINE a == Levels(A)
           b == Levels(B)
           H == Height(A)
<1>1. A \in Seq(TxHash) /\ B \in Seq(TxHash)
  BY DEF Listed
<1>2. Len(A) \in Nat \ {0} /\ Len(B) \in Nat \ {0} /\ H \in 1..Len(A) /\ Height(B) \in 1..Len(B)
  <2>1. Len(A) \in Nat \ {0} /\ Len(B) \in Nat \ {0}
    BY <1>1, LeavesAre
  <2>2. H \in 1..Len(A) /\ Height(B) \in 1..Len(B)
    BY <1>1, HeightIs
  <2> QED BY <2>1, <2>2
<1>3. H = Height(B)
  <2>1. ~(Height(A) < Height(B)) /\ ~(Height(B) < Height(A))
    BY NotHigher
  <2>2. Height(A) \in Nat /\ Height(B) \in Nat
    BY <1>2
  <2> QED BY <2>1, <2>2
<1>4. H \in Nat /\ H <= Len(A) /\ H <= Len(B)
  BY <1>2
<1>5. ASSUME NEW k \in Nat, k + 1 <= H
      PROVE  /\ Row(a[k]) /\ a[k + 1] = NextLevel(a[k])
             /\ Row(b[k]) /\ b[k + 1] = NextLevel(b[k])
  <2>1. k \in 0..Len(A) /\ k + 1 <= Len(A) /\ k \in 0..Len(B) /\ k + 1 <= Len(B)
    BY <1>2, <1>4, <1>5
  <2>2. Row(a[k]) /\ Row(b[k])
    BY <1>1, <2>1, RowsAre
  <2>3. a[k + 1] = NextLevel(a[k])
    BY <1>2, <2>1, LevelsAre
  <2>4. b[k + 1] = NextLevel(b[k])
    BY <1>2, <2>1, LevelsAre
  <2> QED BY <2>2, <2>3, <2>4
<1>6. a[0] = Leaves(A) /\ b[0] = Leaves(B)
  BY <1>2, LevelsAre
<1>7. Len(a[0]) <= Len(b[0])
  <2>1. /\ Len(Leaves(A)) = IF Len(A) = 1 THEN 2 ELSE Len(A)
        /\ Len(Leaves(B)) = IF Len(B) = 1 THEN 2 ELSE Len(B)
    BY <1>1, LeavesAre
  <2> DEFINE n == Len(A)
             m == Len(B)
  <2>2. n \in Nat \ {0} /\ m \in Nat \ {0} /\ n <= m
    BY <1>2
  <2> HIDE DEF n, m
  <2>3. (IF n = 1 THEN 2 ELSE n) <= (IF m = 1 THEN 2 ELSE m)
    BY <2>2
  <2> QED BY <1>6, <2>1, <2>3 DEF n, m
<1>8. a[H][1] = b[H][1] /\ Len(a[H]) = 1 /\ Len(b[H]) = 1
  <2>1. MerkleRoot(A) = a[H][1] /\ Len(a[H]) = 1
    BY <1>1, RootIs, HeightIs
  <2>2. MerkleRoot(B) = b[Height(B)][1] /\ Len(b[Height(B)]) = 1
    BY <1>1, RootIs, HeightIs
  <2> QED BY <1>3, <2>1, <2>2
<1> HIDE DEF a, b, H
<1> DEFINE T == {k \in Nat : k + 1 <= H => Len(a[k]) <= Len(b[k])}
<1>9. 0 \in T
  BY <1>7
<1>10. ASSUME NEW k \in T PROVE k + 1 \in T
  <2>1. k \in Nat
    OBVIOUS
  <2> SUFFICES ASSUME (k + 1) + 1 <= H PROVE Len(a[k + 1]) <= Len(b[k + 1])
    BY <2>1
  <2>2. k + 1 <= H
    BY <1>4, <2>1
  <2>3. Len(a[k]) <= Len(b[k])
    BY <2>2
  <2>4. Row(a[k]) /\ a[k + 1] = NextLevel(a[k]) /\ Row(b[k]) /\ b[k + 1] = NextLevel(b[k])
    BY <1>5, <2>1, <2>2
  <2> DEFINE n == Len(a[k])
             m == Len(b[k])
  <2>5. Len(a[k + 1]) = (n + 1) \div 2
    BY <2>4, NextLevelIs
  <2>6. Len(b[k + 1]) = (m + 1) \div 2
    BY <2>4, NextLevelIs
  <2>7. n \in Nat /\ m \in Nat /\ n <= m
    BY <2>3, <2>4 DEF Row
  <2> HIDE DEF n, m
  <2>8. (n + 1) \div 2 <= (m + 1) \div 2
    BY <2>7
  <2> QED BY <2>5, <2>6, <2>8
<1>11. T = Nat
  <2>1. T \in SUBSET Nat
    OBVIOUS
  <2> HIDE DEF T
  <2> QED BY <1>9, <1>10, <2>1, NatSetInduction
<1>12. \A k \in Nat : k + 1 <= H => Len(a[k]) <= Len(b[k])
  BY <1>11
<1> DEFINE U == {d \in Nat : d <= H => Agree(a[H - d], b[H - d])}
<1>13. 0 \in U
  <2>1. Agree(a[H], b[H])
    <3>1. 1 \in 1..1 /\ \A i \in 1..1 : i = 1
      OBVIOUS
    <3> QED BY <1>8, <3>1 DEF Agree
  <2>2. H - 0 = H
    BY <1>4
  <2> QED BY <2>1, <2>2
<1>14. ASSUME NEW d \in U PROVE d + 1 \in U
  <2>1. d \in Nat
    OBVIOUS
  <2> SUFFICES ASSUME d + 1 <= H PROVE Agree(a[H - (d + 1)], b[H - (d + 1)])
    BY <2>1
  <2> DEFINE k == H - (d + 1)
  <2>2. k \in Nat /\ k + 1 <= H /\ k + 1 = H - d /\ d <= H
    BY <1>4, <2>1
  <2>3. Agree(a[H - d], b[H - d])
    BY <2>2
  <2> HIDE DEF k
  <2>4. Agree(a[k + 1], b[k + 1])
    BY <2>2, <2>3
  <2>5. Row(a[k]) /\ Row(b[k]) /\ Len(a[k]) <= Len(b[k]) /\ Agree(NextLevel(a[k]), NextLevel(b[k]))
    BY <1>5, <1>12, <2>2, <2>4
  <2>6. Agree(a[k], b[k])
    BY <2>5, AgreeDown
  <2> QED BY <2>6 DEF k
<1>15. U = Nat
  <2>1. U \in SUBSET Nat
    OBVIOUS
  <2> HIDE DEF U
  <2> QED BY <1>13, <1>14, <2>1, NatSetInduction
<1>16. Agree(a[0], b[0])
  <2>1. H \in Nat /\ H <= H /\ H - H = 0
    BY <1>4
  <2>2. H \in U
    BY <1>15, <2>1
  <2>3. Agree(a[H - H], b[H - H])
    BY <2>1, <2>2
  <2> QED BY <2>1, <2>3
<1>17. Agree(Leaves(A), Leaves(B))
  BY <1>6, <1>16
<1> QED BY <1>17, LeavesAgree

(* The root NewBlock writes commits to the transactions and their order,   *)
(* but for repetitions at the end of the longer list.                      *)
THEOREM RootBindsCorrect == MerkleSpec => []RootBinds
<1>1. MerkleInv => RootBinds
  <2> SUFFICES ASSUME MerkleInv, NEW other \in DOMAIN Roots,
                      Len(txHashes) <= Len(other), Roots[other] = MerkleRoot(txHashes)
               PROVE  IsPrefix(txHashes, other) /\ ToSet(other) = ToSet(txHashes)
    BY DEF RootBinds
  <2>1. other \in BoundedSeq(TxHash, MaxTxs) /\ MerkleRoot(other) = MerkleRoot(txHashes)
    BY DEF Roots
  <2>2. Listed(other) /\ Listed(txHashes)
    BY <2>1, ListedIs DEF MerkleInv
  <2>3. /\ other \in Seq(TxHash) /\ txHashes \in Seq(TxHash)
        /\ Len(other) \in Nat /\ Len(txHashes) \in Nat
    BY <2>2 DEF Listed
  <2>4. ASSUME NEW list \in Seq(TxHash), list # <<>> PROVE MerkleRoot(list) # MerkleRoot(<<>>)
    <3> DEFINE x == Levels(list)[Height(list) - 1][1]
               y == Levels(list)[Height(list) - 1][2]
    <3>1. MerkleRoot(list) = DoubleHash(<<x, y>>)
      <4>1. /\ MerkleRoot(list) = Levels(list)[Height(list)][1]
            /\ Levels(list)[Height(list)][1] = DoubleHash(<<x, y>>)
        BY <2>4, RootIs
      <4> QED BY <4>1
    <3> HIDE DEF x, y
    <3>2. MerkleRoot(<<>>) = DoubleHash(<<>>)
      BY DEF MerkleRoot
    <3>3. <<x, y>> # <<>>
      <4>1. Len(<<x, y>>) = 2 /\ Len(<<>>) = 0
        OBVIOUS
      <4> QED BY <4>1
    <3> QED BY <3>1, <3>2, <3>3, PairIs
  <2>5. CASE other = <<>> \/ txHashes = <<>>
    <3>1. other = <<>> /\ txHashes = <<>>
      BY <2>1, <2>3, <2>4, <2>5
    <3>2. IsPrefix(<<>>, <<>>)
      BY DEF IsPrefix
    <3> QED BY <3>1, <3>2
  <2>6. CASE other # <<>> /\ txHashes # <<>>
    BY <2>1, <2>2, <2>6, RootTells
  <2> QED BY <2>5, <2>6
<1> QED BY <1>1, MerkleInvCorrect, PTL

(* The places under a node of level k. *)
SizeUpTo(f, n) ==
  f = [i \in 0..n |-> IF i = 0 THEN 1 ELSE 2 * f[i - 1]]

LEMMA SizeExists ==
  ASSUME NEW n \in Nat
  PROVE  \E f : SizeUpTo(f, n)
<1> DEFINE T == {k \in Nat : \E f : SizeUpTo(f, k)}
<1>1. 0 \in T
  <2>1. SizeUpTo([i \in 0..0 |-> 1], 0)
    BY DEF SizeUpTo
  <2> QED BY <2>1
<1>2. ASSUME NEW k \in T PROVE k + 1 \in T
  <2>1. PICK f : SizeUpTo(f, k)
    BY <1>2
  <2> DEFINE g == [i \in 0..(k + 1) |-> IF i = k + 1 THEN 2 * f[k] ELSE f[i]]
  <2>2. ASSUME NEW i \in 0..(k + 1)
        PROVE  g[i] = IF i = 0 THEN 1 ELSE 2 * g[i - 1]
    <3>1. CASE i = k + 1
      <4>1. i # 0 /\ g[i] = 2 * f[k] /\ g[i - 1] = f[k]
        BY <3>1
      <4> QED BY <4>1
    <3>2. CASE i = 0
      BY <3>2, <2>1 DEF SizeUpTo
    <3>3. CASE i # 0 /\ i # k + 1
      <4>1. i \in 0..k /\ i - 1 \in 0..k /\ g[i] = f[i] /\ g[i - 1] = f[i - 1]
        BY <3>3
      <4>2. f[i] = 2 * f[i - 1]
        BY <2>1, <3>3, <4>1 DEF SizeUpTo
      <4> QED BY <4>1, <4>2, <3>3
    <3> QED BY <3>1, <3>2, <3>3
  <2>3. SizeUpTo(g, k + 1)
    BY <2>2 DEF SizeUpTo
  <2> QED BY <2>3
<1>3. T = Nat
  <2>1. T \in SUBSET Nat
    OBVIOUS
  <2> HIDE DEF T
  <2> QED BY <1>1, <1>2, <2>1, NatSetInduction
<1> QED BY <1>3

(* Two such functions agree as far as both are defined. *)
LEMMA SizeUnique ==
  ASSUME NEW n \in Nat, NEW m \in Nat, n <= m,
         NEW f, SizeUpTo(f, n), NEW g, SizeUpTo(g, m)
  PROVE  f[n] = g[n]
<1> DEFINE T == {k \in Nat : k <= n => f[k] = g[k]}
<1>1. 0 \in T
  BY DEF SizeUpTo
<1>2. ASSUME NEW k \in T PROVE k + 1 \in T
  <2>1. k \in Nat
    OBVIOUS
  <2> SUFFICES ASSUME k + 1 <= n PROVE f[k + 1] = g[k + 1]
    BY <2>1
  <2>2. f[k] = g[k] /\ k + 1 \in 0..n /\ k + 1 \in 0..m /\ k + 1 # 0 /\ (k + 1) - 1 = k
    BY <2>1
  <2>3. f[k + 1] = 2 * f[k] /\ g[k + 1] = 2 * g[k]
    BY <2>2 DEF SizeUpTo
  <2> QED BY <2>2, <2>3
<1>3. T = Nat
  <2>1. T \in SUBSET Nat
    OBVIOUS
  <2> HIDE DEF T
  <2> QED BY <1>1, <1>2, <2>1, NatSetInduction
<1>4. n \in T
  BY <1>3
<1> QED BY <1>4

LEMMA SizeIs ==
  /\ Size(0) = 1
  /\ \A k \in Nat : Size(k) \in Nat /\ Size(k) > k /\ Size(k + 1) = 2 * Size(k)
<1>1. ASSUME NEW n \in Nat
      PROVE  \E f : SizeUpTo(f, n) /\ Size(n) = f[n]
  <2> DEFINE size == CHOOSE f : SizeUpTo(f, n)
  <2>1. SizeUpTo(size, n)
    BY SizeExists
  <2>2. Size(n) = size[n]
    BY DEF Size, SizeUpTo
  <2> HIDE DEF size
  <2> QED BY <2>1, <2>2
<1>2. Size(0) = 1
  <2>1. PICK f : SizeUpTo(f, 0) /\ Size(0) = f[0]
    BY <1>1
  <2> QED BY <2>1 DEF SizeUpTo
<1>3. ASSUME NEW k \in Nat PROVE Size(k + 1) = 2 * Size(k)
  <2>1. PICK f : SizeUpTo(f, k) /\ Size(k) = f[k]
    BY <1>1
  <2>2. PICK g : SizeUpTo(g, k + 1) /\ Size(k + 1) = g[k + 1]
    BY <1>1
  <2>3. k + 1 \in Nat /\ k <= k + 1 /\ k + 1 \in 0..(k + 1) /\ k + 1 # 0 /\ (k + 1) - 1 = k
    OBVIOUS
  <2>4. f[k] = g[k]
    BY <2>1, <2>2, <2>3, SizeUnique
  <2>5. g[k + 1] = 2 * g[k]
    BY <2>2, <2>3 DEF SizeUpTo
  <2> QED BY <2>1, <2>2, <2>4, <2>5
<1> DEFINE T == {k \in Nat : Size(k) \in Nat /\ Size(k) > k}
<1>4. 0 \in T
  BY <1>2
<1>5. ASSUME NEW k \in T PROVE k + 1 \in T
  <2> DEFINE i == Size(k)
             j == Size(k + 1)
  <2>1. k \in Nat /\ i \in Nat /\ i > k /\ j = 2 * i
    BY <1>3
  <2> HIDE DEF i, j
  <2>2. j \in Nat /\ j > k + 1
    BY <2>1
  <2> QED BY <2>2 DEF j
<1>6. T = Nat
  <2>1. T \in SUBSET Nat
    OBVIOUS
  <2> HIDE DEF T
  <2> QED BY <1>4, <1>5, <2>1, NatSetInduction
<1> QED BY <1>2, <1>3, <1>6

(* The reference tree. *)
Under(half, first, k, N) ==
  DoubleHash(<<half[first], IF first + Size(k - 1) < N THEN half[first + Size(k - 1)]
                            ELSE half[first]>>)

TreeUpTo(f, list, N, n) ==
  f = [k \in 0..n |-> [first \in 0..(N - 1) |->
         IF k = 0 THEN list[first + 1] ELSE Under(f[k - 1], first, k, N)]]

LEMMA TreeExists ==
  ASSUME NEW list, NEW N, NEW n \in Nat
  PROVE  \E f : TreeUpTo(f, list, N, n)
<1> DEFINE T == {k \in Nat : \E f : TreeUpTo(f, list, N, k)}
           bottom == [first \in 0..(N - 1) |-> list[first + 1]]
           row(half, k) == [first \in 0..(N - 1) |-> Under(half, first, k, N)]
<1>u. \A f, m : TreeUpTo(f, list, N, m)
                 <=> f = [k \in 0..m |-> IF k = 0 THEN bottom ELSE row(f[k - 1], k)]
  <2> TAKE f, m
  <2>1. \A k \in 0..m : [first \in 0..(N - 1) |->
                           IF k = 0 THEN list[first + 1] ELSE Under(f[k - 1], first, k, N)]
                         = IF k = 0 THEN bottom ELSE row(f[k - 1], k)
    OBVIOUS
  <2> HIDE DEF bottom, row
  <2> QED BY <2>1 DEF TreeUpTo
<1> HIDE DEF bottom, row
<1>1. 0 \in T
  <2> DEFINE g == [k \in 0..0 |-> bottom]
  <2>1. g = [k \in 0..0 |-> IF k = 0 THEN bottom ELSE row(g[k - 1], k)]
    OBVIOUS
  <2> HIDE DEF g
  <2>2. TreeUpTo(g, list, N, 0)
    BY <1>u, <2>1
  <2> QED BY <2>2
<1>2. ASSUME NEW k \in T PROVE k + 1 \in T
  <2>1. PICK f : TreeUpTo(f, list, N, k)
    BY <1>2
  <2> DEFINE up == row(f[k], k + 1)
             g == [i \in 0..(k + 1) |-> IF i = k + 1 THEN up ELSE f[i]]
  <2>2. ASSUME NEW i \in 0..(k + 1)
        PROVE  g[i] = IF i = 0 THEN bottom ELSE row(g[i - 1], i)
    <3>1. CASE i = k + 1
      <4>1. i # 0 /\ g[i] = up /\ g[i - 1] = f[k]
        BY <3>1
      <4> QED BY <3>1, <4>1
    <3>2. CASE i = 0
      BY <3>2, <2>1, <1>u
    <3>3. CASE i # 0 /\ i # k + 1
      <4>1. i \in 0..k /\ i - 1 \in 0..k /\ g[i] = f[i] /\ g[i - 1] = f[i - 1]
        BY <3>3
      <4>2. f[i] = row(f[i - 1], i)
        BY <1>u, <2>1, <3>3, <4>1
      <4> QED BY <4>1, <4>2, <3>3
    <3> QED BY <3>1, <3>2, <3>3
  <2>3. TreeUpTo(g, list, N, k + 1)
    <3> DEFINE F == [i \in 0..(k + 1) |-> IF i = 0 THEN bottom ELSE row(g[i - 1], i)]
    <3>1. g = F
      BY <2>2
    <3> HIDE DEF g
    <3> QED BY <1>u, <3>1
  <2> QED BY <2>3
<1>3. T = Nat
  <2>1. T \in SUBSET Nat
    OBVIOUS
  <2> HIDE DEF T
  <2> QED BY <1>1, <1>2, <2>1, NatSetInduction
<1> QED BY <1>3

LEMMA ReferenceIs ==
  ASSUME NEW list, Len(list) \in Nat
  PROVE  LET top == CHOOSE k \in 1..Len(list) :
                      Size(k) >= Len(list) /\ \A j \in 1..(k - 1) : Size(j) < Len(list)
         IN  \E tree : TreeUpTo(tree, list, Len(list), Len(list)) /\ Reference(list) = tree[top][0]
<1> DEFINE top == CHOOSE k \in 1..Len(list) :
                    Size(k) >= Len(list) /\ \A j \in 1..(k - 1) : Size(j) < Len(list)
           tree == CHOOSE f : TreeUpTo(f, list, Len(list), Len(list))
<1>1. TreeUpTo(tree, list, Len(list), Len(list))
  BY TreeExists
<1>2. Reference(list) = tree[top][0]
  BY DEF Reference, TreeUpTo, Under
<1> HIDE DEF tree
<1> QED BY <1>1, <1>2

(* Node j of level k stands over the places from j * Size(k) on.           *)
Place(j, k) == j * Size(k)

LEMMA PlaceIs ==
  ASSUME NEW k \in Nat, NEW j \in Nat
  PROVE  /\ Place(j, k) \in Nat /\ Place(0, k) = 0 /\ Place(1, k) = Size(k) /\ Place(j, 0) = j
         /\ Place(j, k + 1) = Place(2 * j, k)
         /\ Place(2 * j + 1, k) = Place(j, k + 1) + Size(k)
<1> DEFINE s == Size(k)
           t == Size(k + 1)
<1>1. s \in Nat /\ t = 2 * s /\ Size(0) = 1
  BY SizeIs
<1>2. /\ Place(j, k) = j * s /\ Place(0, k) = 0 * s /\ Place(1, k) = 1 * s /\ Place(j, 0) = j * Size(0)
      /\ Place(j, k + 1) = j * t /\ Place(2 * j, k) = (2 * j) * s
      /\ Place(2 * j + 1, k) = (2 * j + 1) * s
  BY DEF Place
<1> HIDE DEF s, t
<1>3. j * s \in Nat /\ 0 * s = 0 /\ 1 * s = s
  BY <1>1
<1>4. j * Size(0) = j
  BY <1>1
<1>5. j * (2 * s) = (2 * j) * s
  BY <1>1
<1>6. (2 * j + 1) * s = j * (2 * s) + s
  BY <1>1
<1> QED BY <1>1, <1>2, <1>3, <1>4, <1>5, <1>6 DEF s

(* The levels from the bottom up are those of the reference from the top   *)
(* down.                                                                   *)
LEMMA LevelPlaces ==
  ASSUME NEW S, NEW list \in Seq(S), NEW N, N = Len(list), N > 1,
         NEW tree, TreeUpTo(tree, list, N, N), NEW k \in 0..N
  PROVE  \A j \in Nat : /\ j < Len(Levels(list)[k]) <=> Place(j, k) < N
                        /\ j < Len(Levels(list)[k]) =>
                             Levels(list)[k][j + 1] = tree[k][Place(j, k)]
<1> DEFINE level == Levels(list)
<1>1. N \in Nat /\ N # 1 /\ list # <<>>
  OBVIOUS
<1>2. level[0] = list
  BY <1>1, LevelsAre DEF Leaves
<1>3. ASSUME NEW i \in Nat, i + 1 <= N
      PROVE  Row(level[i]) /\ level[i + 1] = NextLevel(level[i])
  <2>1. i \in 0..N
    BY <1>1, <1>3
  <2>2. Row(level[i])
    BY <1>1, <2>1, RowsAre
  <2>3. level[i + 1] = NextLevel(level[i])
    BY <1>1, <1>3, LevelsAre
  <2> QED BY <2>2, <2>3
<1>4. \A j \in 0..(N - 1) : tree[0][j] = list[j + 1]
  <2>1. 0 \in 0..N
    BY <1>1
  <2> QED BY <2>1 DEF TreeUpTo
<1>5. ASSUME NEW i \in Nat, i + 1 <= N, NEW first \in 0..(N - 1)
      PROVE  tree[i + 1][first]
               = DoubleHash(<<tree[i][first], IF first + Size(i) < N THEN tree[i][first + Size(i)]
                                              ELSE tree[i][first]>>)
  <2>1. i + 1 \in 0..N /\ i + 1 # 0 /\ (i + 1) - 1 = i
    BY <1>1, <1>5
  <2>2. tree[i + 1] = [p \in 0..(N - 1) |-> Under(tree[i], p, i + 1, N)]
    BY <2>1 DEF TreeUpTo
  <2>3. tree[i + 1][first] = Under(tree[i], first, i + 1, N)
    BY <2>2
  <2> QED BY <2>1, <2>3 DEF Under
<1> HIDE DEF level
<1> DEFINE Same(i, j) == /\ j < Len(level[i]) <=> Place(j, i) < N
                         /\ j < Len(level[i]) => level[i][j + 1] = tree[i][Place(j, i)]
           T == {i \in Nat : i <= N => \A j \in Nat : Same(i, j)}
<1>6. 0 \in T
  <2> SUFFICES ASSUME NEW j \in Nat PROVE Same(0, j)
    OBVIOUS
  <2>1. Place(j, 0) = j
    BY PlaceIs
  <2>2. Len(level[0]) = N
    BY <1>2
  <2>3. j < N => j \in 0..(N - 1)
    BY <1>1
  <2>4. j < N => level[0][j + 1] = tree[0][j]
    BY <1>2, <1>4, <2>3
  <2> QED BY <2>1, <2>2, <2>4
<1>7. ASSUME NEW i \in T PROVE i + 1 \in T
  <2>1. i \in Nat
    OBVIOUS
  <2> SUFFICES ASSUME i + 1 <= N, NEW j \in Nat PROVE Same(i + 1, j)
    BY <2>1
  <2> DEFINE nodes == level[i]
             n == Len(nodes)
             first == Place(j, i + 1)
  <2>2. \A l \in Nat : Same(i, l)
    BY <1>1, <2>1
  <2>3. Row(nodes) /\ level[i + 1] = NextLevel(nodes)
    BY <1>3, <2>1
  <2>4. n \in Nat \ {0}
    BY <2>3 DEF Row
  <2>5. Len(level[i + 1]) = (n + 1) \div 2
    BY <2>3, NextLevelIs
  <2>6. first \in Nat /\ Place(2 * j, i) = first /\ Place(2 * j + 1, i) = first + Size(i)
    <3>1. i + 1 \in Nat
      BY <2>1
    <3>2. first \in Nat
      BY <3>1, PlaceIs
    <3>3. Place(2 * j, i) = first /\ Place(2 * j + 1, i) = first + Size(i)
      <4>1. /\ Place(j, i + 1) = Place(2 * j, i)
            /\ Place(2 * j + 1, i) = Place(j, i + 1) + Size(i)
        BY <2>1, PlaceIs
      <4> QED BY <4>1
    <3> QED BY <3>2, <3>3
  <2>7. 2 * j \in Nat /\ 2 * j + 1 \in Nat
    OBVIOUS
  <2>8. /\ 2 * j < n <=> first < N
        /\ 2 * j < n => nodes[2 * j + 1] = tree[i][first]
    BY <2>2, <2>6, <2>7
  <2>9. /\ 2 * j + 1 < n <=> first + Size(i) < N
        /\ 2 * j + 1 < n => nodes[(2 * j + 1) + 1] = tree[i][first + Size(i)]
    BY <2>2, <2>6, <2>7
  <2> HIDE DEF nodes, n, first
  <2>10. j < (n + 1) \div 2 <=> 2 * j < n
    BY <2>4
  <2>11. ASSUME 2 * j < n PROVE level[i + 1][j + 1] = tree[i + 1][first]
    <3>1. j + 1 \in 1..((n + 1) \div 2)
      BY <2>4, <2>10, <2>11
    <3>2. level[i + 1][j + 1]
            = DoubleHash(<<nodes[2 * (j + 1) - 1], nodes[Partner(nodes, j + 1)]>>)
      BY <2>3, <3>1, NextLevelIs DEF n
    <3>3. 2 * (j + 1) - 1 = 2 * j + 1 /\ 2 * (j + 1) = (2 * j + 1) + 1
      OBVIOUS
    <3>4. Partner(nodes, j + 1) = IF 2 * (j + 1) <= n THEN 2 * (j + 1) ELSE 2 * (j + 1) - 1
      BY DEF Partner, n
    <3>5. 2 * (j + 1) <= n <=> 2 * j + 1 < n
      BY <2>4
    <3>6. nodes[2 * (j + 1) - 1] = tree[i][first]
      BY <2>8, <2>11, <3>3
    <3>7. nodes[Partner(nodes, j + 1)] = IF first + Size(i) < N THEN tree[i][first + Size(i)]
                                         ELSE tree[i][first]
      <4>1. CASE 2 * j + 1 < n
        <5>1. Partner(nodes, j + 1) = (2 * j + 1) + 1
          BY <3>3, <3>4, <3>5, <4>1
        <5> QED BY <2>9, <4>1, <5>1
      <4>2. CASE ~(2 * j + 1 < n)
        <5>1. Partner(nodes, j + 1) = 2 * (j + 1) - 1
          BY <3>4, <3>5, <4>2
        <5>2. nodes[Partner(nodes, j + 1)] = tree[i][first]
          BY <3>6, <5>1
        <5> QED BY <2>9, <4>2, <5>2
      <4> QED BY <4>1, <4>2
    <3>8. first \in 0..(N - 1)
      BY <1>1, <2>6, <2>8, <2>11
    <3>9. tree[i + 1][first]
            = DoubleHash(<<tree[i][first], IF first + Size(i) < N THEN tree[i][first + Size(i)]
                                           ELSE tree[i][first]>>)
      BY <1>5, <2>1, <3>8
    <3> QED BY <3>2, <3>6, <3>7, <3>9
  <2> QED BY <2>5, <2>8, <2>10, <2>11 DEF first
<1>8. T = Nat
  <2>1. T \in SUBSET Nat
    OBVIOUS
  <2> HIDE DEF T
  <2> QED BY <1>6, <1>7, <2>1, NatSetInduction
<1>9. k \in T /\ k <= N
  <2>1. k \in Nat /\ k <= N
    BY <1>1
  <2> QED BY <1>8, <2>1
<1>10. \A j \in Nat : Same(k, j)
  BY <1>9
<1> QED BY <1>10 DEF level

LEMMA RootReference ==
  ASSUME NEW S, NEW list \in Seq(S), list # <<>>
  PROVE  MerkleRoot(list) = Reference(list)
<1> DEFINE level == Levels(list)
           H == Height(list)
           N == Len(list)
           Top(k) == Size(k) >= N /\ \A j \in 1..(k - 1) : Size(j) < N
           top == CHOOSE k \in 1..N : Top(k)
<1>1. PICK tree : TreeUpTo(tree, list, N, N) /\ Reference(list) = tree[top][0]
  <2>1. N \in Nat
    OBVIOUS
  <2>2. \E tree : TreeUpTo(tree, list, N, N) /\ Reference(list) = tree[top][0]
    BY <2>1, ReferenceIs
  <2> QED BY <2>2
<1>2. MerkleRoot(list) = level[H][1]
  BY RootIs
<1>3. /\ N \in Nat \ {0} /\ H \in 1..N /\ Len(level[H]) = 1
      /\ \A m \in 0..(H - 1) : Len(level[m]) # 1
  <2>1. N \in Nat \ {0}
    BY LeavesAre
  <2>2. H \in 1..N /\ Len(level[H]) = 1 /\ \A m \in 0..(H - 1) : Len(level[m]) # 1
    BY HeightIs
  <2> QED BY <2>1, <2>2
<1>4. \A n \in 0..N : Len(level[n]) \in Nat \ {0}
  BY RowsAre DEF Row
<1>5. ASSUME NEW h \in 1..N, Size(h) >= N, \A j \in 1..(h - 1) : Size(j) < N
      PROVE  top = h
  <2>1. Top(h)
    BY <1>5
  <2> HIDE DEF N
  <2>2. \A g \in 1..N : Top(g) => g = h
    <3> TAKE g \in 1..N
    <3>1. Size(g) \in Nat /\ Size(h) \in Nat
      <4>1. \A k \in Nat : Size(k) \in Nat
        BY SizeIs
      <4>2. g \in Nat /\ h \in Nat
        BY <1>3
      <4> QED BY <4>1, <4>2
    <3>2. g < h => g \in 1..(h - 1)
      BY <1>3
    <3>3. h < g => h \in 1..(g - 1)
      BY <1>3
    <3>4. Top(g) => ~(g < h) /\ ~(h < g)
      BY <1>3, <2>1, <3>1, <3>2, <3>3
    <3> QED BY <1>3, <3>4
  <2> HIDE DEF Top
  <2>3. top \in 1..N /\ Top(top)
    BY <2>1
  <2> QED BY <2>2, <2>3
<1>6. CASE N = 1
  <2>1. Size(0) = 1 /\ Size(1) = 2
    <3>1. Size(0) = 1 /\ Size(0 + 1) = 2 * Size(0)
      BY SizeIs
    <3>2. 0 + 1 = 1
      OBVIOUS
    <3> QED BY <3>1, <3>2
  <2>2. top = 1 /\ H = 1
    <3>1. 1 \in 1..N /\ Size(1) >= N /\ \A j \in 1..(1 - 1) : Size(j) < N
      BY <1>6, <2>1
    <3>2. top = 1
      BY <1>5, <3>1
    <3> HIDE DEF N, H
    <3>3. H = 1
      BY <1>3, <1>6
    <3> QED BY <3>2, <3>3
  <2>3. level[1][1] = DoubleHash(<<list[1], list[1]>>)
    <3>1. level[1][1] = DoubleHash(<<level[0][1], level[0][2]>>)
      <4>1. 0 \in Nat /\ 0 + 1 <= H /\ 0 + 1 = 1
        BY <2>2
      <4>2. level[0 + 1][1] = DoubleHash(<<level[0][1], level[0][2]>>)
        BY <4>1, Leftmost
      <4> QED BY <4>1, <4>2
    <3>2. level[0] = Leaves(list)
      BY <1>3, LevelsAre
    <3>3. Leaves(list)[1] = list[1] /\ Leaves(list)[2] = list[1]
      <4>1. /\ DOMAIN list = 1..N /\ \A i \in DOMAIN list : Leaves(list)[i] = list[i]
            /\ N = 1 => Leaves(list)[2] = list[1]
        BY LeavesAre
      <4>2. 1 \in 1..N
        BY <1>6
      <4> QED BY <1>6, <4>1, <4>2
    <3> QED BY <3>1, <3>2, <3>3
  <2>4. tree[1][0] = DoubleHash(<<list[1], list[1]>>)
    <3>1. tree = [k \in 0..1 |-> [first \in 0..(1 - 1) |->
                   IF k = 0 THEN list[first + 1] ELSE Under(tree[k - 1], first, k, 1)]]
      BY <1>1, <1>6 DEF TreeUpTo
    <3>2. 0 \in 0..1 /\ 1 \in 0..1 /\ 0 \in 0..(1 - 1) /\ 1 # 0 /\ 1 - 1 = 0 /\ 0 + 1 = 1
      OBVIOUS
    <3>3. tree[0][0] = list[1]
      BY <3>1, <3>2
    <3>4. tree[1][0] = Under(tree[0], 0, 1, 1)
      BY <3>1, <3>2
    <3>5. ~(0 + Size(1 - 1) < 1)
      BY <2>1, <3>2
    <3> QED BY <3>3, <3>4, <3>5 DEF Under
  <2> QED BY <1>1, <1>2, <2>2, <2>3, <2>4
<1>7. CASE N # 1
  <2>1. N > 1 /\ N = Len(list)
    <3>1. \A n \in Nat \ {0} : n # 1 => n > 1
      OBVIOUS
    <3>2. N > 1
      BY <1>3, <1>7, <3>1
    <3> QED BY <3>2
  <2>2. ASSUME NEW k \in 0..N
        PROVE  /\ 1 < Len(level[k]) <=> Size(k) < N
               /\ level[k][1] = tree[k][0]
    <3>1. \A j \in Nat : /\ j < Len(level[k]) <=> Place(j, k) < N
                         /\ j < Len(level[k]) => level[k][j + 1] = tree[k][Place(j, k)]
      BY <1>1, <2>1, LevelPlaces
    <3>2. k \in Nat /\ 0 \in Nat /\ 1 \in Nat /\ 0 + 1 = 1 /\ 0 < Len(level[k])
      BY <1>3, <1>4
    <3>3. Place(0, k) = 0 /\ Place(1, k) = Size(k)
      BY <3>2, PlaceIs
    <3> HIDE DEF level, N
    <3> QED BY <3>1, <3>2, <3>3
  <2>3. top = H
    <3> HIDE DEF level, N, H
    <3>1. \A k \in 0..N : Len(level[k]) # 1 <=> Size(k) < N
      <4> TAKE k \in 0..N
      <4>1. Len(level[k]) \in Nat \ {0}
        BY <1>4
      <4>2. Len(level[k]) # 1 <=> 1 < Len(level[k])
        <5>1. \A n \in Nat \ {0} : n # 1 <=> 1 < n
          OBVIOUS
        <5> QED BY <4>1, <5>1
      <4> QED BY <2>2, <4>2
    <3>2. H \in 0..N /\ \A j \in 1..(H - 1) : j \in 0..N /\ j \in 0..(H - 1)
      BY <1>3
    <3>3. Size(H) \in Nat
      <4>1. \A k \in Nat : Size(k) \in Nat
        BY SizeIs
      <4>2. H \in Nat
        BY <1>3
      <4> QED BY <4>1, <4>2
    <3>4. Size(H) >= N
      BY <1>3, <3>1, <3>2, <3>3
    <3>5. \A j \in 1..(H - 1) : Size(j) < N
      BY <1>3, <3>1, <3>2
    <3> HIDE DEF top
    <3> QED BY <1>3, <1>5, <3>4, <3>5
  <2>4. H \in 0..N
    BY <1>3
  <2> HIDE DEF level, H, top, N
  <2>5. level[H][1] = tree[H][0]
    BY <2>2, <2>4
  <2> QED BY <1>1, <1>2, <2>3, <2>5
<1> QED BY <1>6, <1>7

(* The levels NewMerkleTree builds from the leaves up are the balanced     *)
(* tree from the root down, however many levels are odd; BuildMerkleRoot   *)
(* is its root only for none and for two transactions.                     *)
THEOREM RootExactCorrect == MerkleSpec => []RootExact
<1> DEFINE tx == txHashes
<1>1. MerkleInv => tx \in Seq(TxHash) /\ Len(tx) \in Nat
  BY DEF MerkleInv, Listed
<1>2. ASSUME MerkleInv, tx # <<>> PROVE MerkleRoot(tx) = Reference(tx)
  BY <1>1, <1>2, RootReference
<1>3. ASSUME MerkleInv PROVE BuildMerkleRoot(tx) = MerkleRoot(tx) <=> Len(tx) \in {0, 2}
  <2>1. CASE tx = <<>>
    <3>1. MerkleRoot(tx) = DoubleHash(<<>>) /\ BuildMerkleRoot(tx) = DoubleHash(<<>>)
      BY <2>1 DEF MerkleRoot, BuildMerkleRoot
    <3>2. Len(tx) = 0
      BY <2>1
    <3> QED BY <3>1, <3>2
  <2>2. CASE tx # <<>>
    <3> DEFINE level == Levels(tx)
               H == Height(tx)
               x == level[H - 1][1]
               y == level[H - 1][2]
    <3>1. MerkleRoot(tx) = DoubleHash(<<x, y>>) /\ Len(level[H - 1]) = 2
      <4>1. /\ MerkleRoot(tx) = level[H][1] /\ Len(level[H - 1]) = 2
            /\ level[H][1] = DoubleHash(<<x, y>>)
        BY <1>1, <1>3, <2>2, RootIs
      <4> HIDE DEF x, y, level, H
      <4> QED BY <4>1
    <3>2. /\ Len(tx) \in Nat \ {0} /\ level[0] = Leaves(tx)
          /\ Len(tx) # 1 => Leaves(tx) = tx
      <4>1. Len(tx) \in Nat \ {0}
        BY <1>1, <1>3, <2>2, LeavesAre
      <4>2. level[0] = Leaves(tx)
        BY <1>1, <1>3, LevelsAre
      <4> QED BY <4>1, <4>2 DEF Leaves
    <3>3. ASSUME Len(tx) = 2 PROVE tx = <<x, y>>
      <4>1. level[0] = tx
        BY <3>2, <3>3
      <4>2. H = 1
        <5>1. H \in 1..2 /\ \A m \in 0..(H - 1) : Len(level[m]) # 1
          BY <1>1, <1>3, <2>2, <3>3, HeightIs
        <5>2. Row(level[0]) /\ level[0 + 1] = NextLevel(level[0])
          <6>1. 0 \in 0..Len(tx) /\ 0 + 1 <= Len(tx) /\ 0 \in Nat
            BY <3>3
          <6>2. Row(level[0])
            BY <1>1, <1>3, <2>2, <6>1, RowsAre
          <6>3. \A k \in Nat : k + 1 <= Len(tx) => level[k + 1] = NextLevel(level[k])
            BY <1>1, <1>3, LevelsAre
          <6> HIDE DEF level
          <6> QED BY <6>1, <6>2, <6>3
        <5> HIDE DEF level, H
        <5>3. Len(NextLevel(level[0])) = (Len(level[0]) + 1) \div 2
          BY <5>2, NextLevelIs
        <5>4. Len(level[1]) = (2 + 1) \div 2 /\ (2 + 1) \div 2 = 1
          <6>1. 0 + 1 = 1 /\ Len(level[0]) = 2
            BY <3>3, <4>1
          <6> QED BY <5>2, <5>3, <6>1
        <5>5. H # 2
          <6>1. H = 2 => 1 \in 0..(H - 1)
            OBVIOUS
          <6> QED BY <5>1, <5>4, <6>1
        <5> QED BY <5>1, <5>5
      <4>3. x = tx[1] /\ y = tx[2]
        <5>1. H - 1 = 0
          BY <4>2
        <5> HIDE DEF level, H
        <5> QED BY <4>1, <5>1
      <4> HIDE DEF x, y
      <4>4. tx = [i \in 1..2 |-> tx[i]]
        BY <1>1, <1>3, <3>3
      <4>5. tx = <<tx[1], tx[2]>>
        BY <4>4
      <4> QED BY <4>3, <4>5
    <3>4. Len(<<x, y>>) = 2
      OBVIOUS
    <3> HIDE DEF x, y
    <3>5. BuildMerkleRoot(tx) = MerkleRoot(tx) <=> tx = <<x, y>>
      BY <3>1, PairIs DEF BuildMerkleRoot
    <3> QED BY <3>2, <3>3, <3>4, <3>5
  <2> QED BY <2>1, <2>2
<1>4. MerkleInv => RootExact
  BY <1>2, <1>3 DEF RootExact
<1> QED BY <1>4, MerkleInvCorrect, PTL

(***************************************************************************)
(* Base58Check.  The value of a string of digits, and the digits of a      *)
(* number.                                                                 *)
(***************************************************************************)
ValueUpTo(f, digits, base, n) ==
  f = [i \in 0..n |-> IF i = 0 THEN 0 ELSE f[i - 1] * base + digits[i]]

LEMMA ValueExists ==
  ASSUME NEW digits, NEW base, NEW n \in Nat
  PROVE  \E f : ValueUpTo(f, digits, base, n)
<1> DEFINE T == {k \in Nat : \E f : ValueUpTo(f, digits, base, k)}
<1>1. 0 \in T
  <2>1. ValueUpTo([i \in 0..0 |-> 0], digits, base, 0)
    BY DEF ValueUpTo
  <2> QED BY <2>1
<1>2. ASSUME NEW k \in T PROVE k + 1 \in T
  <2>1. PICK f : ValueUpTo(f, digits, base, k)
    BY <1>2
  <2> DEFINE up == f[k] * base + digits[k + 1]
             g == [i \in 0..(k + 1) |-> IF i = k + 1 THEN up ELSE f[i]]
  <2>2. ASSUME NEW i \in 0..(k + 1)
        PROVE  g[i] = IF i = 0 THEN 0 ELSE g[i - 1] * base + digits[i]
    <3>1. CASE i = k + 1
      <4>1. i # 0 /\ g[i] = up /\ g[i - 1] = f[k]
        BY <3>1
      <4> QED BY <3>1, <4>1
    <3>2. CASE i = 0
      BY <3>2, <2>1 DEF ValueUpTo
    <3>3. CASE i # 0 /\ i # k + 1
      <4>1. i \in 0..k /\ i - 1 \in 0..k /\ g[i] = f[i] /\ g[i - 1] = f[i - 1]
        BY <3>3
      <4>2. f[i] = f[i - 1] * base + digits[i]
        BY <2>1, <3>3, <4>1 DEF ValueUpTo
      <4> QED BY <4>1, <4>2, <3>3
    <3> QED BY <3>1, <3>2, <3>3
  <2>3. ValueUpTo(g, digits, base, k + 1)
    BY <2>2 DEF ValueUpTo
  <2> QED BY <2>3
<1>3. T = Nat
  <2>1. T \in SUBSET Nat
    OBVIOUS
  <2> HIDE DEF T
  <2> QED BY <1>1, <1>2, <2>1, NatSetInduction
<1> QED BY <1>3

LEMMA ValueAgree ==
  ASSUME NEW s, NEW t, NEW base, NEW n \in Nat, NEW m \in Nat, n <= m,
         NEW f, ValueUpTo(f, s, base, n), NEW g, ValueUpTo(g, t, base, m),
         \A i \in 1..n : s[i] = t[i]
  PROVE  f[n] = g[n]
<1> DEFINE T == {k \in Nat : k <= n => f[k] = g[k]}
<1>1. 0 \in T
  BY DEF ValueUpTo
<1>2. ASSUME NEW k \in T PROVE k + 1 \in T
  <2>1. k \in Nat
    OBVIOUS
  <2> SUFFICES ASSUME k + 1 <= n PROVE f[k + 1] = g[k + 1]
    BY <2>1
  <2>2. /\ f[k] = g[k] /\ k + 1 \in 0..n /\ k + 1 \in 0..m /\ k + 1 # 0 /\ (k + 1) - 1 = k
        /\ k + 1 \in 1..n
    BY <2>1
  <2>3. f[k + 1] = f[k] * base + s[k + 1] /\ g[k + 1] = g[k] * base + t[k + 1]
    BY <2>2 DEF ValueUpTo
  <2> QED BY <2>2, <2>3
<1>3. T = Nat
  <2>1. T \in SUBSET Nat
    OBVIOUS
  <2> HIDE DEF T
  <2> QED BY <1>1, <1>2, <2>1, NatSetInduction
<1>4. n \in T
  BY <1>3
<1> QED BY <1>4

LEMMA ValueIs ==
  ASSUME NEW base
  PROVE  /\ Value(<<>>, base) = 0
         /\ \A s \in Seq(Nat) : \A e \in Nat :
              Value(Append(s, e), base) = Value(s, base) * base + e
<1>1. ASSUME NEW s, Len(s) \in Nat
      PROVE  \E f : ValueUpTo(f, s, base, Len(s)) /\ Value(s, base) = f[Len(s)]
  <2> DEFINE value == CHOOSE f : ValueUpTo(f, s, base, Len(s))
  <2>1. ValueUpTo(value, s, base, Len(s))
    BY <1>1, ValueExists
  <2>2. Value(s, base) = value[Len(s)]
    BY DEF Value, ValueUpTo
  <2> HIDE DEF value
  <2> QED BY <2>1, <2>2
<1>2. Value(<<>>, base) = 0
  <2>1. Len(<<>>) = 0 /\ 0 \in Nat
    OBVIOUS
  <2>2. PICK f : ValueUpTo(f, <<>>, base, 0) /\ Value(<<>>, base) = f[0]
    BY <1>1, <2>1
  <2>3. 0 \in 0..0
    OBVIOUS
  <2> QED BY <2>2, <2>3 DEF ValueUpTo
<1>3. ASSUME NEW s \in Seq(Nat), NEW e \in Nat
      PROVE  Value(Append(s, e), base) = Value(s, base) * base + e
  <2> DEFINE t == Append(s, e)
             n == Len(s)
  <2>1. /\ n \in Nat /\ Len(t) = n + 1 /\ t[n + 1] = e
        /\ \A i \in 1..n : s[i] = t[i]
    BY AppendProperties
  <2> HIDE DEF t
  <2>2. PICK f : ValueUpTo(f, s, base, n) /\ Value(s, base) = f[n]
    BY <1>1, <2>1
  <2>3. PICK g : ValueUpTo(g, t, base, n + 1) /\ Value(t, base) = g[n + 1]
    BY <1>1, <2>1
  <2> HIDE DEF n
  <2>4. n + 1 \in Nat /\ n <= n + 1 /\ n + 1 \in 0..(n + 1) /\ n + 1 # 0 /\ (n + 1) - 1 = n
    BY <2>1
  <2>5. f[n] = g[n]
    BY <2>1, <2>2, <2>3, <2>4, ValueAgree
  <2>6. g[n + 1] = g[n] * base + t[n + 1]
    BY <2>3, <2>4 DEF ValueUpTo
  <2> QED BY <2>1, <2>2, <2>3, <2>5, <2>6 DEF t
<1> QED BY <1>2, <1>3

LEMMA DivIs ==
  ASSUME NEW b \in Nat \ {0, 1}, NEW x \in Nat \ {0}
  PROVE  /\ x \div b \in Nat /\ x \div b < x /\ x % b \in 0..(b - 1)
         /\ x = (x \div b) * b + (x % b)
  OBVIOUS

LEMMA DivBack ==
  ASSUME NEW b \in Nat \ {0, 1}, NEW v \in Nat, NEW d \in 0..(b - 1)
  PROVE  /\ v * b + d \in Nat /\ (v * b + d = 0 <=> v = 0 /\ d = 0)
         /\ (v * b + d) \div b = v /\ (v * b + d) % b = d
<1>1. (v * b + d) \div b = v /\ (v * b + d) % b = d
  OBVIOUS
<1>2. v * b \in Nat /\ (v # 0 => v * b > 0) /\ 0 * b = 0
  OBVIOUS
<1> QED BY <1>1, <1>2

DigitsUpTo(f, base, m) ==
  f = [n \in 0..m |-> IF n = 0 THEN <<>> ELSE Append(f[n \div base], n % base)]

LEMMA DigitsExists ==
  ASSUME NEW base \in Nat \ {0, 1}, NEW m \in Nat
  PROVE  \E f : DigitsUpTo(f, base, m)
<1> DEFINE T == {k \in Nat : \E f : DigitsUpTo(f, base, k)}
<1>1. 0 \in T
  <2>1. DigitsUpTo([i \in 0..0 |-> <<>>], base, 0)
    BY DEF DigitsUpTo
  <2> QED BY <2>1
<1>2. ASSUME NEW k \in T PROVE k + 1 \in T
  <2>1. PICK f : DigitsUpTo(f, base, k)
    BY <1>2
  <2> DEFINE up == Append(f[(k + 1) \div base], (k + 1) % base)
             g == [i \in 0..(k + 1) |-> IF i = k + 1 THEN up ELSE f[i]]
  <2>2. ASSUME NEW i \in 0..(k + 1)
        PROVE  g[i] = IF i = 0 THEN <<>> ELSE Append(g[i \div base], i % base)
    <3>1. CASE i = 0
      <4>1. i \in 0..k /\ i # k + 1
        BY <3>1
      <4> QED BY <2>1, <3>1, <4>1 DEF DigitsUpTo
    <3>2. CASE i # 0
      <4> DEFINE h == i \div base
      <4>1. h \in Nat /\ h < i
        <5>1. i \in Nat \ {0}
          BY <3>2
        <5> QED BY <5>1, DivIs
      <4> HIDE DEF h
      <4>2. h \in 0..k /\ h \in 0..(k + 1) /\ h # k + 1
        BY <4>1
      <4>3. g[h] = f[h]
        BY <4>2
      <4>4. CASE i = k + 1
        <5>1. g[i] = up
          BY <4>4
        <5>2. up = Append(f[h], i % base)
          BY <4>4 DEF h
        <5> HIDE DEF g, up
        <5> QED BY <3>2, <4>3, <5>1, <5>2 DEF h
      <4>5. CASE i # k + 1
        <5>1. i \in 0..k /\ g[i] = f[i]
          BY <4>5
        <5>2. f[i] = Append(f[h], i % base)
          BY <2>1, <3>2, <5>1 DEF DigitsUpTo, h
        <5> HIDE DEF g
        <5> QED BY <3>2, <4>3, <5>1, <5>2 DEF h
      <4> QED BY <4>4, <4>5
    <3> QED BY <3>1, <3>2
  <2>3. DigitsUpTo(g, base, k + 1)
    BY <2>2 DEF DigitsUpTo
  <2> QED BY <2>3
<1>3. T = Nat
  <2>1. T \in SUBSET Nat
    OBVIOUS
  <2> HIDE DEF T
  <2> QED BY <1>1, <1>2, <2>1, NatSetInduction
<1> QED BY <1>3

LEMMA DigitsAgree ==
  ASSUME NEW base \in Nat \ {0, 1}, NEW n \in Nat, NEW m \in Nat, n <= m,
         NEW f, DigitsUpTo(f, base, n), NEW g, DigitsUpTo(g, base, m)
  PROVE  f[n] = g[n]
<1> DEFINE T == {k \in Nat : \A i \in 0..k : i <= n => f[i] = g[i]}
<1>0. f[0] = g[0]
  BY DEF DigitsUpTo
<1>1. 0 \in T
  <2>1. \A i \in 0..0 : i = 0
    OBVIOUS
  <2> QED BY <1>0, <2>1
<1>2. ASSUME NEW k \in T PROVE k + 1 \in T
  <2>1. k \in Nat
    OBVIOUS
  <2> SUFFICES ASSUME NEW i \in 0..(k + 1), i <= n PROVE f[i] = g[i]
    BY <2>1
  <2>2. CASE i = 0
    BY <1>0, <2>2
  <2>3. CASE i # 0
    <3> DEFINE h == i \div base
    <3>1. h \in Nat /\ h < i
      <4>1. i \in Nat \ {0}
        BY <2>3
      <4> QED BY <4>1, DivIs
    <3>2. i \in 0..n /\ i \in 0..m
      OBVIOUS
    <3>3. f[i] = Append(f[h], i % base) /\ g[i] = Append(g[h], i % base)
      BY <2>3, <3>2 DEF DigitsUpTo
    <3> HIDE DEF h
    <3>4. h \in 0..k /\ h <= n
      BY <3>1, <2>1
    <3>5. f[h] = g[h]
      BY <3>4
    <3> QED BY <3>3, <3>5
  <2> QED BY <2>2, <2>3
<1>3. T = Nat
  <2>1. T \in SUBSET Nat
    OBVIOUS
  <2> HIDE DEF T
  <2> QED BY <1>1, <1>2, <2>1, NatSetInduction
<1>4. n \in T /\ n \in 0..n /\ n <= n
  <2>1. n \in 0..n /\ n <= n
    OBVIOUS
  <2> HIDE DEF T
  <2> QED BY <1>3, <2>1
<1> QED BY <1>4

LEMMA DigitsAre ==
  ASSUME NEW base \in Nat \ {0, 1}
  PROVE  /\ Digits(0, base) = <<>>
         /\ \A n \in Nat \ {0} : Digits(n, base) = Append(Digits(n \div base, base), n % base)
<1>1. ASSUME NEW n \in Nat
      PROVE  \E f : DigitsUpTo(f, base, n) /\ Digits(n, base) = f[n]
  <2> DEFINE digits == CHOOSE f : DigitsUpTo(f, base, n)
  <2>1. DigitsUpTo(digits, base, n)
    BY DigitsExists
  <2>2. Digits(n, base) = digits[n]
    BY DEF Digits, DigitsUpTo
  <2> HIDE DEF digits
  <2> QED BY <2>1, <2>2
<1>2. Digits(0, base) = <<>>
  <2>1. PICK f : DigitsUpTo(f, base, 0) /\ Digits(0, base) = f[0]
    BY <1>1
  <2>2. 0 \in 0..0
    OBVIOUS
  <2> QED BY <2>1, <2>2 DEF DigitsUpTo
<1>3. ASSUME NEW n \in Nat \ {0}
      PROVE  Digits(n, base) = Append(Digits(n \div base, base), n % base)
  <2> DEFINE h == n \div base
  <2>1. h \in Nat /\ h < n
    BY DivIs
  <2>2. PICK g : DigitsUpTo(g, base, n) /\ Digits(n, base) = g[n]
    BY <1>1
  <2>3. g[n] = Append(g[h], n % base)
    <3>1. n \in 0..n /\ n # 0
      OBVIOUS
    <3> QED BY <2>2, <3>1 DEF DigitsUpTo
  <2> HIDE DEF h
  <2>4. PICK f : DigitsUpTo(f, base, h) /\ Digits(h, base) = f[h]
    BY <1>1, <2>1
  <2>5. h <= n /\ n \in Nat
    BY <2>1
  <2>6. f[h] = g[h]
    BY <2>1, <2>2, <2>4, <2>5, DigitsAgree
  <2> QED BY <2>2, <2>3, <2>4, <2>6 DEF h
<1> QED BY <1>2, <1>3

(* The digits of a number have its value and no zero in front.             *)
LEMMA DigitsMean ==
  ASSUME NEW base \in Nat \ {0, 1}, NEW n \in Nat
  PROVE  /\ Digits(n, base) \in Seq(0..(base - 1)) /\ Value(Digits(n, base), base) = n
         /\ n # 0 => Digits(n, base) # <<>> /\ Digits(n, base)[1] # 0
<1> DEFINE D(i) == Digits(i, base)
           Good(i) == /\ D(i) \in Seq(0..(base - 1)) /\ Value(D(i), base) = i
                      /\ i # 0 => D(i) # <<>> /\ D(i)[1] # 0
           T == {k \in Nat : \A i \in 0..k : Good(i)}
<1>0. Good(0)
  <2>1. D(0) = <<>>
    BY DigitsAre
  <2>2. Value(<<>>, base) = 0
    BY ValueIs
  <2>3. <<>> \in Seq(0..(base - 1))
    OBVIOUS
  <2> HIDE DEF D
  <2> QED BY <2>1, <2>2, <2>3
<1>1. 0 \in T
  <2>1. \A i \in 0..0 : i = 0
    OBVIOUS
  <2> HIDE DEF Good
  <2> QED BY <1>0, <2>1
<1>2. ASSUME NEW k \in T PROVE k + 1 \in T
  <2>1. k \in Nat /\ \A i \in 0..k : Good(i)
    OBVIOUS
  <2> HIDE DEF Good
  <2> SUFFICES ASSUME NEW i \in 0..(k + 1) PROVE Good(i)
    BY <2>1
  <2>2. CASE i = 0
    BY <1>0, <2>2
  <2>3. CASE i # 0
    <3> DEFINE h == i \div base
               r == i % base
    <3>1. /\ h \in Nat /\ h < i /\ r \in 0..(base - 1) /\ i = h * base + r
          /\ D(i) = Append(D(h), r)
      <4>1. i \in Nat \ {0}
        BY <2>3
      <4>2. h \in Nat /\ h < i /\ r \in 0..(base - 1) /\ i = h * base + r
        BY <4>1, DivIs
      <4>3. D(i) = Append(D(h), r)
        BY <4>1, DigitsAre
      <4> QED BY <4>2, <4>3
    <3> HIDE DEF h, r
    <3>2. h \in 0..k
      BY <2>1, <3>1
    <3>3. /\ D(h) \in Seq(0..(base - 1)) /\ Value(D(h), base) = h
          /\ h # 0 => D(h) # <<>> /\ D(h)[1] # 0
      BY <2>1, <3>2 DEF Good
    <3>4. /\ D(i) \in Seq(0..(base - 1)) /\ D(i) # <<>>
          /\ Len(D(i)) = Len(D(h)) + 1 /\ D(i)[Len(D(h)) + 1] = r
          /\ \A j \in 1..Len(D(h)) : D(i)[j] = D(h)[j]
      <4> DEFINE S == 0..(base - 1)
                 x == D(h)
      <4>1. x \in Seq(S) /\ r \in S /\ D(i) = Append(x, r)
        BY <3>1, <3>3
      <4> HIDE DEF S, x, D
      <4>2. /\ Append(x, r) \in Seq(S) /\ Append(x, r) # <<>>
            /\ Len(Append(x, r)) = Len(x) + 1 /\ Append(x, r)[Len(x) + 1] = r
            /\ \A j \in 1..Len(x) : Append(x, r)[j] = x[j]
        BY <4>1, AppendProperties
      <4>3. /\ D(i) \in Seq(S) /\ D(i) # <<>>
            /\ Len(D(i)) = Len(x) + 1 /\ D(i)[Len(x) + 1] = r
            /\ \A j \in 1..Len(x) : D(i)[j] = x[j]
        BY <4>1, <4>2
      <4> QED BY <4>3 DEF x, S
    <3>5. Value(D(i), base) = i
      <4>1. D(h) \in Seq(Nat) /\ r \in Nat
        BY <3>1, <3>3
      <4>2. Value(Append(D(h), r), base) = Value(D(h), base) * base + r
        BY <4>1, ValueIs
      <4> QED BY <3>1, <3>3, <4>2
    <3>6. D(i)[1] # 0
      <4>1. CASE h = 0
        <5>1. D(h) = <<>> /\ Len(<<>>) = 0
          BY <4>1, DigitsAre
        <5>2. Len(D(h)) + 1 = 1
          BY <5>1
        <5>3. D(i)[1] = r
          BY <3>4, <5>2
        <5>4. r # 0
          BY <2>3, <3>1, <4>1
        <5> QED BY <5>3, <5>4
      <4>2. CASE h # 0
        <5>1. 1 \in 1..Len(D(h))
          BY <3>3, <4>2, EmptySeq
        <5> QED BY <3>3, <3>4, <4>2, <5>1
      <4> QED BY <4>1, <4>2
    <3> QED BY <3>4, <3>5, <3>6 DEF Good
  <2> QED BY <2>2, <2>3
<1>3. T = Nat
  <2>1. T \in SUBSET Nat
    OBVIOUS
  <2> HIDE DEF T
  <2> QED BY <1>1, <1>2, <2>1, NatSetInduction
<1>4. Good(n)
  <2> HIDE DEF Good
  <2>1. n \in T /\ n \in 0..n
    BY <1>3
  <2> QED BY <2>1
<1> QED BY <1>4

LEMMA ValueNat ==
  ASSUME NEW base \in Nat, NEW s \in Seq(Nat)
  PROVE  Value(s, base) \in Nat
<1> DEFINE T == {t \in Seq(Nat) : Value(t, base) \in Nat}
<1>1. <<>> \in T
  BY ValueIs
<1>2. \A t \in T : \A e \in Nat : Append(t, e) \in T
  <2> TAKE t \in T, e \in Nat
  <2> DEFINE v == Value(t, base)
  <2>1. Append(t, e) \in Seq(Nat) /\ Value(Append(t, e), base) = v * base + e /\ v \in Nat
    <3>1. t \in Seq(Nat) /\ v \in Nat
      OBVIOUS
    <3>2. Append(t, e) \in Seq(Nat)
      BY <3>1
    <3>3. Value(Append(t, e), base) = Value(t, base) * base + e
      BY <3>1, ValueIs
    <3> QED BY <3>1, <3>2, <3>3
  <2> HIDE DEF v
  <2>2. v * base + e \in Nat
    BY <2>1
  <2> QED BY <2>1, <2>2
<1>3. T = Seq(Nat)
  <2>1. T \in SUBSET Seq(Nat)
    OBVIOUS
  <2> HIDE DEF T
  <2> QED BY <1>1, <1>2, <2>1, SeqSetInduction
<1> QED BY <1>3

(* Zeros in front.                                                         *)
LEMMA LeadingZerosAre ==
  ASSUME NEW s \in Seq(Nat), NEW k \in 0..Len(s),
         \A i \in 1..k : s[i] = 0, k < Len(s) => s[k + 1] # 0
  PROVE  LeadingZeros(s) = k
<1> DEFINE N == Len(s)
           Fits(n) == (\A i \in 1..n : s[i] = 0) /\ (n < N => s[n + 1] # 0)
           z == CHOOSE n \in 0..N : Fits(n)
<1>1. N \in Nat /\ k \in 0..N /\ Fits(k)
  OBVIOUS
<1>2. LeadingZeros(s) = z
  BY DEF LeadingZeros
<1>3. z \in 0..N /\ Fits(z)
  <2> HIDE DEF Fits, N
  <2> QED BY <1>1
<1> HIDE DEF z, N
<1>4. ~(z < k)
  <2> SUFFICES ASSUME z < k PROVE FALSE
    OBVIOUS
  <2>1. z + 1 \in 1..k /\ z < N
    BY <1>1, <1>3
  <2> QED BY <1>1, <1>3, <2>1
<1>5. ~(k < z)
  <2> SUFFICES ASSUME k < z PROVE FALSE
    OBVIOUS
  <2>1. k + 1 \in 1..z /\ k < N
    BY <1>1, <1>3
  <2> QED BY <1>1, <1>3, <2>1
<1>6. z = k
  BY <1>1, <1>3, <1>4, <1>5
<1> QED BY <1>2, <1>6

LEMMA LeadingZerosIs ==
  ASSUME NEW s \in Seq(Nat)
  PROVE  /\ LeadingZeros(s) \in 0..Len(s) /\ \A i \in 1..LeadingZeros(s) : s[i] = 0
         /\ LeadingZeros(s) < Len(s) => s[LeadingZeros(s) + 1] # 0
<1> DEFINE N == Len(s)
           U == {n \in 0..N : n < N => s[n + 1] # 0}
<1>1. N \in Nat
  OBVIOUS
<1> HIDE DEF N
<1>2. U \in SUBSET Nat /\ N \in U
  <2>1. ~(N < N) /\ N \in 0..N
    BY <1>1
  <2> QED BY <1>1, <2>1
<1>3. PICK k \in U : \A m \in U : k <= m
  <2> HIDE DEF U
  <2> QED BY <1>2, LeastElement
<1>4. k \in 0..N /\ (k < N => s[k + 1] # 0)
  OBVIOUS
<1>5. \A i \in 1..k : s[i] = 0
  <2> TAKE i \in 1..k
  <2> DEFINE j == i - 1
  <2>1. j \in 0..N /\ j < N /\ j + 1 = i /\ j < k
    BY <1>1, <1>4
  <2> HIDE DEF j
  <2>2. j \notin U
    BY <1>1, <1>3, <1>4, <2>1
  <2> QED BY <2>1, <2>2
<1>6. LeadingZeros(s) = k
  BY <1>4, <1>5, LeadingZerosAre DEF N
<1> QED BY <1>4, <1>5, <1>6 DEF N

LEMMA ZerosAre ==
  ASSUME NEW k \in Nat
  PROVE  /\ Len(Zeros(k)) = k /\ \A S : 0 \in S => Zeros(k) \in Seq(S)
         /\ \A i \in 1..k : Zeros(k)[i] = 0
         /\ Append(Zeros(k), 0) = Zeros(k + 1) /\ Zeros(0) = <<>>
<1>1. Len(Zeros(k)) = k /\ \A i \in 1..k : Zeros(k)[i] = 0
  BY DEF Zeros
<1>2. \A S : 0 \in S => Zeros(k) \in Seq(S)
  BY DEF Zeros
<1>3. Append(Zeros(k), 0) = Zeros(k + 1)
  <2> DEFINE s == Zeros(k)
  <2>1. s \in Seq(Nat) /\ 0 \in Nat /\ Len(s) = k
    BY <1>1, <1>2
  <2>2. \A i \in 1..k : s[i] = 0
    BY <1>1
  <2> HIDE DEF s
  <2>3. /\ Append(s, 0) \in Seq(Nat) /\ Len(Append(s, 0)) = k + 1 /\ Append(s, 0)[k + 1] = 0
        /\ \A i \in 1..k : Append(s, 0)[i] = s[i]
    BY <2>1, AppendProperties
  <2>4. \A i \in 1..(k + 1) : Append(s, 0)[i] = 0
    <3>1. \A i \in 1..(k + 1) : i \in 1..k \/ i = k + 1
      OBVIOUS
    <3> QED BY <2>2, <2>3, <3>1
  <2> DEFINE t == Append(s, 0)
             u == Zeros(k + 1)
  <2>5. u \in Seq(Nat) /\ Len(u) = k + 1 /\ \A i \in 1..(k + 1) : u[i] = 0
    BY DEF Zeros
  <2>6. t \in Seq(Nat) /\ Len(t) = Len(u) /\ \A i \in 1..Len(t) : t[i] = u[i]
    BY <2>3, <2>4, <2>5
  <2> HIDE DEF t, u
  <2>7. t = u
    BY <2>5, <2>6, SeqEqual
  <2> QED BY <2>7 DEF s, t, u
<1>4. Zeros(0) = <<>>
  BY DEF Zeros
<1> QED BY <1>1, <1>2, <1>3, <1>4

LEMMA ZerosValue ==
  ASSUME NEW base \in Nat, NEW k \in Nat
  PROVE  Value(Zeros(k), base) = 0
<1> DEFINE T == {n \in Nat : Value(Zeros(n), base) = 0}
<1>1. 0 \in T
  BY ValueIs, ZerosAre
<1>2. ASSUME NEW n \in T PROVE n + 1 \in T
  <2>1. n \in Nat /\ Zeros(n) \in Seq(Nat) /\ Append(Zeros(n), 0) = Zeros(n + 1)
    BY ZerosAre
  <2>2. Value(Append(Zeros(n), 0), base) = Value(Zeros(n), base) * base + 0
    BY <2>1, ValueIs
  <2>3. Value(Zeros(n), base) = 0 /\ 0 * base + 0 = 0
    OBVIOUS
  <2>4. Value(Zeros(n + 1), base) = 0
    BY <2>1, <2>2, <2>3
  <2> QED BY <2>1, <2>4
<1>3. T = Nat
  <2>1. T \in SUBSET Nat
    OBVIOUS
  <2> HIDE DEF T
  <2> QED BY <1>1, <1>2, <2>1, NatSetInduction
<1> QED BY <1>3

(* Zeros in front of a number without leading zeros are its leading zeros  *)
(* and add nothing to its value.                                           *)
LEMMA ZerosInFront ==
  ASSUME NEW base \in Nat, NEW k \in Nat, NEW t \in Seq(Nat), t # <<>> => t[1] # 0
  PROVE  /\ LeadingZeros(Zeros(k) \o t) = k
         /\ Value(Zeros(k) \o t, base) = Value(t, base)
<1> DEFINE z == Zeros(k)
<1>1. z \in Seq(Nat) /\ Len(z) = k /\ \A i \in 1..k : z[i] = 0
  BY ZerosAre
<1>2. Value(z, base) = 0
  BY ZerosValue
<1> HIDE DEF z
<1>3. LeadingZeros(z \o t) = k
  <2> DEFINE s == z \o t
  <2>1. /\ s \in Seq(Nat) /\ Len(s) = Len(z) + Len(t)
        /\ \A i \in 1..(Len(z) + Len(t)) : s[i] = IF i <= Len(z) THEN z[i] ELSE t[i - Len(z)]
    BY <1>1, ConcatProperties
  <2> HIDE DEF s
  <2> DEFINE m == Len(t)
  <2>2. m \in Nat /\ (m = 0 <=> t = <<>>)
    BY EmptySeq
  <2> HIDE DEF m
  <2>3. Len(s) = k + m /\ \A i \in 1..(k + m) : s[i] = IF i <= k THEN z[i] ELSE t[i - k]
    BY <1>1, <2>1 DEF m
  <2>4. k \in 0..Len(s) /\ \A i \in 1..k : s[i] = 0
    <3>1. \A i \in 1..k : i \in 1..(k + m) /\ i <= k
      BY <2>2
    <3> QED BY <1>1, <2>2, <2>3, <3>1
  <2>5. k < Len(s) => s[k + 1] # 0
    <3>1. k < k + m => m # 0 /\ k + 1 \in 1..(k + m) /\ ~(k + 1 <= k) /\ (k + 1) - k = 1
      BY <2>2
    <3> QED BY <2>2, <2>3, <3>1
  <2>6. LeadingZeros(s) = k
    BY <2>1, <2>4, <2>5, LeadingZerosAre
  <2> QED BY <2>6 DEF s
<1> DEFINE T == {u \in Seq(Nat) : Value(z \o u, base) = Value(u, base)}
<1>4. <<>> \in T
  <2>1. z \o <<>> = z
    BY <1>1, ConcatEmptySeq
  <2>2. Value(<<>>, base) = 0
    BY ValueIs
  <2> QED BY <1>2, <2>1, <2>2
<1>5. ASSUME NEW u \in T, NEW e \in Nat PROVE Append(u, e) \in T
  <2>1. u \in Seq(Nat) /\ Value(z \o u, base) = Value(u, base)
    OBVIOUS
  <2>2. z \o u \in Seq(Nat) /\ Append(u, e) \in Seq(Nat)
    BY <1>1, <2>1, ConcatProperties
  <2>3. z \o Append(u, e) = Append(z \o u, e)
    <3>1. Append(u, e) = u \o <<e>>
      BY <2>1, AppendIsConcat
    <3>2. Append(z \o u, e) = (z \o u) \o <<e>>
      BY <2>2, AppendIsConcat
    <3>3. <<e>> \in Seq(Nat)
      OBVIOUS
    <3>4. (z \o u) \o <<e>> = z \o (u \o <<e>>)
      BY <1>1, <2>1, <3>3, ConcatAssociative
    <3> QED BY <3>1, <3>2, <3>4
  <2>4. Value(Append(z \o u, e), base) = Value(z \o u, base) * base + e
    BY <2>2, ValueIs
  <2>5. Value(Append(u, e), base) = Value(u, base) * base + e
    BY <2>1, ValueIs
  <2>6. Value(z \o Append(u, e), base) = Value(Append(u, e), base)
    BY <2>1, <2>3, <2>4, <2>5
  <2> QED BY <2>2, <2>6
<1>6. T = Seq(Nat)
  <2>1. T \in SUBSET Seq(Nat)
    OBVIOUS
  <2> HIDE DEF T
  <2> QED BY <1>4, <1>5, <2>1, SeqSetInduction
<1>7. Value(z \o t, base) = Value(t, base)
  <2>1. t \in T
    BY <1>6
  <2> QED BY <2>1
<1> QED BY <1>3, <1>7 DEF z

(* From one base to another, as Base58Encode and Base58Decode do.          *)
Convert(s, from, to) == Zeros(LeadingZeros(s)) \o Digits(Value(s, from), to)

(* A string is its leading zeros and the digits of its value.              *)
LEMMA ConvertSame ==
  ASSUME NEW base \in Nat \ {0, 1}, NEW s \in Seq(0..(base - 1))
  PROVE  Convert(s, base, base) = s
<1> DEFINE Digit == 0..(base - 1)
<1>b. \A e \in Digit : e \in Nat
  OBVIOUS
<1>d. \A v \in Nat : \A e \in Digit :
        /\ v * base + e \in Nat /\ (v * base + e = 0 <=> v = 0 /\ e = 0)
        /\ (v * base + e) \div base = v /\ (v * base + e) % base = e
  BY DivBack
<1>n. \A t \in Seq(Digit) : t \in Seq(Nat)
  OBVIOUS
<1> DEFINE T == {t \in Seq(Digit) : Convert(t, base, base) = t}
<1>1. <<>> \in T
  <2>1. Value(<<>>, base) = 0 /\ Digits(0, base) = <<>>
    BY ValueIs, DigitsAre
  <2>2. LeadingZeros(<<>>) = 0
    <3>1. <<>> \in Seq(Nat) /\ Len(<<>>) = 0
      OBVIOUS
    <3>2. LeadingZeros(<<>>) \in 0..Len(<<>>)
      BY <3>1, LeadingZerosIs
    <3> QED BY <3>1, <3>2
  <2>3. Zeros(0) = <<>> /\ <<>> \o <<>> = <<>>
    BY ZerosAre
  <2> QED BY <2>1, <2>2, <2>3 DEF Convert
<1>2. ASSUME NEW t \in T, NEW e \in Digit PROVE Append(t, e) \in T
  <2> DEFINE u == Append(t, e)
             k == LeadingZeros(t)
             v == Value(t, base)
             w == v * base + e
             N == Len(t)
  <2>1. t \in Seq(Digit) /\ t \in Seq(Nat) /\ e \in Nat /\ Zeros(k) \o Digits(v, base) = t
    BY <1>b, <1>n DEF Convert
  <2>2. /\ u \in Seq(Digit) /\ u \in Seq(Nat) /\ Len(u) = N + 1 /\ u[N + 1] = e /\ N \in Nat
        /\ \A i \in 1..N : u[i] = t[i]
    <3>1. u \in Seq(Digit)
      BY <2>1, AppendProperties
    <3>2. Len(u) = N + 1 /\ u[N + 1] = e /\ \A i \in 1..N : u[i] = t[i]
      BY <2>1, AppendProperties
    <3>3. N \in Nat
      BY <2>1
    <3>4. u \in Seq(Nat)
      BY <1>n, <3>1
    <3> QED BY <3>1, <3>2, <3>3, <3>4
  <2>3. v \in Nat /\ Value(u, base) = w
    BY <2>1, ValueIs, ValueNat
  <2>4. k \in 0..N /\ (\A i \in 1..k : t[i] = 0) /\ (k < N => t[k + 1] # 0)
    BY <2>1, LeadingZerosIs
  <2>5. w \in Nat /\ (w = 0 <=> v = 0 /\ e = 0) /\ w \div base = v /\ w % base = e
    <3> HIDE DEF v, Digit
    <3> QED BY <1>d, <2>3
  <2> HIDE DEF u, k, v, w, N, Digit
  <2>6. k \in Nat /\ Zeros(k) \in Seq(Digit) /\ 0 \in Digit
    <3>1. k \in Nat /\ 0 \in Digit
      BY <2>2, <2>4 DEF Digit
    <3> QED BY <3>1, ZerosAre
  <2>7. v = 0 => t = Zeros(k) /\ k = N
    <3> SUFFICES ASSUME v = 0 PROVE t = Zeros(k) /\ k = N
      OBVIOUS
    <3>1. Digits(v, base) = <<>>
      BY DigitsAre
    <3>2. Zeros(k) \o <<>> = Zeros(k)
      BY <2>6, ConcatEmptySeq
    <3>3. t = Zeros(k)
      BY <2>1, <3>1, <3>2
    <3>4. Len(t) = k
      BY <2>6, <3>3, ZerosAre
    <3> QED BY <3>3, <3>4 DEF N
  <2>8. CASE w = 0
    <3>1. v = 0 /\ e = 0 /\ t = Zeros(k) /\ k = N
      BY <2>5, <2>7, <2>8
    <3>2. u = Zeros(k + 1)
      BY <2>6, <3>1, ZerosAre DEF u
    <3>3. LeadingZeros(u) = k + 1
      <4>1. k + 1 \in 0..Len(u) /\ ~(k + 1 < Len(u))
        BY <2>2, <2>6, <3>1
      <4>2. \A i \in 1..(k + 1) : u[i] = 0
        <5>1. k + 1 \in Nat
          BY <2>6
        <5> QED BY <3>2, <5>1, ZerosAre
      <4> QED BY <2>2, <4>1, <4>2, LeadingZerosAre
    <3>4. Digits(w, base) = <<>>
      BY <2>8, DigitsAre
    <3>5. u \o <<>> = u
      BY <2>2, ConcatEmptySeq
    <3>6. Convert(u, base, base) = u
      BY <2>3, <3>2, <3>3, <3>4, <3>5 DEF Convert
    <3> QED BY <2>2, <3>6 DEF u
  <2>9. CASE w # 0
    <3>1. Digits(w, base) = Append(Digits(v, base), e)
      <4>1. w \in Nat \ {0}
        BY <2>5, <2>9
      <4> QED BY <2>5, <4>1, DigitsAre
    <3>2. u[k + 1] # 0
      <4>1. CASE k < N
        <5>1. k + 1 \in 1..N
          BY <2>2, <2>4, <4>1
        <5> QED BY <2>2, <2>4, <4>1, <5>1
      <4>2. CASE ~(k < N)
        <5>1. k = N
          BY <2>2, <2>4, <4>2
        <5>2. e # 0
          <6> SUFFICES ASSUME e = 0 PROVE FALSE
            OBVIOUS
          <6>1. v # 0
            BY <2>5, <2>9
          <6>2. t = Zeros(k)
            <7> DEFINE z == Zeros(k)
            <7>1. z \in Seq(Nat) /\ Len(z) = k /\ \A i \in 1..k : z[i] = 0
              BY <2>6, ZerosAre
            <7>2. Len(t) = k
              BY <5>1 DEF N
            <7> HIDE DEF z
            <7>3. Len(t) = Len(z) /\ \A i \in 1..Len(t) : t[i] = z[i]
              BY <2>4, <7>1, <7>2
            <7>4. t = z
              BY <2>1, <7>1, <7>3, SeqEqual
            <7> QED BY <7>4 DEF z
          <6>3. Value(Zeros(k), base) = 0
            BY <2>6, ZerosValue
          <6> QED BY <6>1, <6>2, <6>3 DEF v
        <5> QED BY <2>2, <5>1, <5>2
      <4> QED BY <4>1, <4>2
    <3>3. LeadingZeros(u) = k
      <4>1. k \in 0..Len(u) /\ \A i \in 1..k : i \in 1..N
        BY <2>2, <2>4
      <4>2. \A i \in 1..k : u[i] = 0
        BY <2>2, <2>4, <4>1
      <4> QED BY <2>2, <3>2, <4>1, <4>2, LeadingZerosAre
    <3>4. Zeros(k) \o Append(Digits(v, base), e) = u
      <4> DEFINE d == Digits(v, base)
                 z == Zeros(k)
      <4>1. d \in Seq(Digit) /\ z \in Seq(Digit) /\ <<e>> \in Seq(Digit)
        BY <2>3, <2>6, DigitsMean DEF Digit
      <4> HIDE DEF d, z
      <4>2. Append(d, e) = d \o <<e>>
        BY <4>1, AppendIsConcat
      <4>3. (z \o d) \o <<e>> = z \o (d \o <<e>>)
        BY <4>1, ConcatAssociative
      <4>4. Append(t, e) = t \o <<e>>
        BY <2>1, AppendIsConcat
      <4>5. z \o d = t
        BY <2>1 DEF z, d
      <4> QED BY <4>2, <4>3, <4>4, <4>5 DEF u, z, d
    <3>5. Convert(u, base, base) = u
      BY <2>3, <3>1, <3>3, <3>4 DEF Convert
    <3> QED BY <2>2, <3>5 DEF u
  <2> QED BY <2>8, <2>9
<1>3. T = Seq(Digit)
  <2>1. T \in SUBSET Seq(Digit)
    OBVIOUS
  <2> HIDE DEF T
  <2> QED BY <1>1, <1>2, <2>1, SeqSetInduction
<1>4. s \in T
  BY <1>3
<1> QED BY <1>4

(* So a string comes back from any other base, whatever the two bases.     *)
LEMMA ConvertBack ==
  ASSUME NEW from \in Nat \ {0, 1}, NEW to \in Nat \ {0, 1}, NEW s \in Seq(0..(from - 1))
  PROVE  /\ Convert(s, from, to) \in Seq(0..(to - 1))
         /\ Convert(Convert(s, from, to), to, from) = s
<1> DEFINE k == LeadingZeros(s)
           v == Value(s, from)
           d == Digits(v, to)
           t == Convert(s, from, to)
<1>1. s \in Seq(Nat)
  OBVIOUS
<1>2. k \in Nat /\ v \in Nat
  <2>1. k \in 0..Len(s) /\ Len(s) \in Nat
    BY <1>1, LeadingZerosIs
  <2>2. v \in Nat
    BY <1>1, ValueNat
  <2> QED BY <2>1, <2>2
<1>3. t = Zeros(k) \o d
  BY DEF Convert
<1> HIDE DEF k, v, t
<1>4. /\ d \in Seq(0..(to - 1)) /\ Value(d, to) = v
      /\ v # 0 => d # <<>> /\ d[1] # 0
  BY <1>2, DigitsMean
<1>5. d # <<>> => d[1] # 0
  <2>1. Digits(0, to) = <<>>
    BY DigitsAre
  <2> QED BY <1>4, <2>1
<1> HIDE DEF d
<1>6. d \in Seq(Nat)
  BY <1>4
<1>7. LeadingZeros(t) = k /\ Value(t, to) = v
  <2>1. LeadingZeros(Zeros(k) \o d) = k /\ Value(Zeros(k) \o d, to) = Value(d, to)
    BY <1>2, <1>5, <1>6, ZerosInFront
  <2> QED BY <1>3, <1>4, <2>1
<1>8. Convert(t, to, from) = Convert(s, from, from)
  BY <1>7 DEF Convert, k, v
<1>9. Convert(s, from, from) = s
  BY ConvertSame
<1>10. t \in Seq(0..(to - 1))
  <2>1. 0 \in 0..(to - 1)
    OBVIOUS
  <2>2. Zeros(k) \in Seq(0..(to - 1))
    BY <1>2, <2>1, ZerosAre
  <2> QED BY <1>3, <1>4, <2>2, ConcatProperties
<1> QED BY <1>8, <1>9, <1>10 DEF t

Byte == 0..(Bytes - 1)

Read(s) == s \in Seq(Byte) /\ Len(s) <= MaxBytes

Base58Inv == Read(input)

LEMMA Base58InvCorrect == Base58Spec => []Base58Inv
<1>1. Base58Init => Base58Inv
  BY Base58Assumption DEF Base58Init, Base58Inv, Read
<1>2. Base58Inv /\ [Base58Next]_input => Base58Inv'
  <2> SUFFICES ASSUME Base58Inv, NEW b \in Byte, ReadByte(b) PROVE Base58Inv'
    BY DEF Base58Inv, Base58Next, Byte
  <2>1. input \in Seq(Byte) /\ Len(input) < MaxBytes /\ input' = Append(input, b)
    BY DEF Base58Inv, Read, ReadByte
  <2>2. input' \in Seq(Byte) /\ Len(input') = Len(input) + 1 /\ Len(input) \in Nat
    BY <2>1, AppendProperties
  <2> QED BY <2>1, <2>2, Base58Assumption DEF Base58Inv, Read
<1> QED BY <1>1, <1>2, PTL DEF Base58Spec

LEMMA CodeIs ==
  /\ \A s \in Seq(Byte) : Base58Decode(Base58Encode(s)) = s
  /\ \A s \in Seq(Nat) :
       IF \A i \in DOMAIN s : s[i] < Radix
       THEN Base58Encode(Base58Decode(s)) = s
       ELSE Base58Decode(s) = Invalid
<1>1. Bytes \in Nat \ {0, 1} /\ Radix \in Nat \ {0, 1}
  BY Base58Assumption
<1>2. \A s : Base58Encode(s) = Convert(s, Bytes, Radix)
  BY DEF Base58Encode, Convert
<1>3. \A s \in Seq(0..(Radix - 1)) : Base58Decode(s) = Convert(s, Radix, Bytes)
  <2> TAKE s \in Seq(0..(Radix - 1))
  <2>1. \A i \in DOMAIN s : ~(s[i] >= Radix)
    <3> TAKE i \in DOMAIN s
    <3>1. s[i] \in 0..(Radix - 1)
      <4> DEFINE D == 0..(Radix - 1)
      <4>1. s \in Seq(D)
        OBVIOUS
      <4> HIDE DEF D
      <4>2. s[i] \in D
        BY <4>1
      <4> QED BY <4>2 DEF D
    <3> DEFINE d == s[i]
    <3> HIDE DEF d
    <3>2. d \in 0..(Radix - 1) => ~(d >= Radix)
      BY <1>1
    <3> QED BY <3>1, <3>2 DEF d
  <2> QED BY <2>1 DEF Base58Decode, Convert
<1>4. ASSUME NEW s \in Seq(Byte) PROVE Base58Decode(Base58Encode(s)) = s
  <2> DEFINE t == Convert(s, Bytes, Radix)
  <2>1. s \in Seq(0..(Bytes - 1))
    BY DEF Byte
  <2>2. t \in Seq(0..(Radix - 1)) /\ Convert(t, Radix, Bytes) = s
    BY <1>1, <2>1, ConvertBack
  <2>3. Base58Encode(s) = t
    BY <1>2
  <2> HIDE DEF t
  <2> QED BY <1>3, <2>2, <2>3
<1>5. ASSUME NEW s \in Seq(Nat), \A i \in DOMAIN s : s[i] < Radix
      PROVE  Base58Encode(Base58Decode(s)) = s
  <2> DEFINE t == Convert(s, Radix, Bytes)
  <2>1. s \in Seq(0..(Radix - 1))
    <3>1. \A d \in Nat : d < Radix => d \in 0..(Radix - 1)
      BY <1>1
    <3>2. \A i \in 1..Len(s) : s[i] \in 0..(Radix - 1)
      BY <1>5, <3>1
    <3>3. Len(s) \in Nat /\ s = [i \in 1..Len(s) |-> s[i]]
      OBVIOUS
    <3> DEFINE D == 0..(Radix - 1)
    <3>4. \A i \in 1..Len(s) : s[i] \in D
      BY <3>2
    <3> HIDE DEF D
    <3>5. s \in [1..Len(s) -> D]
      BY <3>3, <3>4
    <3>6. s \in Seq(D)
      BY <3>3, <3>5
    <3> QED BY <3>6 DEF D
  <2>2. t \in Seq(0..(Bytes - 1)) /\ Convert(t, Bytes, Radix) = s
    BY <1>1, <2>1, ConvertBack
  <2>3. Base58Decode(s) = t
    BY <1>3, <2>1
  <2> HIDE DEF t
  <2> QED BY <1>2, <2>2, <2>3
<1>6. ASSUME NEW s \in Seq(Nat), ~(\A i \in DOMAIN s : s[i] < Radix)
      PROVE  Base58Decode(s) = Invalid
  <2>1. PICK i \in DOMAIN s : ~(s[i] < Radix)
    BY <1>6
  <2>2. s[i] \in Nat
    OBVIOUS
  <2>3. \A d \in Nat : ~(d < Radix) => d >= Radix
    BY <1>1
  <2>4. \E j \in DOMAIN s : s[j] >= Radix
    BY <2>1, <2>2, <2>3
  <2> QED BY <2>4 DEF Base58Decode
<1> QED BY <1>4, <1>5, <1>6

LEMMA HashIs ==
  ASSUME NEW s, Read(s)
  PROVE  HashBytes(s) \in Seq(Byte) /\ Len(HashBytes(s)) = ChecksumLen
<1>1. s \in Seq(Byte) /\ Len(s) \in Nat /\ Len(s) <= MaxBytes
  BY DEF Read
<1>2. s \in [1..Len(s) -> Byte] /\ Len(s) \in 0..MaxBytes
  BY <1>1, Base58Assumption
<1>3. s \in BoundedSeq(Byte, MaxBytes)
  BY <1>2 DEF BoundedSeq, SeqOf
<1>4. HashBytes(s) \in [1..ChecksumLen -> Byte]
  BY <1>3, HashAssumption DEF Byte
<1>5. ChecksumLen \in Nat
  BY Base58Assumption
<1> HIDE DEF Byte
<1> QED BY <1>4, <1>5

(* The two parts of a concatenation.                                       *)
LEMMA PartsOf ==
  ASSUME NEW S, NEW s \in Seq(S), NEW t \in Seq(S)
  PROVE  LET u == s \o t
         IN  /\ SubSeq(u, 1, Len(u) - Len(t)) = s
             /\ SubSeq(u, Len(u) - Len(t) + 1, Len(u)) = t
<1> DEFINE u == s \o t
           n == Len(s)
           m == Len(t)
<1>1. /\ u \in Seq(S) /\ Len(u) = n + m
      /\ \A i \in 1..(n + m) : u[i] = IF i <= n THEN s[i] ELSE t[i - n]
  BY ConcatProperties
<1>2. n \in Nat /\ m \in Nat
  OBVIOUS
<1>3. s = [i \in 1..n |-> s[i]] /\ t = [i \in 1..m |-> t[i]]
  OBVIOUS
<1> HIDE DEF u, n, m
<1>4. SubSeq(u, 1, n) = s
  <2>1. SubSeq(u, 1, n) = [i \in 1..(1 + n - 1) |-> u[1 + i - 1]]
    BY <1>1, <1>2
  <2>2. 1 + n - 1 = n /\ \A i \in 1..n : 1 + i - 1 = i /\ i \in 1..(n + m) /\ i <= n
    BY <1>2
  <2>3. \A i \in 1..n : u[i] = s[i]
    BY <1>1, <2>2
  <2>4. SubSeq(u, 1, n) = [i \in 1..n |-> s[i]]
    BY <2>1, <2>2, <2>3
  <2> QED BY <1>3, <2>4
<1>5. SubSeq(u, n + 1, n + m) = t
  <2>1. SubSeq(u, n + 1, n + m) = [i \in 1..((n + 1) + (n + m) - 1 - 2 * n) |-> u[(n + 1) + i - 1]]
    <3>1. (1 + (n + m)) - (n + 1) = (n + 1) + (n + m) - 1 - 2 * n
      BY <1>2
    <3>2. SubSeq(u, n + 1, n + m) = [i \in 1..((1 + (n + m)) - (n + 1)) |-> u[(n + 1) + i - 1]]
      BY <1>1, <1>2
    <3> QED BY <3>1, <3>2
  <2>2. /\ (n + 1) + (n + m) - 1 - 2 * n = m
        /\ \A i \in 1..m : (n + 1) + i - 1 = n + i /\ n + i \in 1..(n + m) /\ ~(n + i <= n)
                           /\ (n + i) - n = i
    BY <1>2
  <2>3. \A i \in 1..m : u[n + i] = t[i]
    BY <1>1, <2>2
  <2>4. SubSeq(u, n + 1, n + m) = [i \in 1..m |-> t[i]]
    BY <2>1, <2>2, <2>3
  <2> QED BY <1>3, <2>4
<1>6. Len(u) - m = n /\ (n + m) - m = n
  BY <1>1, <1>2
<1> QED BY <1>1, <1>4, <1>5, <1>6 DEF u, n, m

LEMMA SplitAt ==
  ASSUME NEW S, NEW s \in Seq(S), NEW n \in 0..Len(s)
  PROVE  /\ s = SubSeq(s, 1, n) \o SubSeq(s, n + 1, Len(s))
         /\ SubSeq(s, 1, n) \in Seq(S) /\ Len(SubSeq(s, 1, n)) = n
<1> DEFINE N == Len(s)
           a == SubSeq(s, 1, n)
           b == SubSeq(s, n + 1, N)
<1>1. N \in Nat /\ n \in Nat /\ n <= N /\ s = [i \in 1..N |-> s[i]] /\ \A i \in 1..N : s[i] \in S
  OBVIOUS
<1> HIDE DEF N
<1>2. a \in Seq(S) /\ Len(a) = n /\ \A i \in 1..n : a[i] = s[i]
  <2>1. a = [i \in 1..(1 + n - 1) |-> s[1 + i - 1]]
    BY <1>1
  <2>2. 1 + n - 1 = n /\ \A i \in 1..n : 1 + i - 1 = i /\ i \in 1..N
    BY <1>1
  <2>3. a = [i \in 1..n |-> s[i]] /\ \A i \in 1..n : s[i] \in S
    BY <1>1, <2>1, <2>2
  <2> HIDE DEF a
  <2>4. a \in [1..n -> S] /\ \A i \in 1..n : a[i] = s[i]
    BY <2>3
  <2>5. a \in Seq(S) /\ Len(a) = n
    BY <1>1, <2>4
  <2> QED BY <2>4, <2>5
<1>3. b \in Seq(S) /\ Len(b) = N - n /\ \A i \in 1..(N - n) : b[i] = s[n + i]
  <2>1. b = [i \in 1..((1 + N) - (n + 1)) |-> s[(n + 1) + i - 1]]
    BY <1>1
  <2>2. /\ (1 + N) - (n + 1) = N - n /\ N - n \in Nat
        /\ \A i \in 1..(N - n) : (n + 1) + i - 1 = n + i /\ n + i \in 1..N
    BY <1>1
  <2>3. b = [i \in 1..(N - n) |-> s[n + i]] /\ \A i \in 1..(N - n) : s[n + i] \in S
    BY <1>1, <2>1, <2>2
  <2> HIDE DEF b
  <2> QED BY <2>2, <2>3
<1> HIDE DEF a, b
<1> DEFINE u == a \o b
<1>4. /\ u \in Seq(S) /\ Len(u) = Len(a) + Len(b)
      /\ \A i \in 1..(Len(a) + Len(b)) : u[i] = IF i <= Len(a) THEN a[i] ELSE b[i - Len(a)]
  BY <1>2, <1>3, ConcatProperties
<1> HIDE DEF u
<1>5. Len(u) = N /\ \A i \in 1..N : u[i] = IF i <= n THEN a[i] ELSE b[i - n]
  <2>1. Len(a) + Len(b) = N
    BY <1>1, <1>2, <1>3
  <2> QED BY <1>2, <1>4, <2>1
<1>6. \A i \in 1..N : s[i] = u[i]
  <2> TAKE i \in 1..N
  <2>1. CASE i <= n
    <3>1. i \in 1..n
      BY <2>1
    <3> QED BY <1>2, <1>5, <2>1, <3>1
  <2>2. CASE ~(i <= n)
    <3>1. i - n \in 1..(N - n) /\ n + (i - n) = i
      BY <1>1, <2>2
    <3> QED BY <1>3, <1>5, <2>2, <3>1
  <2> QED BY <2>1, <2>2
<1>7. s = u
  <2>1. Len(s) = Len(u) /\ \A i \in 1..Len(s) : s[i] = u[i]
    BY <1>5, <1>6 DEF N
  <2> QED BY <1>4, <2>1, SeqEqual
<1> QED BY <1>2, <1>7 DEF u, a, b, N

(* Every string of bytes comes back from its text, every text of the       *)
(* alphabet from its bytes, and every payload from its address, leading    *)
(* zeros and all, for any two bases and any hash.                          *)
THEOREM Base58SoundCorrect == Base58Spec => []Base58Sound
<1>1. Base58Inv => EncodeDecodes
  BY CodeIs DEF Base58Inv, Read, EncodeDecodes
<1>2. Base58Inv => DecodeEncodes
  <2> SUFFICES ASSUME Base58Inv PROVE DecodeEncodes
    OBVIOUS
  <2>1. input \in Seq(Byte) /\ \A b \in Byte : b \in Nat
    BY DEF Base58Inv, Read, Byte
  <2>2. input \in Seq(Nat)
    <3>1. Len(input) \in Nat /\ input \in [1..Len(input) -> Byte]
      BY <2>1
    <3>2. input \in [1..Len(input) -> Nat]
      BY <2>1, <3>1
    <3> QED BY <3>1, <3>2
  <2> QED BY <2>2, CodeIs DEF DecodeEncodes
<1>3. Base58Inv => AddressVerifies
  <2> SUFFICES ASSUME Base58Inv PROVE AddressVerifies
    OBVIOUS
  <2> DEFINE sum == HashBytes(input)
             whole == input \o sum
             n == Len(input)
  <2>1. /\ Read(input) /\ input \in Seq(Byte) /\ n \in Nat
        /\ sum \in Seq(Byte) /\ Len(sum) = ChecksumLen /\ ChecksumLen \in Nat
    <3>1. Read(input)
      BY DEF Base58Inv
    <3>2. sum \in Seq(Byte) /\ Len(sum) = ChecksumLen
      BY <3>1, HashIs
    <3> QED BY <3>1, <3>2, Base58Assumption DEF Read
  <2> HIDE DEF sum, n
  <2>2. /\ whole \in Seq(Byte) /\ Len(whole) = n + ChecksumLen
        /\ SubSeq(whole, 1, Len(whole) - ChecksumLen) = input
        /\ SubSeq(whole, Len(whole) - ChecksumLen + 1, Len(whole)) = sum
    <3>1. whole \in Seq(Byte) /\ Len(whole) = Len(input) + Len(sum)
      BY <2>1, ConcatProperties
    <3>2. /\ SubSeq(whole, 1, Len(whole) - Len(sum)) = input
          /\ SubSeq(whole, Len(whole) - Len(sum) + 1, Len(whole)) = sum
      BY <2>1, PartsOf
    <3> HIDE DEF whole
    <3> QED BY <2>1, <3>1, <3>2 DEF n
  <2>3. AddChecksum(input) = whole
    BY DEF AddChecksum, sum
  <2> HIDE DEF whole
  <2>4. Base58Decode(Address(input)) = whole
    BY <2>2, <2>3, CodeIs DEF Address
  <2>5. VerifyChecksum(whole)
    <3>1. Len(whole) >= ChecksumLen
      BY <2>1, <2>2
    <3> QED BY <2>2, <3>1 DEF VerifyChecksum, sum
  <2>6. ASSUME VerifyChecksum(input)
        PROVE  \E i \in 0..Len(input) : input = AddChecksum(SubSeq(input, 1, i))
    <3> DEFINE i == n - ChecksumLen
    <3>1. /\ n >= ChecksumLen
          /\ SubSeq(input, i + 1, Len(input)) = HashBytes(SubSeq(input, 1, i))
      BY <2>6 DEF VerifyChecksum, n
    <3>2. i \in 0..Len(input)
      BY <2>1, <3>1 DEF n
    <3> HIDE DEF i
    <3>3. input = SubSeq(input, 1, i) \o SubSeq(input, i + 1, Len(input))
      BY <2>1, <3>2, SplitAt
    <3>4. input = AddChecksum(SubSeq(input, 1, i))
      BY <3>1, <3>3 DEF AddChecksum
    <3> QED BY <3>2, <3>4
  <2>7. ASSUME NEW i \in 0..Len(input), input = AddChecksum(SubSeq(input, 1, i))
        PROVE  VerifyChecksum(input)
    <3> DEFINE data == SubSeq(input, 1, i)
               tail == HashBytes(data)
    <3>1. data \in Seq(Byte) /\ Len(data) = i
      BY <2>1, SplitAt
    <3>2. Read(data)
      <4>1. i <= n /\ n <= MaxBytes /\ i \in Nat
        BY <2>1 DEF Read, n
      <4>2. MaxBytes \in Nat
        BY Base58Assumption
      <4>3. i <= MaxBytes
        BY <2>1, <4>1, <4>2
      <4> QED BY <3>1, <4>3 DEF Read
    <3> HIDE DEF data
    <3>3. tail \in Seq(Byte) /\ Len(tail) = ChecksumLen
      BY <3>2, HashIs
    <3>4. input = data \o tail
      BY <2>7 DEF AddChecksum, data
    <3> HIDE DEF tail
    <3>5. /\ SubSeq(input, 1, Len(input) - Len(tail)) = data
          /\ SubSeq(input, Len(input) - Len(tail) + 1, Len(input)) = tail
      BY <3>1, <3>3, <3>4, PartsOf
    <3>6. Len(input) = Len(data) + Len(tail)
      BY <3>1, <3>3, <3>4, ConcatProperties
    <3>7. Len(input) >= ChecksumLen
      <4>1. Len(data) \in Nat
        BY <3>1
      <4> DEFINE d == Len(data)
      <4>2. d \in Nat /\ Len(input) = d + ChecksumLen
        BY <3>3, <3>6, <4>1
      <4> HIDE DEF d
      <4> QED BY <2>1, <4>2
    <3> QED BY <3>3, <3>5, <3>7 DEF VerifyChecksum, tail
  <2> QED BY <2>2, <2>4, <2>5, <2>6, <2>7 DEF AddressVerifies
<1>4. Base58Inv => Base58Sound
  BY <1>1, <1>2, <1>3 DEF Base58Sound
<1> QED BY <1>4, Base58InvCorrect, PTL

=============================================================================
