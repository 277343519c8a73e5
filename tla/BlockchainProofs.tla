-------------------------- MODULE BlockchainProofs --------------------------
(***************************************************************************)
(* Theorems about Blockchain for every forest of blocks, every set of      *)
(* offers and every bound.  What holds whatever the callers offer comes    *)
(* first; the soundness of the chain needs HonestCallers.                  *)
(***************************************************************************)
EXTENDS Blockchain, NatSetInduction, SequenceTheorems

-----------------------------------------------------------------------------
(* The entries of the lookup indices.                                      *)

(* LastIn is the greatest position whose block is in S, if there is one.   *)
LEMMA LastInProperties ==
  ASSUME NEW chain \in Seq(Block), NEW S, NEW i \in DOMAIN chain, chain[i] \in S
  PROVE  /\ LastIn(chain, S) \in DOMAIN chain
         /\ chain[LastIn(chain, S)] \in S
         /\ \A j \in DOMAIN chain : chain[j] \in S => j <= LastIn(chain, S)
<1> DEFINE T == {n \in Nat : \E j \in DOMAIN chain : chain[j] \in S /\ n = Len(chain) - j}
<1>1. DOMAIN chain = 1..Len(chain) /\ Len(chain) \in Nat
  BY LenProperties
<1>2. T \in SUBSET Nat /\ Len(chain) - i \in T
  BY <1>1
<1>3. \E n \in T : \A m \in T : n <= m
  <2> HIDE DEF T
  <2> QED BY <1>2, LeastElement
<1>4. PICK k \in DOMAIN chain : chain[k] \in S /\ \A m \in T : Len(chain) - k <= m
  BY <1>3
<1>5. \A j \in DOMAIN chain : chain[j] \in S => j <= k
  <2> SUFFICES ASSUME NEW j \in DOMAIN chain, chain[j] \in S PROVE j <= k
    OBVIOUS
  <2>1. Len(chain) - j \in T
    BY <1>1
  <2> QED BY <2>1, <1>4, <1>1
<1>6. \E l \in DOMAIN chain :
        chain[l] \in S /\ \A j \in DOMAIN chain : chain[j] \in S => j <= l
  BY <1>4, <1>5
<1> QED BY <1>6, Zenon DEF LastIn

LEMMA LastInUnique ==
  ASSUME NEW chain \in Seq(Block), NEW S, NEW k \in DOMAIN chain, chain[k] \in S,
         \A j \in DOMAIN chain : chain[j] \in S => j <= k
  PROVE  LastIn(chain, S) = k
<1>1. /\ LastIn(chain, S) \in DOMAIN chain
      /\ chain[LastIn(chain, S)] \in S
      /\ \A j \in DOMAIN chain : chain[j] \in S => j <= LastIn(chain, S)
  BY LastInProperties
<1>2. DOMAIN chain = 1..Len(chain) /\ Len(chain) \in Nat
  BY LenProperties
<1> QED BY <1>1, <1>2

(* Appending a block moves the last position of S exactly when S has it.   *)
LEMMA LastInAppend ==
  ASSUME NEW chain \in Seq(Block), NEW b \in Block, NEW S,
         \/ b \in S
         \/ b \notin S /\ \E i \in DOMAIN chain : chain[i] \in S
  PROVE  LastIn(Append(chain, b), S) = IF b \in S THEN Len(chain) + 1
                                                  ELSE LastIn(chain, S)
<1> DEFINE longer == Append(chain, b)
<1>1. /\ longer \in Seq(Block) /\ Len(longer) = Len(chain) + 1
      /\ longer[Len(chain) + 1] = b
      /\ \A i \in 1..Len(chain) : longer[i] = chain[i]
  BY AppendProperties
<1>2. /\ DOMAIN chain = 1..Len(chain) /\ Len(chain) \in Nat
      /\ DOMAIN longer = 1..(Len(chain) + 1)
  BY <1>1, LenProperties
<1> HIDE DEF longer
<1>3. CASE b \in S
  <2>1. LastIn(longer, S) = Len(chain) + 1
    BY <1>1, <1>2, <1>3, LastInUnique
  <2> QED BY <2>1, <1>3 DEF longer
<1>4. CASE b \notin S
  <2> DEFINE k == LastIn(chain, S)
  <2>1. k \in DOMAIN chain /\ chain[k] \in S
        /\ \A j \in DOMAIN chain : chain[j] \in S => j <= k
    BY <1>4, LastInProperties
  <2> HIDE DEF k
  <2>2. k \in DOMAIN longer /\ longer[k] \in S
    BY <2>1, <1>1, <1>2
  <2>3. ASSUME NEW j \in DOMAIN longer, longer[j] \in S PROVE j <= k
    <3>1. j \in 1..Len(chain)
      BY <2>3, <1>1, <1>2, <1>4
    <3> QED BY <3>1, <2>3, <2>1, <1>1, <1>2
  <2>4. LastIn(longer, S) = k
    BY <2>2, <2>3, <1>1, LastInUnique
  <2> QED BY <2>4, <1>4 DEF longer, k
<1> QED BY <1>3, <1>4

LEMMA OnChainAppend ==
  ASSUME NEW chain \in Seq(Block), NEW b \in Block
  PROVE  /\ OnChain(Append(chain, b)) = OnChain(chain) \cup {b}
         /\ TxsOf(Append(chain, b)) = TxsOf(chain) \cup Txs[b]
<1> DEFINE longer == Append(chain, b)
<1>1. /\ longer \in Seq(Block) /\ Len(longer) = Len(chain) + 1
      /\ longer[Len(chain) + 1] = b
      /\ \A i \in 1..Len(chain) : longer[i] = chain[i]
  BY AppendProperties
<1>2. /\ DOMAIN chain = 1..Len(chain) /\ Len(chain) \in Nat
      /\ DOMAIN longer = 1..(Len(chain) + 1)
  BY <1>1, LenProperties
<1> HIDE DEF longer
<1>3. OnChain(longer) = OnChain(chain) \cup {b}
  <2>1. OnChain(longer) \subseteq OnChain(chain) \cup {b}
    BY <1>1, <1>2 DEF OnChain
  <2>2. \A i \in DOMAIN chain : i \in DOMAIN longer /\ longer[i] = chain[i]
    BY <1>1, <1>2
  <2>3. OnChain(chain) \subseteq OnChain(longer)
    BY <2>2 DEF OnChain
  <2>4. b \in OnChain(longer)
    <3>1. Len(chain) + 1 \in DOMAIN longer
      BY <1>2
    <3> QED BY <3>1, <1>1 DEF OnChain
  <2> QED BY <2>1, <2>3, <2>4
<1>4. TxsOf(longer) = TxsOf(chain) \cup Txs[b]
  BY <1>3 DEF TxsOf
<1> QED BY <1>3, <1>4 DEF longer

LEMMA ConcatOnChain ==
  ASSUME NEW c \in Seq(Block), NEW d \in Seq(Block)
  PROVE  c \o d \in Seq(Block) /\ OnChain(c \o d) = OnChain(c) \cup OnChain(d)
<1>1. /\ c \o d \in Seq(Block) /\ Len(c \o d) = Len(c) + Len(d)
      /\ \A i \in 1..Len(c) : (c \o d)[i] = c[i]
      /\ \A i \in 1..Len(d) : (c \o d)[Len(c) + i] = d[i]
      /\ DOMAIN c = 1..Len(c) /\ DOMAIN d = 1..Len(d)
      /\ DOMAIN (c \o d) = 1..(Len(c) + Len(d))
      /\ Len(c) \in Nat /\ Len(d) \in Nat
  BY ConcatProperties, LenProperties
<1>2. ASSUME NEW i \in DOMAIN (c \o d)
      PROVE  (c \o d)[i] \in OnChain(c) \cup OnChain(d)
  <2>1. CASE i <= Len(c)
    BY <1>1, <2>1 DEF OnChain
  <2>2. CASE i > Len(c)
    <3>1. i - Len(c) \in 1..Len(d) /\ i = Len(c) + (i - Len(c))
      BY <1>1, <2>2
    <3>2. (c \o d)[i] = d[i - Len(c)]
      BY <3>1, <1>1
    <3> QED BY <3>1, <3>2, <1>1 DEF OnChain
  <2> QED BY <2>1, <2>2, <1>1
<1>3. OnChain(c) \subseteq OnChain(c \o d)
  <2>1. \A i \in DOMAIN c : i \in DOMAIN (c \o d) /\ (c \o d)[i] = c[i]
    BY <1>1
  <2> QED BY <2>1 DEF OnChain
<1>4. OnChain(d) \subseteq OnChain(c \o d)
  <2>1. \A i \in DOMAIN d : Len(c) + i \in DOMAIN (c \o d) /\ (c \o d)[Len(c) + i] = d[i]
    BY <1>1
  <2> QED BY <2>1 DEF OnChain
<1>5. OnChain(c \o d) \subseteq OnChain(c) \cup OnChain(d)
  BY <1>2 DEF OnChain
<1> QED BY <1>1, <1>3, <1>4, <1>5

(* Blocks of a chain are blocks; its transactions are transactions.        *)
LEMMA OnChainType ==
  ASSUME NEW chain \in Seq(Block)
  PROVE  OnChain(chain) \subseteq Block /\ TxsOf(chain) \subseteq Tx
<1>1. OnChain(chain) \subseteq Block
  BY ElementOfSeq, LenProperties DEF OnChain
<1> QED BY <1>1, FieldsAssumption DEF TxsOf

LEMMA HolderOnChain ==
  ASSUME NEW chain \in Seq(Block), NEW t \in TxsOf(chain)
  PROVE  \E i \in DOMAIN chain : chain[i] \in Holders(t)
<1>1. PICK b \in OnChain(chain) : t \in Txs[b]
  BY DEF TxsOf
<1>2. b \in Holders(t)
  BY <1>1, OnChainType DEF Holders
<1> QED BY <1>1, <1>2 DEF OnChain

(* What updateIndex does to the transaction index is what rebuildIndex     *)
(* would compute for the longer chain.                                     *)
LEMMA TxIndexAppend ==
  ASSUME NEW chain \in Seq(Block), NEW b \in Block
  PROVE  TxIndexOf(Append(chain, b)) =
           [t \in DOMAIN TxIndexOf(chain) \cup Txs[b] |->
              IF t \in Txs[b] THEN b ELSE TxIndexOf(chain)[t]]
<1> DEFINE longer == Append(chain, b)
<1>1. /\ longer[Len(chain) + 1] = b
      /\ \A i \in 1..Len(chain) : longer[i] = chain[i]
      /\ DOMAIN chain = 1..Len(chain)
  BY AppendProperties, LenProperties
<1>2. TxsOf(longer) = TxsOf(chain) \cup Txs[b]
  BY OnChainAppend
<1>3. ASSUME NEW t \in TxsOf(chain) \cup Txs[b]
      PROVE  longer[LastIn(longer, Holders(t))] =
               IF t \in Txs[b] THEN b ELSE chain[LastIn(chain, Holders(t))]
  <2>1. CASE t \in Txs[b]
    <3>1. b \in Holders(t)
      BY <2>1 DEF Holders
    <3>2. LastIn(longer, Holders(t)) = Len(chain) + 1
      BY <3>1, LastInAppend
    <3> QED BY <3>2, <1>1, <2>1
  <2>2. CASE t \notin Txs[b]
    <3>1. b \notin Holders(t)
      BY <2>2 DEF Holders
    <3>2. PICK i \in DOMAIN chain : chain[i] \in Holders(t)
      BY <2>2, <1>3, HolderOnChain
    <3>3. LastIn(longer, Holders(t)) = LastIn(chain, Holders(t))
      BY <3>1, <3>2, LastInAppend
    <3>4. LastIn(chain, Holders(t)) \in DOMAIN chain
      BY <3>2, LastInProperties
    <3> QED BY <3>3, <3>4, <1>1, <2>2
  <2> QED BY <2>1, <2>2
<1>4. DOMAIN TxIndexOf(chain) = TxsOf(chain)
  BY DEF TxIndexOf
<1>5. \A t \in TxsOf(chain) : TxIndexOf(chain)[t] = chain[LastIn(chain, Holders(t))]
  BY DEF TxIndexOf
<1>6. TxIndexOf(longer) = [t \in TxsOf(longer) |-> longer[LastIn(longer, Holders(t))]]
  BY DEF TxIndexOf
<1> HIDE DEF longer
<1>7. TxIndexOf(longer) =
        [t \in TxsOf(chain) \cup Txs[b] |->
           IF t \in Txs[b] THEN b ELSE TxIndexOf(chain)[t]]
  BY <1>2, <1>3, <1>5, <1>6
<1> QED BY <1>4, <1>7 DEF longer

(* Likewise the block index, when the block names its own position.        *)
LEMMA BlockIndexAppend ==
  ASSUME NEW chain \in Seq(Block), NEW b \in Block, Index[b] = Len(chain)
  PROVE  BlockIndexOf(Append(chain, b)) =
           [c \in DOMAIN BlockIndexOf(chain) \cup {b} |->
              IF c = b THEN Index[b] ELSE BlockIndexOf(chain)[c]]
<1> DEFINE longer == Append(chain, b)
<1>1. OnChain(longer) = OnChain(chain) \cup {b} /\ Len(chain) \in Nat
  BY OnChainAppend, LenProperties
<1>2. ASSUME NEW c \in OnChain(chain) \cup {b}
      PROVE  LastIn(longer, {c}) - 1 =
               IF c = b THEN Index[b] ELSE LastIn(chain, {c}) - 1
  <2>1. CASE c = b
    <3>1. LastIn(longer, {c}) = Len(chain) + 1
      BY <2>1, LastInAppend
    <3> QED BY <3>1, <2>1, <1>1
  <2>2. CASE c # b
    <3>1. PICK i \in DOMAIN chain : chain[i] \in {c}
      BY <2>2, <1>2 DEF OnChain
    <3>2. b \notin {c}
      BY <2>2
    <3>3. LastIn(longer, {c}) = LastIn(chain, {c})
      BY <3>1, <3>2, LastInAppend
    <3> QED BY <3>3, <2>2
  <2> QED BY <2>1, <2>2
<1>3. DOMAIN BlockIndexOf(chain) = OnChain(chain)
  BY DEF BlockIndexOf
<1>4. \A c \in OnChain(chain) : BlockIndexOf(chain)[c] = LastIn(chain, {c}) - 1
  BY DEF BlockIndexOf
<1>5. BlockIndexOf(longer) = [c \in OnChain(longer) |-> LastIn(longer, {c}) - 1]
  BY DEF BlockIndexOf
<1> HIDE DEF longer
<1>6. BlockIndexOf(longer) =
        [c \in OnChain(chain) \cup {b} |->
           IF c = b THEN Index[b] ELSE BlockIndexOf(chain)[c]]
  BY <1>1, <1>2, <1>4, <1>5
<1> QED BY <1>3, <1>6 DEF longer

-----------------------------------------------------------------------------
(* The loop of ResolveForks.                                               *)

Start(chain) == [chain |-> chain, rest |-> <<>>]

LoopUpTo(f, chain, pool, n) ==
  f = [i \in 0..n |-> IF i = 0 THEN Start(chain) ELSE Connect(f[i - 1], pool[i])]

(* The recursive function of the loop exists, and so is what it says.      *)
LEMMA ScanUnfolds ==
  ASSUME NEW chain, NEW pool \in Seq(Block)
  PROVE  LoopUpTo(Scan(chain, pool), chain, pool, Len(pool))
<1> DEFINE T == {n \in Nat : \E f : LoopUpTo(f, chain, pool, n)}
<1>1. 0 \in T
  <2> DEFINE f == [i \in 0..0 |-> Start(chain)]
  <2>1. LoopUpTo(f, chain, pool, 0)
    BY DEF LoopUpTo
  <2> QED BY <2>1
<1>2. ASSUME NEW n \in T PROVE n + 1 \in T
  <2>1. PICK f : LoopUpTo(f, chain, pool, n)
    BY <1>2
  <2> DEFINE g == [i \in 0..(n + 1) |-> IF i = n + 1 THEN Connect(f[n], pool[n + 1])
                                                     ELSE f[i]]
  <2>2. ASSUME NEW i \in 0..(n + 1)
        PROVE  g[i] = IF i = 0 THEN Start(chain) ELSE Connect(g[i - 1], pool[i])
    <3>1. CASE i = n + 1
      BY <3>1
    <3>2. CASE i = 0
      BY <3>2, <2>1 DEF LoopUpTo
    <3>3. CASE i # 0 /\ i # n + 1
      <4>1. i \in 0..n /\ i - 1 \in 0..n
        BY <3>3
      <4>2. g[i] = f[i] /\ g[i - 1] = f[i - 1]
        BY <4>1
      <4>3. f[i] = Connect(f[i - 1], pool[i])
        BY <2>1, <3>3, <4>1 DEF LoopUpTo
      <4> QED BY <4>2, <4>3, <3>3
    <3> QED BY <3>1, <3>2, <3>3
  <2>3. LoopUpTo(g, chain, pool, n + 1)
    BY <2>2 DEF LoopUpTo
  <2> QED BY <2>3
<1>3. T = Nat
  <2>1. T \in SUBSET Nat
    OBVIOUS
  <2> HIDE DEF T
  <2> QED BY <1>1, <1>2, <2>1, NatSetInduction
<1>4. PICK f : LoopUpTo(f, chain, pool, Len(pool))
  BY <1>3, LenProperties
<1> QED BY <1>4 DEF LoopUpTo, Scan, Start

(* A pass of the loop, after n orphans: the chain grew or is as it was,    *)
(* and every block is on it or still among the rest.                       *)
PassOK(s, chain, pool, n) ==
  /\ s = [chain |-> s.chain, rest |-> s.rest]
  /\ s.chain \in Seq(Block) /\ s.rest \in Seq(Block)
  /\ s.chain = chain \/ Len(s.chain) > Len(chain)
  /\ OnChain(chain) \cup {pool[i] : i \in 1..n} = OnChain(s.chain) \cup OnChain(s.rest)
  /\ OnChain(s.rest) \subseteq OnChain(pool)

LEMMA ConnectPass ==
  ASSUME NEW chain \in Seq(Block), NEW pool \in Seq(Block), NEW n \in Nat,
         n + 1 \in 1..Len(pool), NEW s, PassOK(s, chain, pool, n)
  PROVE  PassOK(Connect(s, pool[n + 1]), chain, pool, n + 1)
<1> DEFINE b == pool[n + 1]
           c == s.chain
           r == s.rest
<1>1. s = [chain |-> c, rest |-> r] /\ c \in Seq(Block) /\ r \in Seq(Block)
      /\ (c = chain \/ Len(c) > Len(chain))
      /\ OnChain(chain) \cup {pool[i] : i \in 1..n} = OnChain(c) \cup OnChain(r)
      /\ OnChain(r) \subseteq OnChain(pool)
  BY DEF PassOK
<1>2. b \in Block /\ b \in OnChain(pool)
  BY ElementOfSeq, LenProperties DEF OnChain
<1>3. {pool[i] : i \in 1..(n + 1)} = {pool[i] : i \in 1..n} \cup {b}
  <2>1. 1..(n + 1) = 1..n \cup {n + 1}
    OBVIOUS
  <2> QED BY <2>1
<1> HIDE DEF b, c, r
<1>4. CASE Prev[b] = Tip(c)
  <2>1. Connect(s, b) = [chain |-> Append(c, b), rest |-> r]
    BY <1>1, <1>4 DEF Connect
  <2>2. Append(c, b) \in Seq(Block) /\ Len(Append(c, b)) = Len(c) + 1
        /\ OnChain(Append(c, b)) = OnChain(c) \cup {b}
        /\ Len(c) \in Nat /\ Len(chain) \in Nat
    BY <1>1, <1>2, AppendProperties, OnChainAppend, LenProperties
  <2> QED BY <2>1, <2>2, <1>1, <1>3 DEF PassOK, b
<1>5. CASE Prev[b] # Tip(c)
  <2>1. Connect(s, b) = [chain |-> c, rest |-> Append(r, b)]
    BY <1>1, <1>5 DEF Connect
  <2>2. Append(r, b) \in Seq(Block) /\ OnChain(Append(r, b)) = OnChain(r) \cup {b}
    BY <1>1, <1>2, AppendProperties, OnChainAppend
  <2> QED BY <2>1, <2>2, <1>1, <1>2, <1>3 DEF PassOK, b
<1> QED BY <1>4, <1>5

(* One iteration keeps a sound chain sound when the orphans are well       *)
(* formed.                                                                 *)
LEMMA SoundAppend ==
  ASSUME NEW chain \in Seq(Block), SoundChain(chain), NEW b \in Block,
         Prev[b] = Tip(chain), WellFormed(b)
  PROVE  SoundChain(Append(chain, b))
<1> DEFINE longer == Append(chain, b)
<1>1. /\ Len(longer) = Len(chain) + 1
      /\ longer \in Seq(Block)
      /\ longer[Len(chain) + 1] = b
      /\ \A i \in 1..Len(chain) : longer[i] = chain[i]
      /\ DOMAIN chain = 1..Len(chain) /\ DOMAIN longer = 1..(Len(chain) + 1)
      /\ Len(chain) \in Nat /\ Len(chain) > 0
  BY AppendProperties, LenProperties DEF SoundChain, Validate
<1>2. chain[Len(chain)] \in Block
  BY <1>1, ElementOfSeq
<1>3. /\ Prev[b] = chain[Len(chain)] /\ b \in PowOK /\ TxsOK(b)
      /\ Index[b] = Index[chain[Len(chain)]] + 1
  BY <1>2 DEF Tip, WellFormed
<1> HIDE DEF longer
<1>4. Validate(longer)
  <2>1. longer[1] = chain[1] /\ Prev[longer[1]] = NoBlock
    BY <1>1 DEF SoundChain, Validate
  <2>2. ASSUME NEW i \in 2..Len(longer)
        PROVE  Prev[longer[i]] = longer[i - 1] /\ longer[i] \in PowOK /\ TxsOK(longer[i])
    <3>1. CASE i = Len(chain) + 1
      BY <3>1, <1>1, <1>3
    <3>2. CASE i \in 2..Len(chain)
      <4>1. longer[i] = chain[i] /\ longer[i - 1] = chain[i - 1]
        BY <3>2, <1>1
      <4> QED BY <4>1, <3>2 DEF SoundChain, Validate
    <3> QED BY <3>1, <3>2, <1>1
  <2> QED BY <2>1, <2>2, <1>1 DEF Validate
<1>5. Aligned(longer)
  <2>1. ASSUME NEW i \in DOMAIN longer PROVE Index[longer[i]] = i - 1
    <3>1. CASE i = Len(chain) + 1
      <4>1. Index[chain[Len(chain)]] = Len(chain) - 1
        BY <1>1 DEF SoundChain, Aligned
      <4> QED BY <3>1, <4>1, <1>1, <1>3
    <3>2. CASE i \in 1..Len(chain)
      BY <3>2, <1>1 DEF SoundChain, Aligned
    <3> QED BY <3>1, <3>2, <1>1
  <2> QED BY <2>1 DEF Aligned
<1> QED BY <1>4, <1>5 DEF SoundChain, longer

(* ResolveForks as a whole.                                                *)
LEMMA ScanResult ==
  ASSUME NEW chain \in Seq(Block), NEW pool \in Seq(Block)
  PROVE  /\ PassOK(Scan(chain, pool)[Len(pool)], chain, pool, Len(pool))
         /\ SoundChain(chain) /\ (\A b \in OnChain(pool) : WellFormed(b))
              => SoundChain(Scan(chain, pool)[Len(pool)].chain)
<1> DEFINE scan == Scan(chain, pool)
           Honest == SoundChain(chain) /\ \A b \in OnChain(pool) : WellFormed(b)
           Good(n) == /\ PassOK(scan[n], chain, pool, n)
                      /\ Honest => SoundChain(scan[n].chain)
           T == {n \in Nat : n <= Len(pool) => Good(n)}
<1>1. Len(pool) \in Nat /\ DOMAIN pool = 1..Len(pool)
  BY LenProperties
<1>2. scan = [i \in 0..Len(pool) |-> IF i = 0 THEN Start(chain)
                                              ELSE Connect(scan[i - 1], pool[i])]
  BY ScanUnfolds DEF LoopUpTo
<1> HIDE DEF scan
<1>3. 0 \in T
  <2>1. scan[0] = Start(chain)
    BY <1>1, <1>2
  <2>2. scan[0].chain = chain /\ scan[0].rest = <<>>
    BY <2>1 DEF Start
  <2>3. OnChain(<<>>) = {} /\ <<>> \in Seq(Block) /\ {pool[i] : i \in 1..0} = {}
    BY EmptySeq DEF OnChain
  <2>4. PassOK(scan[0], chain, pool, 0)
    BY <2>1, <2>2, <2>3 DEF PassOK, Start
  <2> QED BY <2>2, <2>4
<1>4. ASSUME NEW n \in T PROVE n + 1 \in T
  <2>1. SUFFICES ASSUME n + 1 <= Len(pool) PROVE Good(n + 1)
    OBVIOUS
  <2>2. Good(n)
    BY <2>1, <1>1, <1>4
  <2>3. scan[n + 1] = Connect(scan[n], pool[n + 1])
    BY <2>1, <1>1, <1>2
  <2>4. n + 1 \in 1..Len(pool)
    BY <2>1, <1>1
  <2>5. PassOK(scan[n + 1], chain, pool, n + 1)
    BY <2>2, <2>3, <2>4, ConnectPass
  <2>6. ASSUME Honest PROVE SoundChain(scan[n + 1].chain)
    <3>1. pool[n + 1] \in Block /\ WellFormed(pool[n + 1])
      BY <2>4, <2>6, <1>1, ElementOfSeq DEF OnChain
    <3>2. scan[n].chain \in Seq(Block) /\ SoundChain(scan[n].chain)
          /\ scan[n] = [chain |-> scan[n].chain, rest |-> scan[n].rest]
      BY <2>2, <2>6 DEF PassOK
    <3>3. CASE Prev[pool[n + 1]] = Tip(scan[n].chain)
      <4>1. scan[n + 1].chain = Append(scan[n].chain, pool[n + 1])
        BY <2>3, <3>2, <3>3 DEF Connect
      <4> QED BY <4>1, <3>1, <3>2, <3>3, SoundAppend
    <3>4. CASE Prev[pool[n + 1]] # Tip(scan[n].chain)
      <4>1. scan[n + 1].chain = scan[n].chain
        BY <2>3, <3>2, <3>4 DEF Connect
      <4> QED BY <4>1, <3>2
    <3> QED BY <3>3, <3>4
  <2> QED BY <2>5, <2>6
<1>5. T = Nat
  <2>1. T \in SUBSET Nat
    OBVIOUS
  <2> HIDE DEF T
  <2> QED BY <1>3, <1>4, <2>1, NatSetInduction
<1> QED BY <1>1, <1>5 DEF scan

(* The blocks of a sound chain are well formed, its genesis block having   *)
(* no parent.                                                              *)
LEMMA SoundBlocksWellFormed ==
  ASSUME NEW chain \in Seq(Block), SoundChain(chain)
  PROVE  \A b \in OnChain(chain) : WellFormed(b)
<1> SUFFICES ASSUME NEW i \in DOMAIN chain, Prev[chain[i]] \in Block
             PROVE  /\ chain[i] \in PowOK /\ TxsOK(chain[i])
                    /\ Index[chain[i]] = Index[Prev[chain[i]]] + 1
  BY DEF OnChain, WellFormed
<1>1. DOMAIN chain = 1..Len(chain) /\ Len(chain) \in Nat
  BY LenProperties
<1>2. i # 1
  BY FieldsAssumption DEF SoundChain, Validate
<1>3. i \in 2..Len(chain) /\ i - 1 \in DOMAIN chain
  BY <1>1, <1>2
<1>4. Prev[chain[i]] = chain[i - 1] /\ chain[i] \in PowOK /\ TxsOK(chain[i])
  BY <1>3 DEF SoundChain, Validate
<1>5. Index[chain[i]] = i - 1 /\ Index[chain[i - 1]] = i - 2
  BY <1>3 DEF SoundChain, Aligned
<1> QED BY <1>4, <1>5, <1>3

LEMMA RebuiltIndexType ==
  ASSUME NEW chain \in Seq(Block)
  PROVE  /\ DOMAIN BlockIndexOf(chain) \subseteq Block
         /\ \A b \in DOMAIN BlockIndexOf(chain) : BlockIndexOf(chain)[b] \in Int
         /\ DOMAIN TxIndexOf(chain) \subseteq Tx
         /\ \A t \in DOMAIN TxIndexOf(chain) :
              TxIndexOf(chain)[t] \in OnChain(chain) /\ t \in Txs[TxIndexOf(chain)[t]]
<1>1. DOMAIN chain = 1..Len(chain) /\ Len(chain) \in Nat
  BY LenProperties
<1>2. DOMAIN BlockIndexOf(chain) \subseteq Block /\ DOMAIN TxIndexOf(chain) \subseteq Tx
  BY OnChainType DEF BlockIndexOf, TxIndexOf
<1>3. ASSUME NEW b \in OnChain(chain) PROVE BlockIndexOf(chain)[b] \in Int
  <2>1. PICK i \in DOMAIN chain : chain[i] \in {b}
    BY <1>3 DEF OnChain
  <2>2. LastIn(chain, {b}) \in DOMAIN chain
    BY <2>1, LastInProperties
  <2> QED BY <2>2, <1>1 DEF BlockIndexOf
<1>4. ASSUME NEW t \in TxsOf(chain)
      PROVE  TxIndexOf(chain)[t] \in OnChain(chain) /\ t \in Txs[TxIndexOf(chain)[t]]
  <2>1. PICK i \in DOMAIN chain : chain[i] \in Holders(t)
    BY HolderOnChain
  <2>2. LastIn(chain, Holders(t)) \in DOMAIN chain /\ chain[LastIn(chain, Holders(t))] \in Holders(t)
    BY <2>1, LastInProperties
  <2> QED BY <2>2 DEF TxIndexOf, OnChain, Holders
<1> QED BY <1>2, <1>3, <1>4 DEF BlockIndexOf, TxIndexOf
-----------------------------------------------------------------------------
(* Whatever callers offer.                                                 *)

(* One step, with everything later theorems need of it.                    *)
LEMMA AnyCallersStep ==
  ASSUME AnyCallersInv, [Next]_vars
  PROVE  /\ AnyCallersInv'
         /\ OnChain(Blocks) \cup OnChain(orphaned)
              \subseteq OnChain(Blocks') \cup OnChain(orphaned')
         /\ Blocks' # Blocks => Len(Blocks') > Len(Blocks)
<1> DEFINE Kept == OnChain(Blocks) \cup OnChain(orphaned)
                     \subseteq OnChain(Blocks') \cup OnChain(orphaned')
           Longer == Blocks' # Blocks => Len(Blocks') > Len(Blocks)
<1> USE DEF AnyCallersInv
<1>1. /\ Blocks \in Seq(Block) /\ orphaned \in Seq(Block)
      /\ Len(Blocks) \in Nat /\ Len(Blocks) > 0 /\ DOMAIN Blocks = 1..Len(Blocks)
  <2>1. Blocks \in Seq(Block) /\ Blocks # <<>> /\ orphaned \in Seq(Block)
    BY DEF TypeOK
  <2> QED BY <2>1, LenProperties, EmptySeq
<1>2. CASE SetFilename
  BY <1>2 DEF SetFilename, TypeOK, SavedBlocksKept
<1>3. ASSUME NEW b \in Minable, AddBlock(b)
      PROVE  AnyCallersInv' /\ Kept /\ Longer
  <2>1. b \in Block /\ Blocks' = Append(Blocks, b)
    BY <1>3, FieldsAssumption DEF AddBlock
  <2>2. /\ Blocks' \in Seq(Block) /\ Len(Blocks') = Len(Blocks) + 1 /\ Blocks' # <<>>
        /\ OnChain(Blocks') = OnChain(Blocks) \cup {b}
    BY <2>1, AppendProperties, OnChainAppend, <1>1, EmptySeq
  <2>3. txIndex' = TxIndexOf(Blocks)'
    <3>1. TxIndexOf(Append(Blocks, b)) =
            [t \in DOMAIN TxIndexOf(Blocks) \cup Txs[b] |->
               IF t \in Txs[b] THEN b ELSE TxIndexOf(Blocks)[t]]
      BY <2>1, <1>1, TxIndexAppend
    <3>2. txIndex' = [t \in DOMAIN txIndex \cup Txs[b] |-> IF t \in Txs[b] THEN b ELSE txIndex[t]]
      BY <1>3 DEF AddBlock, updateIndex
    <3> QED BY <3>1, <3>2, <2>1
  <2>4. file' \in {Blocks', file, Torn} /\ orphaned' = orphaned
    BY <1>3 DEF AddBlock, saveToFile
  <2>5. TypeOK'
    <3>1. DOMAIN blockIndex' = DOMAIN blockIndex \cup {b}
          /\ \A c \in DOMAIN blockIndex' : blockIndex'[c] \in Int
      BY <1>3, <2>1, FieldsAssumption DEF AddBlock, updateIndex, TypeOK
    <3>2. DOMAIN txIndex' \subseteq Tx /\ \A t \in DOMAIN txIndex' : txIndex'[t] \in Block
      BY <1>3, <2>1, FieldsAssumption DEF AddBlock, updateIndex, TypeOK
    <3> QED BY <3>1, <3>2, <2>1, <2>2, <2>4, <1>3 DEF AddBlock, TypeOK
  <2>6. SavedBlocksKept'
    BY <2>2, <2>4, FieldsAssumption DEF SavedBlocksKept
  <2>7. Kept
    BY <2>2, <2>4
  <2> QED BY <2>2, <2>3, <2>5, <2>6, <2>7, <1>1
<1>4. ASSUME NEW b \in Orphans, AddOrphanedBlock(b)
      PROVE  AnyCallersInv' /\ Kept /\ Longer
  <2>1. b \in Block /\ orphaned' = Append(orphaned, b)
    BY <1>4, FieldsAssumption DEF AddOrphanedBlock
  <2>2. orphaned' \in Seq(Block) /\ OnChain(orphaned') = OnChain(orphaned) \cup {b}
    BY <2>1, AppendProperties, OnChainAppend DEF TypeOK
  <2> QED BY <2>2, <1>4
        DEF AddOrphanedBlock, TypeOK, SavedBlocksKept
<1>5. ASSUME NEW chain \in Alternatives, AddAlternativeChain(chain)
      PROVE  AnyCallersInv' /\ Kept /\ Longer
  <2>1. altChains' \in Seq(Seq(Block))
    BY <1>5, AppendProperties, FieldsAssumption DEF AddAlternativeChain, TypeOK
  <2> QED BY <2>1, <1>5
        DEF AddAlternativeChain, TypeOK, SavedBlocksKept
<1>6. CASE AttemptReorg
  <2>1. PICK i \in Candidates : /\ orphaned' = orphaned \o Blocks
                                /\ Blocks' = altChains[i]
                                /\ altChains' = <<>>
                                /\ rebuildIndex(altChains[i])
                                /\ UNCHANGED <<filename, file>>
    BY <1>6 DEF AttemptReorg
  <2>2. i \in DOMAIN altChains /\ Len(altChains[i]) > Len(Blocks)
    BY DEF Candidates
  <2>3. Blocks' \in Seq(Block)
    BY <2>1, <2>2, ElementOfSeq, LenProperties DEF TypeOK
  <2>4. Blocks' # <<>>
    BY <2>1, <2>2, <1>1, EmptySeq
  <2>5. orphaned' \in Seq(Block) /\ OnChain(orphaned') = OnChain(orphaned) \cup OnChain(Blocks)
    <3> QED BY <1>1, <2>1, ConcatOnChain
  <2>6. blockIndex' = BlockIndexOf(altChains[i]) /\ txIndex' = TxIndexOf(altChains[i])
    BY <2>1 DEF rebuildIndex
  <2>7. /\ DOMAIN blockIndex' \subseteq Block
        /\ \A b \in DOMAIN blockIndex' : blockIndex'[b] \in Int
        /\ DOMAIN txIndex' \subseteq Tx
        /\ \A t \in DOMAIN txIndex' : txIndex'[t] \in Block
    BY <2>1, <2>3, <2>6, RebuiltIndexType, OnChainType
  <2>8. TypeOK'
    BY <2>1, <2>3, <2>4, <2>5, <2>7, EmptySeq DEF TypeOK
  <2>9. txIndex' = TxIndexOf(Blocks)'
    BY <2>1, <2>6
  <2>10. Kept /\ SavedBlocksKept'
    BY <2>1, <2>5 DEF SavedBlocksKept
  <2> QED BY <2>1, <2>2, <2>8, <2>9, <2>10
<1>7. CASE ResolveForks
  <2> DEFINE s == Scan(Blocks, orphaned)[Len(orphaned)]
  <2>1. PassOK(s, Blocks, orphaned, Len(orphaned))
    BY ScanResult DEF TypeOK
  <2>2. Blocks' = s.chain /\ orphaned' = s.rest /\ UNCHANGED <<altChains, filename, file>>
        /\ IF Len(s.chain) > Len(Blocks) THEN rebuildIndex(s.chain)
                                         ELSE UNCHANGED <<blockIndex, txIndex>>
    BY <1>7 DEF ResolveForks
  <2> HIDE DEF s
  <2>3. /\ Blocks' \in Seq(Block) /\ orphaned' \in Seq(Block)
        /\ Blocks' = Blocks \/ Len(Blocks') > Len(Blocks)
    BY <2>1, <2>2 DEF PassOK
  <2>4. Kept
    <3>1. OnChain(orphaned) = {orphaned[i] : i \in 1..Len(orphaned)}
      BY LenProperties DEF OnChain, TypeOK
    <3> QED BY <2>1, <2>2, <3>1 DEF PassOK
  <2>5. Blocks' # <<>>
    BY <2>3, <1>1, EmptySeq
  <2>6. SavedBlocksKept'
    BY <2>2, <2>4 DEF SavedBlocksKept
  <2>7. CASE Len(s.chain) > Len(Blocks)
    <3>1. blockIndex' = BlockIndexOf(Blocks') /\ txIndex' = TxIndexOf(Blocks')
      BY <2>2, <2>7 DEF rebuildIndex
    <3>2. /\ DOMAIN blockIndex' \subseteq Block
          /\ \A b \in DOMAIN blockIndex' : blockIndex'[b] \in Int
          /\ DOMAIN txIndex' \subseteq Tx
          /\ \A t \in DOMAIN txIndex' : txIndex'[t] \in Block
      BY <3>1, <2>3, RebuiltIndexType, OnChainType
    <3>3. txIndex' = TxIndexOf(Blocks)'
      BY <3>1
    <3>4. TypeOK'
      BY <3>2, <2>2, <2>3, <2>5 DEF TypeOK
    <3> QED BY <3>3, <3>4, <2>3, <2>4, <2>6
  <2>8. CASE ~(Len(s.chain) > Len(Blocks))
    <3>1. Blocks' = Blocks /\ blockIndex' = blockIndex /\ txIndex' = txIndex
      BY <2>2, <2>3, <2>8
    <3> QED BY <3>1, <2>2, <2>3, <2>4, <2>6 DEF TypeOK
  <2> QED BY <2>7, <2>8
<1>8. CASE RebuildIndex
  <2>1. blockIndex' = BlockIndexOf(Blocks) /\ txIndex' = TxIndexOf(Blocks)
        /\ UNCHANGED <<Blocks, orphaned, altChains, filename, file>>
    BY <1>8 DEF RebuildIndex, rebuildIndex
  <2>2. /\ DOMAIN blockIndex' \subseteq Block
        /\ \A b \in DOMAIN blockIndex' : blockIndex'[b] \in Int
        /\ DOMAIN txIndex' \subseteq Tx
        /\ \A t \in DOMAIN txIndex' : txIndex'[t] \in Block
    BY <2>1, RebuiltIndexType, OnChainType DEF TypeOK
  <2> QED BY <2>1, <2>2 DEF TypeOK, SavedBlocksKept
<1>9. CASE UNCHANGED vars
  BY <1>9 DEF vars, TypeOK, SavedBlocksKept
<1> QED BY <1>2, <1>3, <1>4, <1>5, <1>6, <1>7, <1>8, <1>9 DEF Next

LEMMA GenesisChain ==
  /\ <<Genesis>> \in Seq(Block) /\ <<Genesis>> # <<>> /\ Len(<<Genesis>>) = 1
  /\ <<Genesis>>[1] = Genesis /\ DOMAIN <<Genesis>> = {1}
<1>1. Genesis \in Block
  BY FieldsAssumption
<1>2. Len(<<Genesis>>) = 1 /\ <<Genesis>>[1] = Genesis /\ <<Genesis>> \in Seq(Block)
  BY <1>1
<1>3. DOMAIN <<Genesis>> = 1..1
  BY <1>2, LenProperties
<1> QED BY <1>2, <1>3, EmptySeq

LEMMA AnyCallersInit == Init => AnyCallersInv
<1> SUFFICES ASSUME Init PROVE AnyCallersInv
  OBVIOUS
<1>1. Blocks = <<Genesis>> /\ Blocks \in Seq(Block) /\ Blocks # <<>>
  BY GenesisChain DEF Init
<1>2. blockIndex = BlockIndexOf(Blocks) /\ txIndex = TxIndexOf(Blocks)
  BY <1>1 DEF Init
<1>3. /\ DOMAIN blockIndex \subseteq Block
      /\ \A b \in DOMAIN blockIndex : blockIndex[b] \in Int
      /\ DOMAIN txIndex \subseteq Tx
      /\ \A t \in DOMAIN txIndex : txIndex[t] \in Block
  BY <1>1, <1>2, RebuiltIndexType, OnChainType
<1>4. TypeOK
  BY <1>1, <1>3, EmptySeq DEF Init, TypeOK
<1>5. SavedBlocksKept
  BY FieldsAssumption DEF Init, SavedBlocksKept
<1> QED BY <1>2, <1>4, <1>5 DEF AnyCallersInv

(* Whatever callers offer, the transaction index is the one a rebuild      *)
(* would give and blocks once saved are kept: the inductive invariant.     *)
THEOREM AnyCallersCorrect == Spec => []AnyCallersInv
<1>1. AnyCallersInv /\ [Next]_vars => AnyCallersInv'
  BY AnyCallersStep
<1> QED BY <1>1, AnyCallersInit, PTL DEF Spec

(* Type correctness, whatever the callers offer.                           *)
THEOREM TypeCorrect == Spec => []TypeOK
<1>1. AnyCallersInv => TypeOK
  BY DEF AnyCallersInv
<1> QED BY <1>1, AnyCallersCorrect, PTL

(* A saved block is never forgotten, whatever the callers offer.           *)
THEOREM SavedBlocksKeptCorrect == Spec => []SavedBlocksKept
<1>1. AnyCallersInv => SavedBlocksKept
  BY DEF AnyCallersInv
<1> QED BY <1>1, AnyCallersCorrect, PTL

(* FindTransaction answers exactly from the current chain, whatever the    *)
(* callers offer: the transaction index never lags behind a fork.          *)
THEOREM FindTransactionCorrect == Spec => []FindTransactionExact
<1>1. AnyCallersInv => FindTransactionExact
  <2> SUFFICES ASSUME AnyCallersInv, NEW t \in Tx
               PROVE  IF t \in TxsOf(Blocks)
                      THEN /\ FindTransaction(t) \in OnChain(Blocks)
                           /\ t \in Txs[FindTransaction(t)]
                      ELSE FindTransaction(t) = NoBlock
    BY DEF FindTransactionExact
  <2>1. Blocks \in Seq(Block) /\ txIndex = TxIndexOf(Blocks)
    BY DEF AnyCallersInv, TypeOK
  <2>2. DOMAIN txIndex = TxsOf(Blocks)
    BY <2>1 DEF TxIndexOf
  <2>3. CASE t \in TxsOf(Blocks)
    BY <2>1, <2>2, <2>3, RebuiltIndexType DEF FindTransaction
  <2>4. CASE t \notin TxsOf(Blocks)
    BY <2>2, <2>4 DEF FindTransaction
  <2> QED BY <2>3, <2>4
<1> QED BY <1>1, AnyCallersCorrect, PTL

(* No operation drops a block, whatever the callers offer.                 *)
THEOREM NoBlockForgottenCorrect == Spec => NoBlockForgotten
<1>1. AnyCallersInv /\ [Next]_vars =>
        [OnChain(Blocks) \cup OnChain(orphaned)
           \subseteq OnChain(Blocks') \cup OnChain(orphaned')]_vars
  BY AnyCallersStep
<1> QED BY <1>1, AnyCallersCorrect, PTL DEF Spec, NoBlockForgotten

(* The chain is only replaced by a longer one, whatever the callers offer. *)
THEOREM OnlyLongerCorrect == Spec => OnlyLonger
<1>1. AnyCallersInv /\ [Next]_vars =>
        [Blocks' # Blocks => Len(Blocks') > Len(Blocks)]_vars
  BY AnyCallersStep
<1> QED BY <1>1, AnyCallersCorrect, PTL DEF Spec, OnlyLonger
-----------------------------------------------------------------------------
(* With honest callers.                                                    *)

LEMMA HonestInit == ASSUME Init PROVE HonestInv
<1>1. Blocks = <<Genesis>> /\ Len(Blocks) = 1 /\ Blocks[1] = Genesis /\ DOMAIN Blocks = {1}
  BY GenesisChain DEF Init
<1>2. ChainSound
  BY <1>1, FieldsAssumption DEF ChainSound, SoundChain, Validate, Aligned
<1>3. blockIndex = BlockIndexOf(Blocks)
  BY <1>1 DEF Init
<1>4. OnChain(orphaned) = {} /\ DOMAIN altChains = {}
  <2>1. orphaned = <<>> /\ altChains = <<>>
    BY DEF Init
  <2>2. DOMAIN orphaned = {} /\ DOMAIN altChains = {}
    BY <2>1
  <2> QED BY <2>2 DEF OnChain
<1> QED BY <1>2, <1>3, <1>4 DEF HonestInv

LEMMA HonestStep ==
  ASSUME HonestCallers, AnyCallersInv, HonestInv, [Next]_vars
  PROVE  HonestInv'
<1>1. /\ Blocks \in Seq(Block) /\ orphaned \in Seq(Block) /\ altChains \in Seq(Seq(Block))
      /\ SoundChain(Blocks) /\ Len(Blocks) \in Nat /\ DOMAIN Blocks = 1..Len(Blocks)
      /\ Len(Blocks) > 0
  BY LenProperties DEF AnyCallersInv, TypeOK, HonestInv, ChainSound, SoundChain, Validate
<1>2. CASE UNCHANGED <<Blocks, orphaned, altChains, blockIndex>>
  BY <1>2 DEF HonestInv, ChainSound
<1>3. ASSUME NEW b \in Minable, AddBlock(b) PROVE HonestInv'
  <2>1. /\ b \in Block /\ Blocks' = Append(Blocks, b) /\ Prev[b] = Tip(Blocks)
        /\ b \in PowOK /\ Index[b] = Index[Tip(Blocks)] + 1 /\ TxsOK(b)
        /\ UNCHANGED <<orphaned, altChains>>
    BY <1>3, FieldsAssumption DEF AddBlock, NewBlock, HonestCallers
  <2>2. WellFormed(b)
    BY <2>1 DEF WellFormed
  <2>3. SoundChain(Blocks')
    BY <1>1, <2>1, <2>2, SoundAppend
  <2>4. Index[b] = Len(Blocks)
    BY <1>1, <2>1 DEF Tip, SoundChain, Aligned
  <2>5. blockIndex' = BlockIndexOf(Blocks')
    <3>1. blockIndex' = [c \in DOMAIN blockIndex \cup {b} |->
                           IF c = b THEN Index[b] ELSE blockIndex[c]]
      BY <1>3 DEF AddBlock, updateIndex
    <3>2. blockIndex = BlockIndexOf(Blocks)
      BY DEF HonestInv
    <3>3. BlockIndexOf(Append(Blocks, b)) =
            [c \in DOMAIN BlockIndexOf(Blocks) \cup {b} |->
               IF c = b THEN Index[b] ELSE BlockIndexOf(Blocks)[c]]
      BY <1>1, <2>1, <2>4, BlockIndexAppend
    <3> QED BY <3>1, <3>2, <3>3, <2>1
  <2> QED BY <2>1, <2>3, <2>5 DEF HonestInv, ChainSound
<1>4. ASSUME NEW b \in Orphans, AddOrphanedBlock(b) PROVE HonestInv'
  <2>1. /\ b \in Block /\ WellFormed(b) /\ orphaned' = Append(orphaned, b)
        /\ UNCHANGED <<Blocks, altChains, blockIndex>>
    BY <1>4, FieldsAssumption DEF AddOrphanedBlock, HonestCallers
  <2>2. OnChain(orphaned') = OnChain(orphaned) \cup {b}
    BY <2>1, <1>1, OnChainAppend
  <2> QED BY <2>1, <2>2 DEF HonestInv, ChainSound
<1>5. ASSUME NEW chain \in Alternatives, AddAlternativeChain(chain) PROVE HonestInv'
  <2>1. /\ chain \in Seq(Block) /\ SoundChain(chain) /\ altChains' = Append(altChains, chain)
        /\ UNCHANGED <<Blocks, orphaned, blockIndex>>
    BY <1>5, FieldsAssumption DEF AddAlternativeChain, HonestCallers
  <2>2. \A i \in DOMAIN altChains' : SoundChain(altChains'[i])
    <3>1. /\ DOMAIN altChains = 1..Len(altChains) /\ Len(altChains) \in Nat
          /\ DOMAIN altChains' = 1..(Len(altChains) + 1)
          /\ altChains'[Len(altChains) + 1] = chain
          /\ \A i \in 1..Len(altChains) : altChains'[i] = altChains[i]
      BY <1>1, <2>1, AppendProperties, LenProperties
    <3> QED BY <3>1, <2>1 DEF HonestInv
  <2> QED BY <2>1, <2>2 DEF HonestInv, ChainSound
<1>6. CASE AttemptReorg
  <2>1. PICK i \in Candidates : /\ orphaned' = orphaned \o Blocks
                                /\ Blocks' = altChains[i]
                                /\ altChains' = <<>>
                                /\ blockIndex' = BlockIndexOf(altChains[i])
    BY <1>6 DEF AttemptReorg, rebuildIndex
  <2>2. SoundChain(Blocks')
    BY <2>1 DEF Candidates, HonestInv
  <2>3. OnChain(orphaned') = OnChain(orphaned) \cup OnChain(Blocks)
    BY <2>1, <1>1, ConcatOnChain
  <2>4. \A b \in OnChain(orphaned') : WellFormed(b)
    BY <2>3, <1>1, SoundBlocksWellFormed DEF HonestInv
  <2>5. DOMAIN altChains' = {}
    BY <2>1
  <2> QED BY <2>1, <2>2, <2>4, <2>5 DEF HonestInv, ChainSound
<1>7. CASE ResolveForks
  <2> DEFINE s == Scan(Blocks, orphaned)[Len(orphaned)]
  <2>1. /\ PassOK(s, Blocks, orphaned, Len(orphaned))
        /\ SoundChain(s.chain)
    BY <1>1, ScanResult DEF HonestInv
  <2>2. Blocks' = s.chain /\ orphaned' = s.rest /\ altChains' = altChains
        /\ IF Len(s.chain) > Len(Blocks) THEN blockIndex' = BlockIndexOf(s.chain)
                                         ELSE blockIndex' = blockIndex
    BY <1>7 DEF ResolveForks, rebuildIndex
  <2> HIDE DEF s
  <2>3. blockIndex' = BlockIndexOf(Blocks')
    BY <2>1, <2>2 DEF PassOK, HonestInv
  <2>4. \A b \in OnChain(orphaned') : WellFormed(b)
    BY <2>1, <2>2 DEF PassOK, HonestInv
  <2> QED BY <2>1, <2>2, <2>3, <2>4 DEF HonestInv, ChainSound
<1>8. CASE RebuildIndex
  BY <1>8 DEF RebuildIndex, rebuildIndex, HonestInv, ChainSound
<1>9. CASE SetFilename
  BY <1>9, <1>2 DEF SetFilename
<1>10. CASE UNCHANGED vars
  BY <1>10, <1>2 DEF vars
<1> QED BY <1>3, <1>4, <1>5, <1>6, <1>7, <1>8, <1>9, <1>10 DEF Next

(* With honest callers the chain, its block index and everything held for  *)
(* later are sound: the inductive invariant.                               *)
THEOREM HonestCorrect == ASSUME HonestCallers PROVE Spec => []HonestInv
<1>1. AnyCallersInv /\ HonestInv /\ [Next]_vars => HonestInv'
  BY HonestCallers, HonestStep
<1> QED BY <1>1, HonestInit, AnyCallersCorrect, PTL DEF Spec

(* With honest callers the chain always passes Validate, each block at the *)
(* height it names.                                                        *)
THEOREM ChainSoundCorrect == ASSUME HonestCallers PROVE Spec => []ChainSound
<1>1. HonestInv => ChainSound
  BY DEF HonestInv
<1> QED BY <1>1, HonestCallers, HonestCorrect, PTL

(* With honest callers GetBlock finds exactly the blocks of the chain.     *)
THEOREM GetBlockCorrect == ASSUME HonestCallers PROVE Spec => []GetBlockExact
<1>1. AnyCallersInv /\ HonestInv => GetBlockExact
  <2> SUFFICES ASSUME AnyCallersInv, HonestInv, NEW b \in Block
               PROVE  GetBlock(b) = IF b \in OnChain(Blocks) THEN b ELSE NoBlock
    BY DEF GetBlockExact
  <2>1. Blocks \in Seq(Block) /\ DOMAIN Blocks = 1..Len(Blocks) /\ Len(Blocks) \in Nat
    BY LenProperties DEF AnyCallersInv, TypeOK
  <2>2. DOMAIN blockIndex = OnChain(Blocks)
    BY DEF HonestInv, BlockIndexOf
  <2>3. CASE b \in OnChain(Blocks)
    <3>1. PICK i \in DOMAIN Blocks : Blocks[i] \in {b}
      BY <2>3 DEF OnChain
    <3>2. LastIn(Blocks, {b}) \in DOMAIN Blocks /\ Blocks[LastIn(Blocks, {b})] = b
      BY <3>1, <2>1, LastInProperties
    <3>3. blockIndex[b] = LastIn(Blocks, {b}) - 1
      BY <2>3 DEF HonestInv, BlockIndexOf
    <3>4. blockIndex[b] \in 0..(Len(Blocks) - 1) /\ Blocks[blockIndex[b] + 1] = b
      BY <3>2, <3>3, <2>1
    <3> QED BY <3>4, <2>2, <2>3 DEF GetBlock
  <2>4. CASE b \notin OnChain(Blocks)
    BY <2>2, <2>4 DEF GetBlock
  <2> QED BY <2>3, <2>4
<1> QED BY <1>1, HonestCallers, HonestCorrect, AnyCallersCorrect, PTL

(* With honest callers the node implements LongestChain.                   *)
THEOREM LongestChainCorrect == ASSUME HonestCallers PROVE Spec => LongestChainSpec
<1>1. Init => LC!Init
  BY DEF Init, LC!Init
<1>2. AnyCallersInv /\ HonestInv /\ HonestInv' /\ [Next]_vars => [LC!Advance]_Blocks
  <2> SUFFICES ASSUME AnyCallersInv, HonestInv', [Next]_vars, Blocks' # Blocks
               PROVE  Len(Blocks') > Len(Blocks) /\ SoundChain(Blocks')
    BY DEF LC!Advance
  <2> QED BY AnyCallersStep DEF HonestInv, ChainSound
<1> QED BY <1>1, <1>2, HonestCallers, HonestCorrect, AnyCallersCorrect, PTL
        DEF Spec, LongestChainSpec, LC!Spec

-----------------------------------------------------------------------------
(* When orphans are left that fit the tip.                                 *)

(* After n orphans: what is left of them did not fit then, and while all   *)
(* are left nothing has changed.                                           *)
Fits(s, chain, pool, n) ==
  /\ Len(s.rest) <= n
  /\ Len(s.rest) = n => s.chain = chain /\ \A i \in 1..n : Prev[pool[i]] # Tip(chain)
  /\ \A x \in DOMAIN s.rest : \E j \in 1..n : s.rest[x] = pool[j]
  /\ ParentsFirst(pool) => Settled(s)
  /\ (\A i \in DOMAIN pool : Prev[pool[i]] # Tip(chain)) => s.chain = chain

(* One iteration: a block that is connected has no child among the orphans *)
(* passed over so far when parents are listed first.                       *)
LEMMA ConnectFits ==
  ASSUME NEW chain \in Seq(Block), NEW pool \in Seq(Block), NEW n \in Nat,
         n + 1 \in 1..Len(pool), NEW s, PassOK(s, chain, pool, n), Fits(s, chain, pool, n)
  PROVE  Fits(Connect(s, pool[n + 1]), chain, pool, n + 1)
<1> DEFINE b == pool[n + 1]
           c == s.chain
           r == s.rest
<1>1. /\ s = [chain |-> c, rest |-> r] /\ c \in Seq(Block) /\ r \in Seq(Block)
      /\ Len(r) <= n
      /\ Len(r) = n => c = chain /\ \A i \in 1..n : Prev[pool[i]] # Tip(chain)
      /\ \A x \in DOMAIN r : \E j \in 1..n : r[x] = pool[j]
      /\ ParentsFirst(pool) => \A x \in DOMAIN r : Prev[r[x]] # Tip(c)
      /\ (\A i \in DOMAIN pool : Prev[pool[i]] # Tip(chain)) => c = chain
  BY DEF PassOK, Fits, Settled
<1>2. DOMAIN pool = 1..Len(pool) /\ Len(pool) \in Nat /\ n + 1 \in DOMAIN pool /\ b \in Block
  BY LenProperties, ElementOfSeq
<1>3. DOMAIN r = 1..Len(r) /\ Len(r) \in Nat
  BY <1>1, LenProperties
<1>4. CASE Prev[b] = Tip(c)
  <2> DEFINE t == [chain |-> Append(c, b), rest |-> r]
  <2>1. Connect(s, b) = t
    BY <1>1, <1>4 DEF Connect
  <2>2. Tip(Append(c, b)) = b
    BY <1>1, <1>2, AppendProperties, LenProperties DEF Tip
  <2>3. ASSUME ParentsFirst(pool), NEW x \in DOMAIN r PROVE Prev[r[x]] # b
    <3>1. PICK j \in 1..n : r[x] = pool[j]
      BY <1>1
    <3>2. j \in DOMAIN pool /\ ~(n + 1 < j)
      BY <1>2, <3>1
    <3> QED BY <1>2, <2>3, <3>1, <3>2 DEF ParentsFirst
  <2>4. ~(\A i \in DOMAIN pool : Prev[pool[i]] # Tip(chain))
    BY <1>1, <1>2, <1>4
  <2>5. t.chain = Append(c, b) /\ t.rest = r /\ 1..n \subseteq 1..(n + 1)
    OBVIOUS
  <2> HIDE DEF t, b, c, r
  <2>6. Len(t.rest) <= n + 1 /\ Len(t.rest) # n + 1
    <3>1. Len(r) <= n /\ Len(r) \in Nat
      BY <1>1, <1>3
    <3> QED BY <2>5, <3>1
  <2>7. \A x \in DOMAIN t.rest : \E j \in 1..(n + 1) : t.rest[x] = pool[j]
    BY <1>1, <2>5
  <2>8. ParentsFirst(pool) => Settled(t)
    BY <2>2, <2>3, <2>5 DEF Settled
  <2> QED BY <2>1, <2>4, <2>6, <2>7, <2>8 DEF Fits, b
<1>5. CASE Prev[b] # Tip(c)
  <2> DEFINE t == [chain |-> c, rest |-> Append(r, b)]
  <2>1. Connect(s, b) = t
    BY <1>1, <1>5 DEF Connect
  <2>2. /\ Len(Append(r, b)) = Len(r) + 1 /\ DOMAIN Append(r, b) = 1..(Len(r) + 1)
        /\ Append(r, b)[Len(r) + 1] = b
        /\ \A x \in 1..Len(r) : Append(r, b)[x] = r[x]
    BY <1>1, <1>2, AppendProperties, LenProperties
  <2>3. t.chain = c /\ t.rest = Append(r, b)
    OBVIOUS
  <2> HIDE DEF t, c, r
  <2>4. Len(t.rest) = Len(r) + 1 /\ Len(r) \in Nat /\ Len(r) <= n
    BY <1>1, <1>3, <2>2, <2>3
  <2>5. Len(t.rest) <= n + 1
    BY <2>4
  <2>6. ASSUME Len(t.rest) = n + 1
        PROVE  t.chain = chain /\ \A i \in 1..(n + 1) : Prev[pool[i]] # Tip(chain)
    <3>1. Len(r) = n
      BY <2>6, <2>4
    <3>2. c = chain /\ \A i \in 1..n : Prev[pool[i]] # Tip(chain)
      BY <1>1, <3>1
    <3>3. \A i \in 1..(n + 1) : i \in 1..n \/ i = n + 1
      OBVIOUS
    <3> QED BY <1>5, <2>3, <3>2, <3>3
  <2>7. ASSUME NEW x \in DOMAIN t.rest
        PROVE  /\ \E j \in 1..(n + 1) : t.rest[x] = pool[j]
               /\ ParentsFirst(pool) => Prev[t.rest[x]] # Tip(t.chain)
    <3>1. x = Len(r) + 1 \/ x \in 1..Len(r)
      BY <1>3, <2>2, <2>3
    <3>2. CASE x = Len(r) + 1
      <4>1. t.rest[x] = pool[n + 1] /\ n + 1 \in 1..(n + 1)
        BY <2>2, <2>3, <3>2
      <4> QED BY <1>5, <2>3, <4>1
    <3>3. CASE x \in 1..Len(r)
      <4>1. t.rest[x] = r[x] /\ x \in DOMAIN r
        BY <1>3, <2>2, <2>3, <3>3
      <4>2. \E j \in 1..n : r[x] = pool[j]
        BY <1>1, <4>1
      <4> QED BY <1>1, <2>3, <4>1, <4>2
    <3> QED BY <3>1, <3>2, <3>3
  <2>8. ParentsFirst(pool) => Settled(t)
    BY <2>7 DEF Settled
  <2>9. (\A i \in DOMAIN pool : Prev[pool[i]] # Tip(chain)) => t.chain = chain
    BY <1>1, <2>3
  <2> QED BY <2>1, <2>5, <2>6, <2>7, <2>8, <2>9 DEF Fits
<1> QED BY <1>4, <1>5

(* A whole pass.                                                           *)
LEMMA PassFits ==
  ASSUME NEW chain \in Seq(Block), NEW pool \in Seq(Block)
  PROVE  /\ PassOK(Scan(chain, pool)[Len(pool)], chain, pool, Len(pool))
         /\ Fits(Scan(chain, pool)[Len(pool)], chain, pool, Len(pool))
<1> DEFINE scan == Scan(chain, pool)
           Good(n) == PassOK(scan[n], chain, pool, n) /\ Fits(scan[n], chain, pool, n)
           T == {n \in Nat : n <= Len(pool) => Good(n)}
<1>1. Len(pool) \in Nat
  BY LenProperties
<1>2. scan = [i \in 0..Len(pool) |-> IF i = 0 THEN Start(chain)
                                              ELSE Connect(scan[i - 1], pool[i])]
  BY ScanUnfolds DEF LoopUpTo
<1> HIDE DEF scan
<1>3. 0 \in T
  <2>1. scan[0].chain = chain /\ scan[0].rest = <<>> /\ scan[0] = [chain |-> chain, rest |-> <<>>]
    BY <1>1, <1>2 DEF Start
  <2>2. OnChain(<<>>) = {} /\ <<>> \in Seq(Block) /\ {pool[i] : i \in 1..0} = {}
        /\ Len(<<>>) = 0 /\ DOMAIN <<>> = {} /\ 1..0 = {}
    BY EmptySeq DEF OnChain
  <2>3. PassOK(scan[0], chain, pool, 0)
    BY <2>1, <2>2 DEF PassOK
  <2>4. Fits(scan[0], chain, pool, 0)
    BY <2>1, <2>2 DEF Fits, Settled
  <2> QED BY <2>3, <2>4
<1>4. ASSUME NEW n \in T PROVE n + 1 \in T
  <2>1. SUFFICES ASSUME n + 1 <= Len(pool) PROVE Good(n + 1)
    OBVIOUS
  <2>2. Good(n)
    BY <2>1, <1>1, <1>4
  <2>3. scan[n + 1] = Connect(scan[n], pool[n + 1])
    BY <2>1, <1>1, <1>2
  <2>4. n + 1 \in 1..Len(pool)
    BY <2>1, <1>1
  <2> QED BY <2>2, <2>3, <2>4, ConnectPass, ConnectFits
<1>5. T = Nat
  <2>1. T \in SUBSET Nat
    OBVIOUS
  <2> HIDE DEF T
  <2> QED BY <1>3, <1>4, <2>1, NatSetInduction
<1> QED BY <1>1, <1>5 DEF scan

State == [chain : Seq(Block), rest : Seq(Block)]

(* A pass over any state: it settles when parents are listed first, leaves *)
(* a settled state settled, and any other one with fewer orphans.          *)
LEMMA PassSettles ==
  ASSUME NEW s \in State
  PROVE  /\ Pass(s) \in State
         /\ ParentsFirst(s.rest) => Settled(Pass(s))
         /\ Settled(s) => Settled(Pass(s))
         /\ ~Settled(s) => Len(Pass(s).rest) < Len(s.rest)
<1> DEFINE p == Pass(s)
<1>1. s.chain \in Seq(Block) /\ s.rest \in Seq(Block)
  BY DEF State
<1>2. PassOK(p, s.chain, s.rest, Len(s.rest)) /\ Fits(p, s.chain, s.rest, Len(s.rest))
  BY <1>1, PassFits DEF Pass
<1>3. DOMAIN s.rest = 1..Len(s.rest) /\ Len(s.rest) \in Nat
  BY <1>1, LenProperties
<1> HIDE DEF p
<1>4. p \in State /\ Len(p.rest) \in Nat /\ OnChain(p.rest) \subseteq OnChain(s.rest)
  <2>1. p = [chain |-> p.chain, rest |-> p.rest]
        /\ p.chain \in Seq(Block) /\ p.rest \in Seq(Block)
    BY <1>2 DEF PassOK
  <2> QED BY <1>2, <2>1, LenProperties DEF PassOK, State
<1>5. ASSUME Settled(s) PROVE Settled(p)
  <2>1. p.chain = s.chain
    BY <1>2, <1>5 DEF Fits, Settled
  <2>2. ASSUME NEW x \in DOMAIN p.rest PROVE Prev[p.rest[x]] # Tip(p.chain)
    <3>1. PICK i \in DOMAIN s.rest : p.rest[x] = s.rest[i]
      BY <1>4 DEF OnChain
    <3> QED BY <1>5, <2>1, <3>1 DEF Settled
  <2> QED BY <2>2 DEF Settled
<1>6. ASSUME ~Settled(s) PROVE Len(p.rest) < Len(s.rest)
  <2>1. Len(p.rest) <= Len(s.rest) /\ Len(p.rest) # Len(s.rest)
    BY <1>2, <1>3, <1>6 DEF Fits, Settled
  <2> QED BY <1>3, <1>4, <2>1
<1> QED BY <1>2, <1>4, <1>5, <1>6 DEF Fits, p

PassesUpTo(f, s, n) == f = [m \in 0..n |-> IF m = 0 THEN s ELSE Pass(f[m - 1])]

(* The recursive function of so many passes exists.                        *)
LEMMA PassesUnfold ==
  ASSUME NEW s, NEW n \in Nat
  PROVE  \E f : PassesUpTo(f, s, n)
<1> DEFINE T == {k \in Nat : \E f : PassesUpTo(f, s, k)}
<1>1. 0 \in T
  <2> DEFINE f == [m \in 0..0 |-> s]
  <2>1. PassesUpTo(f, s, 0)
    BY DEF PassesUpTo
  <2> QED BY <2>1
<1>2. ASSUME NEW k \in T PROVE k + 1 \in T
  <2>1. PICK f : PassesUpTo(f, s, k)
    BY <1>2
  <2> DEFINE g == [m \in 0..(k + 1) |-> IF m = k + 1 THEN Pass(f[k]) ELSE f[m]]
  <2>2. ASSUME NEW m \in 0..(k + 1) PROVE g[m] = IF m = 0 THEN s ELSE Pass(g[m - 1])
    <3>1. CASE m = k + 1
      BY <3>1
    <3>2. CASE m = 0
      BY <3>2, <2>1 DEF PassesUpTo
    <3>3. CASE m # 0 /\ m # k + 1
      <4>1. m \in 0..k /\ m - 1 \in 0..k /\ g[m] = f[m] /\ g[m - 1] = f[m - 1]
        BY <3>3
      <4>2. f[m] = Pass(f[m - 1])
        BY <2>1, <3>3, <4>1 DEF PassesUpTo
      <4> QED BY <4>1, <4>2, <3>3
    <3> QED BY <3>1, <3>2, <3>3
  <2>3. PassesUpTo(g, s, k + 1)
    BY <2>2 DEF PassesUpTo
  <2> QED BY <2>3
<1>3. T = Nat
  <2>1. T \in SUBSET Nat
    OBVIOUS
  <2> HIDE DEF T
  <2> QED BY <1>1, <1>2, <2>1, NatSetInduction
<1> QED BY <1>3

(* After n passes the state is settled or n orphans fewer.                 *)
LEMMA PassesSettle ==
  ASSUME TypeOK, NEW n \in Nat
  PROVE  LET p == AfterPasses(n) IN
         /\ p \in State
         /\ Settled(p) \/ Len(p.rest) <= Len(orphaned) - n
         /\ n = 1 => p = Pass([chain |-> Blocks, rest |-> orphaned])
<1> DEFINE s == [chain |-> Blocks, rest |-> orphaned]
           pass == CHOOSE f : PassesUpTo(f, s, n)
           Good(m) == /\ pass[m] \in State
                      /\ Settled(pass[m]) \/ Len(pass[m].rest) <= Len(orphaned) - m
           T == {m \in Nat : m <= n => Good(m)}
<1>1. PassesUpTo(pass, s, n)
  BY PassesUnfold
<1>2. AfterPasses(n) = pass[n]
  BY DEF AfterPasses, PassesUpTo
<1>3. s \in State /\ s.rest = orphaned /\ Len(orphaned) \in Nat
  BY LenProperties DEF TypeOK, State
<1> HIDE DEF pass, s
<1>4. pass[0] = s /\ \A m \in 1..n : pass[m] = Pass(pass[m - 1])
  BY <1>1 DEF PassesUpTo
<1>5. 0 \in T
  BY <1>3, <1>4
<1>6. ASSUME NEW m \in T PROVE m + 1 \in T
  <2>1. SUFFICES ASSUME m + 1 <= n PROVE Good(m + 1)
    OBVIOUS
  <2>2. Good(m) /\ pass[m + 1] = Pass(pass[m])
    BY <1>4, <1>6, <2>1
  <2>3. /\ pass[m + 1] \in State
        /\ Settled(pass[m]) => Settled(pass[m + 1])
        /\ ~Settled(pass[m]) => Len(pass[m + 1].rest) < Len(pass[m].rest)
    BY <2>2, PassSettles
  <2>4. Len(pass[m].rest) \in Nat /\ Len(pass[m + 1].rest) \in Nat
    BY <2>2, <2>3, LenProperties DEF State
  <2> QED BY <1>3, <2>2, <2>3, <2>4
<1>7. T = Nat
  <2>1. T \in SUBSET Nat
    OBVIOUS
  <2> HIDE DEF T
  <2> QED BY <1>5, <1>6, <2>1, NatSetInduction
<1> QED BY <1>2, <1>4, <1>7 DEF s

(* Orphans listed after their parents are connected in one pass as far as  *)
(* any reach, and any others in as many passes as there are orphans.       *)
THEOREM ForksSettleCorrect == Spec => []ForksSettle
<1>1. ASSUME TypeOK PROVE ForksSettle
  <2> DEFINE s == [chain |-> Blocks, rest |-> orphaned]
  <2>1. s \in State /\ s.rest = orphaned /\ Len(orphaned) \in Nat
    BY <1>1, LenProperties DEF TypeOK, State
  <2>2. ParentsFirst(orphaned) => Settled(AfterPasses(1))
    BY <1>1, <2>1, PassSettles, PassesSettle
  <2>3. Settled(AfterPasses(Len(orphaned)))
    <3> DEFINE p == AfterPasses(Len(orphaned))
    <3>1. p \in State /\ (Settled(p) \/ Len(p.rest) <= 0)
      BY <1>1, <2>1, PassesSettle
    <3>2. p.rest \in Seq(Block)
      BY <3>1 DEF State
    <3> HIDE DEF p
    <3>3. Len(p.rest) <= 0 => DOMAIN p.rest = {}
      BY <3>2, LenProperties
    <3> QED BY <3>1, <3>3 DEF Settled, p
  <2> QED BY <2>2, <2>3 DEF ForksSettle
<1> QED BY <1>1, TypeCorrect, PTL
=============================================================================
