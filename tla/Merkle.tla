------------------------------- MODULE Merkle -------------------------------
(***************************************************************************)
(* The Merkle tree over the transactions of a block (crypto/merkle.go), as *)
(* NewBlock builds it.  A hash is a free term, so equal hashes are hashes  *)
(* of equal data, and a node of the tree is identified with its hash: a    *)
(* leaf is the ID of a transaction, another node the hash of its two       *)
(* children.                                                               *)
(***************************************************************************)
EXTENDS Naturals, Sequences, SequencesExt

CONSTANTS
  TxHash,   \* transaction IDs
  MaxTxs    \* bound: the number of transactions in a block

ASSUME MaxTxsAssumption == MaxTxs \in Nat

VARIABLE txHashes  \* the IDs of the transactions of the block, in order

DoubleHash(words) == [hash |-> words]

Left(node) == node.hash[1]
Right(node) == node.hash[2]

(* Mutants: a node without a neighbour is dropped; pairs are hashed from   *)
(* the right.                                                              *)
NextLevelDropsOdd(nodes) ==
  IF Len(nodes) = 1 THEN nodes
  ELSE [i \in 1..(Len(nodes) \div 2) |-> DoubleHash(<<nodes[2 * i - 1], nodes[2 * i]>>)]

NextLevelSwapped(nodes) ==
  [i \in 1..((Len(nodes) + 1) \div 2) |->
     DoubleHash(<<nodes[IF 2 * i <= Len(nodes) THEN 2 * i ELSE 2 * i - 1], nodes[2 * i - 1]>>)]

(* One round of the loop: the nodes by twos, the last one with itself when *)
(* their number is odd.                                                    *)
NextLevel(nodes) ==
  [i \in 1..((Len(nodes) + 1) \div 2) |->
     DoubleHash(<<nodes[2 * i - 1], nodes[IF 2 * i <= Len(nodes) THEN 2 * i ELSE 2 * i - 1]>>)]

Leaves(list) == IF Len(list) = 1 THEN list \o list ELSE list

Levels(list) ==
  LET level[n \in 0..Len(list)] == IF n = 0 THEN Leaves(list) ELSE NextLevel(level[n - 1])
  IN  level

(* The rounds until one node is left. *)
Height(list) ==
  LET level == Levels(list)
  IN  CHOOSE n \in 0..Len(list) :
        Len(level[n]) = 1 /\ \A m \in 0..(n - 1) : Len(level[m]) # 1

NewMerkleTree(list) == Levels(list)[Height(list)][1]

(* The root in the header of a block.  NewBlock hashes the empty string    *)
(* when there is no transaction.                                           *)
MerkleRoot(list) == IF list = <<>> THEN DoubleHash(<<>>) ELSE NewMerkleTree(list)

(* BuildMerkleRoot hashes all IDs at once. *)
BuildMerkleRoot(list) == DoubleHash(list)

(* An index after n rounds, each of which halves it, and which side of its *)
(* parent it names in round i. *)
Halved(index, n) ==
  LET half[i \in 0..n] == IF i = 0 THEN index ELSE half[i - 1] \div 2
  IN  half[n]

Bit(index, i) == Halved(index, i - 1) % 2

(* A mutant: the last bit of the index is not looked at. *)
MerkleProofOffByOne(list, index) ==
  LET walk[d \in 0..Height(list)] == IF d = 0 THEN NewMerkleTree(list) ELSE Left(walk[d - 1])
  IN  [d \in 1..Height(list) |->
         IF Bit(index, d + 1) = 0 THEN Right(walk[d - 1]) ELSE Left(walk[d - 1])]

(* From the root down, always to the left, taking the sibling the bits of  *)
(* the index name, the last bit first.                                     *)
MerkleProof(list, index) ==
  LET walk[d \in 0..Height(list)] == IF d = 0 THEN NewMerkleTree(list) ELSE Left(walk[d - 1])
  IN  [d \in 1..Height(list) |->
         IF Bit(index, d) = 0 THEN Right(walk[d - 1]) ELSE Left(walk[d - 1])]

(* A mutant: the index is not halved. *)
HashUpSameSide(txHash, proof, index) ==
  LET current[i \in 0..Len(proof)] ==
        IF i = 0 THEN txHash
        ELSE IF Bit(index, 1) = 0 THEN DoubleHash(<<current[i - 1], proof[i]>>)
        ELSE DoubleHash(<<proof[i], current[i - 1]>>)
  IN  current[Len(proof)]

(* currentHash after the loop of VerifyMerkleProof. *)
HashUp(txHash, proof, index) ==
  LET current[i \in 0..Len(proof)] ==
        IF i = 0 THEN txHash
        ELSE IF Bit(index, i) = 0 THEN DoubleHash(<<current[i - 1], proof[i]>>)
        ELSE DoubleHash(<<proof[i], current[i - 1]>>)
  IN  current[Len(proof)]

VerifyMerkleProof(txHash, merkleRoot, proof, index) == HashUp(txHash, proof, index) = merkleRoot

MerkleInit == txHashes = <<>>

(* NewBlock collects the ID of one more transaction. *)
CollectID(id) == Len(txHashes) < MaxTxs /\ txHashes' = Append(txHashes, id)

MerkleNext == \E id \in TxHash : CollectID(id)

MerkleSpec == MerkleInit /\ [][MerkleNext]_txHashes
-----------------------------------------------------------------------------
(* No transaction ID is a hash of two nodes of a tree, as an ID is a hash  *)
(* of a serialized transaction. *)
ASSUME LeafAssumption ==
  \A list \in BoundedSeq(TxHash, MaxTxs) \ {<<>>} : \A n \in 1..Height(list) :
    \A i \in DOMAIN Levels(list)[n] : Levels(list)[n][i] \notin TxHash

(* The reference: the tree top down, over 2^k places, or Size(k), of which *)
(* the first Len(list) are taken; a half without any is a copy of the      *)
(* other half.                                                             *)
Size(k) ==
  LET size[i \in 0..k] == IF i = 0 THEN 1 ELSE 2 * size[i - 1]
  IN  size[k]

Reference(list) ==
  LET tree[k \in 0..Len(list)] ==
        [first \in 0..(Len(list) - 1) |->
           IF k = 0 THEN list[first + 1]
           ELSE LET middle == first + Size(k - 1)
                    left == tree[k - 1][first]
                IN  DoubleHash(<<left, IF middle < Len(list) THEN tree[k - 1][middle] ELSE left>>)]
      k == CHOOSE k \in 1..Len(list) :
             Size(k) >= Len(list) /\ \A j \in 1..(k - 1) : Size(j) < Len(list)
  IN  tree[k][0]

(* The root NewBlock writes and ValidateBlock recomputes is the one of the *)
(* balanced tree, for any number of transactions, odd levels included; and *)
(* the convenience function BuildMerkleRoot agrees with it for no block    *)
(* but an empty one and one with two transactions.                         *)
RootExact ==
  /\ txHashes # <<>> => MerkleRoot(txHashes) = Reference(txHashes)
  /\ BuildMerkleRoot(txHashes) = MerkleRoot(txHashes) <=> Len(txHashes) \in {0, 2}

(* The root commits to the transactions and their order: two lists with    *)
(* the same root are the same but for transactions repeated at the end of  *)
(* the longer one, which an odd level cannot tell from its own copies.     *)
Roots == [list \in BoundedSeq(TxHash, MaxTxs) |-> MerkleRoot(list)]

RootBinds ==
  \A other \in DOMAIN Roots :
    Len(txHashes) <= Len(other) /\ Roots[other] = MerkleRoot(txHashes)
      => IsPrefix(txHashes, other) /\ ToSet(other) = ToSet(txHashes)

Indices(list) == 0..(Len(list) - 1)

(* The siblings on the way from a leaf up: what a proof should hold. *)
AuditPath(list, index) ==
  [i \in 1..Height(list) |->
     LET level == Levels(list)[i - 1]
         here == Halved(index, i - 1)
         there == IF here % 2 = 1 THEN here - 1
                  ELSE IF here + 1 < Len(level) THEN here + 1 ELSE here
     IN  level[there + 1]]

(* No proof at all, right or wrong, verifies two transactions at the same  *)
(* index under the same root.                                              *)
Binds(proof, index, root) ==
  \A id1, id2 \in TxHash :
    VerifyMerkleProof(id1, root, proof, index) /\ VerifyMerkleProof(id2, root, proof, index)
      => id1 = id2

(* VerifyMerkleProof accepts, with the siblings on the way up, the         *)
(* transaction at that index and no other one; and with these siblings at  *)
(* another index, or with whatever MerkleProof returned, it never accepts  *)
(* two transactions.                                                       *)
VerifyExact ==
  \A index \in Indices(txHashes) :
    LET path == AuditPath(txHashes, index)
        root == MerkleRoot(txHashes)
    IN  /\ \A id \in TxHash : VerifyMerkleProof(id, root, path, index)
                                <=> id = txHashes[index + 1]
        /\ \A j \in Indices(txHashes) :
             Binds(path, j, root) /\ Binds(MerkleProof(txHashes, index), j, root)

(* What MerkleProof returns verifies the transaction at its index, and no  *)
(* other one, when the block has one or two transactions.  With more it    *)
(* verifies nothing at all: it lists the siblings from the root down and   *)
(* follows the left branch whatever the index, against "MerkleProof        *)
(* returns the Merkle proof for a transaction at index".                   *)
ProofsOfPairsOnly ==
  \A index \in Indices(txHashes) :
    LET proof == MerkleProof(txHashes, index)
    IN  \A id \in TxHash : VerifyMerkleProof(id, MerkleRoot(txHashes), proof, index)
                             <=> Len(txHashes) <= 2 /\ id = txHashes[index + 1]
=============================================================================
