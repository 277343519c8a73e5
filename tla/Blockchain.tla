----------------------------- MODULE Blockchain -----------------------------
(***************************************************************************)
(* The in-memory chain of one node (core/blockchain.go), one operation at  *)
(* a time: mining on the tip, orphaned blocks, alternative chains,         *)
(* reorganisation, the two lookup indices and the automatic save.          *)
(*                                                                         *)
(* A block is identified with its hash.  Its other fields are constants of *)
(* the model: Prev[b] is the block whose hash is b.PrevHash (NoBlock for   *)
(* an empty PrevHash, a genesis block's, and for an unknown hash: the code *)
(* tells these two apart only in Validate's test of the first block, and   *)
(* no chain here begins with a block of the second kind), Index[b] its     *)
(* Index field, Txs[b] the identifiers of its transactions.  Mining the    *)
(* same contents twice gives the same block, as it does in the code within *)
(* one second.                                                             *)
(***************************************************************************)
EXTENDS Integers, Sequences

CONSTANTS
  Block,          \* all blocks that may ever be seen
  NoBlock,        \* nil, and a PrevHash that is the hash of no block
  Panic,          \* an index out of range: the goroutine panics
  Genesis,        \* the block NewBlockchain mines for this node
  Prev,           \* [Block -> Block \cup {NoBlock}]
  Index,          \* [Block -> Int]
  Tx, Txs,        \* transaction identifiers, [Block -> SUBSET Tx]
  PowOK,          \* the blocks that pass ProofOfWork.Validate
  Forged,         \* the blocks with a wrong Merkle root or a bad signature,
                  \* or that spend what an ancestor of theirs has spent
  Minable,        \* the blocks this node's NewBlock can produce
  Orphans,        \* what callers hand to AddOrphanedBlock
  Alternatives,   \* what callers hand to AddAlternativeChain
  NoFile, Torn,   \* no file yet, and a file whose encoding was cut short
  MaxOrphans,     \* bound: offers accepted while fewer orphans are held
  MaxAlternatives \* bound: offers accepted while fewer chains are held

ASSUME FieldsAssumption ==
  /\ Genesis \in Block /\ NoBlock \notin Block /\ Panic \notin Block
  /\ Panic # NoBlock
  /\ Prev \in [Block -> Block \cup {NoBlock}]
  /\ Index \in [Block -> Int]
  /\ Txs \in [Block -> SUBSET Tx]
  /\ Prev[Genesis] = NoBlock /\ Index[Genesis] = 0 /\ Txs[Genesis] = {}
  /\ PowOK \subseteq Block /\ Genesis \in PowOK
  /\ Forged \subseteq Block /\ Minable \subseteq Block
  /\ Orphans \subseteq Block /\ Alternatives \subseteq Seq(Block)
  /\ NoFile \notin Seq(Block) /\ Torn \notin Seq(Block)

VARIABLES
  Blocks,      \* bc.Blocks, Blocks[1] the genesis block
  orphaned,    \* bc.orphaned
  altChains,   \* bc.altChains
  blockIndex,  \* bc.blockIndex: hash -> position, from 0 as in the code
  txIndex,     \* bc.txIndex: transaction id -> its *Transaction, which is
               \* told here by the block it sits in
  filename,    \* bc.filename: "" while auto-save is off
  file         \* what the file of that name holds

vars == <<Blocks, orphaned, altChains, blockIndex, txIndex, filename, file>>

OnChain(chain) == {chain[i] : i \in DOMAIN chain}
Tip(chain) == chain[Len(chain)]
TxsOf(chain) == UNION {Txs[b] : b \in OnChain(chain)}
-----------------------------------------------------------------------------
(* The lookup indices.  Where two entries collide the later one stays. *)

LastIn(chain, S) ==
  CHOOSE i \in DOMAIN chain :
    chain[i] \in S /\ \A j \in DOMAIN chain : chain[j] \in S => j <= i

Holders(t) == {b \in Block : t \in Txs[b]}

BlockIndexOf(chain) == [b \in OnChain(chain) |-> LastIn(chain, {b}) - 1]

TxIndexOf(chain) == [t \in TxsOf(chain) |-> chain[LastIn(chain, Holders(t))]]

rebuildIndex(chain) ==
  /\ blockIndex' = BlockIndexOf(chain)
  /\ txIndex' = TxIndexOf(chain)

(* A mutant: positions are counted from one. *)
updateIndexFromOne(b) ==
  /\ blockIndex' = [c \in DOMAIN blockIndex \cup {b} |->
                      IF c = b THEN Index[b] + 1 ELSE blockIndex[c]]
  /\ txIndex' = [t \in DOMAIN txIndex \cup Txs[b] |->
                   IF t \in Txs[b] THEN b ELSE txIndex[t]]

updateIndex(b) ==
  /\ blockIndex' = [c \in DOMAIN blockIndex \cup {b} |->
                      IF c = b THEN Index[b] ELSE blockIndex[c]]
  /\ txIndex' = [t \in DOMAIN txIndex \cup Txs[b] |->
                   IF t \in Txs[b] THEN b ELSE txIndex[t]]

GetBlock(h) ==
  IF h \in DOMAIN blockIndex
  THEN IF blockIndex[h] \in 0..(Len(Blocks) - 1)
       THEN Blocks[blockIndex[h] + 1]
       ELSE Panic
  ELSE IF h \in OnChain(Blocks) THEN h ELSE NoBlock

FindTransaction(t) ==
  IF t \in DOMAIN txIndex THEN txIndex[t]
  ELSE IF t \in TxsOf(Blocks)
       THEN CHOOSE b \in OnChain(Blocks) : t \in Txs[b]
       ELSE NoBlock
-----------------------------------------------------------------------------
(***************************************************************************)
(* Validate: linkage, and proof of work and contents of every block but    *)
(* the first.  What Validate finds of the contents is a verdict on the     *)
(* block: its Merkle root, its signatures and its double spends, within it *)
(* or of what an earlier block has spent, for in a linked chain the blocks *)
(* before it are its ancestors, which its hash fixes.  A block without     *)
(* transactions never passes: NewBlock stores a hash of nothing as its     *)
(* Merkle root where Validate recomputes none at all.                      *)
(***************************************************************************)
TxsOK(b) == b \notin Forged /\ Txs[b] # {}

Validate(chain) ==
  /\ Len(chain) > 0
  /\ Prev[chain[1]] = NoBlock
  /\ \A i \in 2..Len(chain) :
       Prev[chain[i]] = chain[i - 1] /\ chain[i] \in PowOK /\ TxsOK(chain[i])

Aligned(chain) == \A i \in DOMAIN chain : Index[chain[i]] = i - 1

Init ==
  /\ Blocks = <<Genesis>>
  /\ orphaned = <<>> /\ altChains = <<>>
  /\ blockIndex = BlockIndexOf(<<Genesis>>)
  /\ txIndex = TxIndexOf(<<Genesis>>)
  /\ filename = "" /\ file = NoFile

SetFilename ==
  /\ filename' = "blockchain.dat"
  /\ UNCHANGED <<Blocks, orphaned, altChains, blockIndex, txIndex, file>>

(* A mutant: it is mined on any block of the right height. *)
NewBlockUnlinked(tip) == {b \in Minable : Index[b] = Index[tip] + 1 /\ b \in PowOK}

(* The blocks NewBlock may return for a tip: its fields are computed there. *)
NewBlock(tip) ==
  {b \in Minable : Prev[b] = tip /\ Index[b] = Index[tip] + 1 /\ b \in PowOK}

(* Written, not even created, or cut short: an error is only logged. *)
saveToFile(chain) ==
  \/ file' = chain
  \/ file' = file
  \/ file' = Torn

AddBlock(b) ==
  /\ b \in NewBlock(Tip(Blocks))
  /\ Blocks' = Append(Blocks, b)
  /\ updateIndex(b)
  /\ IF filename # "" THEN saveToFile(Blocks') ELSE file' = file
  /\ UNCHANGED <<orphaned, altChains, filename>>

AddOrphanedBlock(b) ==
  /\ Len(orphaned) < MaxOrphans
  /\ orphaned' = Append(orphaned, b)
  /\ UNCHANGED <<Blocks, altChains, blockIndex, txIndex, filename, file>>

AddAlternativeChain(chain) ==
  /\ Len(altChains) < MaxAlternatives
  /\ altChains' = Append(altChains, chain)
  /\ UNCHANGED <<Blocks, orphaned, blockIndex, txIndex, filename, file>>

(* A mutant: a chain of the same length is as good. *)
CandidatesAsLong ==
  {i \in DOMAIN altChains : /\ Len(altChains[i]) >= Len(Blocks)
                            /\ OnChain(altChains[i]) \subseteq PowOK}

(* The alternatives that are longer and whose every block has its work. *)
Candidates ==
  {i \in DOMAIN altChains : /\ Len(altChains[i]) > Len(Blocks)
                            /\ OnChain(altChains[i]) \subseteq PowOK}

(* A mutant: the indices stay as they were. *)
AttemptReorgStale ==
  \E i \in Candidates :
    /\ \A j \in Candidates : i <= j
    /\ orphaned' = orphaned \o Blocks
    /\ Blocks' = altChains[i]
    /\ altChains' = <<>>
    /\ UNCHANGED <<blockIndex, txIndex, filename, file>>

AttemptReorg ==
  \E i \in Candidates :
    /\ \A j \in Candidates : i <= j
    /\ orphaned' = orphaned \o Blocks
    /\ Blocks' = altChains[i]
    /\ altChains' = <<>>
    /\ rebuildIndex(altChains[i])
    /\ UNCHANGED <<filename, file>>

(***************************************************************************)
(* The loop of ResolveForks: one pass over the orphans in list order, each *)
(* either connected to the tip reached so far or kept.                     *)
(***************************************************************************)
Connect(s, b) ==
  IF Prev[b] = Tip(s.chain) THEN [s EXCEPT !.chain = Append(@, b)]
                            ELSE [s EXCEPT !.rest = Append(@, b)]

(* A mutant: the loop runs from the last orphan to the first. *)
ScanBackwards(chain, pool) ==
  LET scan[n \in 0..Len(pool)] ==
        IF n = 0 THEN [chain |-> chain, rest |-> <<>>]
                 ELSE Connect(scan[n - 1], pool[Len(pool) + 1 - n])
  IN  scan

Scan(chain, pool) ==
  LET scan[n \in 0..Len(pool)] ==
        IF n = 0 THEN [chain |-> chain, rest |-> <<>>]
                 ELSE Connect(scan[n - 1], pool[n])
  IN  scan

(* Mutants: the indices stay as they were, the other orphans are dropped. *)
ResolveForksStale ==
  LET after == Scan(Blocks, orphaned)[Len(orphaned)]
  IN  /\ Blocks' = after.chain
      /\ orphaned' = after.rest
      /\ UNCHANGED <<altChains, blockIndex, txIndex, filename, file>>

ResolveForksDropping ==
  LET after == Scan(Blocks, orphaned)[Len(orphaned)]
  IN  /\ Blocks' = after.chain
      /\ orphaned' = <<>>
      /\ rebuildIndex(after.chain)
      /\ UNCHANGED <<altChains, filename, file>>

ResolveForks ==
  LET after == Scan(Blocks, orphaned)[Len(orphaned)]
  IN  /\ Blocks' = after.chain
      /\ orphaned' = after.rest
      /\ IF Len(after.chain) > Len(Blocks) THEN rebuildIndex(after.chain)
                                           ELSE UNCHANGED <<blockIndex, txIndex>>
      /\ UNCHANGED <<altChains, filename, file>>

RebuildIndex ==
  rebuildIndex(Blocks) /\ UNCHANGED <<Blocks, orphaned, altChains, filename, file>>

Next ==
  \/ SetFilename
  \/ \E b \in Minable : AddBlock(b)
  \/ \E b \in Orphans : AddOrphanedBlock(b)
  \/ \E chain \in Alternatives : AddAlternativeChain(chain)
  \/ AttemptReorg
  \/ ResolveForks
  \/ RebuildIndex

Spec == Init /\ [][Next]_vars
-----------------------------------------------------------------------------
(* The type of the state. *)
TypeOK ==
  /\ Blocks \in Seq(Block) /\ Blocks # <<>>
  /\ orphaned \in Seq(Block)
  /\ altChains \in Seq(Seq(Block))
  /\ DOMAIN blockIndex \subseteq Block
  /\ \A b \in DOMAIN blockIndex : blockIndex[b] \in Int
  /\ DOMAIN txIndex \subseteq Tx
  /\ \A t \in DOMAIN txIndex : txIndex[t] \in Block
  /\ filename \in {"", "blockchain.dat"}
  /\ file \in Seq(Block) \cup {NoFile, Torn}

(***************************************************************************)
(* What the fork operations leave to their callers: that an alternative    *)
(* chain is a whole valid chain from a genesis block, and that an orphan   *)
(* with a parent is valid and numbered after it.  AddBlock leaves to its   *)
(* callers that they pass a transaction, as handleMine and mine() do.      *)
(***************************************************************************)
WellFormed(b) ==
  Prev[b] \in Block => b \in PowOK /\ TxsOK(b) /\ Index[b] = Index[Prev[b]] + 1

SoundChain(chain) == Validate(chain) /\ Aligned(chain)

HonestCallers ==
  /\ \A b \in Minable : TxsOK(b)
  /\ \A b \in Orphans : WellFormed(b)
  /\ \A chain \in Alternatives : SoundChain(chain)

(* The chain passes Validate and each block sits at the height it names,   *)
(* after any sequence of mining, reorganisations and connected orphans.    *)
ChainSound == SoundChain(Blocks)

(* GetBlock finds a block of the chain, and only those: the index that     *)
(* AddBlock extends from block.Index and forks rebuild never points at     *)
(* another block, past the end, or at a block the chain has left.          *)
GetBlockExact ==
  \A h \in Block : GetBlock(h) = IF h \in OnChain(Blocks) THEN h ELSE NoBlock

(* FindTransaction answers from a block of the current chain, or nothing   *)
(* when no block of the chain holds the transaction.                       *)
FindTransactionExact ==
  \A t \in Tx :
    IF t \in TxsOf(Blocks)
    THEN FindTransaction(t) \in OnChain(Blocks) /\ t \in Txs[FindTransaction(t)]
    ELSE FindTransaction(t) = NoBlock

(* A file written in full holds blocks the node still has, on its chain or *)
(* among its orphans: a reorganisation after a save forgets none of them.  *)
SavedBlocksKept ==
  file \in Seq(Block) => OnChain(file) \subseteq OnChain(Blocks) \cup OnChain(orphaned)

(* What a call of ResolveForks makes of chain and orphans, and what so     *)
(* many calls in a row do.                                                 *)
Pass(s) == Scan(s.chain, s.rest)[Len(s.rest)]

AfterPasses(n) ==
  LET pass[m \in 0..n] ==
        IF m = 0 THEN [chain |-> Blocks, rest |-> orphaned] ELSE Pass(pass[m - 1])
  IN  pass[n]

Settled(s) == \A i \in DOMAIN s.rest : Prev[s.rest[i]] # Tip(s.chain)

ParentsFirst(pool) ==
  \A i, j \in DOMAIN pool : Prev[pool[i]] = pool[j] => j < i

(* ResolveForks leaves no orphan behind that fits the tip it reaches, as   *)
(* long as orphans are listed after their parents, whatever forks compete. *)
(* Listed otherwise a child is passed over before its parent is connected, *)
(* and a call for each orphan is as many as may be needed.                 *)
ForksSettle ==
  /\ ParentsFirst(orphaned) => Settled(AfterPasses(1))
  /\ Settled(AfterPasses(Len(orphaned)))

(***************************************************************************)
(* The inductive invariants.  Whatever is offered, the transaction index   *)
(* is the one rebuildIndex would compute.  With honest callers the block   *)
(* index is too, because every block that can reach the chain, now or by   *)
(* a later fork operation, names its own height.                           *)
(***************************************************************************)
AnyCallersInv ==
  /\ TypeOK
  /\ txIndex = TxIndexOf(Blocks)
  /\ SavedBlocksKept

HonestInv ==
  /\ ChainSound
  /\ blockIndex = BlockIndexOf(Blocks)
  /\ \A b \in OnChain(orphaned) : WellFormed(b)
  /\ \A i \in DOMAIN altChains : SoundChain(altChains[i])

(* No operation drops a block that was on the chain or among the orphans.  *)
NoBlockForgotten ==
  [][OnChain(Blocks) \cup OnChain(orphaned)
       \subseteq OnChain(Blocks') \cup OnChain(orphaned')]_vars

(* The chain is only ever replaced by a strictly longer one.               *)
OnlyLonger == [][Blocks' # Blocks => Len(Blocks') > Len(Blocks)]_vars

(* The node implements the promise of LongestChain.                        *)
LC == INSTANCE LongestChain WITH chain <- Blocks, First <- <<Genesis>>,
                                 Valid <- SoundChain
LongestChainSpec == LC!Spec
=============================================================================
