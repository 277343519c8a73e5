------------------------------- MODULE Ledger -------------------------------
(***************************************************************************)
(* Who owns what: the transactions of the chain, the unspent outputs and   *)
(* balances read off it (core/blockchain.go), the checks of transactions   *)
(* (core/validation.go), rewards and fees (core/reward.go, core/fee.go)    *)
(* and the two requests of a user, mine and send.                          *)
(*                                                                         *)
(* A block is the sequence of its transactions; what links and proves      *)
(* blocks is in Blockchain.  The ID of a coinbase hashes its height and    *)
(* the previous block; on one chain the height stands for both.            *)
(***************************************************************************)
EXTENDS Integers, FiniteSetsExt, SequencesExt

CONSTANTS
  Wallet,         \* the address of this node
  ForeignBlocks,  \* other miners' blocks that ResolveForks may connect
  Amounts,        \* the amounts a user asks to send
  InitialReward, HalvingInterval, MinReward,
  MaxValue,       \* the largest int64, and int of a 64-bit build
  MinFeeRate, MaxFeeRate,
  Size(_),        \* the bytes of a serialized transaction
  NoTx, NoKey,    \* the empty Txid of a coinbase input, and an empty PubKey
  MaxInputsPerTransaction, MaxOutputsPerTransaction,
  MaxLen          \* bound: the length up to which the chain grows

ForeignTx == UNION {{block[i] : i \in DOMAIN block} : block \in ForeignBlocks}

ASSUME RewardAssumption ==
  /\ InitialReward \in Nat /\ MinReward \in Nat \ {0} /\ HalvingInterval \in Nat \ {0}
  /\ \A amount \in Amounts : amount \in Nat \ {0}
  /\ ForeignBlocks \subseteq Seq(ForeignTx)
  /\ MaxValue \in Nat /\ InitialReward <= MaxValue /\ MinReward <= MaxValue
  /\ MinFeeRate \in Nat \ {0} /\ MaxFeeRate \in Nat /\ MinFeeRate <= MaxFeeRate
  /\ MaxLen \in Nat \ {0}
  /\ MaxInputsPerTransaction \in Nat \ {0} /\ MaxOutputsPerTransaction \in Nat \ {0}

(* A hash and an address are not empty. *)
ASSUME EmptyAssumption == NoTx \notin Nat /\ Wallet # NoKey

(* What is decoded into a transaction: two slices, and int64s as values.   *)
ASSUME TransactionAssumption ==
  \A tx \in ForeignTx :
    /\ tx.inputs \in Seq({tx.inputs[i] : i \in DOMAIN tx.inputs})
    /\ tx.outputs \in Seq({tx.outputs[i] : i \in DOMAIN tx.outputs})
    /\ \A i \in DOMAIN tx.outputs : tx.outputs[i].value \in (-MaxValue - 1)..MaxValue

VARIABLES
  Blocks,  \* the transactions of bc.Blocks
  reply    \* what the last request was answered

vars == <<Blocks, reply>>

(* All transactions of the chain, in the order the loops meet them. *)
Transactions == FlattenSeq(Blocks)

IsCoinbase(tx) == Len(tx.inputs) = 1 /\ tx.inputs[1].out = -1

Outpoint(tx, i) == [txid |-> tx.id, out |-> i - 1]

Spends(tx) == {in \in {tx.inputs[i] : i \in DOMAIN tx.inputs} : in.out # -1}

(* A mutant: an input deletes all outputs of the transaction it names. *)
ApplyWhole(utxos, tx) ==
  LET created == {[at |-> Outpoint(tx, i), value |-> tx.outputs[i].value,
                   key |-> tx.outputs[i].key] : i \in DOMAIN tx.outputs}
      older == {u \in utxos : \A new \in created : new.at # u.at}
  IN  {u \in older \cup created : \A in \in Spends(tx) : in.txid # u.at.txid}

(***************************************************************************)
(* UTXOIndex is a map from outpoints to outputs in the code and the set of *)
(* its entries here.  Each transaction of the chain in turn writes entries *)
(* for its outputs, over older ones of the same key, and then deletes the  *)
(* entries its inputs name.                                                *)
(***************************************************************************)
Apply(utxos, tx) ==
  LET created == {[at |-> Outpoint(tx, i), value |-> tx.outputs[i].value,
                   key |-> tx.outputs[i].key] : i \in DOMAIN tx.outputs}
      older == {u \in utxos : \A new \in created : new.at # u.at}
  IN  {u \in older \cup created : u.at \notin Spends(tx)}

UTXOIndex ==
  LET txs == Transactions
      after[n \in 0..Len(txs)] == IF n = 0 THEN {} ELSE Apply(after[n - 1], txs[n])
  IN  after[Len(txs)]

Unspent == {u.at : u \in UTXOIndex}

(* The sum of two int64s, and so of many. *)
Wrap(n) == ((n + MaxValue + 1) % (2 * (MaxValue + 1))) - (MaxValue + 1)

(* The coins there are, which no variable of the code has to hold. *)
Total(utxos) == SumFunction([u \in utxos |-> u.value])

GetBalance(address) == Wrap(Total({u \in UTXOIndex : u.key = address}))

OutputsExact(tx) == SumFunction([i \in DOMAIN tx.outputs |-> tx.outputs[i].value])

CalculateTotalOutputs(tx) == Wrap(OutputsExact(tx))

(* A mutant: only the payment is subtracted, not the change. *)
GetTxFeeFirst(tx) ==
  LET utxos == UTXOIndex
      paid == [i \in DOMAIN tx.inputs |-> Total({u \in utxos : u.at = tx.inputs[i]})]
  IN  Wrap(SumFunction(paid) - tx.outputs[1].value)

(* GetTxFee counts an output as often as the inputs name it. *)
GetTxFee(tx) ==
  LET utxos == UTXOIndex
      paid == [i \in DOMAIN tx.inputs |-> Total({u \in utxos : u.at = tx.inputs[i]})]
  IN  Wrap(SumFunction(paid) - CalculateTotalOutputs(tx))

(* A mutant: any rate goes. *)
SetFeeRateUnbounded(rate) == rate

SetFeeRate(rate) ==
  IF rate < MinFeeRate THEN MinFeeRate ELSE IF rate > MaxFeeRate THEN MaxFeeRate ELSE rate

CalculateFee(rate, tx) == Wrap(Size(tx) * rate)

(* A placeholder in the code: no input is looked up. *)
CalculateTotalInputs(tx) == 0

IsFeeSufficient(rate, tx) ==
  Wrap(CalculateTotalInputs(tx) - CalculateTotalOutputs(tx)) >= CalculateFee(rate, tx)
-----------------------------------------------------------------------------
(* Of Validate the loop over the transactions, not over links, proofs of   *)
(* work and roots: signed, and no output spent twice.                      *)
ValidateTxs(txs) ==
  LET checked == {n \in DOMAIN txs : ~IsCoinbase(txs[n])}
  IN  /\ \A n \in checked : txs[n].signed
      /\ \A m, n \in checked : \A i \in DOMAIN txs[m].inputs, j \in DOMAIN txs[n].inputs :
           txs[m].inputs[i] = txs[n].inputs[j] /\ txs[m].inputs[i].out # -1
             => m = n /\ i = j

(* totalOut after so many outputs, an int64. *)
TotalOut(tx, n) == Wrap(SumFunction([i \in 1..n |-> tx.outputs[i].value]))

ValidateTransaction(tx) ==
  /\ tx.id # NoTx
  /\ Len(tx.inputs) \in 1..MaxInputsPerTransaction
  /\ Len(tx.outputs) \in 1..MaxOutputsPerTransaction
  /\ IsCoinbase(tx) \/ \A i \in DOMAIN tx.inputs :
                         tx.inputs[i].txid # NoTx /\ tx.inputs[i].out >= -1
  /\ \A i \in DOMAIN tx.outputs :
       /\ tx.outputs[i].value > 0 /\ tx.outputs[i].value <= MaxValue
       /\ tx.outputs[i].key # NoKey
       /\ TotalOut(tx, i) <= MaxValue
  /\ IsCoinbase(tx) \/ tx.signed

(* A mutant: it is enough that the inputs name transactions of the chain. *)
ValidateTransactionKnown(tx) ==
  /\ ValidateTransaction(tx)
  /\ \A in \in Spends(tx) : \E n \in DOMAIN Transactions : Transactions[n].id = in.txid

ValidateTransactionForMempool(tx) ==
  ValidateTransaction(tx) /\ Spends(tx) \subseteq Unspent

(* No key twice and no value that is not positive. *)
ValidateUTXO ==
  LET utxos == UTXOIndex
  IN  /\ \A u, v \in utxos : u.at = v.at => u = v
      /\ \A u \in utxos : u.value > 0

(* Of ValidateBlock, over the chain, the part about transactions.          *)
ValidateBlockTxs ==
  \A n \in 2..Len(Blocks) :
    /\ Blocks[n] # <<>> /\ IsCoinbase(Blocks[n][1])
    /\ \A i \in DOMAIN Blocks[n] : ValidateTransaction(Blocks[n][i])

(* One halving per HalvingInterval blocks, but never below MinReward. *)
GetBlockReward(height) ==
  LET halved[n \in 0..(height \div HalvingInterval)] ==
        IF n = 0 THEN InitialReward ELSE halved[n - 1] \div 2
      reward == halved[height \div HalvingInterval]
  IN  IF reward < MinReward THEN MinReward ELSE reward

GetTotalMined(height) ==
  LET total[h \in -1..height] == IF h = -1 THEN 0 ELSE total[h - 1] + GetBlockReward(h)
  IN  Wrap(total[height])

GetMaxSupply == InitialReward * 2 * HalvingInterval

(* A mutant: the ID does not depend on the height. *)
CoinbaseTxConstant(address, amount, height) ==
  [id |-> 1, inputs |-> << [txid |-> NoTx, out |-> -1] >>,
   outputs |-> << [value |-> amount, key |-> address] >>, signed |-> FALSE]

CoinbaseTx(address, amount, height) ==
  [id |-> height, inputs |-> << [txid |-> NoTx, out |-> -1] >>,
   outputs |-> << [value |-> amount, key |-> address] >>, signed |-> FALSE]

(* What handleMine and mine() give AddBlock when the chain is this long. *)
OwnBlock(height) == << CoinbaseTx(Wallet, GetBlockReward(height), height) >>

(* The fee of what fits into memory does not overflow at any rate.         *)
ASSUME SizeAssumption ==
  \A tx \in ForeignTx \cup {OwnBlock(h)[1] : h \in 1..MaxLen} :
    Size(tx) \in Nat /\ Size(tx) * MaxFeeRate <= MaxValue
-----------------------------------------------------------------------------
Init == Blocks = << <<>> >> /\ reply = "none"

(* handleMine and mine(): the height of the new block is the chain length. *)
Mine ==
  /\ Len(Blocks) < MaxLen
  /\ Blocks' = Append(Blocks, OwnBlock(Len(Blocks)))
  /\ reply' = "mined"

(***************************************************************************)
(* handleCreateTransaction and send().  NewTransaction takes apart the     *)
(* keys of UTXOIndex with Sscanf("%s:%d"), whose %s runs to the end of a   *)
(* key that has no space: none parses, no input is gathered, and any       *)
(* positive amount within the balance ends in the second error.            *)
(***************************************************************************)
NewTransaction(amount) ==
  IF amount > GetBalance(Wallet) THEN "insufficient balance"
                                 ELSE "no valid UTXOs found for spending"

Send(amount) == reply' = NewTransaction(amount) /\ UNCHANGED Blocks

(* ResolveForks appends a block as it is, without a look at what it holds. *)
ConnectOrphan(block) ==
  /\ Len(Blocks) < MaxLen
  /\ Blocks' = Append(Blocks, block)
  /\ UNCHANGED reply

Next == Mine \/ (\E amount \in Amounts : Send(amount))
             \/ (\E block \in ForeignBlocks : ConnectOrphan(block))

Spec == Init /\ [][Next]_vars
-----------------------------------------------------------------------------
(* The type of the state. *)
TypeOK ==
  /\ Blocks # <<>> /\ Blocks[1] = <<>>
  /\ \A n \in 2..Len(Blocks) : Blocks[n] \in ForeignBlocks \/ Blocks[n] = OwnBlock(n - 1)
  /\ reply \in {"none", "mined", "insufficient balance", "no valid UTXOs found for spending"}

OnlyOwn == \A n \in 2..Len(Blocks) : Blocks[n] = OwnBlock(n - 1)

Created == UNION {{Outpoint(Transactions[n], i) : i \in DOMAIN Transactions[n].outputs}
                    : n \in DOMAIN Transactions}
Spent == UNION {Spends(Transactions[n]) : n \in DOMAIN Transactions}

(* Every output is spent after the transaction that makes it, and no two   *)
(* transactions share an ID.                                               *)
ParentsFirst ==
  LET txs == Transactions
  IN  \A m, n \in DOMAIN txs :
        /\ txs[m].id = txs[n].id => m = n
        /\ \A in \in Spends(txs[m]) : in.txid = txs[n].id => n < m

DistinctInputs(tx) ==
  \A i, j \in DOMAIN tx.inputs : tx.inputs[i] = tx.inputs[j] => i = j

(* The loop of UTXOIndex, which forgets what was spent, ends with just the *)
(* outputs no transaction of the chain spends, unless a child stands       *)
(* before its parent.                                                      *)
UTXOExact == ParentsFirst => Unspent = Created \ Spent

(* The type of the state and what the walk over the chain makes of it.     *)
Inv == TypeOK /\ UTXOExact

(* What the mempool check accepts Validate accepts in the next block: the  *)
(* two look at the chain in ways of their own, one at outputs still there  *)
(* and the other at outputs spent before.  Not so a transaction that names *)
(* one output twice: the mempool check accepts it, Validate does not.      *)
AcceptedStaysValid ==
  \A tx \in ForeignTx :
    /\ ParentsFirst /\ ValidateTxs(Transactions)
    /\ ValidateTransactionForMempool(tx) /\ DistinctInputs(tx)
    => ValidateTxs(Append(Transactions, tx))

NewID(id) == \A n \in DOMAIN Transactions : Transactions[n].id # id

(* What GetTxFee counts for inputs that name an output once more. *)
Repeated(tx) ==
  LET utxos == UTXOIndex
      again == {i \in DOMAIN tx.inputs : \E j \in 1..(i - 1) : tx.inputs[j] = tx.inputs[i]}
  IN  SumFunction([i \in again |-> Total({u \in utxos : u.at = tx.inputs[i]})])

(* How coins come and go, when IDs are new.  A mined block pays its reward *)
(* to the miner and takes from nobody: every output that was unspent stays *)
(* so.  A transfer the mempool check accepts takes the fee that GetTxFee   *)
(* reported before it was connected out of existence, as no coinbase pays  *)
(* it to a miner; and what GetTxFee counted for one output again and again *)
(* comes into existence, paid by nobody.                                   *)
CoinsMove ==
  [][/\ Blocks' = Append(Blocks, OwnBlock(Len(Blocks))) /\ NewID(Len(Blocks)) =>
          /\ GetBalance(Wallet)' = Wrap(GetBalance(Wallet) + GetBlockReward(Len(Blocks)))
          /\ UTXOIndex \subseteq UTXOIndex'
     /\ \A tx \in ForeignTx :
          /\ Blocks' = Append(Blocks, <<tx>>) /\ ~IsCoinbase(tx)
          /\ ValidateTransactionForMempool(tx) /\ NewID(tx.id)
          => Wrap(Total(UTXOIndex')) =
               Wrap(Total(UTXOIndex) - GetTxFee(tx) + Repeated(tx))]_vars

(* The check of the total of the outputs refuses nothing, as an int64 is   *)
(* never more than the largest one; and IsFeeSufficient, which takes the   *)
(* inputs for nothing, accepts no valid transaction of the chain at any    *)
(* rate that can be set but one whose outputs add up to more than fits.    *)
SufficientOnlyByOverflow ==
  LET txs == Transactions
  IN  \A n \in DOMAIN txs : \A rate \in -1..(MaxFeeRate + 1) :
        ValidateTransaction(txs[n]) /\ IsFeeSufficient(SetFeeRate(rate), txs[n])
          => OutputsExact(txs[n]) > MaxValue

(* The transactions of a chain this node mined alone, apart from its links *)
(* and proofs of work, pass what both validators check of them, and their  *)
(* outputs pass ValidateUTXO; every coin is a reward of a height above     *)
(* zero, and until the reward has come down to its floor they stay below   *)
(* GetMaxSupply.                                                           *)
OwnRewardsAccepted ==
  OnlyOwn =>
    /\ ValidateTxs(Transactions) /\ ValidateBlockTxs /\ ValidateUTXO
    /\ GetBalance(Wallet) = Wrap(GetTotalMined(Len(Blocks) - 1) - GetBlockReward(0))
    /\ GetBlockReward(Len(Blocks) - 1) > MinReward => GetBalance(Wallet) <= GetMaxSupply
-----------------------------------------------------------------------------
(* "NewTransaction creates a new transaction that spends previous          *)
(* outputs": a request within the balance adds a block.                    *)
SendWithinBalance ==
  [][\A amount \in Amounts :
       Send(amount) /\ Blocks' = Blocks => amount > GetBalance(Wallet)]_vars
=============================================================================
