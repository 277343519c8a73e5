------------------------------ MODULE Mempool ------------------------------
(***************************************************************************)
(* The pool of pending transactions (core/mempool.go): the transactions by *)
(* ID and, for each sender, the IDs in the order they came.  A lock makes  *)
(* every method one step.  The readers only look up: Get and Contains are  *)
(* txs itself, Size is its size, List its range.                           *)
(*                                                                         *)
(* An ID is whatever tx.ID holds: nothing recomputes it, so two different  *)
(* transactions may carry the same one.                                    *)
(***************************************************************************)
EXTENDS Integers, Sequences, FiniteSets

CONSTANTS
  Transaction,
  ID,          \* [Transaction -> TxID]
  TxID,
  Sender,      \* [Transaction -> PubKey], the key of the first input
  PubKey,
  Inputs,      \* [Transaction -> Seq(inputs)], an input a txid and an index out
  NilTxid,     \* a Txid that is nil, as that of a coinbase read from a file is
  Values,      \* [Transaction -> Seq(Int)], the values of the outputs
  Signed,      \* the transactions whose every input carries a good signature
  NoID,        \* the empty ID
  MaxMempoolSize

ASSUME MempoolAssumption ==
  /\ ID \in [Transaction -> TxID] /\ Sender \in [Transaction -> PubKey]
  /\ DOMAIN Inputs = Transaction
  /\ \A tx \in Transaction : Inputs[tx] \in Seq({Inputs[tx][i] : i \in DOMAIN Inputs[tx]})
  /\ DOMAIN Values = Transaction /\ Signed \subseteq Transaction
  /\ MaxMempoolSize \in Nat

IsCoinbase(tx) == Len(Inputs[tx]) = 1 /\ Inputs[tx][1].out = -1

(* A coinbase needs no signature. *)
validateTx(tx) ==
  /\ ID[tx] # NoID
  /\ Inputs[tx] # <<>> /\ Values[tx] # <<>>
  /\ \A i \in DOMAIN Values[tx] : Values[tx][i] > 0
  /\ IsCoinbase(tx) \/ tx \in Signed

Coinbase == {tx \in Transaction : IsCoinbase(tx)}
Valid == {tx \in Transaction : validateTx(tx)}

VARIABLES
  txs,       \* m.txs: transaction ID -> transaction
  bySender   \* m.bySender: public key -> transaction IDs

vars == <<txs, bySender>>

Init == txs = <<>> /\ bySender = <<>>

Listed(a) == IF a \in DOMAIN bySender THEN bySender[a] ELSE <<>>

(* m.bySender with one more ID under the sender of a transaction. *)
Indexed(tx) ==
  [a \in DOMAIN bySender \cup {Sender[tx]} |->
     IF a = Sender[tx] THEN Append(Listed(a), ID[tx]) ELSE bySender[a]]

(* Refused: the pool is full, the ID is in it, or validateTx fails.  A nil *)
(* transaction panics on its ID, before the test for it, and the deferred  *)
(* unlock leaves the pool as it was: no step either.                       *)
Add(tx) ==
  /\ Cardinality(DOMAIN txs) < MaxMempoolSize
  /\ ID[tx] \notin DOMAIN txs
  /\ tx \in Valid
  /\ txs' = [id \in DOMAIN txs \cup {ID[tx]} |-> IF id = ID[tx] THEN tx ELSE txs[id]]
  /\ bySender' = IF tx \in Coinbase THEN bySender
                 ELSE Indexed(tx)

(* A mutant: the gap is closed with the last entry. *)
WithoutSwapping(ids, i) ==
  [j \in 1..(Len(ids) - 1) |-> IF j = i THEN ids[Len(ids)] ELSE ids[j]]

Without(ids, i) == SubSeq(ids, 1, i - 1) \o SubSeq(ids, i + 1, Len(ids))

FirstAt(ids, id, i) == ids[i] = id /\ \A j \in 1..(i - 1) : ids[j] # id

(* A mutant: the index of senders is forgotten. *)
RemoveUnindexed(id) ==
  /\ id \in DOMAIN txs
  /\ txs' = [other \in DOMAIN txs \ {id} |-> txs[other]]
  /\ UNCHANGED bySender

(* The sender keeps its entry, if only an empty one. *)
Remove(id) ==
  /\ id \in DOMAIN txs
  /\ txs' = [other \in DOMAIN txs \ {id} |-> txs[other]]
  /\ LET a == Sender[txs[id]]
     IN  IF txs[id] \in Coinbase \/ \A i \in DOMAIN Listed(a) : Listed(a)[i] # id
         THEN bySender' = bySender
         ELSE \E i \in DOMAIN bySender[a] :
                /\ FirstAt(bySender[a], id, i)
                /\ bySender' = [bySender EXCEPT ![a] = Without(@, i)]

Clear == txs' = <<>> /\ bySender' = <<>>

(* The loop over the IDs under a key; one that is not in the pool is skipped. *)
GetBySender(a) ==
  LET ids == Listed(a)
      result[n \in 0..Len(ids)] ==
        IF n = 0 THEN <<>>
        ELSE IF ids[n] \in DOMAIN txs THEN Append(result[n - 1], txs[ids[n]])
        ELSE result[n - 1]
  IN  result[Len(ids)]

(* A mutant: outputs of one transaction are not told apart. *)
GetConflictsByTxid(tx) ==
  LET Same(in, other) == in.txid # NilTxid /\ in.txid = other.txid
  IN  [id \in DOMAIN txs |->
         Cardinality({p \in (DOMAIN Inputs[tx]) \X (DOMAIN Inputs[txs[id]]) :
                        Same(Inputs[tx][p[1]], Inputs[txs[id]][p[2]])})]

(* How often GetConflicts lists each pending transaction: once for every   *)
(* pair of inputs that agree.  The transaction itself is no exception.     *)
GetConflicts(tx) ==
  LET Same(in, other) == in.txid # NilTxid /\ in = other
  IN  [id \in DOMAIN txs |->
         Cardinality({p \in (DOMAIN Inputs[tx]) \X (DOMAIN Inputs[txs[id]]) :
                        Same(Inputs[tx][p[1]], Inputs[txs[id]][p[2]])})]

Next == \/ \E tx \in Transaction : Add(tx)
        \/ \E id \in TxID : Remove(id)
        \/ Clear

Spec == Init /\ [][Next]_vars
-----------------------------------------------------------------------------
(* The type of the state. *)
TypeOK ==
  /\ DOMAIN txs \subseteq TxID
  /\ \A id \in DOMAIN txs : txs[id] \in Valid
  /\ DOMAIN bySender \subseteq PubKey
  /\ \A a \in DOMAIN bySender : bySender[a] \in Seq(TxID)

Pending(a) == {id \in DOMAIN txs : txs[id] \notin Coinbase /\ Sender[txs[id]] = a}

(* The index of senders is exact: under each key stand the pending         *)
(* transactions of that sender, each of them once and nothing else, after  *)
(* any sequence of additions, removals and clearings.                      *)
IndexExact ==
  /\ \A a \in PubKey : {Listed(a)[i] : i \in DOMAIN Listed(a)} = Pending(a)
  /\ \A a \in DOMAIN bySender : \A i, j \in DOMAIN bySender[a] :
       bySender[a][i] = bySender[a][j] => i = j

(* GetBySender leaves out no pending transaction of a sender and returns   *)
(* none twice: what it skips, an ID that is not in the pool, never occurs. *)
GetBySenderExact ==
  \A a \in PubKey :
    LET found == GetBySender(a)
    IN  /\ {found[i] : i \in DOMAIN found} = {txs[id] : id \in Pending(a)}
        /\ Len(found) = Cardinality(Pending(a))

(* The pool never holds more than MaxMempoolSize transactions, coinbase    *)
(* transactions and those with a taken ID counted like any other.          *)
SizeBounded == IsFiniteSet(DOMAIN txs) /\ Cardinality(DOMAIN txs) <= MaxMempoolSize

(* The inductive invariant: what IndexExact says of the two maps holds     *)
(* from step to step because every transaction is stored under its own ID, *)
(* and the limit because nothing comes in by another way than Add.         *)
Inv ==
  /\ TypeOK
  /\ \A id \in DOMAIN txs : ID[txs[id]] = id
  /\ IndexExact
  /\ SizeBounded

(* What Validate asks of the transfers in a block: no output spent twice.  *)
SpentOnce(ids) ==
  \A a, b \in ids : \A i \in DOMAIN Inputs[txs[a]], j \in DOMAIN Inputs[txs[b]] :
    Inputs[txs[a]][i] = Inputs[txs[b]][j] => a = b /\ i = j

Transfers ==
  {id \in DOMAIN txs :
     \A i \in DOMAIN Inputs[txs[id]] :
       Inputs[txs[id]][i].out # -1 /\ Inputs[txs[id]][i].txid # NilTxid}

(* GetConflicts tells which pending transfers may share a block, although  *)
(* Add lets conflicting ones in: they spend no output twice if and only if *)
(* each is in conflict with none of the others, and with itself no more    *)
(* than once per input.                                                    *)
ConflictsTellDoubleSpends ==
  \A ids \in SUBSET Transfers :
    SpentOnce(ids) <=>
      \A a, b \in ids :
        GetConflicts(txs[a])[b] = IF a = b THEN Len(Inputs[txs[a]]) ELSE 0

(* The two readers answer from both maps at once, and so they agree with   *)
(* the pool whatever was added, removed or cleared before.                 *)
ReadersExact == GetBySenderExact /\ ConflictsTellDoubleSpends

Before(ids, x, y) == \E i, j \in DOMAIN ids : i < j /\ ids[i] = x /\ ids[j] = y

(* The transactions of a sender stay in the order they came: closing the   *)
(* gap a removed one leaves never swaps two others.                        *)
ArrivalOrder ==
  [][\A a \in DOMAIN bySender \cap DOMAIN bySender' : \A x, y \in TxID :
       ~(Before(bySender[a], x, y) /\ Before(bySender'[a], y, x))]_vars
=============================================================================
