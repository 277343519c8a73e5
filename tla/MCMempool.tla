----------------------------- MODULE MCMempool -----------------------------
(***************************************************************************)
(* Sender s has three transactions and a fourth with the ID of its second, *)
(* sender z has one, a miner who also is s has a coinbase transaction; one *)
(* transaction each has a bad signature, no outputs and no ID.  x2 spends  *)
(* what x1 and x3 spend, y2 one output twice, which w1 spends too.  The    *)
(* pool is full with four.                                                 *)
(***************************************************************************)
EXTENDS Mempool

CONSTANTS x1, x2, x3, y2, w1, cb, bad, dry, new, i1, i2, i3, i4, i5, i6, s, z, A, B, NoTx

MCTransaction == {x1, x2, x3, y2, w1, cb, bad, dry, new}
MCTxID == {i1, i2, i3, i4, i5, i6, NoID}
MCID == [t \in MCTransaction |->
           CASE t = x1 -> i1 [] t \in {x2, y2} -> i2 [] t = x3 -> i3
             [] t = w1 -> i4 [] t = cb -> i5 [] t \in {bad, dry} -> i6 [] t = new -> NoID]
MCPubKey == {s, z}
MCSender == [t \in MCTransaction |-> IF t = w1 THEN z ELSE s]
In(txid, out) == [txid |-> txid, out |-> out]
MCInputs == [t \in MCTransaction |->
               CASE t = x1 -> <<In(A, 0)>> [] t = x2 -> <<In(A, 1), In(A, 0)>>
                 [] t = x3 -> <<In(A, 1)>> [] t = y2 -> <<In(B, 0), In(B, 0)>>
                 [] t = w1 -> <<In(B, 0), In(A, 2)>> [] t = cb -> <<In(NoTx, -1)>>
                 [] OTHER -> <<In(B, 1)>>]
MCValues == [t \in MCTransaction |-> IF t = dry THEN <<>> ELSE <<1, 2>>]
MCSigned == MCTransaction \ {bad, cb}
=============================================================================
