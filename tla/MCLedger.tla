------------------------------ MODULE MCLedger ------------------------------
(***************************************************************************)
(* This node is w, z another user.  Other miners may send blocks with p,   *)
(* which spends the coinbase of height 1 and leaves a fee, c and d, which  *)
(* spend an output of p each, q, which spends what p spends, r, which      *)
(* names one output of p twice, v, whose outputs add up to more than fits, *)
(* e, without an ID, and k, which pays an empty key, and a coinbase of     *)
(* their own.                                                              *)
(***************************************************************************)
EXTENDS Ledger

CONSTANTS w, z, p, c, d, q, r, v, k, f

In(id, n) == [txid |-> id, out |-> n]
Pay(value, key) == [value |-> value, key |-> key]
Transfer(id, inputs, outputs) ==
  [id |-> id, inputs |-> inputs, outputs |-> outputs, signed |-> TRUE]

P == Transfer(p, <<In(1, 0)>>, <<Pay(2, z), Pay(1, w)>>)
C == Transfer(c, <<In(p, 0)>>, <<Pay(2, w)>>)
D == Transfer(d, <<In(p, 1)>>, <<Pay(1, z)>>)
Q == Transfer(q, <<In(1, 0)>>, <<Pay(4, z)>>)
R == Transfer(r, <<In(p, 0), In(p, 0)>>, <<Pay(3, z)>>)
V == Transfer(v, <<In(1, 0)>>, <<Pay(30, z), Pay(30, z)>>)
E == Transfer(NoTx, <<In(1, 0)>>, <<Pay(4, z)>>)
K == Transfer(k, <<In(2, 0)>>, <<Pay(1, NoKey)>>)
F == [CoinbaseTx(z, 4, 0) EXCEPT !.id = f]

MCForeignBlocks == {<<P>>, <<C>>, <<D>>, <<Q>>, <<F, P, C>>, <<F, R>>, <<R>>, <<V>>, <<E, K>>}
NoBlocks == {}
MCSize(tx) == Len(tx.inputs) + Len(tx.outputs)
MCAmounts == {1, 5}
=============================================================================
