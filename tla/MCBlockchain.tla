---------------------------- MODULE MCBlockchain ----------------------------
(***************************************************************************)
(* A small forest of blocks for Blockchain.  This node mines a1, a2, a3    *)
(* and b2 above its genesis g; another node mined c2, c3 above a1, and h   *)
(* to h3 above a genesis of its own.  a2 and c2 hold the same transaction. *)
(* x2 has no work, y2 names the wrong height, z2 a wrong Merkle root.      *)
(***************************************************************************)
EXTENDS Blockchain

CONSTANTS g, a1, a2, a3, b2, c2, c3, h, h1, h2, h3, x2, y2, z2,
          t1, t2, t3, t4, t5

MCBlock == {g, a1, a2, a3, b2, c2, c3, h, h1, h2, h3, x2, y2, z2}

MCPrev ==
  [b \in MCBlock |->
     CASE b \in {g, h} -> NoBlock
       [] b = a1 -> g
       [] b \in {a2, b2, c2, x2, y2, z2} -> a1
       [] b = a3 -> a2
       [] b = c3 -> c2
       [] b = h1 -> h
       [] b = h2 -> h1
       [] b = h3 -> h2]

MCIndex ==
  [b \in MCBlock |-> CASE b \in {g, h} -> 0
                       [] b \in {a1, h1} -> 1
                       [] b \in {a3, c3, h3} -> 3
                       [] b = y2 -> 7
                       [] OTHER -> 2]

MCTx == {t1, t2, t3, t4, t5}

MCTxs ==
  [b \in MCBlock |-> CASE b \in {g, h} -> {}
                       [] b \in {a1, h1} -> {t1}
                       [] b \in {a2, c2, x2} -> {t2, t3}
                       [] b \in {b2, y2, z2} -> {t2}
                       [] b \in {a3, c3} -> {t4}
                       [] OTHER -> {t5}]

MCPowOK == MCBlock \ {x2}
MCForged == {z2}
MCMinable == {a1, a2, a3, b2}
MCOrphans == {a2, c2, c3, h3}
MCAlternatives == {<<h, h1, h2>>, <<g, a1, c2, c3>>}

(* What a careless caller may also offer. *)
AnyOrphans == {c2, h3, x2, y2}
AnyAlternatives == {<<h, h1, x2>>, <<a1, y2, z2>>, <<h, h1, h2, h3>>}
=============================================================================
