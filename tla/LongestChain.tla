---------------------------- MODULE LongestChain ----------------------------
(***************************************************************************)
(* What the chain of one node promises to the code that reads it: it is    *)
(* always a valid chain, and it is only ever replaced by a strictly longer *)
(* valid one.  How it got longer (a block mined on the tip, orphans        *)
(* connected, a switch to another branch) is left to the implementation.   *)
(***************************************************************************)
EXTENDS Naturals, Sequences

CONSTANTS Valid(_),   \* Valid(c): the sequence of blocks c is a valid chain
          First       \* the one-block chain a node starts from

VARIABLE chain

Init == chain = First

(***************************************************************************)
(* The chain becomes some longer valid chain.  An implementation hands in  *)
(* the new chain, so the step is a condition on chain' rather than a       *)
(* choice from the infinite set of valid chains.                           *)
(***************************************************************************)
Advance == Len(chain') > Len(chain) /\ Valid(chain')

Spec == Init /\ [][Advance]_chain
=============================================================================
