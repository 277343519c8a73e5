------------------------------ MODULE MCCrypto ------------------------------
(***************************************************************************)
(* The algorithms that stand on their own, on all small inputs: Merkle     *)
(* trees over up to five transactions with three IDs, so that two levels   *)
(* in a row may be odd and IDs repeat; Base58 with four byte values and    *)
(* three digits, which share no power; hierarchical keys with indices of   *)
(* two bits, of which the upper one hardens, a depth that wraps at the     *)
(* third derivation from a seed, and seeds at both limits of their length  *)
(* and just beyond.  A behaviour builds up a list of transactions, a       *)
(* string of bytes or a key.                                               *)
(***************************************************************************)
EXTENDS Merkle, Base58, HD

CONSTANTS a, b, c, s15, s16, s64, s65

MCTxHash == {a, b, c}

(* A stand-in for the hash, in two bytes. *)
MCHashBytes(data) ==
  LET n == FoldLeft(LAMBDA m, d : (5 * m + d + 3) % 16, 0, data)
  IN  <<n \div 4, n % 4>>

MCSeed == {s15, s16, s64, s65}
MCSeedLen == s15 :> 15 @@ s16 :> 16 @@ s64 :> 64 @@ s65 :> 65

(* Some private keys begin with a zero byte: here those of an even number  *)
(* of derivations. *)
MCLeadsWithZero(scalar) == Cardinality(scalar) % 2 = 1

MCInit == MerkleInit /\ Base58Init /\ HDInit

MCNext ==
  \/ input = <<>> /\ ek = NoKey /\ MerkleNext /\ UNCHANGED <<input, vars>>
  \/ txHashes = <<>> /\ ek = NoKey /\ Base58Next /\ UNCHANGED <<txHashes, vars>>
  \/ txHashes = <<>> /\ input = <<>> /\ HDNext /\ UNCHANGED <<txHashes, input>>

MCSpec == MCInit /\ [][MCNext]_<<txHashes, input, vars>>
=============================================================================
