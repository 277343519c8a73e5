------------------------------- MODULE MCNode -------------------------------
(* An instance of Node for TLC. *)
EXTENDS Node, TLC

CONSTANTS r1, r2
TwoRequests == {r1, r2}

(* Requests are interchangeable, and only safety is checked. *)
Symmetry == Permutations(Req)
=============================================================================
