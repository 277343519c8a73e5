------------------------------ MODULE MCServer ------------------------------
(* Instances of Server for TLC.                                            *)
EXTENDS Server, TLC

CONSTANTS r1, r2, r3
TwoRequests == {r1, r2}
ThreeRequests == {r1, r2, r3}
NoGets == {}
OneSecond == {1}
TwoSeconds == {1, 2}

(* Requests are interchangeable, and only safety is checked with this. *)
Symmetry == Permutations(Req)
=============================================================================
