---------------------------- MODULE MCDifficulty ----------------------------
(***************************************************************************)
(* A window of two blocks two seconds apart.  The one gap in it is         *)
(* backwards, less than half the expected four seconds or just half of     *)
(* them; in the run of fast blocks a window of three has two gaps.         *)
(* Other miners claim none, which stands for the initial difficulty, or    *)
(* the largest number there is.                                            *)
(***************************************************************************)
EXTENDS Difficulty

MCGaps == {-2, 1, 2}
MCClaims == {0, 7}
SteadyGaps == {1, 2}
=============================================================================
