----------------------------- MODULE Difficulty -----------------------------
(***************************************************************************)
(* How difficult the next block is (core/pow.go and NewBlock in            *)
(* core/block.go): the retarget from the timestamps of the last blocks,    *)
(* and the target a proof of work is measured against.                     *)
(*                                                                         *)
(* The chain grows by blocks this node mines and by blocks of other miners *)
(* that ResolveForks connects with whatever difficulty they claim.  ratio, *)
(* a float64 quotient in the code, is compared here by multiplying out.    *)
(***************************************************************************)
EXTENDS Integers, Sequences

CONSTANTS
  AdjustmentInterval, TargetBlockTime,
  InitialDifficulty, MinDifficulty, MaxDifficulty,
  Modulus,   \* 2^32 for a uint32
  Gaps,      \* the seconds from one block's timestamp to the next one's:
             \* negative when a clock was set back or another one runs ahead
  Claims,    \* the difficulties other miners' blocks claim
  MaxLen     \* bound: the length up to which the chain grows

ASSUME DifficultyAssumption ==
  /\ AdjustmentInterval \in Nat \ {0} /\ TargetBlockTime \in Nat \ {0}
  /\ InitialDifficulty \in Nat /\ MinDifficulty \in Nat \ {0} /\ MaxDifficulty \in Nat
  /\ MinDifficulty <= InitialDifficulty /\ InitialDifficulty <= MaxDifficulty
  /\ Modulus \in Nat /\ MaxDifficulty + 1 < Modulus
  /\ Gaps \subseteq Int /\ Claims \subseteq 0..(Modulus - 1)

VARIABLE chain  \* bc.Blocks: timestamps, difficulties, and who mined a block

vars == <<chain>>

Tip == chain[Len(chain)]

Clamp(d) == IF d < MinDifficulty THEN MinDifficulty
            ELSE IF d > MaxDifficulty THEN MaxDifficulty ELSE d

expectedTime == AdjustmentInterval * TargetBlockTime

(* The window starts AdjustmentInterval - 1 blocks before the tip. *)
timeDiff == Tip.Timestamp - chain[Len(chain) - AdjustmentInterval + 1].Timestamp

(* Mutants: two are taken from a difficulty of one, which wraps; the       *)
(* window counts as many gaps as blocks.                                   *)
RetargetWraps(d) ==
  IF timeDiff < 0 \/ timeDiff > expectedTime THEN (d + 1) % Modulus
  ELSE IF 2 * timeDiff < expectedTime THEN (d - 2) % Modulus
  ELSE IF timeDiff < expectedTime /\ d >= 2 THEN d - 1
  ELSE d

RetargetByGaps(d) ==
  LET expected == (AdjustmentInterval - 1) * TargetBlockTime
  IN  IF timeDiff < 0 \/ timeDiff > expected THEN (d + 1) % Modulus
      ELSE IF 2 * timeDiff < expected THEN IF d >= 3 THEN d - 2 ELSE IF d >= 2 THEN d - 1 ELSE d
      ELSE IF timeDiff < expected /\ d >= 2 THEN d - 1 ELSE d

(* ratio = expectedTime / timeDiff against 1.0 and 2.0.                    *)
Retarget(d) ==
  IF timeDiff < 0 \/ timeDiff > expectedTime THEN (d + 1) % Modulus
  ELSE IF 2 * timeDiff < expectedTime
       THEN IF d >= 3 THEN d - 2 ELSE IF d >= 2 THEN d - 1 ELSE d
  ELSE IF timeDiff < expectedTime /\ d >= 2 THEN d - 1
  ELSE d

CurrentDifficulty ==
  IF Len(chain) < AdjustmentInterval + 1 THEN InitialDifficulty
  ELSE Clamp(Retarget(Tip.Difficulty))

(* The difficulty a proof of work has to meet; the target is 2^(256 - it). *)
NewProofOfWork(d) == Clamp(IF d = 0 THEN InitialDifficulty ELSE d)

(* What ValidateBlock accepts in a block's Difficulty field. *)
DifficultyValid(d) == d # 0 /\ d >= MinDifficulty /\ d <= MaxDifficulty

GenesisBlock ==
  [Timestamp |-> 0, Difficulty |-> Clamp(InitialDifficulty), own |-> TRUE]

Init == chain = <<GenesisBlock>>

(* A mutant: the adjustment is used as it is. *)
NewBlockUnclamped(gap) ==
  [Timestamp |-> Tip.Timestamp + gap, own |-> TRUE,
   Difficulty |-> IF Len(chain) < AdjustmentInterval + 1 THEN InitialDifficulty
                  ELSE Retarget(Tip.Difficulty)]

NewBlock(gap) ==
  [Timestamp |-> Tip.Timestamp + gap, Difficulty |-> Clamp(CurrentDifficulty), own |-> TRUE]

AddBlock(gap) == Len(chain) < MaxLen /\ chain' = Append(chain, NewBlock(gap))

ConnectOrphan(gap, d) ==
  /\ Len(chain) < MaxLen
  /\ chain' = Append(chain, [Timestamp |-> Tip.Timestamp + gap, Difficulty |-> d,
                             own |-> FALSE])

Next == \E gap \in Gaps : AddBlock(gap) \/ \E d \in Claims : ConnectOrphan(gap, d)

Spec == Init /\ [][Next]_vars
-----------------------------------------------------------------------------
Block == [Timestamp : Int, Difficulty : 0..(Modulus - 1), own : BOOLEAN]

(* The type of the state: a difficulty is a uint32, whatever is added to it. *)
TypeOK == chain \in Seq(Block) /\ chain # <<>>

(* A block this node mines, on whatever other miners' blocks, claims a     *)
(* difficulty ValidateBlock accepts, and exactly the one its own proof of  *)
(* work had to meet: the wrap of a uint32 and the special meaning of zero  *)
(* never come between the two.                                             *)
MinedClaimsItsWork ==
  \A i \in DOMAIN chain :
    chain[i].own => /\ DifficultyValid(chain[i].Difficulty)
                    /\ NewProofOfWork(chain[i].Difficulty) = chain[i].Difficulty

(* Between two blocks this node mined in a row the difficulty moves by at  *)
(* most one up and two down, however far apart the clocks put them, and    *)
(* at the start, while there is no full window, not at all.                *)
GradualRetarget ==
  \A i \in 2..Len(chain) :
    chain[i - 1].own /\ chain[i].own =>
      LET change == chain[i].Difficulty - chain[i - 1].Difficulty
      IN  change \in -2..1 /\ (i <= AdjustmentInterval => change = 0)

(* The difficulty of a block this node mined and the seconds of the window *)
(* it was mined on. *)
OnWindow == {i \in (AdjustmentInterval + 2)..Len(chain) : chain[i].own}
Window(i) == chain[i - 1].Timestamp - chain[i - AdjustmentInterval].Timestamp

(* The retarget answers the pace in one direction: over all windows of a   *)
(* chain, on tips of the same difficulty, either the slower one never gets *)
(* the easier block or it never gets the harder one, whatever the bounds   *)
(* and the steps of one and two do at the lowest difficulties.  A window   *)
(* that runs backwards counts as the slowest, and on the largest uint32    *)
(* the step up wraps to the lowest difficulty.                             *)
Slower(j, i) ==
  /\ chain[i - 1].Difficulty = chain[j - 1].Difficulty
  /\ chain[j - 1].Difficulty < Modulus - 1
  /\ 0 <= Window(i) /\ (Window(i) <= Window(j) \/ Window(j) < 0)

OneDirection ==
  \/ \A i, j \in OnWindow : Slower(j, i) => chain[i].Difficulty <= chain[j].Difficulty
  \/ \A i, j \in OnWindow : Slower(j, i) => chain[i].Difficulty >= chain[j].Difficulty

(* A window holds one gap less than blocks: where each block came just     *)
(* TargetBlockTime after the one before, the difficulty does not stay but  *)
(* falls by one, down to the lowest.                                       *)
OnPaceEases ==
  \A i \in OnWindow :
    LET d == chain[i - 1].Difficulty
    IN  /\ DifficultyValid(d)
        /\ \A k \in (i - AdjustmentInterval + 1)..(i - 1) :
             chain[k].Timestamp - chain[k - 1].Timestamp = TargetBlockTime
        => chain[i].Difficulty = IF d > MinDifficulty THEN d - 1 ELSE d
-----------------------------------------------------------------------------
(* What comments say of the retarget.                                      *)

Spaced(n, gap) ==
  Len(chain) > n /\ \A i \in (Len(chain) - n + 1)..Len(chain) :
                      chain[i].Timestamp - chain[i - 1].Timestamp = gap

Mined == Len(chain') > Len(chain) /\ chain'[Len(chain')].own

Step == chain'[Len(chain')].Difficulty - Tip.Difficulty

(* "If blocks are coming too fast, increase difficulty": when each block   *)
(* of the window came in less than the target time the next one is not     *)
(* easier.                                                                 *)
FastBlocksNotEasier ==
  [][Mined /\ (\E gap \in Gaps : gap \in 0..(TargetBlockTime - 1) /\ Spaced(AdjustmentInterval, gap))
       => Step >= 0]_vars
=============================================================================
