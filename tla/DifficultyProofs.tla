-------------------------- MODULE DifficultyProofs --------------------------
(***************************************************************************)
(* The retarget stays in bounds and moves gradually, for every interval,   *)
(* target time, bounds, width of the difficulty and sequence of clocks.    *)
(***************************************************************************)
EXTENDS Difficulty, NatSetInduction, TLAPS

(* Clamping gives a difficulty within the bounds and leaves one that is.   *)
LEMMA ClampBounds ==
  ASSUME NEW d \in Int
  PROVE  /\ Clamp(d) \in MinDifficulty..MaxDifficulty
         /\ d \in MinDifficulty..MaxDifficulty => Clamp(d) = d
  BY DifficultyAssumption DEF Clamp

(* Between the bounds ValidateBlock agrees, and a proof of work is         *)
(* measured against just that difficulty.                                  *)
LEMMA InBoundsValid ==
  ASSUME NEW d \in MinDifficulty..MaxDifficulty
  PROVE  DifficultyValid(d) /\ NewProofOfWork(d) = d
  BY DifficultyAssumption DEF DifficultyValid, NewProofOfWork, Clamp

(* An adjustment is a natural number again, and moves a difficulty within  *)
(* the bounds by at most one up and two down, also after clamping.         *)
LEMMA RetargetMoves ==
  ASSUME TypeOK, NEW d \in 0..(Modulus - 1)
  PROVE  /\ Retarget(d) \in Nat
         /\ d \in MinDifficulty..MaxDifficulty =>
              Clamp(Retarget(d)) - d \in -2..1
<1>1. (d + 1) % Modulus \in Nat
  BY DifficultyAssumption
<1>2. Retarget(d) \in Nat
  BY <1>1 DEF Retarget
<1>3. ASSUME d \in MinDifficulty..MaxDifficulty PROVE Clamp(Retarget(d)) - d \in -2..1
  <2>1. Retarget(d) \in {d + 1, d, d - 1, d - 2}
    <3>1. (d + 1) % Modulus = d + 1
      BY <1>3, DifficultyAssumption
    <3> QED BY <3>1 DEF Retarget
  <2> QED BY <1>3, <2>1, DifficultyAssumption DEF Clamp
<1> QED BY <1>2, <1>3

(* The tip is a block.                                                     *)
LEMMA TipType ==
  ASSUME TypeOK
  PROVE  /\ Tip \in Block
         /\ Tip.Timestamp \in Int /\ Tip.Difficulty \in 0..(Modulus - 1)
<1>1. Tip \in Block
  BY DEF TypeOK, Tip
<1> QED BY <1>1 DEF Block

(* The difficulty of the next block, mined on a chain with or without a    *)
(* full window.                                                            *)
LEMMA NextDifficulty ==
  ASSUME TypeOK
  PROVE  /\ Clamp(CurrentDifficulty) \in MinDifficulty..MaxDifficulty
         /\ Len(chain) < AdjustmentInterval + 1 =>
              Clamp(CurrentDifficulty) = InitialDifficulty
         /\ Tip.Difficulty \in MinDifficulty..MaxDifficulty
            /\ Len(chain) >= AdjustmentInterval + 1 =>
              Clamp(CurrentDifficulty) - Tip.Difficulty \in -2..1
<1>1. Tip.Difficulty \in 0..(Modulus - 1)
  BY TipType
<1>2. Retarget(Tip.Difficulty) \in Nat
  BY <1>1, RetargetMoves
<1>3. Clamp(Retarget(Tip.Difficulty)) \in MinDifficulty..MaxDifficulty
  BY <1>2, ClampBounds
<1>4. CASE Len(chain) < AdjustmentInterval + 1
  <2>1. CurrentDifficulty = InitialDifficulty
    BY <1>4 DEF CurrentDifficulty
  <2>2. Clamp(InitialDifficulty) = InitialDifficulty
    BY ClampBounds, DifficultyAssumption
  <2> QED BY <1>4, <2>1, <2>2, DifficultyAssumption DEF TypeOK
<1>5. CASE ~(Len(chain) < AdjustmentInterval + 1)
  <2>1. CurrentDifficulty = Clamp(Retarget(Tip.Difficulty))
    BY <1>5 DEF CurrentDifficulty
  <2>2. Clamp(CurrentDifficulty) = Clamp(Retarget(Tip.Difficulty))
    BY <2>1, <1>3, ClampBounds, DifficultyAssumption
  <2> QED BY <1>1, <1>3, <1>5, <2>2, RetargetMoves
<1> QED BY <1>4, <1>5

(***************************************************************************)
(* The inductive invariant: own blocks are within the bounds, which is     *)
(* what keeps the next adjustment small, and the first of them all have    *)
(* the initial difficulty.                                                 *)
(***************************************************************************)
Inv ==
  /\ TypeOK
  /\ \A i \in DOMAIN chain :
       chain[i].own => /\ chain[i].Difficulty \in MinDifficulty..MaxDifficulty
                       /\ i <= AdjustmentInterval + 1 =>
                            chain[i].Difficulty = InitialDifficulty
  /\ GradualRetarget

LEMMA InitInv == Init => Inv
<1> SUFFICES ASSUME Init PROVE Inv
  OBVIOUS
<1>1. Clamp(InitialDifficulty) = InitialDifficulty
  BY ClampBounds, DifficultyAssumption
<1>2. GenesisBlock \in Block
  BY <1>1, DifficultyAssumption DEF GenesisBlock, Block
<1>3. chain = <<GenesisBlock>> /\ Len(chain) = 1 /\ chain[1] = GenesisBlock
  BY DEF Init
<1>4. TypeOK
  BY <1>2, <1>3 DEF TypeOK
<1>5. GradualRetarget
  BY <1>3 DEF GradualRetarget
<1> QED BY <1>1, <1>3, <1>4, <1>5, DifficultyAssumption DEF Inv, GenesisBlock

(* Appending a block, own or not, keeps what holds of the earlier ones.    *)
LEMMA AppendInv ==
  ASSUME Inv, NEW b \in Block, chain' = Append(chain, b),
         b.own => /\ b.Difficulty \in MinDifficulty..MaxDifficulty
                  /\ Len(chain) + 1 <= AdjustmentInterval + 1 =>
                       b.Difficulty = InitialDifficulty
                  /\ Tip.own => /\ b.Difficulty - Tip.Difficulty \in -2..1
                                /\ Len(chain) + 1 <= AdjustmentInterval =>
                                     b.Difficulty = Tip.Difficulty
  PROVE  Inv'
<1>1. /\ chain' \in Seq(Block) /\ chain' # <<>> /\ Len(chain') = Len(chain) + 1
      /\ \A i \in 1..Len(chain) : chain'[i] = chain[i]
      /\ chain'[Len(chain) + 1] = b
  BY DEF Inv, TypeOK
<1>2. DOMAIN chain = 1..Len(chain) /\ DOMAIN chain' = 1..(Len(chain) + 1)
  BY <1>1 DEF Inv, TypeOK
<1>3. TypeOK'
  BY <1>1 DEF TypeOK
<1>4. ASSUME NEW i \in DOMAIN chain', chain'[i].own
      PROVE  /\ chain'[i].Difficulty \in MinDifficulty..MaxDifficulty
             /\ i <= AdjustmentInterval + 1 => chain'[i].Difficulty = InitialDifficulty
  <2>1. CASE i \in 1..Len(chain)
    BY <1>1, <1>2, <1>4, <2>1 DEF Inv
  <2>2. CASE i = Len(chain) + 1
    BY <1>1, <1>4, <2>2
  <2> QED BY <1>2, <2>1, <2>2 DEF Inv, TypeOK
<1>5. ASSUME NEW i \in 2..Len(chain'), chain'[i - 1].own, chain'[i].own
      PROVE  LET change == chain'[i].Difficulty - chain'[i - 1].Difficulty
             IN  change \in -2..1 /\ (i <= AdjustmentInterval => change = 0)
  <2>1. CASE i <= Len(chain)
    <3>1. i - 1 \in 1..Len(chain) /\ i \in 2..Len(chain)
      BY <2>1 DEF Inv, TypeOK
    <3> QED BY <1>1, <1>5, <3>1 DEF Inv, GradualRetarget
  <2>2. CASE i = Len(chain) + 1
    <3>1. chain'[i] = b /\ chain'[i - 1] = Tip
      BY <1>1, <2>2 DEF Inv, TypeOK, Tip
    <3>2. b.Difficulty \in Int /\ Tip.Difficulty \in Int
      BY TipType, DifficultyAssumption DEF Inv, Block
    <3> QED BY <1>5, <2>2, <3>1, <3>2
  <2> QED BY <1>1, <2>1, <2>2 DEF Inv, TypeOK
<1>6. GradualRetarget'
  BY <1>5 DEF GradualRetarget
<1> QED BY <1>3, <1>4, <1>6 DEF Inv

LEMMA StepInv == Inv /\ [Next]_vars => Inv'
<1> SUFFICES ASSUME Inv, [Next]_vars PROVE Inv'
  OBVIOUS
<1>1. ASSUME NEW gap \in Gaps, AddBlock(gap) PROVE Inv'
  <2>1. Clamp(CurrentDifficulty) \in 0..(Modulus - 1)
        /\ Clamp(CurrentDifficulty) \in MinDifficulty..MaxDifficulty
    BY NextDifficulty, DifficultyAssumption DEF Inv
  <2>2. Tip \in Block /\ gap \in Int
    BY DifficultyAssumption DEF Inv, TypeOK, Tip
  <2>3. NewBlock(gap) \in Block /\ NewBlock(gap).Difficulty = Clamp(CurrentDifficulty)
    BY <2>1, <2>2 DEF NewBlock, Block
  <2>4. Len(chain) + 1 <= AdjustmentInterval + 1 =>
          Clamp(CurrentDifficulty) = InitialDifficulty
    BY NextDifficulty, DifficultyAssumption DEF Inv, TypeOK
  <2>5. ASSUME Tip.own
        PROVE  /\ Clamp(CurrentDifficulty) - Tip.Difficulty \in -2..1
               /\ Len(chain) + 1 <= AdjustmentInterval =>
                    Clamp(CurrentDifficulty) = Tip.Difficulty
    <3>1. /\ Tip.Difficulty \in MinDifficulty..MaxDifficulty
          /\ Len(chain) <= AdjustmentInterval + 1 => Tip.Difficulty = InitialDifficulty
      BY <2>5 DEF Inv, TypeOK, Tip
    <3>2. CASE Len(chain) < AdjustmentInterval + 1
      BY <2>4, <3>1, <3>2, DifficultyAssumption DEF Inv, TypeOK
    <3>3. CASE Len(chain) >= AdjustmentInterval + 1
      BY <3>1, <3>3, NextDifficulty, DifficultyAssumption DEF Inv, TypeOK
    <3> QED BY <3>2, <3>3, DifficultyAssumption DEF Inv, TypeOK
  <2> QED BY <1>1, <2>1, <2>3, <2>4, <2>5, AppendInv DEF AddBlock
<1>2. ASSUME NEW gap \in Gaps, NEW d \in Claims, ConnectOrphan(gap, d) PROVE Inv'
  <2> DEFINE b == [Timestamp |-> Tip.Timestamp + gap, Difficulty |-> d, own |-> FALSE]
  <2>1. b \in Block /\ ~b.own
    BY <1>2, TipType, DifficultyAssumption DEF Inv, Block
  <2>2. chain' = Append(chain, b)
    BY <1>2 DEF ConnectOrphan
  <2> HIDE DEF b
  <2> QED BY <2>1, <2>2, AppendInv
<1>3. CASE UNCHANGED vars
  BY <1>3 DEF vars, Inv, TypeOK, GradualRetarget
<1> QED BY <1>1, <1>2, <1>3 DEF Next

(* Blocks of this node claim a difficulty within the bounds, and the       *)
(* initial one until the first window is full: the inductive invariant.    *)
THEOREM InvCorrect == Spec => []Inv
  BY InitInv, StepInv, PTL DEF Spec

(* Type correctness: timestamps are numbers and difficulties uint32s.      *)
THEOREM TypeCorrect == Spec => []TypeOK
<1>1. Inv => TypeOK
  BY DEF Inv
<1> QED BY <1>1, InvCorrect, PTL

(* Whatever other miners' blocks claim, a block this node mines claims a   *)
(* valid difficulty, and the one its proof of work had to meet.            *)
THEOREM MinedClaimsItsWorkCorrect == Spec => []MinedClaimsItsWork
<1>1. Inv => MinedClaimsItsWork
  BY InBoundsValid DEF Inv, MinedClaimsItsWork
<1> QED BY <1>1, InvCorrect, PTL

(* Two blocks mined in a row are at most one up or two down apart.         *)
THEOREM GradualRetargetCorrect == Spec => []GradualRetarget
<1>1. Inv => GradualRetarget
  BY DEF Inv
<1> QED BY <1>1, InvCorrect, PTL
-----------------------------------------------------------------------------
(***************************************************************************)
(* Which way the retarget moves.  What a block mined on a full window      *)
(* claims depends on that window and on the difficulty before alone.       *)
(***************************************************************************)
Adjusted(w, d) ==
  IF w < 0 \/ w > expectedTime THEN (d + 1) % Modulus
  ELSE IF 2 * w < expectedTime THEN IF d >= 3 THEN d - 2 ELSE IF d >= 2 THEN d - 1 ELSE d
  ELSE IF w < expectedTime /\ d >= 2 THEN d - 1
  ELSE d

WindowInv ==
  \A i \in OnWindow : chain[i].Difficulty = Clamp(Adjusted(Window(i), chain[i - 1].Difficulty))

LEMMA ExpectedTime == expectedTime \in Nat \ {0}
  BY DifficultyAssumption DEF expectedTime

(* Any block of the chain, and the difficulty of one mined on a full window. *)
LEMMA BlockType ==
  ASSUME TypeOK, NEW i \in 1..Len(chain)
  PROVE  chain[i].Timestamp \in Int /\ chain[i].Difficulty \in 0..(Modulus - 1)
<1>1. chain[i] \in Block
  BY DEF TypeOK
<1> QED BY <1>1 DEF Block

LEMMA NewBlockAdjusts ==
  ASSUME TypeOK, Len(chain) >= AdjustmentInterval + 1
  PROVE  Clamp(CurrentDifficulty) = Clamp(Adjusted(timeDiff, Tip.Difficulty))
<1>1. CurrentDifficulty = Clamp(Retarget(Tip.Difficulty))
  BY DifficultyAssumption DEF CurrentDifficulty, TypeOK
<1>2. Retarget(Tip.Difficulty) = Adjusted(timeDiff, Tip.Difficulty)
  BY DEF Retarget, Adjusted
<1>3. Retarget(Tip.Difficulty) \in Int
  BY RetargetMoves, TipType
<1> QED BY <1>1, <1>2, <1>3, ClampBounds, DifficultyAssumption

LEMMA StepWindow == TypeOK /\ WindowInv /\ [Next]_vars => WindowInv'
<1> SUFFICES ASSUME TypeOK, WindowInv, [Next]_vars PROVE WindowInv'
  OBVIOUS
<1>1. CASE UNCHANGED vars
  BY <1>1 DEF vars, WindowInv, OnWindow, Window
<1>2. ASSUME NEW b, chain' = Append(chain, b),
             b.own /\ Len(chain) >= AdjustmentInterval + 1 =>
               b.Difficulty = Clamp(Adjusted(timeDiff, Tip.Difficulty))
      PROVE  WindowInv'
  <2>1. /\ Len(chain) \in Nat /\ Len(chain') = Len(chain) + 1
        /\ \A i \in 1..Len(chain) : chain'[i] = chain[i]
        /\ chain'[Len(chain) + 1] = b
    BY <1>2 DEF TypeOK
  <2>2. SUFFICES ASSUME NEW i \in (AdjustmentInterval + 2)..Len(chain'), chain'[i].own
                 PROVE  chain'[i].Difficulty =
                          Clamp(Adjusted(chain'[i - 1].Timestamp
                                           - chain'[i - AdjustmentInterval].Timestamp,
                                         chain'[i - 1].Difficulty))
    BY DEF WindowInv, OnWindow, Window, Adjusted, Clamp
  <2>3. /\ i - 1 \in 1..Len(chain) /\ i - AdjustmentInterval \in 1..Len(chain)
        /\ chain'[i - 1] = chain[i - 1]
        /\ chain'[i - AdjustmentInterval] = chain[i - AdjustmentInterval]
    BY <2>1, DifficultyAssumption
  <2>4. CASE i \in 1..Len(chain)
    <3>1. i \in OnWindow /\ chain'[i] = chain[i]
      BY <2>1, <2>2, <2>4, DifficultyAssumption DEF OnWindow
    <3> QED BY <2>3, <3>1 DEF WindowInv, Window
  <2>5. CASE i = Len(chain) + 1
    <3>1. /\ b.own /\ chain'[i] = b /\ Len(chain) >= AdjustmentInterval + 1
          /\ i - 1 = Len(chain) /\ i - AdjustmentInterval = Len(chain) - AdjustmentInterval + 1
      BY <2>1, <2>2, <2>5, DifficultyAssumption
    <3> QED BY <1>2, <2>3, <3>1 DEF timeDiff, Tip
  <2> QED BY <2>1, <2>2, <2>4, <2>5, DifficultyAssumption
<1>3. ASSUME NEW gap \in Gaps, AddBlock(gap) PROVE WindowInv'
  BY <1>2, <1>3, NewBlockAdjusts DEF AddBlock, NewBlock
<1>4. ASSUME NEW gap \in Gaps, NEW d \in Claims, ConnectOrphan(gap, d) PROVE WindowInv'
  BY <1>2, <1>4 DEF ConnectOrphan
<1> QED BY <1>1, <1>3, <1>4 DEF Next

(* A block mined on a full window claims what CurrentDifficulty makes of   *)
(* that window and the block before it.                                    *)
THEOREM WindowCorrect == Spec => []WindowInv
<1>1. Init => WindowInv
  BY DifficultyAssumption DEF Init, WindowInv, OnWindow
<1> QED BY <1>1, StepWindow, TypeCorrect, PTL DEF Spec

LEMMA AdjustedMonotone ==
  ASSUME NEW v \in Int, NEW w \in Int, NEW d \in Nat, d < Modulus - 1,
         0 <= v, v <= w \/ w < 0
  PROVE  Clamp(Adjusted(v, d)) <= Clamp(Adjusted(w, d))
<1>1. (d + 1) % Modulus = d + 1
  BY DifficultyAssumption
<1>2. Adjusted(v, d) \in Int /\ Adjusted(w, d) \in Int /\ Adjusted(v, d) <= Adjusted(w, d)
  BY <1>1, ExpectedTime DEF Adjusted
<1> QED BY <1>2, DifficultyAssumption DEF Clamp

(***************************************************************************)
(* The retarget answers the pace in one direction, for every interval,     *)
(* target time, bounds and sequence of clocks.                             *)
(***************************************************************************)
THEOREM OneDirectionCorrect == Spec => []OneDirection
<1>1. TypeOK /\ WindowInv => OneDirection
  <2> SUFFICES ASSUME TypeOK, WindowInv, NEW i \in OnWindow, NEW j \in OnWindow,
                      Slower(j, i)
               PROVE  chain[i].Difficulty <= chain[j].Difficulty
    BY Zenon DEF OneDirection
  <2>1. /\ i - 1 \in 1..Len(chain) /\ i - AdjustmentInterval \in 1..Len(chain)
        /\ j - 1 \in 1..Len(chain) /\ j - AdjustmentInterval \in 1..Len(chain)
    BY DifficultyAssumption DEF OnWindow, TypeOK
  <2>2. Window(i) \in Int /\ Window(j) \in Int /\ chain[j - 1].Difficulty \in Nat
    <3>1. \A k \in 1..Len(chain) : chain[k].Timestamp \in Int /\ chain[k].Difficulty \in Nat
      BY BlockType, DifficultyAssumption
    <3> QED BY <2>1, <3>1 DEF Window
  <2> QED BY <2>2, AdjustedMonotone DEF WindowInv, Slower
<1> QED BY <1>1, TypeCorrect, WindowCorrect, PTL

(* Timestamps that follow each other in even steps add up. *)
LEMMA EvenSteps ==
  ASSUME NEW t, NEW first \in Nat, NEW n \in Nat, NEW step \in Int,
         \A k \in first..(first + n) : t[k] \in Int,
         \A k \in (first + 1)..(first + n) : t[k] - t[k - 1] = step
  PROVE  t[first + n] - t[first] = n * step
<1> DEFINE P(m) == m <= n => t[first + m] - t[first] = m * step
           S == {m \in Nat : P(m)}
<1>1. 0 \in S
  BY DEF S
<1>2. ASSUME NEW m \in S PROVE m + 1 \in S
  <2> SUFFICES ASSUME m + 1 <= n PROVE t[first + (m + 1)] - t[first] = (m + 1) * step
    OBVIOUS
  <2>1. t[first + m] - t[first] = m * step
    OBVIOUS
  <2>2. /\ first + (m + 1) \in (first + 1)..(first + n) /\ first + (m + 1) - 1 = first + m
        /\ first + m \in first..(first + n) /\ first \in first..(first + n)
    OBVIOUS
  <2>3. t[first + (m + 1)] - t[first + m] = step
    BY <2>2
  <2>4. t[first + (m + 1)] \in Int /\ t[first + m] \in Int /\ t[first] \in Int
    BY <2>2
  <2>5. (m + 1) * step = m * step + step
    OBVIOUS
  <2>6. m * step \in Int
    OBVIOUS
  <2> QED BY <2>1, <2>3, <2>4, <2>5, <2>6
<1> HIDE DEF S
<1>3. S = Nat
  BY <1>1, <1>2, NatSetInduction DEF S
<1>4. n \in {m \in Nat : P(m)}
  BY <1>3 DEF S
<1> HIDE DEF P
<1>5. P(n)
  BY <1>4
<1> QED BY <1>5 DEF P

(***************************************************************************)
(* Where each block comes just on time the difficulty falls by one, for    *)
(* every interval of more than one block.                                  *)
(***************************************************************************)
THEOREM OnPaceEasesCorrect ==
  ASSUME AdjustmentInterval > 1
  PROVE  Spec => []OnPaceEases
<1>1. TypeOK /\ WindowInv => OnPaceEases
  <2> SUFFICES ASSUME TypeOK, WindowInv, NEW i \in OnWindow,
                      DifficultyValid(chain[i - 1].Difficulty),
                      \A k \in (i - AdjustmentInterval + 1)..(i - 1) :
                        chain[k].Timestamp - chain[k - 1].Timestamp = TargetBlockTime
               PROVE  chain[i].Difficulty =
                        IF chain[i - 1].Difficulty > MinDifficulty
                        THEN chain[i - 1].Difficulty - 1 ELSE chain[i - 1].Difficulty
    BY DEF OnPaceEases
  <2> DEFINE A == AdjustmentInterval
             d == chain[i - 1].Difficulty
             t == [k \in 1..Len(chain) |-> chain[k].Timestamp]
  <2>1. /\ i \in Nat /\ A \in Nat /\ A >= 2 /\ i - A \in Nat /\ i - A >= 2
        /\ i \in 1..Len(chain) /\ i - 1 \in 1..Len(chain) /\ Len(chain) \in Nat
    BY DifficultyAssumption DEF OnWindow, TypeOK
  <2>2. \A k \in 1..Len(chain) : chain[k].Timestamp \in Int /\ chain[k].Difficulty \in Nat
    BY BlockType, DifficultyAssumption
  <2>3. /\ \A k \in (i - A)..((i - A) + (A - 1)) : t[k] \in Int
        /\ \A k \in ((i - A) + 1)..((i - A) + (A - 1)) : t[k] - t[k - 1] = TargetBlockTime
    BY <2>1, <2>2
  <2>4. Window(i) = t[(i - A) + (A - 1)] - t[i - A]
    BY <2>1 DEF Window
  <2> HIDE DEF t
  <2>5. Window(i) = (A - 1) * TargetBlockTime
    <3>1. A - 1 \in Nat /\ TargetBlockTime \in Int
      BY <2>1, DifficultyAssumption
    <3> DEFINE f == i - A
               n == A - 1
    <3>2. /\ f \in Nat /\ n \in Nat
          /\ \A k \in f..(f + n) : t[k] \in Int
          /\ \A k \in (f + 1)..(f + n) : t[k] - t[k - 1] = TargetBlockTime
      BY <2>1, <2>3, <3>1
    <3> HIDE DEF A, f, n
    <3>3. t[f + n] - t[f] = n * TargetBlockTime
      BY <3>1, <3>2, EvenSteps
    <3> USE DEF f, n
    <3> QED BY <2>4, <3>3
  <2>6. /\ Window(i) \in Int /\ 0 <= Window(i) /\ Window(i) < expectedTime
        /\ ~(2 * Window(i) < expectedTime)
    <3>1. PICK w \in Int : w = (A - 2) * TargetBlockTime
      BY <2>1, DifficultyAssumption
    <3>2. w >= 0 /\ (A - 1) * TargetBlockTime = w + TargetBlockTime
          /\ A * TargetBlockTime = w + 2 * TargetBlockTime
      BY <2>1, <3>1, DifficultyAssumption
    <3> QED BY <2>5, <3>1, <3>2, DifficultyAssumption DEF expectedTime
  <2>7. d \in Nat /\ d >= MinDifficulty /\ d <= MaxDifficulty /\ d # 0
    BY <2>1, <2>2 DEF DifficultyValid
  <2>8. chain[i].Difficulty = Clamp(IF d >= 2 THEN d - 1 ELSE d)
    BY <2>6, ExpectedTime DEF WindowInv, Adjusted
  <2> HIDE DEF d
  <2>9. chain[i].Difficulty = IF d > MinDifficulty THEN d - 1 ELSE d
    BY <2>7, <2>8, DifficultyAssumption DEF Clamp
  <2> QED BY <2>9 DEF d
<1> QED BY <1>1, TypeCorrect, WindowCorrect, PTL
=============================================================================
