----------------------------- MODULE Difficulty -----------------------------
(***************************************************************************)
(* The difficulty of a chain of blocks (nogopow/difficulty_adjustment.go,  *)
(* compatibility.go and difficultyToTarget of nogopow.go), which a miner   *)
(* computes and a node checks.                                             *)
(*                                                                         *)
(* The code computes in floating point.  For the numbers met here, whose   *)
(* fractions have small denominators, rounding up by adding 0.999999 gives *)
(* the exact ceiling, and fractions are pairs of integers.                 *)
(***************************************************************************)
EXTENDS Integers

CONSTANTS
  Params,         \* records [target, min], of ConsensusParams
  Intervals,      \* between the times of consecutive blocks, in seconds
  MaxUint32,      \* the largest difficulty of a BlockHeader
  MaxTarget       \* 2^256 - 1 in the code

VARIABLES
  params,
  parent,  \* the difficulty of the last block
  before   \* the difficulty of the one before; 0 for genesis

vars == <<params, parent, before>>

MinDiff == IF params.min > 0 THEN params.min ELSE 1

Init ==
  /\ params \in Params
  /\ parent = MinDiff /\ before = 0

----------------------------------------------------------------------------
AtLeast(x, low) == IF x < low THEN low ELSE x


\* The integer part of num / den + 0.999999.
Ceiled(num, den) == (num + den - 1) \div den

\* |target / i - 1| < 0.05
Deadband(target, i) == 20 * (IF target > i THEN target - i ELSE i - target) < i

\* difficulty * (1 + (target / i - 1) / 2), the factor clamped to [0.5, 2.0]:
\* the lower clamp is never met, since target / i is positive.
Clamped(difficulty, target, i) ==
  IF target + i > 4 * i THEN 2 * difficulty ELSE Ceiled(difficulty * (target + i), 2 * i)

targetTime == IF params.target <= 0 THEN 60 ELSE params.target

CalcDifficulty(time, parentDiff) ==
  LET i          == AtLeast(time, 1)
      difficulty == AtLeast(parentDiff, 1) IN
    IF Deadband(targetTime, i) THEN difficulty
    ELSE AtLeast(AtLeast(Clamped(difficulty, targetTime, i), 1), params.min)

\* The difficulty of a BlockHeader, of 32 bits.
CalcNextDifficulty(time, parentDiff) ==
  LET d == CalcDifficulty(time, parentDiff) IN
    IF d > MaxUint32 THEN MaxUint32 ELSE AtLeast(d, 1)

\* The loose check of sealed blocks.
ValidateDifficulty(difficulty, parentDiff) ==
  /\ difficulty > 0
  /\ difficulty >= params.min
  /\ parentDiff > 0 => difficulty <= (parentDiff * 2048) \div 1000

difficultyToTarget(difficulty) == IF difficulty <= 0 THEN MaxTarget ELSE MaxTarget \div difficulty

checkPow(hash, difficulty) == hash <= difficultyToTarget(difficulty)

----------------------------------------------------------------------------
NextBlock(time) ==
  /\ parent' = CalcNextDifficulty(time, parent)
  /\ before' = parent
  /\ UNCHANGED params

Next == \E time \in Intervals : NextBlock(time)

Spec == Init /\ [][Next]_vars

----------------------------------------------------------------------------
\* However fast or slow blocks come, and with whatever rounding, a computed
\* difficulty is one that ValidateDifficulty accepts, is at least the minimum,
\* and is within the factors 0.5 and 2.0 of the one before unless 32 bits end
\* (CalcDifficulty, CalcNextDifficulty).
DifficultyAccepted ==
  before # 0 =>
    /\ ValidateDifficulty(parent, before)
    /\ 2 * parent >= before
    /\ parent <= 2 * before

\* A block that comes later never has the higher difficulty, and a block that
\* is late never raises it nor an early one lowers it: rounding and the
\* deadband leave no step in the wrong direction.
LaterIsEasier ==
  /\ \A i, j \in Intervals : i <= j => CalcNextDifficulty(i, parent) >= CalcNextDifficulty(j, parent)
  /\ \A i \in Intervals : IF i >= targetTime THEN CalcNextDifficulty(i, parent) <= parent
                          ELSE CalcNextDifficulty(i, parent) >= parent \/ parent >= MaxUint32

\* A hash that is enough for a difficulty is enough for every lower one, and
\* a share of at most 1 in difficulty of all hashes is (difficultyToTarget).
TargetsFollow ==
  /\ difficultyToTarget(parent) * parent <= MaxTarget
  /\ before # 0 /\ before <= parent =>
       \A hash \in 0..MaxTarget : checkPow(hash, parent) => checkPow(hash, before)
============================================================================
