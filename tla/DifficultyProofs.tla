-------------------------- MODULE DifficultyProofs --------------------------
(***************************************************************************)
(* Proofs about Difficulty for all parameters and all intervals.           *)
(***************************************************************************)
EXTENDS Difficulty, TLAPS

\* What the rounding of CalcDifficulty gives: the least integer that is not
\* below the quotient.
LEMMA CeiledIs ==
  ASSUME NEW num \in Nat, NEW den \in Nat, den > 0
  PROVE  /\ Ceiled(num, den) \in Nat
         /\ den * Ceiled(num, den) >= num
         /\ den * Ceiled(num, den) < num + den
  <1> DEFINE a == num + den - 1
  <1>1. a \in Nat
    OBVIOUS
  <1>2. a \div den \in Nat /\ den * (a \div den) <= a /\ a < den * (a \div den) + den
    BY <1>1, Z3T(30)
  <1> QED
    BY <1>1, <1>2 DEF Ceiled

\* A quotient that is not smaller is not rounded to a smaller number.
LEMMA CeiledMonotone ==
  ASSUME NEW n1 \in Nat, NEW d1 \in Nat, d1 > 0,
         NEW n2 \in Nat, NEW d2 \in Nat, d2 > 0,
         n1 * d2 >= n2 * d1
  PROVE  Ceiled(n1, d1) >= Ceiled(n2, d2)
  <1> DEFINE c1 == Ceiled(n1, d1)
             c2 == Ceiled(n2, d2)
  <1>1. c1 \in Nat /\ d1 * c1 >= n1
    BY CeiledIs
  <1>2. c2 \in Nat /\ d2 * c2 < n2 + d2
    BY CeiledIs
  <1> HIDE DEF c1, c2
  <1>3. SUFFICES ASSUME c1 + 1 <= c2
                 PROVE  FALSE
    BY <1>1, <1>2 DEF c1, c2
  <1>4. d2 * c1 + d2 <= d2 * c2
    BY <1>1, <1>2, <1>3, Z3T(20)
  <1>5. d2 * c1 < n2
    BY <1>1, <1>2, <1>4
  <1>6. d1 * (d2 * c1) < d1 * n2
    BY <1>1, <1>5, Z3T(20)
  <1>7. d2 * (d1 * c1) >= d2 * n1
    BY <1>1, Z3T(20)
  <1>8. d1 * (d2 * c1) = d2 * (d1 * c1)
    BY <1>1, Z3T(20)
  <1> QED
    BY <1>1, <1>6, <1>7, <1>8, Z3T(20)

\* An integer that is not below the quotient is not below the rounded one.
LEMMA CeiledBelow ==
  ASSUME NEW num \in Nat, NEW den \in Nat, den > 0,
         NEW x \in Nat, num <= den * x
  PROVE  Ceiled(num, den) <= x
  <1> DEFINE c == Ceiled(num, den)
  <1>1. c \in Nat /\ den * c < num + den
    BY CeiledIs
  <1> HIDE DEF c
  <1>2. SUFFICES ASSUME x + 1 <= c
                 PROVE  FALSE
    BY <1>1 DEF c
  <1>3. den * x + den <= den * c
    BY <1>1, <1>2, Z3T(20)
  <1> QED
    BY <1>1, <1>3

\* An integer that is not above the quotient is not above the rounded one.
LEMMA CeiledAbove ==
  ASSUME NEW num \in Nat, NEW den \in Nat, den > 0,
         NEW x \in Nat, den * x <= num
  PROVE  x <= Ceiled(num, den)
  <1> DEFINE c == Ceiled(num, den)
  <1>1. c \in Nat /\ den * c >= num
    BY CeiledIs
  <1> HIDE DEF c
  <1>2. SUFFICES ASSUME c + 1 <= x
                 PROVE  FALSE
    BY <1>1 DEF c
  <1>3. den * c + den <= den * x
    BY <1>1, <1>2, Z3T(20)
  <1> QED
    BY <1>1, <1>3

----------------------------------------------------------------------------
\* The adjusted difficulty is between half and twice the one before, and not
\* above it for a late block, nor below it for an early one.
LEMMA ClampedBounds ==
  ASSUME NEW d \in Nat, d > 0, NEW t \in Nat, t > 0, NEW i \in Nat, i > 0
  PROVE  /\ Clamped(d, t, i) \in Nat
         /\ Clamped(d, t, i) > 0
         /\ Clamped(d, t, i) <= 2 * d
         /\ 2 * Clamped(d, t, i) >= d
         /\ i >= t => Clamped(d, t, i) <= d
         /\ i <= t => Clamped(d, t, i) >= d
  <1> DEFINE num == d * (t + i)
             den == 2 * i
             c   == Ceiled(num, den)
  <1>1. num \in Nat /\ den \in Nat /\ den > 0
    OBVIOUS
  <1>2. c \in Nat /\ den * c >= num
    BY <1>1, CeiledIs
  <1>3. num > d * i
    BY Z3T(20)
  <1>4. t + i <= 4 * i => num <= den * (2 * d)
    BY Z3T(20)
  <1>5. i >= t => num <= den * d
    BY Z3T(20)
  <1>6. i <= t => den * d <= num
    BY Z3T(20)
  <1>7. t + i <= 4 * i => c <= 2 * d
    BY <1>1, <1>4, CeiledBelow
  <1>8. i >= t => c <= d
    BY <1>1, <1>5, CeiledBelow
  <1>9. i <= t => c >= d
    BY <1>1, <1>6, CeiledAbove
  <1>10. i * (2 * c) > i * d
    BY <1>1, <1>2, <1>3, Z3T(20)
  <1>11. 2 * c > d
    BY <1>2, <1>10, Z3T(20)
  <1> HIDE DEF c
  <1>12. Clamped(d, t, i) = IF t + i > 4 * i THEN 2 * d ELSE c
    BY DEF Clamped, c
  <1> QED
    BY <1>2, <1>7, <1>8, <1>9, <1>11, <1>12

\* A longer interval gives no higher adjusted difficulty.
LEMMA ClampedMonotone ==
  ASSUME NEW d \in Nat, d > 0, NEW t \in Nat, t > 0,
         NEW i \in Nat, i > 0, NEW j \in Nat, i <= j
  PROVE  Clamped(d, t, i) >= Clamped(d, t, j)
  <1>1. CASE t + i > 4 * i
    <2>1. Clamped(d, t, j) <= 2 * d /\ Clamped(d, t, j) \in Nat
      BY ClampedBounds
    <2> QED
      BY <1>1, <2>1 DEF Clamped
  <1>2. CASE t + i <= 4 * i
    <2> DEFINE n1 == d * (t + i)
               n2 == d * (t + j)
    <2>1. n1 \in Nat /\ n2 \in Nat /\ 2 * i \in Nat /\ 2 * i > 0 /\ 2 * j \in Nat /\ 2 * j > 0
      OBVIOUS
    <2>2. (d * t) * i <= (d * t) * j
      <3>1. d * t \in Nat
        OBVIOUS
      <3> QED
        BY <3>1, Z3T(20)
    <2>3. n1 * (2 * j) >= n2 * (2 * i)
      BY <2>2, Z3T(20)
    <2>4. Ceiled(n1, 2 * i) >= Ceiled(n2, 2 * j)
      BY <2>1, <2>3, CeiledMonotone
    <2>5. ~(t + i > 4 * i) /\ ~(t + j > 4 * j)
      BY <1>2
    <2> QED
      BY <2>4, <2>5 DEF Clamped
  <1> QED
    BY <1>1, <1>2

----------------------------------------------------------------------------
\* The parameters of a chain, as ConsensusParams has them: any target time,
\* where no positive one stands for 60 seconds, and a minimum of 32 bits.
ParamsOK ==
  /\ MaxUint32 \in Nat /\ MaxUint32 > 0
  /\ Params \subseteq [target : Int, min : 0..MaxUint32]
  /\ Intervals \subseteq Int

\* The chain never falls below the minimum: the deadband, which keeps a
\* difficulty without a look at the minimum, relies on it.
DInv ==
  /\ params \in [target : Int, min : 0..MaxUint32]
  /\ parent \in 1..MaxUint32 /\ parent >= params.min
  /\ before \in 0..MaxUint32
  /\ DifficultyAccepted

\* What CalcDifficulty returns for a difficulty within the limits.
LEMMA CalcBounds ==
  ASSUME ParamsOK,
         params \in [target : Int, min : 0..MaxUint32],
         NEW d \in 1..MaxUint32, d >= params.min,
         NEW time \in Int
  PROVE  /\ CalcDifficulty(time, d) \in Nat
         /\ CalcDifficulty(time, d) >= 1 /\ CalcDifficulty(time, d) >= params.min
         /\ CalcDifficulty(time, d) <= 2 * d
         /\ 2 * CalcDifficulty(time, d) >= d
         /\ time >= targetTime => CalcDifficulty(time, d) <= d
         /\ time <= targetTime => CalcDifficulty(time, d) >= d
  <1> DEFINE t == targetTime
             i == AtLeast(time, 1)
             c == Clamped(d, t, i)
  <1>1. t \in Nat /\ t > 0 /\ params.min \in Nat
    BY DEF targetTime
  <1>2. i \in Nat /\ i > 0 /\ (time >= t => i >= t) /\ (time <= t => i <= t)
    BY <1>1 DEF AtLeast
  <1>3. d \in Nat /\ d > 0 /\ AtLeast(d, 1) = d
    BY DEF ParamsOK, AtLeast
  <1> HIDE DEF t, i
  <1>4. /\ c \in Nat /\ c > 0 /\ c <= 2 * d /\ 2 * c >= d
        /\ i >= t => c <= d
        /\ i <= t => c >= d
    BY <1>1, <1>2, <1>3, ClampedBounds
  <1> HIDE DEF c
  <1>5. CalcDifficulty(time, d) = IF Deadband(t, i) THEN d ELSE AtLeast(AtLeast(c, 1), params.min)
    BY <1>3 DEF CalcDifficulty, t, i, c
  <1>6. t = targetTime
    BY DEF t
  <1>7. CASE Deadband(t, i)
    BY <1>1, <1>3, <1>5, <1>7
  <1>8. CASE ~Deadband(t, i)
    BY <1>1, <1>2, <1>3, <1>4, <1>5, <1>6, <1>8 DEF AtLeast
  <1> QED
    BY <1>7, <1>8

\* A longer interval gives no higher difficulty, also across the edges of the
\* deadband.
LEMMA CalcMonotone ==
  ASSUME ParamsOK,
         params \in [target : Int, min : 0..MaxUint32],
         NEW d \in 1..MaxUint32, d >= params.min,
         NEW time \in Int, NEW later \in Int, time <= later
  PROVE  CalcDifficulty(time, d) >= CalcDifficulty(later, d)
  <1> DEFINE t == targetTime
             i == AtLeast(time, 1)
             j == AtLeast(later, 1)
             a == Clamped(d, t, i)
             b == Clamped(d, t, j)
  <1>1. t \in Nat /\ t > 0 /\ params.min \in Nat
    BY DEF targetTime
  <1>2. i \in Nat /\ i > 0 /\ j \in Nat /\ j > 0 /\ i <= j
    BY DEF AtLeast
  <1>3. d \in Nat /\ d > 0 /\ AtLeast(d, 1) = d
    BY DEF ParamsOK, AtLeast
  <1> HIDE DEF t, i, j
  <1>4. /\ a \in Nat /\ a > 0 /\ (i >= t => a <= d) /\ (i <= t => a >= d)
        /\ b \in Nat /\ b > 0 /\ (j >= t => b <= d) /\ (j <= t => b >= d)
    BY <1>1, <1>2, <1>3, ClampedBounds
  <1>5. a >= b
    BY <1>1, <1>2, <1>3, ClampedMonotone
  <1> HIDE DEF a, b
  <1>6. /\ CalcDifficulty(time, d) = IF Deadband(t, i) THEN d ELSE AtLeast(AtLeast(a, 1), params.min)
        /\ CalcDifficulty(later, d) = IF Deadband(t, j) THEN d ELSE AtLeast(AtLeast(b, 1), params.min)
    BY <1>3 DEF CalcDifficulty, t, i, j, a, b
  <1>7. CASE Deadband(t, i) /\ Deadband(t, j)
    BY <1>3, <1>6, <1>7
  <1>8. CASE ~Deadband(t, i) /\ ~Deadband(t, j)
    BY <1>1, <1>4, <1>5, <1>6, <1>8 DEF AtLeast
  <1>9. CASE Deadband(t, i) /\ ~Deadband(t, j)
    <2>1. j >= t
      BY <1>1, <1>2, <1>9 DEF Deadband
    <2> QED
      BY <1>1, <1>3, <1>4, <1>6, <1>9, <2>1 DEF AtLeast
  <1>10. CASE ~Deadband(t, i) /\ Deadband(t, j)
    <2>1. i <= t
      BY <1>1, <1>2, <1>10 DEF Deadband
    <2> QED
      BY <1>1, <1>3, <1>4, <1>6, <1>10, <2>1 DEF AtLeast
  <1> QED
    BY <1>7, <1>8, <1>9, <1>10

----------------------------------------------------------------------------
\* DInv holds of every chain (CalcNextDifficulty after CalcNextDifficulty).
LEMMA ChainInductive ==
  ASSUME ParamsOK
  PROVE  Spec => []DInv
  <1>1. Init => DInv
    BY DEF ParamsOK, Init, DInv, MinDiff, DifficultyAccepted
  <1>2. DInv /\ [Next]_vars => DInv'
    <2> SUFFICES ASSUME DInv, [Next]_vars
                 PROVE  DInv'
      OBVIOUS
    <2>1. CASE UNCHANGED vars
      BY <2>1 DEF vars, DInv, DifficultyAccepted, ValidateDifficulty
    <2>2. ASSUME NEW time \in Intervals, NextBlock(time)
          PROVE  DInv'
      <3> DEFINE d == CalcDifficulty(time, parent)
      <3>1. d \in Nat /\ d >= 1 /\ d >= params.min /\ d <= 2 * parent /\ 2 * d >= parent
        BY CalcBounds DEF DInv, ParamsOK
      <3>2. params' = params /\ before' = parent /\ parent' = IF d > MaxUint32 THEN MaxUint32 ELSE AtLeast(d, 1)
        BY <2>2 DEF NextBlock, CalcNextDifficulty
      <3> HIDE DEF d
      <3>3. /\ parent' \in 1..MaxUint32 /\ parent' >= params.min
            /\ parent' <= 2 * parent /\ 2 * parent' >= parent
        BY <3>1, <3>2 DEF DInv, ParamsOK, AtLeast
      <3>4. parent' <= (parent * 2048) \div 1000
        BY <3>3 DEF DInv, ParamsOK
      <3>5. DifficultyAccepted'
        BY <3>2, <3>3, <3>4 DEF DInv, DifficultyAccepted, ValidateDifficulty
      <3> QED
        BY <3>2, <3>3, <3>5 DEF DInv
    <2> QED
      BY <2>1, <2>2 DEF Next
  <1> QED
    BY <1>1, <1>2, PTL DEF Spec

\* Every computed difficulty is one that ValidateDifficulty accepts, at least
\* the minimum and within the factors 0.5 and 2.0 of the one before, for every
\* minimum, target time and sequence of block times (CalcDifficulty).
THEOREM ComputedAccepted ==
  ASSUME ParamsOK
  PROVE  Spec => []DifficultyAccepted
  <1>1. DInv => DifficultyAccepted
    BY DEF DInv
  <1> QED
    BY <1>1, ChainInductive, PTL

\* At every block of every chain a later next block never has the higher
\* difficulty, a late one never raises it and an early one never lowers it, in
\* spite of rounding, clamps and deadband (CalcNextDifficulty).
THEOREM DifficultyMonotone ==
  ASSUME ParamsOK
  PROVE  Spec => []LaterIsEasier
  <1>1. DInv => LaterIsEasier
    <2> SUFFICES ASSUME DInv
                 PROVE  LaterIsEasier
      OBVIOUS
    <2> USE DEF ParamsOK
    <2>1. ASSUME NEW i \in Intervals, NEW j \in Intervals, i <= j
          PROVE  CalcNextDifficulty(i, parent) >= CalcNextDifficulty(j, parent)
      <3> DEFINE a == CalcDifficulty(i, parent)
                 b == CalcDifficulty(j, parent)
      <3>1. a \in Nat /\ b \in Nat
        BY CalcBounds DEF DInv
      <3>2. a >= b
        BY <2>1, CalcMonotone DEF DInv
      <3> HIDE DEF a, b
      <3>3. /\ CalcNextDifficulty(i, parent) = IF a > MaxUint32 THEN MaxUint32 ELSE AtLeast(a, 1)
            /\ CalcNextDifficulty(j, parent) = IF b > MaxUint32 THEN MaxUint32 ELSE AtLeast(b, 1)
        BY DEF CalcNextDifficulty, a, b
      <3> QED
        BY <3>1, <3>2, <3>3 DEF AtLeast
    <2>2. ASSUME NEW i \in Intervals
          PROVE  IF i >= targetTime THEN CalcNextDifficulty(i, parent) <= parent
                 ELSE CalcNextDifficulty(i, parent) >= parent \/ parent >= MaxUint32
      <3> DEFINE a == CalcDifficulty(i, parent)
      <3>1. a \in Nat /\ (i >= targetTime => a <= parent) /\ (i <= targetTime => a >= parent)
        BY CalcBounds DEF DInv
      <3> HIDE DEF a
      <3>2. CalcNextDifficulty(i, parent) = IF a > MaxUint32 THEN MaxUint32 ELSE AtLeast(a, 1)
        BY DEF CalcNextDifficulty, a
      <3>3. targetTime \in Int
        BY DEF targetTime, DInv
      <3> QED
        BY <3>1, <3>2, <3>3 DEF AtLeast, DInv
    <2> QED
      BY <2>1, <2>2 DEF LaterIsEasier
  <1> QED
    BY <1>1, ChainInductive, PTL
=============================================================================
