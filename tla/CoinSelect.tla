----------------------------- MODULE CoinSelect -----------------------------
(***************************************************************************)
(* The selection of coins to spend (nogoutil/coinset/coins.go).  A wallet  *)
(* receives coins and asks one of the four selectors for coins that pay an *)
(* amount.                                                                 *)
(*                                                                         *)
(* A coin is [value, confs].  Sorting is stable, as that of the library is *)
(* for so few coins.                                                       *)
(***************************************************************************)
EXTENDS Integers, Sequences, FiniteSets, SequencesExt, TLC

CONSTANTS
  Values, Confs,  \* of the coins received
  MaxCoins,       \* bound
  Targets,
  Selectors       \* [kind, MaxInputs, MinChangeAmount, MinAvgValueAgePerInput]

VARIABLES
  coins,  \* of the wallet, in the order they came
  last    \* the selection made last, with what was asked for

vars == <<coins, last>>

NoSelection == [selected |-> FALSE, coins |-> << >>]
Selection(cs) == [selected |-> TRUE, coins |-> cs]

ValueAge(c) == c.confs * c.value

TotalValue(cs) == FoldSeq(LAMBDA c, t : t + c.value, 0, cs)
TotalValueAge(cs) == FoldSeq(LAMBDA c, t : t + ValueAge(c), 0, cs)

PushCoin(cs, c) == Append(cs, c)

\* Division of the language: towards zero.
Quotient(a, b) == IF a < 0 THEN -((-a) \div b) ELSE a \div b

satisfiesTargetValue(target, minChange, total) == total = target \/ total >= target + minChange

StableSort(cs, key(_)) ==
  LET order == SortSeq([i \in DOMAIN cs |-> i],
                       LAMBDA i, j : key(cs[i]) < key(cs[j]) \/ (key(cs[i]) = key(cs[j]) /\ i < j))
  IN  [i \in DOMAIN cs |-> cs[order[i]]]
byValueAge(cs) == StableSort(cs, ValueAge)
ReverseByValueAge(cs) == StableSort(cs, LAMBDA c : -ValueAge(c))
\* The mistake of sorting in ascending order.
ByAmount(cs) == StableSort(cs, LAMBDA c : c.value)
ReverseByAmount(cs) == StableSort(cs, LAMBDA c : -c.value)

-----------------------------------------------------------------------------
MinIndex(s, target, cs) ==
  LET enough == {n \in 1 .. Len(cs) : /\ n <= s.MaxInputs
                                      /\ satisfiesTargetValue(target, s.MinChangeAmount, TotalValue(SubSeq(cs, 1, n)))}
  IN  IF enough = {} THEN NoSelection
      ELSE Selection(SubSeq(cs, 1, CHOOSE n \in enough : \A k \in enough : n <= k))

MinNumber(s, target, cs) == MinIndex(s, target, ReverseByAmount(cs))

MaxValueAge(s, target, cs) == MinIndex(s, target, ReverseByValueAge(cs))

\* Low coins, the lowest first, are added to a selection as long as the
\* average allows it.
RECURSIVE Lowered(_, _, _)
Lowered(s, cs, low) ==
  IF low = << >> \/ Len(cs) >= s.MaxInputs THEN cs
  ELSE LET more == PushCoin(cs, Head(low))
           keep == /\ ValueAge(Head(low)) # 0
                   /\ Quotient(TotalValueAge(more), Len(more)) >= s.MinAvgValueAgePerInput
       IN  Lowered(s, IF keep THEN more ELSE cs, Tail(low))

\* high and low are the coins of enough value-age and the others; i is the
\* number of high ones that are tried.  numLow low ones are tried with all of
\* these.
RECURSIVE MinPriority(_, _, _), TryHigh(_, _, _, _, _), TryLow(_, _, _, _, _)
MinPriority(s, target, cs) ==
  LET possible == byValueAge(cs)
      low  == SelectSeq(possible, LAMBDA c : ValueAge(c) < s.MinAvgValueAgePerInput)
      high == SelectSeq(possible, LAMBDA c : ValueAge(c) >= s.MinAvgValueAgePerInput)
  IN  TryHigh(s, target, low, high, 1)

TryHigh(s, target, low, high, i) ==
  IF i > Len(high) THEN NoSelection
  ELSE LET some       == SubSeq(high, 1, i)
           highSelect == MinNumber(s, target, some)
           mixed      == TryLow(s, target, low, some, 1)
       IN  IF highSelect.selected THEN Selection(Lowered(s, highSelect.coins, low))
           ELSE IF mixed.selected THEN mixed
           ELSE TryHigh(s, target, low, high, i + 1)

\* As in the code, one input too many is allowed for: all of some and numLow.
TryLow(s, target, low, some, numLow) ==
  IF numLow > Len(low) \/ numLow + Len(some) - 1 > s.MaxInputs THEN NoSelection
  ELSE LET all == Len(some) + numLow
           t   == [s EXCEPT !.MaxInputs = numLow,
                            !.MinAvgValueAgePerInput =
                                Quotient(s.MinAvgValueAgePerInput * all - TotalValueAge(some), numLow)]
           lowSelect == MinPriority(t, target - TotalValue(some), low)
       IN  IF lowSelect.selected THEN Selection(some \o lowSelect.coins)
           ELSE TryLow(s, target, low, some, numLow + 1)

CoinSelectBy(s, target, cs) ==
  CASE s.kind = "MinIndex" -> MinIndex(s, target, cs)
    [] s.kind = "MinNumber" -> MinNumber(s, target, cs)
    [] s.kind = "MaxValueAge" -> MaxValueAge(s, target, cs)
    [] s.kind = "MinPriority" -> MinPriority(s, target, cs)

-----------------------------------------------------------------------------
NoCall == [by |-> << >>, target |-> 0, result |-> NoSelection]

Init == coins = << >> /\ last = NoCall

Receive(value, confs) ==
  /\ Len(coins) < MaxCoins
  /\ coins' = PushCoin(coins, [value |-> value, confs |-> confs])
  /\ last' = NoCall

CoinSelect(s, target) ==
  /\ last = NoCall
  /\ last' = [by |-> s, target |-> target, result |-> CoinSelectBy(s, target, coins)]
  /\ UNCHANGED coins

Next == \/ \E v \in Values, n \in Confs : Receive(v, n)
        \/ \E s \in Selectors, t \in Targets : CoinSelect(s, t)

Spec == Init /\ [][Next]_vars

-----------------------------------------------------------------------------
Chosen(I) == SelectSeq([i \in DOMAIN coins |-> IF i \in I THEN coins[i] ELSE << >>], LAMBDA c : c # << >>)
Count(c, cs) == Cardinality({i \in DOMAIN cs : cs[i] = c})

\* Whatever a selector returns are coins of the wallet, none twice, and a first
\* part of them pays the target with no change or enough; the three that take
\* coins in order return no more than that, and no more than MaxInputs (CoinSelect,
\* satisfiesTargetValue).
Pays ==
  LET cs == last.result.coins
      satisfied(n) == satisfiesTargetValue(last.target, last.by.MinChangeAmount, TotalValue(SubSeq(cs, 1, n)))
  IN  last.result.selected =>
        /\ \A i \in DOMAIN cs : Count(cs[i], cs) <= Count(cs[i], coins)
        /\ \E n \in DOMAIN cs : satisfied(n)
        /\ last.by.kind # "MinPriority" => satisfied(Len(cs)) /\ Len(cs) <= last.by.MaxInputs

\* MinNumberCoinSelector finds a selection whenever some coins pay the target
\* and the change, and none of fewer coins does; no coins of the same number are
\* older than those of MaxValueAgeCoinSelector.
SelectsBest ==
  \A I \in SUBSET DOMAIN coins :
    /\ /\ last # NoCall /\ last.by.kind = "MinNumber"
       /\ I # {} /\ Cardinality(I) <= last.by.MaxInputs
       /\ TotalValue(Chosen(I)) >= last.target + last.by.MinChangeAmount
       => last.result.selected /\ Len(last.result.coins) <= Cardinality(I)
    /\ /\ last.result.selected /\ last.by.kind = "MaxValueAge"
       /\ Cardinality(I) = Len(last.result.coins)
       => TotalValueAge(Chosen(I)) <= TotalValueAge(last.result.coins)
=============================================================================
