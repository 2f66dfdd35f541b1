--------------------------- MODULE SnapshotsProofs ---------------------------
(***************************************************************************)
(* Theorems about Snapshots, for any owners, positions and bins.          *)
(*                                                                         *)
(* FeesAsOwed never looks into what a mark sums over the bins: that two    *)
(* sums agree follows from what they are sums of.  NavComplete does: it    *)
(* compares the sum over the positions of an owner with its value before   *)
(* and after, while trades go on between any two reads.                    *)
(***************************************************************************)
EXTENDS Snapshots, Sums

(* The few types that the argument needs.                                  *)
Typed ==
  /\ liquidity = [p \in Positions |-> liquidity[p]]
  /\ last = [p \in Positions |-> last[p]]
  /\ open \subseteq Positions
  /\ todo \subseteq Positions
  /\ stage = "reads" => current \in Positions
  /\ stage # "reads" => insides = None /\ infos = None

(* As long as nobody touches the position, what was read of it stays true, *)
(* and what it was owed is what the growth that was read makes of it.      *)
Answers ==
  ~touched =>
    /\ infos # None => infos = [liquidity |-> liquidity[current], last |-> last[current]]
    /\ insides # None => owed = Unclaimed(liquidity[current], insides, last[current], bins)

RowsRight == \A r \in stmts \cup snapshots : ~r.touched => r.fees = r.owed

IInv == Typed /\ Answers /\ RowsRight

LEMMA InitIInv == Init => IInv
  BY DEF Init, IInv, Typed, Answers, RowsRight

LEMMA VerbIInv ==
  ASSUME IInv, NEW p \in Positions, NEW new \in [Bins -> 0 .. MaxLiquidity], Verb(p, new)
  PROVE  IInv'
  <1>1. /\ \A q \in Positions \ {p} : liquidity'[q] = liquidity[q] /\ last'[q] = last[q]
        /\ liquidity' = [q \in Positions |-> liquidity'[q]]
        /\ last' = [q \in Positions |-> last'[q]]
    BY DEF IInv, Typed, Verb
  <1>2. /\ UNCHANGED <<open, todo, stage, current, insides, infos, owed, bins, stmts, snapshots>>
        /\ touched' = (touched \/ (p = current /\ (insides # None \/ infos # None)))
    BY DEF Verb, d1, pass
  <1>3. Typed'
    BY <1>1, <1>2 DEF IInv, Typed
  <1>4. Answers'
    <2> SUFFICES ASSUME ~touched', insides # None \/ infos # None PROVE Answers'
      BY <1>2 DEF Answers
    <2>1. ~touched /\ p # current
      BY <1>2
    <2>2. current \in Positions
      BY DEF IInv, Typed
    <2>3. liquidity'[current] = liquidity[current] /\ last'[current] = last[current]
      BY <1>1, <2>1, <2>2
    <2> QED
      BY <1>2, <2>1, <2>3 DEF IInv, Answers
  <1>5. RowsRight'
    BY <1>2 DEF IInv, RowsRight
  <1> QED
    BY <1>3, <1>4, <1>5 DEF IInv

LEMMA ReadIInv ==
  ASSUME IInv, ReadInside \/ ReadInfos
  PROVE  IInv'
  <1>1. CASE ReadInside
    <2>1. /\ owed' = Unclaimed(liquidity[current], inside[current], last[current], bins)
          /\ insides' = inside[current]
          /\ UNCHANGED <<liquidity, last, open, todo, stage, current, infos, touched, bins, stmts,
                         snapshots>>
          /\ stage = "reads"
      BY <1>1 DEF ReadInside, Owed, chain, d1, pass
    <2> QED
      BY <2>1 DEF IInv, Typed, Answers, RowsRight
  <1>2. CASE ReadInfos
    <2>1. /\ infos' = [liquidity |-> liquidity[current], last |-> last[current]]
          /\ UNCHANGED <<liquidity, last, open, todo, stage, current, insides, owed, touched, bins,
                         stmts, snapshots>>
          /\ stage = "reads"
      BY <1>2 DEF ReadInfos, chain, d1, pass
    <2> QED
      BY <2>1 DEF IInv, Typed, Answers, RowsRight
  <1> QED
    BY <1>1, <1>2

LEMMA MarkIInv ==
  ASSUME IInv, Mark
  PROVE  IInv'
  <1> DEFINE fees == Unclaimed(infos.liquidity, insides, infos.last, bins)
             row == [position |-> current, amount |-> Amount(infos.liquidity, bins), fees |-> fees,
                     owed |-> owed, accrued |-> accrued[current], touched |-> touched]
  <1>1. /\ insides # None /\ infos # None /\ stage' = "next"
        /\ stmts' = stmts \cup {row}
        /\ insides' = None /\ infos' = None
        /\ UNCHANGED <<liquidity, last, open, todo, snapshots>>
    BY DEF Mark, MarkingEnds, chain, d1
  <1>2. ~touched => fees = owed
    <2> SUFFICES ASSUME ~touched PROVE fees = owed
      OBVIOUS
    <2>1. infos = [liquidity |-> liquidity[current], last |-> last[current]]
      BY <1>1 DEF IInv, Answers
    <2>2. infos.liquidity = liquidity[current] /\ infos.last = last[current]
      BY <2>1
    <2>3. owed = Unclaimed(liquidity[current], insides, last[current], bins)
      BY <1>1 DEF IInv, Answers
    <2> QED
      BY <2>2, <2>3
  <1> HIDE DEF fees
  <1>3. row.touched = touched /\ row.fees = fees /\ row.owed = owed
    OBVIOUS
  <1> HIDE DEF row
  <1>4. RowsRight'
    BY <1>1, <1>2, <1>3 DEF IInv, RowsRight
  <1>5. Typed' /\ Answers'
    BY <1>1 DEF IInv, Typed, Answers
  <1> QED
    BY <1>4, <1>5 DEF IInv

LEMMA NextIInv == IInv /\ [Next]_vars => IInv'
  <1> SUFFICES ASSUME IInv, [Next]_vars PROVE IInv'
    OBVIOUS
  <1> USE DEF chain, d1, marking, pass
  <1>1. CASE \E p \in Positions, b \in Bins : Trade(p, b)
    BY <1>1 DEF IInv, Typed, Answers, RowsRight, Trade
  <1>2. CASE \E p \in Positions, new \in [Bins -> 0 .. MaxLiquidity] : Verb(p, new)
    BY <1>2, VerbIInv
  <1>3. CASE \E p \in Positions : Index(p)
    BY <1>3 DEF IInv, Typed, Answers, RowsRight, Index
  <1>4. CASE \E p \in Positions : SkipUnreadable(p)
    BY <1>4 DEF IInv, Typed, Answers, RowsRight, SkipUnreadable
  <1>5. CASE \E p \in Positions : ReadBins(p)
    BY <1>5 DEF IInv, Typed, Answers, RowsRight, ReadBins
  <1>6. CASE Begin
    BY <1>6 DEF IInv, Typed, Answers, RowsRight, Begin
  <1>7. CASE \E bad \in SUBSET todo : \E pinned \in SUBSET (todo \ bad) : ReadPools(bad, pinned)
    BY <1>7 DEF IInv, Typed, Answers, RowsRight, ReadPools
  <1>8. CASE ReadInside \/ ReadInfos
    BY <1>8, ReadIInv
  <1>9. CASE SkipMark
    BY <1>9 DEF IInv, Typed, Answers, RowsRight, SkipMark, MarkingEnds
  <1>10. CASE Mark
    BY <1>10, MarkIInv
  <1>11. CASE Batch
    BY <1>11 DEF IInv, Typed, Answers, RowsRight, Batch, PassEnds
  <1>12. CASE \E missing \in SUBSET Owners : ReadLegs(missing)
    BY <1>12 DEF IInv, Typed, Answers, RowsRight, ReadLegs
  <1>13. CASE WriteNavs
    BY <1>13 DEF IInv, Typed, Answers, RowsRight, WriteNavs, PassEnds
  <1>14. CASE Die
    BY <1>14 DEF IInv, Typed, Answers, RowsRight, Die, PassEnds, MarkingEnds
  <1>15. CASE UNCHANGED vars
    BY <1>15 DEF IInv, Typed, Answers, RowsRight, vars
  <1> QED
    BY <1>1, <1>2, <1>3, <1>4, <1>5, <1>6, <1>7, <1>8, <1>9, <1>10, <1>11, <1>12, <1>13, <1>14,
       <1>15 DEF Next, Chain

(* What was read of an untouched position stays true through every step.   *)
THEOREM Invariance == Spec => []IInv
  BY InitIInv, NextIInv, PTL DEF Spec

(* The fees of a snapshot are those its position was owed.                 *)
THEOREM FeesAsOwedSafe == Spec => []FeesAsOwed
  <1>1. IInv => FeesAsOwed
    BY DEF IInv, RowsRight, FeesAsOwed
  <1> QED
    BY <1>1, Invariance, PTL
-----------------------------------------------------------------------------
(* The arithmetic of a mark.                                               *)

(* A difference of growths is the way from the one to the other.           *)
LEMMA Differences ==
  ASSUME NEW a \in Growth, NEW b \in Growth
  PROVE  (a - b) % Wrap = IF a >= b THEN a - b ELSE a - b + Wrap
<1>1. Wrap \in Nat \ {0}
  BY ConstantsAssumption
<1>2. a \in Int /\ b \in Int /\ 0 <= a /\ a < Wrap /\ 0 <= b /\ b < Wrap
  BY <1>1 DEF Growth
<1>3. CASE a >= b
  BY <1>1, <1>2, <1>3
<1>4. CASE a < b
  BY <1>1, <1>2, <1>4
<1> QED
  BY <1>2, <1>3, <1>4

(* The next trade is one more, across the wraparound.                      *)
LEMMA GrowsByOne ==
  ASSUME NEW a \in Growth, NEW b \in Growth, (a - b) % Wrap < Wrap - 1
  PROVE  /\ (a + 1) % Wrap \in Growth
         /\ (((a + 1) % Wrap) - b) % Wrap = ((a - b) % Wrap) + 1
<1>1. Wrap \in Nat \ {0}
  BY ConstantsAssumption
<1>2. a \in Int /\ b \in Int /\ 0 <= a /\ a < Wrap /\ 0 <= b /\ b < Wrap
  BY <1>1 DEF Growth
<1>3. (a + 1) % Wrap = IF a = Wrap - 1 THEN 0 ELSE a + 1
  <2>1. CASE a = Wrap - 1
    BY <1>1, <2>1
  <2>2. CASE a # Wrap - 1
    BY <1>1, <1>2, <2>2
  <2> QED
    BY <2>1, <2>2
<1>4. (a + 1) % Wrap \in Growth
  BY <1>1, <1>2, <1>3 DEF Growth
<1>5. (a - b) % Wrap = IF a >= b THEN a - b ELSE a - b + Wrap
  BY Differences
<1>6. (((a + 1) % Wrap) - b) % Wrap =
        IF (a + 1) % Wrap >= b THEN ((a + 1) % Wrap) - b ELSE ((a + 1) % Wrap) - b + Wrap
  BY <1>4, Differences
<1> DEFINE c == (a + 1) % Wrap
           d == (a - b) % Wrap
           e == (c - b) % Wrap
<1>7. /\ c = IF a = Wrap - 1 THEN 0 ELSE a + 1
      /\ d = IF a >= b THEN a - b ELSE a - b + Wrap
      /\ e = IF c >= b THEN c - b ELSE c - b + Wrap
      /\ d < Wrap - 1
  BY <1>3, <1>5, <1>6
<1> HIDE DEF c, d, e
<1>8. e = d + 1
  BY <1>1, <1>2, <1>7
<1> QED
  BY <1>4, <1>8 DEF c, d, e

(* Products of naturals, and so what is kept of fees, grow with both.      *)
LEMMA Product ==
  ASSUME NEW a \in Nat, NEW b \in Nat, NEW c \in Nat, NEW d \in Nat, a <= b, c <= d
  PROVE  a * c \in Nat /\ b * d \in Nat /\ a * c <= b * d
<1>1. PICK m \in Nat : b = a + m
  <2>1. b - a \in Nat /\ b = a + (b - a)
    OBVIOUS
  <2> QED
    BY <2>1
<1>2. PICK n \in Nat : d = c + n
  <2>1. d - c \in Nat /\ d = c + (d - c)
    OBVIOUS
  <2> QED
    BY <2>1
<1>3. /\ a * c \in Nat /\ a * n \in Nat /\ m * c \in Nat /\ m * n \in Nat
  OBVIOUS
<1>4. (a + m) * (c + n) = a * c + a * n + m * c + m * n
  OBVIOUS
<1> QED
  BY <1>1, <1>2, <1>3, <1>4

LEMMA KeptGrows ==
  ASSUME NEW f \in Nat, NEW g \in Nat, NEW p \in Nat, NEW q \in Nat, f <= g, p <= q
  PROVE  Kept(f, p) \in Nat /\ Kept(g, q) \in Nat /\ Kept(f, p) <= Kept(g, q)
<1> DEFINE a == f * p
           b == g * q
<1>1. a \in Nat /\ b \in Nat /\ a <= b
  BY Product
<1> HIDE DEF a, b
<1>2. a \div 100 \in Nat /\ b \div 100 \in Nat /\ a \div 100 <= b \div 100
  BY <1>1
<1> QED
  BY <1>2 DEF Kept, a, b

-----------------------------------------------------------------------------
(* What is counted.                                                        *)

(* Liquidity and fees, summed over bins, are numbers.                      *)
LEMMA CountNat ==
  ASSUME NEW l \in [Bins -> 0 .. MaxLiquidity], NEW now \in [Bins -> Growth],
         NEW then \in [Bins -> Growth], NEW S \in SUBSET Bins
  PROVE  /\ Amount(l, S) \in Nat /\ Unclaimed(l, now, then, S) \in Nat
         /\ Integral(l, S)
         /\ Integral([b \in S |-> ((now[b] - then[b]) % Wrap) * l[b]], S)
<1> DEFINE f == [b \in S |-> ((now[b] - then[b]) % Wrap) * l[b]]
<1>1. IsFiniteSet(S)
  BY ConstantsAssumption, FS_Subset
<1>2. \A b \in S : l[b] \in Nat
  BY ConstantsAssumption
<1>3. ASSUME NEW b \in S PROVE f[b] \in Nat
  <2>1. (now[b] - then[b]) % Wrap \in Nat
    <3>1. now[b] \in Growth /\ then[b] \in Growth
      OBVIOUS
    <3>2. (now[b] - then[b]) % Wrap =
            IF now[b] >= then[b] THEN now[b] - then[b] ELSE now[b] - then[b] + Wrap
      BY <3>1, Differences
    <3> QED
      BY <3>1, <3>2, ConstantsAssumption DEF Growth
  <2> DEFINE d == (now[b] - then[b]) % Wrap
  <2>2. d * l[b] \in Nat
    <3> HIDE DEF d
    <3>1. d \in Nat
      BY <2>1 DEF d
    <3> QED
      BY <1>2, <3>1, Product
  <2> QED
    BY <2>2
<1>4. DOMAIN f = S
  OBVIOUS
<1> HIDE DEF f
<1>5. SumFunctionOnSet(f, S) \in Nat /\ Integral(f, S)
  BY <1>1, <1>3, SumNat DEF Integral
<1>6. SumFunctionOnSet(l, S) \in Nat /\ Integral(l, S)
  BY <1>1, <1>2, SumNat DEF Integral
<1> QED
  BY <1>4, <1>5, <1>6 DEF Amount, Unclaimed, SumFunction, f

(* Bins without liquidity add nothing.                                     *)
LEMMA CountRest ==
  ASSUME NEW l \in [Bins -> 0 .. MaxLiquidity], NEW now \in [Bins -> Growth],
         NEW then \in [Bins -> Growth], NEW S \in SUBSET Bins,
         \A b \in Bins : l[b] > 0 => b \in S
  PROVE  Amount(l, S) = Amount(l, Bins) /\ Unclaimed(l, now, then, S) = Unclaimed(l, now, then, Bins)
<1> DEFINE f(T) == [b \in T |-> ((now[b] - then[b]) % Wrap) * l[b]]
           g == f(Bins)
           h == f(S)
<1>1. Integral(l, Bins) /\ Integral(g, Bins) /\ Integral(h, S)
  BY CountNat
<1>2. ASSUME NEW b \in Bins \ S PROVE l[b] = 0
  BY ConstantsAssumption
<1>3. ASSUME NEW b \in Bins \ S PROVE g[b] = 0
  <2>1. (now[b] - then[b]) % Wrap \in Int
    <3>1. now[b] \in Int /\ then[b] \in Int /\ Wrap \in Nat \ {0}
      BY ConstantsAssumption DEF Growth
    <3> QED
      BY <3>1
  <2> DEFINE d == (now[b] - then[b]) % Wrap
  <2>2. d * 0 = 0
    <3> HIDE DEF d
    <3> QED
      BY <2>1 DEF d
  <2> QED
    BY <1>2, <2>2
<1>4. \A b \in S : g[b] = h[b]
  OBVIOUS
<1>5. DOMAIN g = Bins /\ DOMAIN h = S
  OBVIOUS
<1> HIDE DEF g, h
<1>6. SumFunctionOnSet(l, Bins) = SumFunctionOnSet(l, S)
  BY <1>1, <1>2, SumRest
<1>7. SumFunctionOnSet(g, Bins) = SumFunctionOnSet(g, S)
  BY <1>1, <1>3, SumRest
<1>8. SumFunctionOnSet(g, S) = SumFunctionOnSet(h, S)
  <2>1. Integral(g, S)
    BY <1>1, <1>4 DEF Integral
  <2> QED
    BY <1>4, <2>1, SumSame
<1> QED
  BY <1>5, <1>6, <1>7, <1>8 DEF Amount, Unclaimed, SumFunction, g, h

(* More growth is more fees.                                               *)
LEMMA CountGrows ==
  ASSUME NEW l \in [Bins -> 0 .. MaxLiquidity], NEW now \in [Bins -> Growth],
         NEW soon \in [Bins -> Growth], NEW then \in [Bins -> Growth],
         \A b \in Bins : (now[b] - then[b]) % Wrap <= (soon[b] - then[b]) % Wrap
  PROVE  Unclaimed(l, now, then, Bins) <= Unclaimed(l, soon, then, Bins)
<1> DEFINE g == [b \in Bins |-> ((now[b] - then[b]) % Wrap) * l[b]]
           h == [b \in Bins |-> ((soon[b] - then[b]) % Wrap) * l[b]]
<1>1. Integral(g, Bins) /\ Integral(h, Bins)
  BY CountNat
<1>2. ASSUME NEW b \in Bins PROVE g[b] <= h[b]
  <2> DEFINE c == (now[b] - then[b]) % Wrap
             d == (soon[b] - then[b]) % Wrap
  <2>1. c \in Nat /\ d \in Nat /\ c <= d
    <3>1. now[b] \in Growth /\ then[b] \in Growth /\ soon[b] \in Growth
      OBVIOUS
    <3>2. /\ c = IF now[b] >= then[b] THEN now[b] - then[b] ELSE now[b] - then[b] + Wrap
          /\ d = IF soon[b] >= then[b] THEN soon[b] - then[b] ELSE soon[b] - then[b] + Wrap
      BY <3>1, Differences
    <3>3. c <= d
      OBVIOUS
    <3> HIDE DEF c, d
    <3> QED
      BY <3>1, <3>2, <3>3, ConstantsAssumption DEF Growth
  <2>2. l[b] \in Nat
    BY ConstantsAssumption
  <2>3. g[b] = c * l[b] /\ h[b] = d * l[b]
    OBVIOUS
  <2> HIDE DEF c, d, g, h
  <2>4. l[b] <= l[b]
    BY <2>2
  <2> QED
    BY <2>1, <2>2, <2>3, <2>4, Product
<1>3. DOMAIN g = Bins /\ DOMAIN h = Bins
  OBVIOUS
<1> HIDE DEF g, h
<1>4. SumFunctionOnSet(g, Bins) <= SumFunctionOnSet(h, Bins)
  BY <1>1, <1>2, SumAtMost
<1> QED
  BY <1>3, <1>4 DEF Unclaimed, SumFunction, g, h

(* An empty position is worth nothing.                                     *)
LEMMA CountZero ==
  ASSUME NEW l \in [Bins -> 0 .. MaxLiquidity], NEW now \in [Bins -> Growth],
         NEW then \in [Bins -> Growth], \A b \in Bins : l[b] = 0
  PROVE  Amount(l, Bins) = 0 /\ Unclaimed(l, now, then, Bins) = 0
<1>1. /\ Amount(l, {}) = Amount(l, Bins)
      /\ Unclaimed(l, now, then, {}) = Unclaimed(l, now, then, Bins)
  BY CountRest
<1>2. Amount(l, {}) = 0
  BY SumEmpty, Zenon DEF Amount
<1> DEFINE f == [b \in {} |-> ((now[b] - then[b]) % Wrap) * l[b]]
<1>3. SumFunctionOnSet(f, {}) = 0 /\ DOMAIN f = {}
  BY SumEmpty, Zenon
<1>4. Unclaimed(l, now, then, {}) = 0
  BY <1>3 DEF Unclaimed, SumFunction
<1> QED
  BY <1>1, <1>2, <1>4

-----------------------------------------------------------------------------
(* The types, with what the stages of a pass leave open of them.           *)

Stages ==
  /\ stage = "idle" => todo = {} /\ \A o \in Owners : sums[o] = None
  /\ stage \in {"legs", "nav"} => todo = {}
  /\ stage = "reads" => current \in Positions \ todo
  /\ stage # "reads" => insides = None /\ infos = None /\ ~touched
  /\ stage = "nav" => \A o \in Owners : legs[o] # None => sums[o] # None

TInv == TypeOK /\ Stages

LEMMA KeptNat == ASSUME NEW f \in Nat, NEW n \in Nat PROVE Kept(f, n) \in Nat
  BY KeptGrows

LEMMA OwedNat ==
  ASSUME TypeOK, NEW p \in Positions, NEW S \in SUBSET Bins
  PROVE  Amount(liquidity[p], S) \in Nat /\ Owed(p, S) \in Nat
<1>1. /\ liquidity[p] \in [Bins -> 0 .. MaxLiquidity]
      /\ inside[p] \in [Bins -> Growth] /\ last[p] \in [Bins -> Growth]
  BY DEF TypeOK
<1> QED
  BY <1>1, CountNat DEF Owed

LEMMA KeepForNat == ASSUME NEW n PROVE KeepFor(n) \in Nat /\ KeepShaped <= KeepFor(n)
                                      /\ KeepFor(n) <= KeepSimple /\ KeepShaped \in Nat
                                      /\ KeepSimple \in Nat
  BY ConstantsAssumption DEF KeepFor

LEMMA ValueNat ==
  ASSUME TypeOK, NEW p \in Positions, NEW f \in Nat, NEW n \in Nat
  PROVE  Value(p, f, n) \in Nat
<1>1. Kept(f, n) \in Nat
  BY KeptGrows
<1>2. Amount(liquidity[p], Bins) \in Nat
  BY OwedNat
<1> QED
  BY <1>1, <1>2 DEF Value

LEMMA PositionsOfFinite ==
  ASSUME NEW o, NEW S \in SUBSET PositionsOf(o) PROVE IsFiniteSet(S) /\ S \subseteq Positions
<1>1. S \subseteq Positions
  BY DEF PositionsOf
<1> QED
  BY <1>1, FS_Subset, ConstantsAssumption

LEMMA WorthNat ==
  ASSUME TypeOK, NEW o \in Owners, NEW n \in Nat
  PROVE  Worth(o, n) \in Nat
<1> DEFINE f == [p \in Positions |-> Value(p, Owed(p, Bins), n)]
<1>1. ASSUME NEW p \in PositionsOf(o) PROVE f[p] \in Nat
  <2>1. p \in Positions
    BY DEF PositionsOf
  <2>2. Owed(p, Bins) \in Nat
    BY <2>1, OwedNat
  <2> QED
    BY <2>1, <2>2, ValueNat
<1>2. IsFiniteSet(PositionsOf(o))
  BY PositionsOfFinite
<1> HIDE DEF f
<1>3. SumFunctionOnSet(f, PositionsOf(o)) \in Nat
  BY <1>1, <1>2, SumNat
<1>4. wallet[o] \in Nat
  BY DEF TypeOK
<1> QED
  BY <1>3, <1>4 DEF Worth, f

LEMMA NextGrowth == ASSUME NEW a \in Growth PROVE (a + 1) % Wrap \in Growth
<1>1. a \in Nat /\ Wrap \in Nat \ {0}
  BY ConstantsAssumption DEF Growth
<1>2. (a + 1) % Wrap \in 0 .. Wrap - 1
  BY <1>1
<1> QED
  BY <1>2 DEF Growth

LEMMA InitTypes == Init => TInv
<1> SUFFICES ASSUME Init PROVE TInv
  OBVIOUS
<1> USE ConstantsAssumption DEF Init
<1>1. open \subseteq Positions
  OBVIOUS
<1>2. liquidity \in [Positions -> [Bins -> 0 .. MaxLiquidity]]
  OBVIOUS
<1>3. Wrap - 1 \in Growth
  BY DEF Growth
<1>4. inside \in [Positions -> [Bins -> Growth]] /\ last \in [Positions -> [Bins -> Growth]]
  BY <1>3
<1>5. /\ wallet \in [Owners -> Nat] /\ accrued \in [Positions -> Nat] /\ before \in [Owners -> Nat]
      /\ events \in 0 .. MaxEvents /\ owed \in Nat
  OBVIOUS
<1>6. known \in [Positions -> [Bins -> 0 .. MaxLiquidity]]
  BY <1>2
<1>7. touched \in BOOLEAN
  OBVIOUS
<1>8. TypeOK
  BY <1>1, <1>2, <1>4, <1>5, <1>6, <1>7 DEF TypeOK
<1>9. Stages
  BY DEF Stages
<1> QED
  BY <1>8, <1>9 DEF TInv

LEMMA TradeTypes ==
  ASSUME TInv, NEW p \in Positions, NEW b \in Bins, Trade(p, b)
  PROVE  TInv'
<1> USE DEF TInv
<1>1. /\ events < MaxEvents /\ events' = events + 1
      /\ inside' = [inside EXCEPT ![p][b] = (inside[p][b] + 1) % Wrap]
      /\ accrued' = [accrued EXCEPT ![p] = accrued[p] + liquidity[p][b]]
      /\ UNCHANGED <<liquidity, last, ended, wallet, known, open, snapshots, navs, stage, current,
                     bins, insides, infos, owed, touched, todo, unreadable, unpriced, stmts, sums,
                     skip, legs, restless, before>>
  BY DEF Trade, d1, marking, pass
<1>2. (inside[p][b] + 1) % Wrap \in Growth
  <2>1. inside[p][b] \in Growth
    BY DEF TypeOK
  <2> QED
    BY <2>1, NextGrowth
<1>3. inside' \in [Positions -> [Bins -> Growth]]
  BY <1>1, <1>2 DEF TypeOK
<1>4. accrued' \in [Positions -> Nat]
  <2>1. liquidity[p][b] \in Nat /\ accrued[p] \in Nat
    BY ConstantsAssumption DEF TypeOK
  <2>2. accrued[p] + liquidity[p][b] \in Nat
    BY <2>1
  <2> QED
    BY <1>1, <2>2 DEF TypeOK
<1>5. events' \in 0 .. MaxEvents
  BY <1>1, ConstantsAssumption DEF TypeOK
<1>6. TypeOK'
  BY <1>1, <1>3, <1>4, <1>5 DEF TypeOK
<1>7. Stages'
  BY <1>1 DEF Stages
<1> QED
  BY <1>6, <1>7

LEMMA VerbTypes ==
  ASSUME TInv, NEW p \in Positions, NEW new \in [Bins -> 0 .. MaxLiquidity], Verb(p, new)
  PROVE  TInv'
<1> USE DEF TInv
<1> DEFINE o == OwnerOf[p]
           n == KeepFor(Cardinality(Bins))
           balance == wallet[o] + Amount(liquidity[p], Bins) + Kept(Owed(p, Bins), n)
                      - Amount(new, Bins)
<1>1. /\ events < MaxEvents /\ events' = events + 1
      /\ liquidity' = [liquidity EXCEPT ![p] = new]
      /\ last' = [last EXCEPT ![p] =
                    [b \in Bins |-> IF liquidity[p][b] + new[b] > 0 THEN inside[p][b] ELSE last[p][b]]]
      /\ ended' = IF \A b \in Bins : new[b] = 0 THEN ended \cup {p} ELSE ended
      /\ wallet' = [wallet EXCEPT ![o] = balance]
      /\ balance >= 0
      /\ restless' = restless \cup {o}
      /\ touched' = (touched \/ (p = current /\ (insides # None \/ infos # None)))
      /\ UNCHANGED <<inside, accrued, known, open, snapshots, navs, stage, current, bins, insides,
                     infos, owed, todo, unreadable, unpriced, stmts, sums, skip, legs, before>>
  BY DEF Verb, d1, pass
<1>2. o \in Owners
  BY ConstantsAssumption
<1>3. balance \in Nat
  <2>1. wallet[o] \in Nat
    BY <1>2 DEF TypeOK
  <2>2. Amount(liquidity[p], Bins) \in Nat /\ Owed(p, Bins) \in Nat
    BY OwedNat
  <2>3. Kept(Owed(p, Bins), n) \in Nat
    <3>1. n \in Nat
      BY KeepForNat
    <3> QED
      BY <2>2, <3>1, KeptNat
  <2>4. Amount(new, Bins) \in Nat
    <3>1. inside[p] \in [Bins -> Growth]
      BY DEF TypeOK
    <3> QED
      BY <3>1, CountNat
  <2> QED
    BY <1>1, <2>1, <2>2, <2>3, <2>4
<1> HIDE DEF balance
<1>4. wallet' \in [Owners -> Nat]
  BY <1>1, <1>2, <1>3 DEF TypeOK
<1>5. liquidity' \in [Positions -> [Bins -> 0 .. MaxLiquidity]]
  BY <1>1 DEF TypeOK
<1>6. last' \in [Positions -> [Bins -> Growth]]
  <2>1. [b \in Bins |-> IF liquidity[p][b] + new[b] > 0 THEN inside[p][b] ELSE last[p][b]]
          \in [Bins -> Growth]
    BY DEF TypeOK
  <2> QED
    BY <1>1, <2>1 DEF TypeOK
<1>7. events' \in 0 .. MaxEvents
  BY <1>1, ConstantsAssumption DEF TypeOK
<1>8. touched' \in BOOLEAN
  BY <1>1, Zenon DEF TypeOK
<1>9. ended' \subseteq Positions /\ restless' \subseteq Owners
  BY <1>1, <1>2 DEF TypeOK
<1>10. TypeOK'
  BY <1>1, <1>4, <1>5, <1>6, <1>7, <1>8, <1>9 DEF TypeOK
<1>11. Stages'
  BY <1>1 DEF Stages
<1> QED
  BY <1>10, <1>11

LEMMA MarkTypes ==
  ASSUME TInv, Mark
  PROVE  TInv'
<1> USE DEF TInv
<1> DEFINE fees == Unclaimed(infos.liquidity, insides, infos.last, bins)
           amount == Amount(infos.liquidity, bins)
           o == OwnerOf[current]
           n == KeepFor(Cardinality(bins))
           row == [position |-> current, amount |-> amount, fees |-> fees, owed |-> owed,
                   accrued |-> accrued[current], touched |-> touched]
<1>1. /\ stage = "reads" /\ insides # None /\ infos # None /\ stage' = "next"
      /\ stmts' = stmts \cup {row}
      /\ \/ skip' = skip \cup {o} /\ UNCHANGED sums
         \/ /\ sums' = [sums EXCEPT ![o] = (IF sums[o] = None THEN 0 ELSE sums[o]) + amount
                                            + Kept(fees, n)]
            /\ UNCHANGED skip
      /\ current' = None /\ bins' = {} /\ insides' = None /\ infos' = None /\ owed' = 0
      /\ touched' = FALSE
      /\ UNCHANGED <<liquidity, inside, last, ended, wallet, events, accrued, known, open,
                     snapshots, navs, todo, unreadable, unpriced, legs, restless, before>>
  BY DEF Mark, MarkingEnds, chain, d1
<1>2. current \in Positions
  BY <1>1 DEF Stages
<1>3. o \in Owners
  BY <1>2, ConstantsAssumption
<1>4. amount \in Nat /\ fees \in Nat
  <2>1. /\ insides \in [Bins -> Growth] /\ bins \in SUBSET Bins
        /\ infos.liquidity \in [Bins -> 0 .. MaxLiquidity] /\ infos.last \in [Bins -> Growth]
    BY <1>1 DEF TypeOK
  <2> QED
    BY <2>1, CountNat
<1>5. Kept(fees, n) \in Nat
  <2>1. n \in Nat
    BY KeepForNat
  <2> QED
    BY <1>4, <2>1, KeptNat
<1>6. row \in RowType
  BY <1>2, <1>4 DEF RowType, TypeOK
<1> HIDE DEF amount, fees, n, row
<1>7. sums' \in [Owners -> Nat \cup {None}] /\ skip' \subseteq Owners
  <2>1. (IF sums[o] = None THEN 0 ELSE sums[o]) + amount + Kept(fees, n) \in Nat
    <3>1. (IF sums[o] = None THEN 0 ELSE sums[o]) \in Nat
      BY <1>3 DEF TypeOK
    <3> QED
      BY <1>4, <1>5, <3>1
  <2> QED
    BY <1>1, <1>3, <2>1 DEF TypeOK
<1>8. TypeOK'
  <2>1. touched' \in BOOLEAN
    BY <1>1
  <2>2. owed' \in Nat
    BY <1>1
  <2> QED
    BY <1>1, <1>6, <1>7, <2>1, <2>2 DEF TypeOK
<1>9. Stages'
  BY <1>1 DEF Stages
<1> QED
  BY <1>8, <1>9

LEMMA ReadTypes ==
  ASSUME TInv, ReadInside \/ ReadInfos
  PROVE  TInv'
<1> USE DEF TInv
<1>1. stage = "reads" /\ current \in Positions
  BY DEF ReadInside, ReadInfos, Stages
<1>2. CASE ReadInside
  <2>1. /\ insides' = inside[current] /\ owed' = Owed(current, bins)
        /\ UNCHANGED <<liquidity, inside, last, ended, wallet, events, accrued, known, open,
                       snapshots, navs, stage, current, bins, infos, touched, todo, unreadable,
                       unpriced, stmts, sums, skip, legs, restless, before>>
    BY <1>2 DEF ReadInside, chain, d1, pass
  <2>2. owed' \in Nat
    <3>1. bins \in SUBSET Bins
      BY DEF TypeOK
    <3> QED
      BY <1>1, <2>1, <3>1, OwedNat
  <2>3. insides' \in [Bins -> Growth]
    BY <1>1, <2>1 DEF TypeOK
  <2>4. TypeOK'
    BY <2>1, <2>2, <2>3 DEF TypeOK
  <2> QED
    BY <1>1, <2>1, <2>4 DEF Stages
<1>3. CASE ReadInfos
  <2>1. /\ infos' = [liquidity |-> liquidity[current], last |-> last[current]]
        /\ UNCHANGED <<liquidity, inside, last, ended, wallet, events, accrued, known, open,
                       snapshots, navs, stage, current, bins, insides, owed, touched, todo,
                       unreadable, unpriced, stmts, sums, skip, legs, restless, before>>
    BY <1>3 DEF ReadInfos, chain, d1, pass
  <2>2. infos' \in [liquidity : [Bins -> 0 .. MaxLiquidity], last : [Bins -> Growth]]
    BY <1>1, <2>1 DEF TypeOK
  <2>3. TypeOK'
    BY <2>1, <2>2 DEF TypeOK
  <2> QED
    BY <1>1, <2>1, <2>3 DEF Stages
<1> QED
  BY <1>2, <1>3

LEMMA BeginTypes ==
  ASSUME TInv, Begin
  PROVE  TInv'
<1> USE DEF TInv
<1>1. /\ stage = "idle" /\ stage' = "pools" /\ todo' = open /\ snapshots' = {} /\ navs' = {}
      /\ restless' = {o \in Owners : ~Known(o)}
      /\ before' = [o \in Owners |-> Worth(o, KeepShaped)]
      /\ UNCHANGED <<liquidity, inside, last, ended, wallet, events, accrued, known, open,
                     current, bins, insides, infos, owed, touched, unreadable, unpriced, stmts,
                     sums, skip, legs>>
  BY DEF Begin, chain, d1, marking
<1>2. \A o \in Owners : Worth(o, KeepShaped) \in Nat
  BY WorthNat, KeepForNat
<1>3. before' \in [Owners -> Nat]
  BY <1>1, <1>2
<1>4. restless' \subseteq Owners
  BY <1>1
<1>5. TypeOK'
  BY <1>1, <1>3, <1>4 DEF TypeOK
<1> QED
  BY <1>1, <1>5 DEF Stages

LEMMA IndexTypes ==
  ASSUME TInv, NEW p \in Positions, Index(p)
  PROVE  TInv'
<1> USE DEF TInv
<1>1. /\ known' = [known EXCEPT ![p] = liquidity[p]]
      /\ open' = IF p \in ended THEN open \ {p} ELSE open \cup {p}
      /\ UNCHANGED <<liquidity, inside, last, ended, wallet, events, accrued, snapshots, navs,
                     stage, current, bins, insides, infos, owed, touched, todo, unreadable,
                     unpriced, stmts, sums, skip, legs, restless, before>>
  BY DEF Index, chain, marking, pass
<1>2. known' \in [Positions -> [Bins -> 0 .. MaxLiquidity]] /\ open' \subseteq Positions
  BY <1>1 DEF TypeOK
<1>3. TypeOK'
  BY <1>1, <1>2 DEF TypeOK
<1> QED
  BY <1>1, <1>3 DEF Stages

(* The steps of a pass that only move it on.                               *)
LEMMA PassTypes ==
  ASSUME TInv,
         \/ \E p \in Positions : SkipUnreadable(p) \/ ReadBins(p)
         \/ \E bad \in SUBSET todo : \E pinned \in SUBSET (todo \ bad) : ReadPools(bad, pinned)
         \/ SkipMark \/ Batch
  PROVE  TInv'
<1> USE DEF TInv, chain, d1, marking, pass
<1>1. ASSUME NEW p \in Positions, SkipUnreadable(p) PROVE TInv'
  <2>1. OwnerOf[p] \in Owners
    BY ConstantsAssumption
  <2>2. TypeOK'
    BY <1>1, <2>1 DEF SkipUnreadable, TypeOK
  <2> QED
    BY <1>1, <2>2 DEF SkipUnreadable, Stages
<1>2. ASSUME NEW p \in Positions, ReadBins(p) PROVE TInv'
  <2>1. TypeOK'
    BY <1>2 DEF ReadBins, TypeOK
  <2> QED
    BY <1>2, <2>1 DEF ReadBins, Stages
<1>3. ASSUME NEW bad \in SUBSET todo, NEW pinned \in SUBSET (todo \ bad), ReadPools(bad, pinned)
      PROVE  TInv'
  <2>1. TypeOK'
    BY <1>3 DEF ReadPools, TypeOK
  <2> QED
    BY <1>3, <2>1 DEF ReadPools, Stages
<1>4. ASSUME SkipMark PROVE TInv'
  <2>1. OwnerOf[current] \in Owners
    BY <1>4, ConstantsAssumption DEF SkipMark, Stages
  <2>2. /\ touched' = FALSE /\ owed' = 0 /\ current' = None /\ bins' = {} /\ insides' = None
        /\ infos' = None /\ stage' = "next" /\ skip' = skip \cup {OwnerOf[current]}
        /\ UNCHANGED <<liquidity, inside, last, ended, wallet, events, accrued, known, open,
                       snapshots, navs, todo, unreadable, unpriced, stmts, sums, legs, restless,
                       before>>
    BY <1>4 DEF SkipMark, MarkingEnds
  <2>3. TypeOK'
    BY <2>1, <2>2 DEF TypeOK
  <2> QED
    BY <1>4, <2>2, <2>3 DEF SkipMark, MarkingEnds, Stages
<1>5. ASSUME Batch PROVE TInv'
  <2>1. TypeOK'
    BY <1>5 DEF Batch, PassEnds, TypeOK
  <2> QED
    BY <1>5, <2>1 DEF Batch, PassEnds, Stages
<1> QED
  BY <1>1, <1>2, <1>3, <1>4, <1>5

(* The steps of its end.                                                   *)
LEMMA EndTypes ==
  ASSUME TInv, (\E missing \in SUBSET Owners : ReadLegs(missing)) \/ WriteNavs \/ Die
  PROVE  TInv'
<1> USE DEF TInv, chain, d1, marking, pass
<1>1. ASSUME NEW missing \in SUBSET Owners, ReadLegs(missing) PROVE TInv'
  <2>1. legs' \in [Owners -> Nat \cup {None}]
    BY <1>1 DEF ReadLegs, TypeOK
  <2>2. TypeOK'
    BY <1>1, <2>1 DEF ReadLegs, TypeOK
  <2> QED
    BY <1>1, <2>2 DEF ReadLegs, Stages
<1>2. ASSUME WriteNavs PROVE TInv'
  <2>1. navs' \subseteq NavType
    BY <1>2 DEF WriteNavs, TypeOK, Stages, NavType
  <2>2. TypeOK'
    BY <1>2, <2>1 DEF WriteNavs, PassEnds, TypeOK
  <2> QED
    BY <1>2, <2>2 DEF WriteNavs, PassEnds, Stages
<1>3. ASSUME Die PROVE TInv'
  <2>1. /\ touched' = FALSE /\ owed' = 0 /\ current' = None /\ bins' = {} /\ insides' = None
        /\ infos' = None /\ stage' = "idle" /\ todo' = {} /\ unreadable' = {} /\ unpriced' = {}
        /\ stmts' = {} /\ sums' = [o \in Owners |-> None] /\ skip' = {}
        /\ legs' = [o \in Owners |-> None]
        /\ UNCHANGED <<liquidity, inside, last, ended, wallet, events, accrued, known, open,
                       snapshots, navs, restless, before>>
    BY <1>3 DEF Die, PassEnds, MarkingEnds
  <2>2. TypeOK'
    BY <2>1 DEF TypeOK
  <2> QED
    BY <1>3, <2>1, <2>2 DEF Die, PassEnds, MarkingEnds, Stages
<1> QED
  BY <1>1, <1>2, <1>3

LEMMA NextTypes == TInv /\ [Next]_vars => TInv'
<1> SUFFICES ASSUME TInv, [Next]_vars PROVE TInv'
  OBVIOUS
<1>1. ASSUME UNCHANGED vars PROVE TInv'
  BY <1>1 DEF vars, chain, d1, marking, pass, TInv, TypeOK, Stages
<1> QED
  BY <1>1, TradeTypes, VerbTypes, IndexTypes, BeginTypes, ReadTypes, MarkTypes, PassTypes, EndTypes
  DEF Next, Chain

(* The variables of the chain, of D1 and of a pass have their types, and a *)
(* value that is recorded is a number.                                     *)
THEOREM TypeCorrect == Spec => []TypeOK
<1>1. TInv => TypeOK
  BY DEF TInv
<1> QED
  BY <1>1, InitTypes, NextTypes, PTL DEF Spec

-----------------------------------------------------------------------------
(* The value that is recorded for an owner.                                *)

(* What is still to be marked, the position at hand included.              *)
Left == todo \cup (IF stage = "reads" THEN {current} ELSE {})

(* The fees that a mark of p will count: those already read, or else those *)
(* the position is owed now.                                               *)
ToCount(p) == IF p = current /\ insides # None THEN owed ELSE Owed(p, Bins)

High == [p \in Positions |-> Value(p, Owed(p, Bins), KeepSimple)]

Low == [p \in Positions |-> Value(p, ToCount(p), KeepShaped)]

Marked(o) == IF sums[o] = None THEN 0 ELSE sums[o]

GrowthBounded == \A p \in Positions, b \in Bins : (inside[p][b] - last[p][b]) % Wrap <= events

EndedEmpty == \A p \in ended, b \in Bins : liquidity[p][b] = 0

(* D1 keeps knowing what it knew of an owner who does nothing.             *)
StillKnown == stage # "idle" => \A o \in Owners \ restless : Known(o)

AtHand ==
  stage = "reads" /\ OwnerOf[current] \notin restless =>
    /\ ~touched
    /\ \A b \in Bins : liquidity[current][b] > 0 => b \in bins
    /\ insides # None => owed <= Owed(current, Bins)

(* What was marked of an owner is at most what the marked positions are    *)
(* worth, and makes up what the owner had together with what is left.      *)
Bounds(o) ==
  /\ Marked(o) <= SumFunctionOnSet(High, PositionsOf(o) \ Left)
  /\ before[o] <= wallet[o] + Marked(o) + SumFunctionOnSet(Low, PositionsOf(o) \cap Left)

Between == stage # "idle" => \A o \in Owners \ (restless \cup skip) : Bounds(o)

LegsRead ==
  stage = "nav" => \A o \in Owners : legs[o] # None =>
    /\ o \notin skip
    /\ o \notin restless => legs[o] = wallet[o]

NInv ==
  /\ IInv /\ TInv
  /\ GrowthBounded /\ EndedEmpty
  /\ StillKnown /\ AtHand
  /\ Between /\ LegsRead
  /\ NavComplete

LEMMA LowHighNat ==
  ASSUME TypeOK, NEW p \in Positions
  PROVE  /\ High[p] \in Nat /\ Low[p] \in Nat
         /\ High[p] = Value(p, Owed(p, Bins), KeepSimple)
         /\ Low[p] = Value(p, ToCount(p), KeepShaped)
         /\ Owed(p, Bins) \in Nat /\ ToCount(p) \in Nat
<1>1. Owed(p, Bins) \in Nat
  BY OwedNat
<1>2. ToCount(p) \in Nat
  BY <1>1 DEF ToCount, TypeOK
<1>3. KeepSimple \in Nat /\ KeepShaped \in Nat
  BY ConstantsAssumption
<1>4. Value(p, Owed(p, Bins), KeepSimple) \in Nat /\ Value(p, ToCount(p), KeepShaped) \in Nat
  BY <1>1, <1>2, <1>3, ValueNat
<1> QED
  BY <1>1, <1>2, <1>4 DEF High, Low

LEMMA LowHighNext == (TypeOK => \A p \in Positions : High[p] \in Nat /\ Low[p] \in Nat)'
<1>1. TypeOK => \A p \in Positions : High[p] \in Nat /\ Low[p] \in Nat
  BY LowHighNat
<1> QED
  BY <1>1, PTL

LEMMA SumsNat ==
  ASSUME TypeOK, NEW o, NEW S \in SUBSET PositionsOf(o)
  PROVE  /\ Integral(High, S) /\ Integral(Low, S)
         /\ SumFunctionOnSet(High, S) \in Nat /\ SumFunctionOnSet(Low, S) \in Nat
<1>1. IsFiniteSet(S) /\ S \subseteq Positions
  BY PositionsOfFinite
<1>2. \A p \in S : High[p] \in Nat /\ Low[p] \in Nat
  BY <1>1, LowHighNat
<1>3. Integral(High, S) /\ Integral(Low, S)
  BY <1>1, <1>2 DEF Integral
<1> QED
  BY <1>1, <1>2, <1>3, SumNat

LEMMA MarkedNat == ASSUME TypeOK, NEW o \in Owners PROVE Marked(o) \in Nat /\ wallet[o] \in Nat /\ before[o] \in Nat
  BY DEF TypeOK, Marked

(* A value grows with the fees and the percentage.                         *)
LEMMA ValueGrows ==
  ASSUME TypeOK, NEW p \in Positions, NEW f \in Nat, NEW g \in Nat, NEW m \in Nat, NEW n \in Nat,
         f <= g, m <= n
  PROVE  Value(p, f, m) <= Value(p, g, n)
<1>1. Kept(f, m) \in Nat /\ Kept(g, n) \in Nat /\ Kept(f, m) <= Kept(g, n)
  BY KeptGrows
<1>2. Amount(liquidity[p], Bins) \in Nat
  BY OwedNat
<1> QED
  BY <1>1, <1>2 DEF Value

(* As long as the chain leaves a position alone.                           *)
LEMMA ValueKept ==
  ASSUME NEW p \in Positions,
         liquidity'[p] = liquidity[p], inside'[p] = inside[p], last'[p] = last[p]
  PROVE  /\ High'[p] = High[p] /\ Owed(p, Bins)' = Owed(p, Bins)
         /\ ToCount(p)' = ToCount(p) => Low'[p] = Low[p]
  BY DEF High, Low, Value, Owed

LEMMA BoundsKept ==
  ASSUME TypeOK, TypeOK', NEW o \in Owners, Bounds(o),
         Marked(o)' = Marked(o), wallet'[o] = wallet[o], before'[o] = before[o],
         PositionsOf(o) \cap Left' = PositionsOf(o) \cap Left,
         \A p \in PositionsOf(o) : High[p] <= High'[p] /\ Low[p] <= Low'[p]
  PROVE  Bounds(o)'
<1> DEFINE M == PositionsOf(o) \ Left
           L == PositionsOf(o) \cap Left
<1>1. /\ Integral(High, M) /\ Integral(High', M) /\ Integral(Low, L) /\ Integral(Low', L)
      /\ SumFunctionOnSet(High, M) \in Nat /\ SumFunctionOnSet(High', M) \in Nat
      /\ SumFunctionOnSet(Low, L) \in Nat /\ SumFunctionOnSet(Low', L) \in Nat
  <2>1. /\ Integral(High, M) /\ Integral(Low, L)
        /\ SumFunctionOnSet(High, M) \in Nat /\ SumFunctionOnSet(Low, L) \in Nat
    BY SumsNat
  <2>2. \A p \in PositionsOf(o) : High'[p] \in Nat /\ Low'[p] \in Nat
    BY LowHighNext DEF PositionsOf
  <2>3. IsFiniteSet(M) /\ IsFiniteSet(L)
    BY PositionsOfFinite
  <2>4. \A p \in M : High'[p] \in Nat
    BY <2>2
  <2>5. \A p \in L : Low'[p] \in Nat
    BY <2>2
  <2>6. Integral(High', M) /\ Integral(Low', L)
    BY <2>3, <2>4, <2>5 DEF Integral
  <2>7. SumFunctionOnSet(High', M) \in Nat /\ SumFunctionOnSet(Low', L) \in Nat
    BY <2>3, <2>4, <2>5, SumNat
  <2> QED
    BY <2>1, <2>6, <2>7
<1>2. SumFunctionOnSet(High, M) <= SumFunctionOnSet(High', M)
  BY <1>1, SumAtMost
<1>3. SumFunctionOnSet(Low, L) <= SumFunctionOnSet(Low', L)
  BY <1>1, SumAtMost
<1>4. PositionsOf(o) \ Left' = M /\ PositionsOf(o) \cap Left' = L
  OBVIOUS
<1>5. Marked(o) \in Nat /\ wallet[o] \in Nat /\ before[o] \in Nat
  BY MarkedNat
<1>6. /\ Marked(o) <= SumFunctionOnSet(High, M)
      /\ before[o] <= wallet[o] + Marked(o) + SumFunctionOnSet(Low, L)
  BY DEF Bounds
<1> HIDE DEF M, L
<1>7. Marked(o) <= SumFunctionOnSet(High', M)
  BY <1>1, <1>2, <1>5, <1>6
<1>8. before[o] <= wallet[o] + Marked(o) + SumFunctionOnSet(Low', L)
  BY <1>1, <1>3, <1>5, <1>6
<1>9. Bounds(o)' <=>
        /\ Marked(o)' <= SumFunctionOnSet(High', PositionsOf(o) \ Left')
        /\ before'[o] <= wallet'[o] + Marked(o)'
                         + SumFunctionOnSet(Low', PositionsOf(o) \cap Left')
  BY DEF Bounds, PositionsOf
<1> QED
  BY <1>4, <1>7, <1>8, <1>9

(* A position is marked, with a value between its bounds.                  *)
LEMMA BoundsMarked ==
  ASSUME TypeOK, TypeOK', NEW o \in Owners, Bounds(o),
         wallet'[o] = wallet[o], before'[o] = before[o],
         NEW p \in PositionsOf(o) \cap Left, Left' = Left \ {p},
         \A q \in PositionsOf(o) : High'[q] = High[q],
         \A q \in PositionsOf(o) \ {p} : Low'[q] = Low[q],
         NEW m \in Nat, Marked(o)' = Marked(o) + m, Low[p] <= m, m <= High[p]
  PROVE  Bounds(o)'
<1> DEFINE M == PositionsOf(o) \ Left
           L == PositionsOf(o) \cap Left
           N == PositionsOf(o) \ Left'
           K == PositionsOf(o) \cap Left'
<1>1. /\ M = N \ {p} /\ p \in N /\ K = L \ {p} /\ p \in L
      /\ M \in SUBSET PositionsOf(o) /\ L \in SUBSET PositionsOf(o)
      /\ N \in SUBSET PositionsOf(o) /\ K \in SUBSET PositionsOf(o)
  OBVIOUS
<1>2. /\ Integral(High, N) /\ Integral(Low, L) /\ Integral(Low, K)
      /\ SumFunctionOnSet(High, N) \in Nat /\ SumFunctionOnSet(High, M) \in Nat
      /\ SumFunctionOnSet(Low, L) \in Nat /\ SumFunctionOnSet(Low, K) \in Nat
  BY <1>1, SumsNat
<1>3. p \in Positions /\ High[p] \in Nat /\ Low[p] \in Nat
  BY LowHighNat DEF PositionsOf
<1> HIDE DEF M, L, N, K
<1>4. SumFunctionOnSet(High, N) = High[p] + SumFunctionOnSet(High, M)
  BY <1>1, <1>2, SumSplit
<1>5. SumFunctionOnSet(Low, L) = Low[p] + SumFunctionOnSet(Low, K)
  BY <1>1, <1>2, SumSplit
<1>6. SumFunctionOnSet(High, N) = SumFunctionOnSet(High', N)
  BY <1>1, <1>2, SumSame
<1>7. SumFunctionOnSet(Low, K) = SumFunctionOnSet(Low', K)
  BY <1>1, <1>2, SumSame
<1>8. Marked(o) \in Nat /\ wallet[o] \in Nat /\ before[o] \in Nat
  BY MarkedNat
<1>9. /\ Marked(o) <= SumFunctionOnSet(High, M)
      /\ before[o] <= wallet[o] + Marked(o) + SumFunctionOnSet(Low, L)
  BY DEF Bounds, M, L
<1>10. Marked(o) + m <= SumFunctionOnSet(High, N)
  BY <1>2, <1>3, <1>4, <1>8, <1>9
<1>11. before[o] <= wallet[o] + (Marked(o) + m) + SumFunctionOnSet(Low, K)
  BY <1>2, <1>3, <1>5, <1>8, <1>9
<1>12. Bounds(o)' <=>
        /\ Marked(o)' <= SumFunctionOnSet(High', N)
        /\ before'[o] <= wallet'[o] + Marked(o)' + SumFunctionOnSet(Low', K)
  BY DEF Bounds, PositionsOf, N, K
<1> QED
  BY <1>6, <1>7, <1>10, <1>11, <1>12

-----------------------------------------------------------------------------
(* What a step changes of the chain.                                       *)

(* A trade adds to what positions are owed.                                *)
LEMMA TradeGrows ==
  ASSUME TInv, TInv', GrowthBounded, NEW p \in Positions, NEW b \in Bins, Trade(p, b)
  PROVE  /\ GrowthBounded'
         /\ \A q \in Positions :
              /\ Owed(q, Bins) <= Owed(q, Bins)'
              /\ High[q] <= High'[q] /\ Low[q] <= Low'[q]
<1>1. /\ events < MaxEvents /\ events' = events + 1
      /\ inside' = [inside EXCEPT ![p][b] = (inside[p][b] + 1) % Wrap]
      /\ UNCHANGED <<liquidity, last, owed, insides, current>>
  BY DEF Trade, marking
<1>2. /\ inside \in [Positions -> [Bins -> Growth]] /\ last \in [Positions -> [Bins -> Growth]]
      /\ inside' \in [Positions -> [Bins -> Growth]]
      /\ liquidity \in [Positions -> [Bins -> 0 .. MaxLiquidity]] /\ events \in Nat
  BY DEF TInv, TypeOK
<1>3. ASSUME NEW q \in Positions, NEW c \in Bins
      PROVE  /\ (inside[q][c] - last[q][c]) % Wrap <= (inside'[q][c] - last[q][c]) % Wrap
             /\ (inside'[q][c] - last[q][c]) % Wrap <= events + 1
  <2> DEFINE d == (inside[q][c] - last[q][c]) % Wrap
             e == (inside'[q][c] - last[q][c]) % Wrap
  <2>1. inside[q][c] \in Growth /\ last[q][c] \in Growth
    BY <1>2
  <2>2. d \in Nat /\ d <= events
    <3>1. d \in Nat
      BY <2>1, ConstantsAssumption DEF Growth
    <3> QED
      BY <3>1 DEF GrowthBounded
  <2>3. CASE q = p /\ c = b
    <3>1. inside'[q][c] = (inside[q][c] + 1) % Wrap
      BY <1>1, <1>2, <2>3
    <3>2. d < Wrap - 1
      <4> HIDE DEF d
      <4> QED
        BY <1>1, <1>2, <2>2, GrowthAssumption, ConstantsAssumption
    <3>3. e = d + 1
      BY <2>1, <3>1, <3>2, GrowsByOne
    <3> HIDE DEF d, e
    <3>4. d <= e /\ e <= events + 1
      BY <1>2, <2>2, <3>3
    <3> QED
      BY <3>4 DEF d, e
  <2>4. CASE ~(q = p /\ c = b)
    <3>1. inside'[q][c] = inside[q][c]
      BY <1>1, <1>2, <2>4
    <3>2. e = d
      BY <3>1
    <3> HIDE DEF d, e
    <3>3. d <= e /\ e <= events + 1
      BY <1>2, <2>2, <3>2
    <3> QED
      BY <3>3 DEF d, e
  <2> QED
    BY <2>3, <2>4
<1>4. GrowthBounded'
  BY <1>1, <1>3 DEF GrowthBounded
<1>5. ASSUME NEW q \in Positions
      PROVE  Owed(q, Bins) <= Owed(q, Bins)' /\ High[q] <= High'[q] /\ Low[q] <= Low'[q]
  <2>1. Owed(q, Bins)' = Unclaimed(liquidity[q], inside'[q], last[q], Bins)
    BY <1>1 DEF Owed
  <2>2. /\ liquidity[q] \in [Bins -> 0 .. MaxLiquidity] /\ inside[q] \in [Bins -> Growth]
        /\ inside'[q] \in [Bins -> Growth] /\ last[q] \in [Bins -> Growth]
    BY <1>2
  <2>3. Owed(q, Bins) <= Owed(q, Bins)'
    BY <1>3, <2>1, <2>2, CountGrows DEF Owed
  <2>4. Owed(q, Bins) \in Nat /\ Owed(q, Bins)' \in Nat /\ ToCount(q) \in Nat
    <3>1. Owed(q, Bins)' \in Nat
      BY <2>1, <2>2, CountNat
    <3> QED
      BY <3>1, LowHighNat DEF TInv
  <2>5. ToCount(q)' \in Nat /\ ToCount(q) <= ToCount(q)'
    BY <1>1, <2>3, <2>4 DEF ToCount
  <2>6. High'[q] = Value(q, Owed(q, Bins)', KeepSimple)
    BY <1>1 DEF High, Value
  <2>7. Low'[q] = Value(q, ToCount(q)', KeepShaped)
    BY <1>1 DEF Low, Value
  <2>8. /\ High[q] = Value(q, Owed(q, Bins), KeepSimple)
        /\ Low[q] = Value(q, ToCount(q), KeepShaped)
    BY DEF High, Low
  <2>9. KeepSimple \in Nat /\ KeepShaped \in Nat
    BY ConstantsAssumption
  <2>10. High[q] <= High'[q]
    <3> DEFINE f == Owed(q, Bins)
               g == Owed(q, Bins)'
    <3>1. f \in Nat /\ g \in Nat /\ f <= g /\ KeepSimple <= KeepSimple
      BY <2>3, <2>4, <2>9
    <3> HIDE DEF f, g
    <3>2. Value(q, f, KeepSimple) <= Value(q, g, KeepSimple)
      BY <2>9, <3>1, ValueGrows DEF TInv
    <3> QED
      BY <2>6, <2>8, <3>2 DEF f, g
  <2>11. Low[q] <= Low'[q]
    <3> DEFINE f == ToCount(q)
               g == ToCount(q)'
    <3>1. f \in Nat /\ g \in Nat /\ f <= g /\ KeepShaped <= KeepShaped
      BY <2>4, <2>5, <2>9
    <3> HIDE DEF f, g
    <3>2. Value(q, f, KeepShaped) <= Value(q, g, KeepShaped)
      BY <2>9, <3>1, ValueGrows DEF TInv
    <3> QED
      BY <2>7, <2>8, <3>2 DEF f, g
  <2> QED
    BY <2>3, <2>10, <2>11
<1> QED
  BY <1>4, <1>5

(* A verb changes its position and the wallet of its owner, who is then    *)
(* restless.                                                               *)
LEMMA VerbSpares ==
  ASSUME TypeOK, NEW p \in Positions, NEW new \in [Bins -> 0 .. MaxLiquidity], Verb(p, new)
  PROVE  /\ restless' = restless \cup {OwnerOf[p]}
         /\ \A o \in Owners \ restless' : wallet'[o] = wallet[o] /\ p \notin PositionsOf(o)
         /\ \A q \in Positions \ {p} :
              liquidity'[q] = liquidity[q] /\ inside'[q] = inside[q] /\ last'[q] = last[q]
         /\ UNCHANGED <<known, open, snapshots, navs, stage, current, bins, insides, infos, owed,
                        todo, unreadable, unpriced, stmts, sums, skip, legs, before>>
<1>1. /\ liquidity' = [liquidity EXCEPT ![p] = new]
      /\ \E l : last' = [last EXCEPT ![p] = l]
      /\ \E n : wallet' = [wallet EXCEPT ![OwnerOf[p]] = n]
      /\ restless' = restless \cup {OwnerOf[p]}
      /\ UNCHANGED <<inside, known, open, snapshots, navs, stage, current, bins, insides,
                     infos, owed, todo, unreadable, unpriced, stmts, sums, skip, legs, before>>
  BY DEF Verb, d1, pass
<1>2. \A o \in Owners \ restless' : OwnerOf[p] # o
  BY <1>1
<1> QED
  BY <1>1, <1>2 DEF TypeOK, PositionsOf

(* Of an owner who stays quiet a verb changes nothing that counts.         *)
LEMMA VerbQuiet ==
  ASSUME TypeOK, NEW p \in Positions, NEW new \in [Bins -> 0 .. MaxLiquidity], Verb(p, new),
         NEW o \in Owners \ restless'
  PROVE  /\ o \notin restless /\ wallet'[o] = wallet[o]
         /\ \A q \in PositionsOf(o) : High'[q] = High[q] /\ Low'[q] = Low[q]
                                      /\ Owed(q, Bins)' = Owed(q, Bins)
                                      /\ liquidity'[q] = liquidity[q]
<1>1. ASSUME NEW q \in PositionsOf(o)
      PROVE  /\ High'[q] = High[q] /\ Low'[q] = Low[q] /\ Owed(q, Bins)' = Owed(q, Bins)
             /\ liquidity'[q] = liquidity[q]
  <2>1. /\ q \in Positions \ {p} /\ liquidity'[q] = liquidity[q] /\ inside'[q] = inside[q]
        /\ last'[q] = last[q] /\ current' = current /\ insides' = insides /\ owed' = owed
    BY VerbSpares DEF PositionsOf
  <2>2. High'[q] = High[q] /\ Owed(q, Bins)' = Owed(q, Bins)
    BY <2>1, ValueKept
  <2>3. ToCount(q)' = ToCount(q)
    BY <2>1, <2>2 DEF ToCount
  <2> QED
    BY <2>1, <2>2, <2>3, ValueKept
<1> QED
  BY <1>1, VerbSpares

(* Everything else leaves the chain as it is.                              *)
Moves == (\E p \in Positions, b \in Bins : Trade(p, b))
         \/ (\E p \in Positions, new \in [Bins -> 0 .. MaxLiquidity] : Verb(p, new))

LEMMA Still ==
  ASSUME [Next]_vars, ~Moves
  PROVE  UNCHANGED chain /\ (UNCHANGED restless \/ Begin)
<1> USE DEF chain, d1, marking, pass
<1>1. ASSUME NEW p \in Positions, Index(p) \/ SkipUnreadable(p) \/ ReadBins(p)
      PROVE  UNCHANGED chain /\ UNCHANGED restless
  BY <1>1 DEF Index, SkipUnreadable, ReadBins
<1>2. ASSUME Begin PROVE UNCHANGED chain
  BY <1>2 DEF Begin
<1>3. ASSUME \E bad \in SUBSET todo : \E pinned \in SUBSET (todo \ bad) : ReadPools(bad, pinned)
      PROVE  UNCHANGED chain /\ UNCHANGED restless
  BY <1>3 DEF ReadPools
<1>4. ASSUME ReadInside \/ ReadInfos \/ SkipMark \/ Mark PROVE UNCHANGED chain /\ UNCHANGED restless
  BY <1>4 DEF ReadInside, ReadInfos, SkipMark, Mark
<1>5. ASSUME Batch \/ WriteNavs \/ Die PROVE UNCHANGED chain /\ UNCHANGED restless
  BY <1>5 DEF Batch, WriteNavs, Die
<1>6. ASSUME \E missing \in SUBSET Owners : ReadLegs(missing)
      PROVE  UNCHANGED chain /\ UNCHANGED restless
  BY <1>6 DEF ReadLegs
<1>7. ASSUME UNCHANGED vars PROVE UNCHANGED chain /\ UNCHANGED restless
  BY <1>7 DEF vars
<1> QED
  BY <1>1, <1>2, <1>3, <1>4, <1>5, <1>6, <1>7, Zenon DEF Next, Chain, Moves

LEMMA GrowthKept ==
  ASSUME NInv, TInv', [Next]_vars
  PROVE  GrowthBounded' /\ EndedEmpty'
<1>1. ASSUME NEW p \in Positions, NEW b \in Bins, Trade(p, b) PROVE GrowthBounded' /\ EndedEmpty'
  <2>1. GrowthBounded'
    BY <1>1, TradeGrows DEF NInv
  <2> QED
    BY <1>1, <2>1 DEF Trade, NInv, EndedEmpty
<1>2. ASSUME NEW p \in Positions, NEW new \in [Bins -> 0 .. MaxLiquidity], Verb(p, new)
      PROVE  GrowthBounded' /\ EndedEmpty'
  <2>1. /\ events' = events + 1 /\ inside' = inside /\ p \notin ended
        /\ last' = [last EXCEPT ![p] =
                      [b \in Bins |-> IF liquidity[p][b] + new[b] > 0 THEN inside[p][b] ELSE last[p][b]]]
        /\ liquidity' = [liquidity EXCEPT ![p] = new]
        /\ ended' = IF \A b \in Bins : new[b] = 0 THEN ended \cup {p} ELSE ended
    BY <1>2 DEF Verb
  <2>2. ASSUME NEW q \in Positions, NEW c \in Bins
        PROVE  (inside[q][c] - last'[q][c]) % Wrap <= events + 1
    <3>1. inside[q][c] \in Growth /\ events \in Nat
      BY DEF NInv, TInv, TypeOK
    <3>2. CASE last'[q][c] = last[q][c]
      <4>1. (inside[q][c] - last[q][c]) % Wrap <= events
        BY DEF NInv, GrowthBounded
      <4>2. (inside[q][c] - last[q][c]) % Wrap \in Int
        <5>1. last[q][c] \in Growth
          BY DEF NInv, TInv, TypeOK
        <5> QED
          BY <3>1, <5>1, ConstantsAssumption DEF Growth
      <4> DEFINE d == (inside[q][c] - last[q][c]) % Wrap
      <4>3. d <= events + 1
        <5>1. d \in Int /\ d <= events
          BY <4>1, <4>2
        <5> HIDE DEF d
        <5> QED
          BY <3>1, <5>1
      <4> QED
        BY <3>2, <4>3
    <3>3. CASE last'[q][c] = inside[q][c]
      <4>1. (inside[q][c] - inside[q][c]) % Wrap = inside[q][c] - inside[q][c]
        BY <3>1, Differences DEF Growth
      <4> QED
        BY <3>1, <3>3, <4>1, ConstantsAssumption DEF Growth
    <3>4. last'[q][c] = last[q][c] \/ last'[q][c] = inside[q][c]
      BY <2>1 DEF NInv, TInv, TypeOK
    <3> QED
      BY <3>2, <3>3, <3>4
  <2>3. GrowthBounded'
    BY <2>1, <2>2 DEF GrowthBounded
  <2>4. EndedEmpty'
    BY <2>1 DEF NInv, EndedEmpty, TInv, TypeOK
  <2> QED
    BY <2>3, <2>4
<1>3. ASSUME ~Moves PROVE GrowthBounded' /\ EndedEmpty'
  <2>1. UNCHANGED <<liquidity, inside, last, ended, events>>
    BY <1>3, Still DEF chain
  <2> QED
    BY <2>1 DEF NInv, GrowthBounded, EndedEmpty
<1> QED
  BY <1>1, <1>2, <1>3 DEF Moves

LEMMA KnownKept ==
  ASSUME NInv, TInv', [Next]_vars
  PROVE  StillKnown'
<1> SUFFICES ASSUME stage' # "idle", NEW o \in Owners \ restless' PROVE Known(o)'
  BY DEF StillKnown
<1>1. ASSUME NEW p \in Positions, NEW b \in Bins, Trade(p, b) PROVE Known(o)'
  BY <1>1 DEF Trade, d1, Known, NInv, StillKnown
<1>2. ASSUME NEW p \in Positions, NEW new \in [Bins -> 0 .. MaxLiquidity], Verb(p, new)
      PROVE  Known(o)'
  <2>1. UNCHANGED <<known, open, stage>> /\ o \notin restless
    BY <1>2, VerbSpares DEF NInv, TInv
  <2>2. \A q \in PositionsOf(o) : liquidity'[q] = liquidity[q]
    BY <1>2, VerbQuiet DEF NInv, TInv
  <2>3. Known(o)
    BY <2>1 DEF NInv, StillKnown
  <2> QED
    BY <2>1, <2>2, <2>3 DEF Known, PositionsOf
<1>3. ASSUME NEW p \in Positions, Index(p) PROVE Known(o)'
  <2>1. /\ known' = [known EXCEPT ![p] = liquidity[p]]
        /\ open' = IF p \in ended THEN open \ {p} ELSE open \cup {p}
        /\ UNCHANGED <<liquidity, stage, restless>>
    BY <1>3 DEF Index, chain
  <2>2. Known(o)
    BY <2>1 DEF NInv, StillKnown
  <2>3. ASSUME NEW q \in Positions, NEW b \in Bins, OwnerOf[q] = o, liquidity[q][b] > 0
        PROVE  q \in open' /\ known'[q][b] > 0
    <3>1. q \in open /\ known[q][b] > 0
      BY <2>2, <2>3 DEF Known
    <3>2. q \notin ended
      BY <2>3 DEF NInv, EndedEmpty
    <3> QED
      BY <2>1, <2>3, <3>1, <3>2 DEF NInv, TInv, TypeOK
  <2> QED
    BY <2>1, <2>3 DEF Known
<1>4. ASSUME Begin PROVE Known(o)'
  BY <1>4 DEF Begin, chain, d1, Known
<1>5. ASSUME ~Moves, ~Begin, \A p \in Positions : ~Index(p) PROVE Known(o)'
  <2>1. UNCHANGED <<liquidity, restless>>
    BY <1>5, Still DEF chain
  <2>2. UNCHANGED d1 /\ stage # "idle"
    <3> USE DEF chain, d1, marking, pass
    <3>1. ASSUME NEW p \in Positions, SkipUnreadable(p) \/ ReadBins(p)
          PROVE  UNCHANGED d1 /\ stage # "idle"
      BY <3>1 DEF SkipUnreadable, ReadBins
    <3>2. ASSUME \E bad \in SUBSET todo : \E pinned \in SUBSET (todo \ bad) : ReadPools(bad, pinned)
          PROVE  UNCHANGED d1 /\ stage # "idle"
      BY <3>2 DEF ReadPools
    <3>3. ASSUME ReadInside \/ ReadInfos \/ SkipMark \/ Mark
          PROVE  UNCHANGED d1 /\ stage # "idle"
      BY <3>3 DEF ReadInside, ReadInfos, SkipMark, Mark
    <3>4. ASSUME Batch \/ WriteNavs \/ Die PROVE UNCHANGED d1 /\ stage # "idle"
      BY <3>4 DEF Batch, WriteNavs, Die
    <3>5. ASSUME \E missing \in SUBSET Owners : ReadLegs(missing)
          PROVE  UNCHANGED d1 /\ stage # "idle"
      BY <3>5 DEF ReadLegs
    <3>6. ASSUME UNCHANGED vars PROVE UNCHANGED d1 /\ stage # "idle"
      BY <3>6 DEF vars
    <3> QED
      BY <1>5, <3>1, <3>2, <3>3, <3>4, <3>5, <3>6, Zenon DEF Next, Chain, Moves
  <2>3. Known(o)
    BY <2>1, <2>2 DEF NInv, StillKnown
  <2> QED
    BY <2>1, <2>2, <2>3 DEF Known, d1
<1> QED
  BY <1>1, <1>2, <1>3, <1>4, <1>5 DEF Moves

-----------------------------------------------------------------------------
(* The position at hand.                                                   *)

(* The bins read from D1 are all that hold liquidity.                      *)
LEMMA OwedOfBins ==
  ASSUME TypeOK, NEW p \in Positions, NEW S \in SUBSET Bins,
         \A b \in Bins : liquidity[p][b] > 0 => b \in S
  PROVE  Owed(p, S) = Owed(p, Bins) /\ Amount(liquidity[p], S) = Amount(liquidity[p], Bins)
<1>1. /\ liquidity[p] \in [Bins -> 0 .. MaxLiquidity]
      /\ inside[p] \in [Bins -> Growth] /\ last[p] \in [Bins -> Growth]
  BY DEF TypeOK
<1> QED
  BY <1>1, CountRest DEF Owed

LEMMA AtHandKept ==
  ASSUME NInv, TInv', [Next]_vars
  PROVE  AtHand'
<1> SUFFICES ASSUME stage' = "reads", OwnerOf[current'] \notin restless'
             PROVE  /\ ~touched'
                    /\ \A b \in Bins : liquidity'[current'][b] > 0 => b \in bins'
                    /\ insides' # None => owed' <= Owed(current, Bins)'
  BY DEF AtHand
<1>1. TypeOK /\ current' \in Positions /\ OwnerOf[current'] \in Owners
      /\ current' \in PositionsOf(OwnerOf[current'])
  BY ConstantsAssumption DEF NInv, TInv, Stages, PositionsOf
<1>2. ASSUME NEW p \in Positions, NEW b \in Bins, Trade(p, b) PROVE AtHand'
  <2>1. UNCHANGED <<stage, restless, current, touched, liquidity, bins, insides, owed>>
    BY <1>2 DEF Trade, marking
  <2>2. AtHand
    BY DEF NInv
  <2>3. Owed(current, Bins) <= Owed(current, Bins)'
    BY <1>1, <1>2, <2>1, TradeGrows DEF NInv
  <2>4. Owed(current, Bins) \in Int /\ Owed(current, Bins)' \in Int /\ owed \in Int
    <3>1. Owed(current, Bins)' \in Nat
      <4>1. Owed(current, Bins)' = Unclaimed(liquidity'[current], inside'[current], last'[current], Bins)
        BY <2>1 DEF Owed
      <4>2. /\ liquidity'[current] \in [Bins -> 0 .. MaxLiquidity]
            /\ inside'[current] \in [Bins -> Growth] /\ last'[current] \in [Bins -> Growth]
        BY <1>1, <2>1 DEF TInv, TypeOK
      <4> QED
        BY <4>1, <4>2, CountNat
    <3> QED
      BY <1>1, <2>1, <3>1, OwedNat DEF TypeOK
  <2>5. insides # None => owed <= Owed(current, Bins)'
    <3> DEFINE f == Owed(current, Bins)
               g == Owed(current, Bins)'
    <3>1. insides # None => owed <= f
      BY <2>1, <2>2 DEF AtHand
    <3>2. f <= g /\ f \in Int /\ g \in Int /\ owed \in Int
      BY <2>3, <2>4
    <3> HIDE DEF f, g
    <3>3. insides # None => owed <= g
      BY <3>1, <3>2
    <3> QED
      BY <3>3 DEF g
  <2> QED
    BY <2>1, <2>2, <2>5 DEF AtHand, Owed
<1>3. ASSUME NEW p \in Positions, NEW new \in [Bins -> 0 .. MaxLiquidity], Verb(p, new)
      PROVE  AtHand'
  <2>1. /\ UNCHANGED <<stage, current, bins, insides, infos, owed>>
        /\ restless' = restless \cup {OwnerOf[p]}
        /\ touched' = (touched \/ (p = current /\ (insides # None \/ infos # None)))
    BY <1>3 DEF Verb
  <2>2. /\ OwnerOf[current] \notin restless /\ Owed(current, Bins)' = Owed(current, Bins)
        /\ liquidity'[current] = liquidity[current]
    BY <1>1, <1>3, <2>1, VerbQuiet
  <2>3. p # current
    BY <2>1
  <2>4. AtHand
    BY DEF NInv
  <2> QED
    BY <2>1, <2>2, <2>3, <2>4 DEF AtHand
<1>4. ASSUME NEW p \in Positions, ReadBins(p) PROVE AtHand'
  <2>1. /\ stage = "next" /\ bins' = {b \in Bins : known[p][b] > 0} /\ current' = p
        /\ insides' = insides /\ touched' = touched
        /\ UNCHANGED <<liquidity, known, restless>>
    BY <1>4 DEF ReadBins, chain, d1, marking
  <2>2. Known(OwnerOf[p])
    BY <1>1, <2>1 DEF NInv, StillKnown
  <2>3. insides = None /\ ~touched
    BY <2>1 DEF NInv, TInv, Stages
  <2> QED
    BY <2>1, <2>2, <2>3 DEF AtHand, Known
<1>5. ASSUME ReadInside PROVE AtHand'
  <2>1. /\ stage = "reads" /\ owed' = Owed(current, bins)
        /\ UNCHANGED <<liquidity, inside, last, restless, current, bins, touched>>
    BY <1>5 DEF ReadInside, chain
  <2>2. ~touched /\ \A b \in Bins : liquidity[current][b] > 0 => b \in bins
    BY <2>1 DEF NInv, AtHand
  <2>3. bins \in SUBSET Bins
    BY <1>1 DEF TypeOK
  <2>4. Owed(current, bins) = Owed(current, Bins) /\ Owed(current, Bins) \in Nat
    BY <1>1, <2>1, <2>2, <2>3, OwedOfBins, OwedNat
  <2>5. Owed(current, Bins)' = Owed(current, Bins)
    BY <2>1 DEF Owed
  <2>6. owed' <= Owed(current, Bins)'
    <3> DEFINE f == Owed(current, Bins)
    <3>1. owed' = f /\ Owed(current, Bins)' = f /\ f \in Nat
      BY <2>1, <2>4, <2>5
    <3> HIDE DEF f
    <3> QED
      BY <3>1
  <2> QED
    BY <2>1, <2>2, <2>6 DEF AtHand, Owed
<1>6. ASSUME UNCHANGED <<liquidity, inside, last, restless, stage, current, bins, insides, owed,
                         touched>>
      PROVE  AtHand'
  BY <1>6 DEF NInv, AtHand, Owed
<1> USE DEF chain, d1, marking, pass
<1>7. ASSUME NEW p \in Positions, Index(p) \/ SkipUnreadable(p) PROVE AtHand'
  BY <1>6, <1>7 DEF Index, SkipUnreadable
<1>8. ASSUME ReadInfos \/ UNCHANGED vars PROVE AtHand'
  BY <1>6, <1>8 DEF ReadInfos, vars
<1>9. ~Begin /\ ~SkipMark /\ ~Mark /\ ~Batch /\ ~WriteNavs /\ ~Die
  BY DEF Begin, SkipMark, Mark, Batch, WriteNavs, Die, PassEnds, NInv, TInv, Stages
<1>10. /\ \A missing \in SUBSET Owners : ~ReadLegs(missing)
       /\ \A bad \in SUBSET todo : \A pinned \in SUBSET (todo \ bad) : ~ReadPools(bad, pinned)
  BY DEF ReadLegs, ReadPools
<1>11. AtHand'
  BY <1>2, <1>3, <1>4, <1>5, <1>7, <1>8, <1>9, <1>10 DEF Next, Chain
<1> QED
  BY <1>11 DEF AtHand

-----------------------------------------------------------------------------
(* The bounds of what was marked.                                          *)

(* A step that touches nothing but the rows of D1 and the last positions   *)
(* read: nothing that the bounds of an owner speak of.                     *)
LEMMA BoundsStill ==
  ASSUME TypeOK, TypeOK', NEW o \in Owners, Bounds(o), UNCHANGED chain, UNCHANGED before,
         sums'[o] = sums[o],
         PositionsOf(o) \cap Left' = PositionsOf(o) \cap Left,
         \A p \in PositionsOf(o) : ToCount(p)' = ToCount(p)
  PROVE  Bounds(o)'
<1>1. wallet'[o] = wallet[o] /\ before'[o] = before[o] /\ Marked(o)' = Marked(o)
  BY DEF chain, Marked
<1>2. ASSUME NEW p \in PositionsOf(o) PROVE High[p] <= High'[p] /\ Low[p] <= Low'[p]
  <2>1. p \in Positions /\ UNCHANGED <<liquidity, inside, last>>
    BY DEF chain, PositionsOf
  <2>2. High'[p] = High[p] /\ Low'[p] = Low[p]
    BY <2>1, ValueKept
  <2>3. High[p] \in Nat /\ Low[p] \in Nat
    BY <2>1, LowHighNat
  <2> QED
    BY <2>2, <2>3
<1> QED
  BY <1>1, <1>2, BoundsKept

LEMMA BetweenMoves ==
  ASSUME NInv, TInv', Moves, NEW o \in Owners \ (restless' \cup skip'), stage' # "idle"
  PROVE  Bounds(o)'
<1>1. TypeOK /\ TypeOK'
  BY DEF NInv, TInv
<1>2. ASSUME NEW p \in Positions, NEW b \in Bins, Trade(p, b) PROVE Bounds(o)'
  <2>1. UNCHANGED <<wallet, before, sums, stage, todo, current, skip, restless>>
    BY <1>2 DEF Trade, marking, pass
  <2>2. Bounds(o)
    BY <2>1 DEF NInv, Between
  <2>3. \A q \in PositionsOf(o) : High[q] <= High'[q] /\ Low[q] <= Low'[q]
    BY <1>2, TradeGrows DEF PositionsOf, NInv
  <2>4. Left' = Left /\ Marked(o)' = Marked(o)
    BY <2>1 DEF Left, Marked
  <2> QED
    BY <1>1, <2>1, <2>2, <2>3, <2>4, BoundsKept
<1>3. ASSUME NEW p \in Positions, NEW new \in [Bins -> 0 .. MaxLiquidity], Verb(p, new)
      PROVE  Bounds(o)'
  <2>1. UNCHANGED <<before, sums, stage, todo, current, skip>>
    BY <1>1, <1>3, VerbSpares
  <2>2. /\ o \notin restless /\ wallet'[o] = wallet[o]
        /\ \A q \in PositionsOf(o) : High'[q] = High[q] /\ Low'[q] = Low[q]
    BY <1>1, <1>3, VerbQuiet
  <2>3. Bounds(o)
    BY <2>1, <2>2 DEF NInv, Between
  <2>4. ASSUME NEW q \in PositionsOf(o) PROVE High[q] <= High'[q] /\ Low[q] <= Low'[q]
    <3>1. q \in Positions
      BY DEF PositionsOf
    <3>2. High[q] \in Nat /\ Low[q] \in Nat
      BY <1>1, <3>1, LowHighNat
    <3> QED
      BY <2>2, <3>2
  <2>5. Left' = Left /\ Marked(o)' = Marked(o)
    BY <2>1 DEF Left, Marked
  <2> QED
    BY <1>1, <2>1, <2>2, <2>3, <2>4, <2>5, BoundsKept
<1> QED
  BY <1>2, <1>3 DEF Moves

(* The pass begins: nothing is marked and all that counts is left.         *)
LEMMA BetweenBegin ==
  ASSUME NInv, TInv', Begin, NEW o \in Owners \ restless'
  PROVE  Bounds(o)'
<1>1. /\ stage = "idle" /\ stage' = "pools" /\ todo' = open
      /\ restless' = {x \in Owners : ~Known(x)}
      /\ before' = [x \in Owners |-> Worth(x, KeepShaped)]
      /\ UNCHANGED <<liquidity, inside, last, wallet, current, insides, owed, sums>>
  BY DEF Begin, chain, marking
<1>2. TypeOK /\ Known(o) /\ sums[o] = None /\ insides = None /\ open \subseteq Positions
  BY <1>1 DEF NInv, TInv, Stages, TypeOK
<1>3. Left' = open /\ Marked(o)' = 0
  BY <1>1, <1>2 DEF Left, Marked
<1>4. High' = High /\ Low' = Low
  BY <1>1 DEF High, Low, ToCount, Value, Owed
<1> DEFINE f == [p \in Positions |-> Value(p, Owed(p, Bins), KeepShaped)]
<1>5. \A p \in Positions : f[p] = Low[p]
  BY <1>2 DEF Low, ToCount
<1>6. before'[o] = wallet[o] + SumFunctionOnSet(f, PositionsOf(o))
  BY <1>1 DEF Worth
<1> HIDE DEF f
<1>7. PositionsOf(o) \subseteq Positions
  BY DEF PositionsOf
<1>8. Integral(f, PositionsOf(o)) /\ Integral(Low, PositionsOf(o))
  <2>1. Integral(Low, PositionsOf(o))
    BY <1>2, SumsNat
  <2> QED
    BY <1>5, <1>7, <2>1 DEF Integral
<1>9. SumFunctionOnSet(f, PositionsOf(o)) = SumFunctionOnSet(Low, PositionsOf(o))
  BY <1>5, <1>7, <1>8, SumSame
<1>10. ASSUME NEW p \in PositionsOf(o) \ (PositionsOf(o) \cap open) PROVE Low[p] = 0
  <2>1. p \in Positions /\ p \notin open /\ OwnerOf[p] = o
    BY DEF PositionsOf
  <2>2. /\ liquidity[p] \in [Bins -> 0 .. MaxLiquidity]
        /\ inside[p] \in [Bins -> Growth] /\ last[p] \in [Bins -> Growth]
    BY <1>2, <2>1 DEF TypeOK
  <2>3. \A b \in Bins : liquidity[p][b] = 0
    BY <1>2, <2>1, <2>2, ConstantsAssumption DEF Known
  <2>4. Amount(liquidity[p], Bins) = 0 /\ Owed(p, Bins) = 0
    BY <2>2, <2>3, CountZero DEF Owed
  <2>5. Kept(0, KeepShaped) = 0
    BY ConstantsAssumption DEF Kept
  <2>6. Low[p] = Amount(liquidity[p], Bins) + Kept(Owed(p, Bins), KeepShaped)
    BY <1>2, <2>1 DEF Low, ToCount, Value
  <2> QED
    BY <2>4, <2>5, <2>6
<1>11. SumFunctionOnSet(Low, PositionsOf(o)) = SumFunctionOnSet(Low, PositionsOf(o) \cap open)
  BY <1>8, <1>10, SumRest
<1>12. /\ SumFunctionOnSet(High, PositionsOf(o) \ open) \in Nat
       /\ SumFunctionOnSet(Low, PositionsOf(o) \cap open) \in Nat
  BY <1>2, SumsNat
<1>13. wallet[o] \in Nat
  BY <1>2 DEF TypeOK
<1>14. 0 <= SumFunctionOnSet(High, PositionsOf(o) \ open)
  BY <1>12
<1>15. before'[o] <= wallet[o] + 0 + SumFunctionOnSet(Low, PositionsOf(o) \cap open)
  BY <1>6, <1>9, <1>11, <1>12, <1>13
<1>16. Bounds(o)' <=>
         /\ Marked(o)' <= SumFunctionOnSet(High', PositionsOf(o) \ Left')
         /\ before'[o] <= wallet'[o] + Marked(o)' + SumFunctionOnSet(Low', PositionsOf(o) \cap Left')
  BY DEF Bounds, PositionsOf
<1> QED
  BY <1>1, <1>3, <1>4, <1>14, <1>15, <1>16

(* A position that D1 says is empty is passed over: it is.                 *)
LEMMA BetweenBins ==
  ASSUME NInv, TInv', NEW p \in Positions, ReadBins(p), NEW o \in Owners \ (restless \cup skip)
  PROVE  Bounds(o)'
<1>1. TypeOK /\ TypeOK' /\ Bounds(o)
  BY DEF NInv, TInv, ReadBins, Between
<1>2. /\ stage = "next" /\ p \in todo /\ todo' = todo \ {p}
      /\ insides' = insides /\ owed' = owed
      /\ UNCHANGED <<chain, before, sums>>
      /\ \/ /\ {b \in Bins : known[p][b] > 0} = {} /\ stage' = stage
         \/ stage' = "reads" /\ current' = p
  BY DEF ReadBins, marking, pass
<1>3. insides = None /\ UNCHANGED <<liquidity, inside, last, wallet>>
  BY <1>2 DEF NInv, TInv, Stages, chain
<1>4. \A q \in PositionsOf(o) : ToCount(q)' = ToCount(q)
  BY <1>2, <1>3 DEF ToCount, Owed
<1>5. CASE stage' = "reads" /\ current' = p
  <2>1. Left' = Left
    BY <1>2, <1>5 DEF Left
  <2> QED
    BY <1>1, <1>2, <1>4, <2>1, BoundsStill
<1>6. CASE {b \in Bins : known[p][b] > 0} = {} /\ stage' = stage
  <2>1. Left' = Left \ {p} /\ p \in Left
    BY <1>2, <1>6 DEF Left
  <2>2. CASE OwnerOf[p] # o
    <3>1. PositionsOf(o) \cap Left' = PositionsOf(o) \cap Left
      BY <2>1, <2>2 DEF PositionsOf
    <3> QED
      BY <1>1, <1>2, <1>4, <3>1, BoundsStill
  <2>3. CASE OwnerOf[p] = o
    <3>1. p \in PositionsOf(o) \cap Left
      BY <2>1, <2>3 DEF PositionsOf
    <3>2. /\ liquidity[p] \in [Bins -> 0 .. MaxLiquidity]
          /\ inside[p] \in [Bins -> Growth] /\ last[p] \in [Bins -> Growth]
      BY <1>1 DEF TypeOK
    <3>3. Known(o)
      BY <1>2 DEF NInv, StillKnown
    <3>4. \A b \in Bins : liquidity[p][b] = 0
      BY <1>6, <2>3, <3>2, <3>3, ConstantsAssumption DEF Known
    <3>5. Amount(liquidity[p], Bins) = 0 /\ Owed(p, Bins) = 0
      BY <3>2, <3>4, CountZero DEF Owed
    <3>6. Kept(0, KeepShaped) = 0
      BY ConstantsAssumption DEF Kept
    <3>7. Low[p] = Amount(liquidity[p], Bins) + Kept(Owed(p, Bins), KeepShaped)
      BY <1>3 DEF Low, ToCount, Value
    <3>8. Low[p] <= 0 /\ 0 <= High[p]
      <4>1. High[p] \in Nat
        BY <1>1, LowHighNat
      <4> QED
        BY <3>5, <3>6, <3>7, <4>1
    <3>9. Marked(o)' = Marked(o) + 0
      BY <1>1, <1>2, MarkedNat DEF Marked
    <3>10. ASSUME NEW q \in PositionsOf(o) PROVE High'[q] = High[q] /\ Low'[q] = Low[q]
      BY <1>3, <1>4, ValueKept DEF PositionsOf
    <3>11. wallet'[o] = wallet[o] /\ before'[o] = before[o] /\ 0 \in Nat
      BY <1>2, <1>3
    <3> QED
      BY <1>1, <2>1, <3>1, <3>8, <3>9, <3>10, <3>11, BoundsMarked
  <2> QED
    BY <2>2, <2>3
<1> QED
  BY <1>2, <1>5, <1>6

(* The mark of a position lies between its bounds.                         *)
LEMMA BetweenMark ==
  ASSUME NInv, TInv', Mark, NEW o \in Owners \ (restless \cup skip')
  PROVE  Bounds(o)'
<1> DEFINE fees == Unclaimed(infos.liquidity, insides, infos.last, bins)
           amount == Amount(infos.liquidity, bins)
           n == KeepFor(Cardinality(bins))
           m == amount + Kept(fees, n)
<1>1. /\ stage = "reads" /\ stage' = "next" /\ insides # None /\ infos # None /\ insides' = None
      /\ \/ skip' = skip \cup {OwnerOf[current]} /\ sums' = sums
         \/ /\ sums' = [sums EXCEPT ![OwnerOf[current]] =
                          (IF sums[OwnerOf[current]] = None THEN 0 ELSE sums[OwnerOf[current]])
                          + amount + Kept(fees, n)]
            /\ skip' = skip
      /\ UNCHANGED <<chain, todo, before>>
  BY DEF Mark, MarkingEnds
<1>2. /\ TypeOK /\ TypeOK' /\ Bounds(o) /\ current \in Positions /\ current \notin todo
      /\ UNCHANGED <<liquidity, inside, last, wallet>>
  BY <1>1 DEF NInv, TInv, Stages, Between, chain
<1>3. Left = todo \cup {current} /\ Left' = Left \ {current} /\ current \in Left
  BY <1>1, <1>2 DEF Left
<1>4. ASSUME NEW q \in Positions \ {current} PROVE ToCount(q)' = ToCount(q)
  BY <1>1, <1>2 DEF ToCount, Owed
<1>5. CASE OwnerOf[current] # o
  <2>1. PositionsOf(o) \cap Left' = PositionsOf(o) \cap Left
    BY <1>3, <1>5 DEF PositionsOf
  <2>2. sums'[o] = sums[o]
    BY <1>1, <1>5 DEF TypeOK, TInv, NInv
  <2>3. \A q \in PositionsOf(o) : ToCount(q)' = ToCount(q)
    BY <1>4, <1>5 DEF PositionsOf
  <2> QED
    BY <1>1, <1>2, <2>1, <2>2, <2>3, BoundsStill
<1>6. CASE OwnerOf[current] = o
  <2>1. skip' = skip /\ sums'[o] = (IF sums[o] = None THEN 0 ELSE sums[o]) + amount + Kept(fees, n)
    <3>1. skip' # skip \cup {OwnerOf[current]}
      BY <1>6
    <3> QED
      BY <1>1, <1>6, <3>1 DEF TypeOK, TInv, NInv
  <2>2. /\ ~touched /\ \A b \in Bins : liquidity[current][b] > 0 => b \in bins
        /\ owed <= Owed(current, Bins)
    BY <1>1, <1>6 DEF NInv, AtHand
  <2>3. fees = owed /\ infos.liquidity = liquidity[current]
    <3>1. infos = [liquidity |-> liquidity[current], last |-> last[current]]
      BY <1>1, <2>2 DEF NInv, IInv, Answers
    <3>2. owed = Unclaimed(liquidity[current], insides, last[current], bins)
      BY <1>1, <2>2 DEF NInv, IInv, Answers
    <3> QED
      BY <3>1, <3>2
  <2>4. amount = Amount(liquidity[current], Bins)
    <3>1. bins \in SUBSET Bins
      BY <1>2 DEF TypeOK
    <3> QED
      BY <1>2, <2>2, <2>3, <3>1, OwedOfBins
  <2> HIDE DEF fees, amount
  <2>5. m = Value(current, owed, n)
    BY <2>3, <2>4 DEF Value
  <2>6. /\ n \in Nat /\ KeepShaped \in Nat /\ KeepSimple \in Nat
        /\ KeepShaped <= n /\ n <= KeepSimple
    BY KeepForNat
  <2> HIDE DEF n, m
  <2>7. owed \in Nat /\ Owed(current, Bins) \in Nat /\ owed <= owed
    BY <1>2, OwedNat DEF TypeOK
  <2>8. Value(current, owed, KeepShaped) <= Value(current, owed, n)
    BY <1>2, <2>6, <2>7, ValueGrows
  <2>9. Value(current, owed, n) <= Value(current, Owed(current, Bins), KeepSimple)
    BY <1>2, <2>2, <2>6, <2>7, ValueGrows
  <2>10. /\ Low[current] = Value(current, owed, KeepShaped)
         /\ High[current] = Value(current, Owed(current, Bins), KeepSimple)
    BY <1>1, <1>2 DEF Low, High, ToCount
  <2>11. m \in Nat /\ Low[current] <= m /\ m <= High[current]
    <3>1. m \in Nat
      BY <1>2, <2>5, <2>6, <2>7, ValueNat
    <3> QED
      BY <2>5, <2>8, <2>9, <2>10, <3>1
  <2>12. Marked(o)' = Marked(o) + m
    <3>1. Marked(o) \in Nat /\ amount \in Nat /\ Kept(fees, n) \in Nat
      <4>1. amount \in Nat
        BY <1>2, <2>4, OwedNat
      <4> QED
        BY <1>2, <2>3, <2>6, <2>7, <4>1, MarkedNat, KeptNat
    <3>2. sums'[o] = Marked(o) + amount + Kept(fees, n)
      BY <2>1 DEF Marked
    <3>3. sums'[o] # None
      <4>1. sums'[o] \in Nat
        BY <3>1, <3>2
      <4> QED
        BY <4>1, ConstantsAssumption
    <3> QED
      BY <3>1, <3>2, <3>3 DEF Marked, m
  <2>13. current \in PositionsOf(o) \cap Left
    BY <1>2, <1>3, <1>6 DEF PositionsOf
  <2>14. \A q \in PositionsOf(o) : High'[q] = High[q]
    BY <1>2, ValueKept DEF PositionsOf
  <2>15. \A q \in PositionsOf(o) \ {current} : Low'[q] = Low[q]
    BY <1>2, <1>4, ValueKept DEF PositionsOf
  <2>16. wallet'[o] = wallet[o] /\ before'[o] = before[o]
    BY <1>1, <1>2
  <2> QED
    BY <1>2, <1>3, <2>11, <2>12, <2>13, <2>14, <2>15, <2>16, BoundsMarked
<1> QED
  BY <1>5, <1>6

(* A position is given up: its owner is skipped.                           *)
LEMMA BetweenSkip ==
  ASSUME NInv, TInv', (\E p \in Positions : SkipUnreadable(p)) \/ SkipMark,
         NEW o \in Owners \ (restless \cup skip')
  PROVE  Bounds(o)'
<1>1. TypeOK /\ TypeOK'
  BY DEF NInv, TInv
<1>2. ASSUME NEW p \in Positions, SkipUnreadable(p) PROVE Bounds(o)'
  <2>1. /\ stage = "next" /\ todo' = todo \ {p} /\ skip' = skip \cup {OwnerOf[p]}
        /\ UNCHANGED <<chain, before, sums, stage, current, insides, owed>>
    BY <1>2 DEF SkipUnreadable, marking
  <2>2. Bounds(o) /\ OwnerOf[p] # o
    BY <2>1 DEF NInv, Between
  <2>3. PositionsOf(o) \cap Left' = PositionsOf(o) \cap Left
    BY <2>1, <2>2 DEF Left, PositionsOf
  <2>4. \A q \in PositionsOf(o) : ToCount(q)' = ToCount(q)
    BY <2>1 DEF ToCount, Owed, chain
  <2> QED
    BY <1>1, <2>1, <2>2, <2>3, <2>4, BoundsStill
<1>3. ASSUME SkipMark PROVE Bounds(o)'
  <2>1. /\ stage = "reads" /\ stage' = "next" /\ skip' = skip \cup {OwnerOf[current]}
        /\ insides' = None
        /\ UNCHANGED <<chain, before, sums, todo>>
    BY <1>3 DEF SkipMark, MarkingEnds
  <2>2. Bounds(o) /\ OwnerOf[current] # o
    BY <2>1 DEF NInv, Between
  <2>3. PositionsOf(o) \cap Left' = PositionsOf(o) \cap Left
    BY <2>1, <2>2 DEF Left, PositionsOf
  <2>4. \A q \in PositionsOf(o) : ToCount(q)' = ToCount(q)
    BY <2>1, <2>2 DEF ToCount, Owed, chain, PositionsOf
  <2> QED
    BY <1>1, <2>1, <2>2, <2>3, <2>4, BoundsStill
<1> QED
  BY <1>2, <1>3

(* The growth is read: from now on a mark will count what it was then.     *)
LEMMA BetweenInside ==
  ASSUME NInv, TInv', ReadInside, NEW o \in Owners \ (restless \cup skip)
  PROVE  Bounds(o)'
<1>1. TypeOK /\ TypeOK' /\ current \in Positions
  BY DEF NInv, TInv, Stages, ReadInside
<1>2. /\ stage = "reads" /\ stage' = "reads" /\ insides = None /\ owed' = Owed(current, bins)
      /\ UNCHANGED <<chain, before, sums, todo, current, bins, restless>>
  BY DEF ReadInside, pass
<1>3. Bounds(o)
  BY <1>2 DEF NInv, Between
<1>4. Left' = Left
  BY <1>2 DEF Left
<1>5. ASSUME NEW q \in PositionsOf(o) PROVE ToCount(q)' = ToCount(q)
  <2>1. Owed(q, Bins)' = Owed(q, Bins) /\ ToCount(q) = Owed(q, Bins)
    BY <1>2 DEF Owed, chain, ToCount
  <2>2. CASE q # current
    BY <1>2, <2>1, <2>2 DEF ToCount
  <2>3. CASE q = current
    <3>1. OwnerOf[current] \notin restless
      BY <2>3 DEF PositionsOf
    <3>2. \A b \in Bins : liquidity[current][b] > 0 => b \in bins
      BY <1>2, <3>1 DEF NInv, AtHand
    <3>3. bins \in SUBSET Bins
      BY <1>1 DEF TypeOK
    <3>4. Owed(current, bins) = Owed(current, Bins)
      BY <1>1, <3>2, <3>3, OwedOfBins
    <3> QED
      BY <1>2, <2>1, <2>3, <3>4 DEF ToCount
  <2> QED
    BY <2>2, <2>3
<1> QED
  BY <1>1, <1>2, <1>3, <1>4, <1>5, BoundsStill

LEMMA BetweenKept ==
  ASSUME NInv, TInv', [Next]_vars
  PROVE  Between'
<1> SUFFICES ASSUME stage' # "idle", NEW o \in Owners \ (restless' \cup skip') PROVE Bounds(o)'
  BY DEF Between
<1>1. TypeOK /\ TypeOK'
  BY DEF NInv, TInv
<1>2. ASSUME Moves PROVE Bounds(o)'
  BY <1>2, BetweenMoves
<1>3. ASSUME UNCHANGED <<chain, before, sums, todo, current, insides, owed, restless, skip>>,
             stage # "idle", (stage = "reads") = (stage' = "reads")
      PROVE  Bounds(o)'
  <2>1. Bounds(o)
    BY <1>3 DEF NInv, Between
  <2>2. Left' = Left
    BY <1>3 DEF Left
  <2>3. \A q \in PositionsOf(o) : ToCount(q)' = ToCount(q)
    BY <1>3 DEF ToCount, Owed, chain
  <2> QED
    BY <1>1, <1>3, <2>1, <2>2, <2>3, BoundsStill
<1>4. ASSUME NEW p \in Positions, Index(p) PROVE Bounds(o)'
  <2>1. UNCHANGED <<chain, before, sums, todo, current, insides, owed, restless, skip, stage>>
    BY <1>4 DEF Index, marking, pass
  <2> QED
    BY <1>3, <2>1
<1>5. ASSUME NEW p \in Positions, SkipUnreadable(p) PROVE Bounds(o)'
  BY <1>5, BetweenSkip DEF SkipUnreadable
<1>6. ASSUME SkipMark PROVE Bounds(o)'
  BY <1>6, BetweenSkip DEF SkipMark
<1>7. ASSUME NEW p \in Positions, ReadBins(p) PROVE Bounds(o)'
  BY <1>7, BetweenBins DEF ReadBins
<1>8. ASSUME Begin PROVE Bounds(o)'
  BY <1>8, BetweenBegin
<1>9. ASSUME NEW bad \in SUBSET todo, NEW pinned \in SUBSET (todo \ bad), ReadPools(bad, pinned)
      PROVE  Bounds(o)'
  <2>1. /\ stage = "pools" /\ stage' = "next"
        /\ UNCHANGED <<chain, before, sums, todo, current, insides, owed, restless, skip>>
    BY <1>9 DEF ReadPools, marking
  <2> QED
    BY <1>3, <2>1
<1>10. ASSUME ReadInside PROVE Bounds(o)'
  BY <1>10, BetweenInside DEF ReadInside, pass
<1>11. ASSUME ReadInfos PROVE Bounds(o)'
  <2>1. /\ stage = "reads" /\ stage' = "reads"
        /\ UNCHANGED <<chain, before, sums, todo, current, insides, owed, restless, skip>>
    BY <1>11 DEF ReadInfos, pass
  <2> QED
    BY <1>3, <2>1
<1>12. ASSUME Mark PROVE Bounds(o)'
  BY <1>12, BetweenMark DEF Mark
<1>13. ASSUME Batch PROVE Bounds(o)'
  <2>1. /\ stage = "next" /\ stage' = "legs"
        /\ UNCHANGED <<chain, before, sums, todo, current, insides, owed, restless, skip>>
    BY <1>13 DEF Batch, PassEnds, marking, pass
  <2> QED
    BY <1>3, <2>1
<1>14. ASSUME NEW missing \in SUBSET Owners, ReadLegs(missing) PROVE Bounds(o)'
  <2>1. /\ stage = "legs" /\ stage' = "nav"
        /\ UNCHANGED <<chain, before, sums, todo, current, insides, owed, restless, skip>>
    BY <1>14 DEF ReadLegs, marking
  <2> QED
    BY <1>3, <2>1
<1>15. ~WriteNavs /\ ~Die
  BY DEF WriteNavs, Die, PassEnds
<1>16. ASSUME UNCHANGED vars PROVE Bounds(o)'
  <2>1. UNCHANGED <<chain, before, sums, todo, current, insides, owed, restless, skip, stage>>
    BY <1>16 DEF vars, marking, pass
  <2> QED
    BY <1>3, <2>1
<1> QED
  BY <1>2, <1>4, <1>5, <1>6, <1>7, <1>8, <1>9, <1>10, <1>11, <1>12, <1>13, <1>14, <1>15, <1>16
  DEF Next, Chain, Moves

-----------------------------------------------------------------------------
(* The wallets, and what is recorded.                                      *)

LEMMA LegsKept ==
  ASSUME NInv, TInv', [Next]_vars
  PROVE  LegsRead'
<1> SUFFICES ASSUME stage' = "nav", NEW o \in Owners, legs'[o] # None
             PROVE  o \notin skip' /\ (o \notin restless' => legs'[o] = wallet'[o])
  BY DEF LegsRead
<1>1. ASSUME UNCHANGED <<stage, legs, skip, wallet, restless>>
      PROVE  o \notin skip' /\ (o \notin restless' => legs'[o] = wallet'[o])
  BY <1>1 DEF NInv, LegsRead
<1> USE DEF chain, d1, marking, pass
<1>2. ASSUME (\E p \in Positions, b \in Bins : Trade(p, b)) \/ (\E p \in Positions : Index(p))
             \/ UNCHANGED vars
      PROVE  UNCHANGED <<stage, legs, skip, wallet, restless>>
  BY <1>2 DEF Trade, Index, vars
<1>3. ASSUME NEW p \in Positions, NEW new \in [Bins -> 0 .. MaxLiquidity], Verb(p, new)
      PROVE  o \notin skip' /\ (o \notin restless' => legs'[o] = wallet'[o])
  <2>1. UNCHANGED <<stage, legs, skip>> /\ restless' = restless \cup {OwnerOf[p]}
    BY <1>3 DEF Verb
  <2>2. o \notin restless' => wallet'[o] = wallet[o]
    BY <1>3, VerbSpares DEF NInv, TInv
  <2> QED
    BY <2>1, <2>2 DEF NInv, LegsRead
<1>4. ASSUME NEW missing \in SUBSET Owners, ReadLegs(missing)
      PROVE  o \notin skip' /\ (o \notin restless' => legs'[o] = wallet'[o])
  BY <1>4 DEF ReadLegs
<1>5. /\ \A p \in Positions : ~SkipUnreadable(p) /\ ~ReadBins(p)
      /\ ~Begin /\ ~ReadInside /\ ~ReadInfos /\ ~SkipMark /\ ~Mark /\ ~Batch /\ ~WriteNavs /\ ~Die
      /\ \A bad \in SUBSET todo : \A pinned \in SUBSET (todo \ bad) : ~ReadPools(bad, pinned)
  <2>1. \A p \in Positions : ~SkipUnreadable(p) /\ ~ReadBins(p)
    BY DEF SkipUnreadable, ReadBins
  <2>2. ~Begin /\ ~ReadInside /\ ~ReadInfos /\ ~SkipMark /\ ~Mark
    BY DEF Begin, ReadInside, ReadInfos, SkipMark, Mark
  <2>3. ~Batch /\ ~WriteNavs /\ ~Die
    BY DEF Batch, WriteNavs, Die, PassEnds
  <2>4. \A bad \in SUBSET todo : \A pinned \in SUBSET (todo \ bad) : ~ReadPools(bad, pinned)
    BY DEF ReadPools
  <2> QED
    BY <2>1, <2>2, <2>3, <2>4
<1> QED
  BY <1>1, <1>2, <1>3, <1>4, <1>5 DEF Next, Chain

(* The worth of an owner is not less when every position's is not.         *)
LEMMA WorthGrows ==
  ASSUME TypeOK, TypeOK', NEW o \in Owners, wallet'[o] = wallet[o],
         \A q \in PositionsOf(o) : High[q] <= High'[q]
  PROVE  Worth(o, KeepSimple) <= Worth(o, KeepSimple)' /\ Worth(o, KeepSimple) \in Nat
         /\ Worth(o, KeepSimple)' \in Nat
<1>1. Worth(o, KeepSimple) = wallet[o] + SumFunctionOnSet(High, PositionsOf(o))
  BY DEF Worth, High
<1>2. Worth(o, KeepSimple)' = wallet'[o] + SumFunctionOnSet(High', PositionsOf(o))
  BY DEF Worth, High, PositionsOf
<1>3. Integral(High, PositionsOf(o)) /\ SumFunctionOnSet(High, PositionsOf(o)) \in Nat
  BY SumsNat
<1>4. \A q \in PositionsOf(o) : High'[q] \in Nat
  BY LowHighNext DEF PositionsOf
<1>5. Integral(High', PositionsOf(o)) /\ SumFunctionOnSet(High', PositionsOf(o)) \in Nat
  <2>1. IsFiniteSet(PositionsOf(o))
    BY PositionsOfFinite
  <2> QED
    BY <1>4, <2>1, SumNat DEF Integral
<1>6. SumFunctionOnSet(High, PositionsOf(o)) <= SumFunctionOnSet(High', PositionsOf(o))
  BY <1>3, <1>5, SumAtMost
<1>7. wallet[o] \in Nat
  BY DEF TypeOK
<1> QED
  BY <1>1, <1>2, <1>3, <1>5, <1>6, <1>7

LEMMA NavMoves ==
  ASSUME NInv, TInv', Moves
  PROVE  NavComplete'
<1>1. navs' = navs /\ before' = before /\ restless \subseteq restless'
  BY DEF Moves, Trade, Verb
<1>2. SUFFICES ASSUME NEW r \in navs, r.owner \notin restless'
               PROVE  r.liquid + r.positions \in before[r.owner] .. Worth(r.owner, KeepSimple)'
  BY <1>1 DEF NavComplete
<1>3. TypeOK /\ TypeOK' /\ r \in NavType
  BY DEF NInv, TInv, TypeOK
<1>4. PICK o \in Owners : o = r.owner
  BY <1>3 DEF NavType
<1>5. r.liquid + r.positions \in before[o] .. Worth(o, KeepSimple)
  BY <1>1, <1>2, <1>4 DEF NInv, NavComplete
<1>6. wallet'[o] = wallet[o] /\ \A q \in PositionsOf(o) : High[q] <= High'[q]
  <2>1. ASSUME NEW p \in Positions, NEW b \in Bins, Trade(p, b)
        PROVE  wallet' = wallet /\ \A q \in PositionsOf(o) : High[q] <= High'[q]
    <3>1. wallet' = wallet
      BY <2>1 DEF Trade
    <3> QED
      BY <2>1, <3>1, TradeGrows DEF NInv, PositionsOf
  <2>2. ASSUME NEW p \in Positions, NEW new \in [Bins -> 0 .. MaxLiquidity], Verb(p, new)
        PROVE  wallet'[o] = wallet[o] /\ \A q \in PositionsOf(o) : High[q] <= High'[q]
    <3>1. wallet'[o] = wallet[o] /\ \A q \in PositionsOf(o) : High'[q] = High[q]
      BY <1>2, <1>3, <1>4, <2>2, VerbQuiet
    <3>2. \A q \in PositionsOf(o) : High[q] \in Nat
      BY <1>3, LowHighNat DEF PositionsOf
    <3> QED
      BY <3>1, <3>2
  <2> QED
    BY <2>1, <2>2 DEF Moves
<1>7. /\ Worth(o, KeepSimple) <= Worth(o, KeepSimple)'
      /\ Worth(o, KeepSimple) \in Nat /\ Worth(o, KeepSimple)' \in Nat
  BY <1>3, <1>6, WorthGrows
<1>8. Worth(r.owner, KeepSimple)' = Worth(o, KeepSimple)'
  BY <1>4
<1>9. before[o] \in Nat
  BY <1>3 DEF TypeOK
<1> DEFINE v == Worth(o, KeepSimple)
           w == Worth(o, KeepSimple)'
           x == r.liquid + r.positions
<1>10. x \in before[o] .. w
  <2>1. x \in before[o] .. v /\ v <= w /\ v \in Nat /\ w \in Nat /\ before[o] \in Nat
    BY <1>5, <1>7, <1>9
  <2> HIDE DEF v, w, x
  <2> QED
    BY <2>1
<1> QED
  BY <1>4, <1>8, <1>10

(* The value is written when nothing is left to be marked.                 *)
LEMMA NavWritten ==
  ASSUME NInv, TInv', WriteNavs
  PROVE  NavComplete'
<1>1. /\ stage = "nav"
      /\ navs' = {[owner |-> x, liquid |-> legs[x], positions |-> sums[x]] :
                   x \in {y \in Owners : legs[y] # None}}
      /\ UNCHANGED <<liquidity, inside, last, wallet, restless, before>>
  BY DEF WriteNavs, chain
<1>2. TypeOK /\ Left = {}
  BY <1>1 DEF NInv, TInv, Stages, Left
<1>3. ASSUME NEW o \in Owners, legs[o] # None, o \notin restless
      PROVE  legs[o] + sums[o] \in before[o] .. Worth(o, KeepSimple)
  <2>1. sums[o] # None /\ o \notin skip /\ legs[o] = wallet[o]
    BY <1>1, <1>3 DEF NInv, TInv, Stages, LegsRead
  <2>2. Bounds(o)
    BY <1>1, <1>3, <2>1 DEF NInv, Between
  <2>3. Marked(o) = sums[o]
    BY <2>1 DEF Marked
  <2>4. PositionsOf(o) \ Left = PositionsOf(o) /\ PositionsOf(o) \cap Left = {}
    BY <1>2
  <2>5. SumFunctionOnSet(Low, {}) = 0
    BY SumEmpty
  <2>6. Worth(o, KeepSimple) = wallet[o] + SumFunctionOnSet(High, PositionsOf(o))
    BY DEF Worth, High
  <2>7. SumFunctionOnSet(High, PositionsOf(o)) \in Nat
    BY <1>2, SumsNat
  <2>8. wallet[o] \in Nat /\ Marked(o) \in Nat /\ before[o] \in Nat
    BY <1>2, MarkedNat
  <2>9. /\ Marked(o) <= SumFunctionOnSet(High, PositionsOf(o))
        /\ before[o] <= wallet[o] + Marked(o) + 0
    BY <2>2, <2>4, <2>5 DEF Bounds
  <2>10. wallet[o] + Marked(o) \in before[o] .. wallet[o] + SumFunctionOnSet(High, PositionsOf(o))
    BY <2>7, <2>8, <2>9
  <2> QED
    BY <2>1, <2>3, <2>6, <2>10
<1>4. \A o \in Owners : Worth(o, KeepSimple)' = Worth(o, KeepSimple)
  BY <1>1 DEF Worth, Value, Owed
<1>5. SUFFICES ASSUME NEW o \in Owners, legs[o] # None, o \notin restless,
                      NEW r, r = [owner |-> o, liquid |-> legs[o], positions |-> sums[o]]
               PROVE  r.liquid + r.positions \in before[r.owner] .. Worth(r.owner, KeepSimple)
  <2>1. SUFFICES ASSUME NEW r \in navs', r.owner \notin restless
                 PROVE  r.liquid + r.positions \in before[r.owner] .. Worth(r.owner, KeepSimple)'
    BY <1>1 DEF NavComplete
  <2>2. PICK o \in Owners : /\ legs[o] # None
                            /\ r = [owner |-> o, liquid |-> legs[o], positions |-> sums[o]]
    BY <1>1, <2>1
  <2>3. r.owner = o
    BY <2>2
  <2>4. Worth(r.owner, KeepSimple)' = Worth(o, KeepSimple)
    BY <1>4, <2>3
  <2>5. r.liquid + r.positions \in before[o] .. Worth(o, KeepSimple)
    BY <2>1, <2>2, <2>3, <1>5
  <2> QED
    BY <2>3, <2>4, <2>5
<1>6. r.owner = o /\ r.liquid = legs[o] /\ r.positions = sums[o]
  BY <1>5
<1> QED
  BY <1>3, <1>5, <1>6

LEMMA NavKept ==
  ASSUME NInv, TInv', [Next]_vars
  PROVE  NavComplete'
<1>1. ASSUME Moves PROVE NavComplete'
  BY <1>1, NavMoves
<1>2. ASSUME WriteNavs PROVE NavComplete'
  BY <1>2, NavWritten
<1>3. ASSUME Begin PROVE NavComplete'
  BY <1>3 DEF Begin, NavComplete
<1>4. ASSUME ~Moves, ~WriteNavs, ~Begin PROVE NavComplete'
  <2>1. UNCHANGED <<navs, before>>
    <3> USE DEF chain, d1, marking, pass
    <3>1. ASSUME NEW p \in Positions, Index(p) \/ SkipUnreadable(p) \/ ReadBins(p)
          PROVE  UNCHANGED <<navs, before>>
      BY <3>1 DEF Index, SkipUnreadable, ReadBins
    <3>2. ASSUME \E bad \in SUBSET todo : \E pinned \in SUBSET (todo \ bad) : ReadPools(bad, pinned)
          PROVE  UNCHANGED <<navs, before>>
      BY <3>2 DEF ReadPools
    <3>3. ASSUME ReadInside \/ ReadInfos \/ SkipMark \/ Mark PROVE UNCHANGED <<navs, before>>
      BY <3>3 DEF ReadInside, ReadInfos, SkipMark, Mark
    <3>4. ASSUME Batch \/ Die PROVE UNCHANGED <<navs, before>>
      BY <3>4 DEF Batch, Die
    <3>5. ASSUME \E missing \in SUBSET Owners : ReadLegs(missing)
          PROVE  UNCHANGED <<navs, before>>
      BY <3>5 DEF ReadLegs
    <3>6. ASSUME UNCHANGED vars PROVE UNCHANGED <<navs, before>>
      BY <3>6 DEF vars
    <3> QED
      BY <1>4, <3>1, <3>2, <3>3, <3>4, <3>5, <3>6, Zenon DEF Next, Chain, Moves
  <2>2. UNCHANGED <<liquidity, inside, last, wallet, restless>>
    BY <1>4, Still DEF chain
  <2>3. \A r \in navs : Worth(r.owner, KeepSimple)' = Worth(r.owner, KeepSimple)
    BY <2>2 DEF Worth, Value, Owed
  <2> QED
    BY <2>1, <2>2, <2>3 DEF NInv, NavComplete
<1> QED
  BY <1>1, <1>2, <1>3, <1>4

LEMMA InitNav == Init => NInv
<1> SUFFICES ASSUME Init PROVE NInv
  OBVIOUS
<1>1. IInv /\ TInv
  BY InitIInv, InitTypes
<1>2. GrowthBounded
  <2>1. ASSUME NEW p \in Positions, NEW b \in Bins
        PROVE  (inside[p][b] - last[p][b]) % Wrap <= events
    <3>1. inside[p][b] = Wrap - 1 /\ last[p][b] = Wrap - 1 /\ events = 0
      BY DEF Init
    <3>2. Wrap - 1 \in Growth
      BY ConstantsAssumption DEF Growth
    <3>3. ((Wrap - 1) - (Wrap - 1)) % Wrap = (Wrap - 1) - (Wrap - 1)
      BY <3>2, Differences DEF Growth
    <3> QED
      BY <3>1, <3>3, ConstantsAssumption
  <2> QED
    BY <2>1 DEF GrowthBounded
<1>3. EndedEmpty /\ StillKnown /\ AtHand /\ Between /\ LegsRead /\ NavComplete
  BY DEF Init, EndedEmpty, StillKnown, AtHand, Between, LegsRead, NavComplete
<1> QED
  BY <1>1, <1>2, <1>3 DEF NInv

LEMMA NextNav == NInv /\ [Next]_vars => NInv'
<1> SUFFICES ASSUME NInv, [Next]_vars PROVE NInv'
  OBVIOUS
<1>1. IInv' /\ TInv'
  BY NextIInv, NextTypes DEF NInv
<1>2. GrowthBounded' /\ EndedEmpty'
  BY <1>1, GrowthKept
<1>3. StillKnown' /\ AtHand'
  BY <1>1, KnownKept, AtHandKept
<1>4. Between' /\ LegsRead'
  BY <1>1, BetweenKept, LegsKept
<1>5. NavComplete'
  BY <1>1, NavKept
<1> QED
  BY <1>1, <1>2, <1>3, <1>4, <1>5 DEF NInv

(* Whichever reads fail and whatever the chain and the indexer do in       *)
(* between, the value recorded for a quiet owner of whom D1 knew every bin *)
(* lies between what the owner was worth and what the owner is worth.      *)
THEOREM NavCompleteSafe == Spec => []NavComplete
<1>1. NInv => NavComplete
  BY DEF NInv
<1> QED
  BY <1>1, InitNav, NextNav, PTL DEF Spec
=============================================================================
