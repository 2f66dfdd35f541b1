------------------------------ MODULE FriarMath ------------------------------
(***************************************************************************)
(* contracts/src/FriarMath.sol: the volatility accumulator of Liquidity    *)
(* Book and the fee it adds.  A state s remembers the accumulator, the     *)
(* reference it decays from, and the bucket price moves are measured from; *)
(* the time since its last update is an argument.  The constants have the  *)
(* source's names; smaller ones of the same proportions make instances for *)
(* TLC.                                                                    *)
(***************************************************************************)
EXTENDS Integers

CONSTANTS
  BasisPointMax,   \* BASIS_POINT_MAX, 10 000
  MaxFee,          \* MAX_FEE_1E18, 10^17
  PipsDivisor,     \* PIPS_DIVISOR, 10^12
  Uint24           \* 2^24: what a cast to uint24 leaves is the remainder

ASSUME MathAssumption ==
  /\ BasisPointMax \in Nat \ {0}
  /\ MaxFee \in Nat
  /\ PipsDivisor \in Nat \ {0}
  /\ Uint24 \in Nat \ {0}
  /\ MaxFee \div PipsDivisor < Uint24

MaxFeePips == MaxFee \div PipsDivisor

Smaller(x, y) == IF x < y THEN x ELSE y

Distance(x, y) == IF x > y THEN x - y ELSE y - x

(* Rounds down, also below zero.                                           *)
BucketOf(tick, spacing) == tick \div spacing

(* Faulty: the filter period must be exceeded.                             *)
UpdateReferencesLate(s, p, bucket, dt) ==
  IF dt > p.filterPeriod
    THEN [s EXCEPT !.bucketReference = bucket,
                   !.volatilityReference =
                     IF dt < p.decayPeriod
                       THEN ((s.volatilityAccumulator * p.reductionFactor) \div BasisPointMax) % Uint24
                       ELSE 0]
    ELSE s

(* Once the filter period has passed, moves are measured from here, and    *)
(* what is left of the accumulator is the new reference.                   *)
UpdateReferences(s, p, bucket, dt) ==
  IF dt >= p.filterPeriod
    THEN [s EXCEPT !.bucketReference = bucket,
                   !.volatilityReference =
                     IF dt < p.decayPeriod
                       THEN ((s.volatilityAccumulator * p.reductionFactor) \div BasisPointMax) % Uint24
                       ELSE 0]
    ELSE s

(* Faulty: cast before it is capped.                                       *)
AccumulatedUncapped(s, p, bucket) ==
  Smaller((s.volatilityReference + Distance(bucket, s.bucketReference) * BasisPointMax) % Uint24,
          p.maxVolatilityAccumulator)

(* The reference plus the buckets moved, up to the cap.                    *)
Accumulated(s, p, bucket) ==
  Smaller(s.volatilityReference + Distance(bucket, s.bucketReference) * BasisPointMax,
          p.maxVolatilityAccumulator) % Uint24

UpdateVolatilityAccumulator(s, p, bucket) ==
  [s EXCEPT !.volatilityAccumulator = Accumulated(s, p, bucket)]

Update(s, p, bucket, dt) ==
  UpdateVolatilityAccumulator(UpdateReferences(s, p, bucket, dt), p, bucket)

(* Quadratic in the price move, rounded up.                                *)
VariableFee(p, va, binStep) ==
  (va * binStep * va * binStep * p.variableFeeControl + 99) \div 100
=============================================================================
