------------------------------ MODULE MCFriarV2 ------------------------------
(* An instance of FriarV2 for TLC, scaled down: fees in pips up to 20, an  *)
(* accumulator of 5 bits, buckets of two ticks.                            *)
EXTENDS FriarV2

Cfg(base, filter, decay, reduction, control, ticks) ==
  [baseFeePips |-> base, filterPeriod |-> filter, decayPeriod |-> decay,
   reductionFactor |-> reduction, variableFeeControl |-> control, maxVolatilityTicks |-> ticks]

MCDefault == Cfg(1, 1, 2, 5, 2, 4)

\* The accumulator saturates at 20, is clamped to its 5 bits, never decays.
Saturating == Cfg(3, 1, 3, 5, 30, 4)
Clamped    == Cfg(20, 2, 2, 5, 10, 10)
Lasting    == Cfg(2, 1, 3, 10, 5, 6)

\* Refused: periods the wrong way round, and no base fee.
Crossed    == Cfg(3, 3, 2, 5, 30, 4)
Free       == Cfg(0, 1, 3, 5, 30, 4)

MCProposals == {Saturating, Clamped, Lasting, Crossed, Free}

\* Four buckets, one of them with two ticks.
MCTicks == {-3, -2, -1, 0, 3}
=============================================================================
