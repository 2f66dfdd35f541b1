----------------------------- MODULE MCCandles -----------------------------
(***************************************************************************)
(* Model values of Candles.tla.                                            *)
(***************************************************************************)
EXTENDS Candles

NoOverlap == AllFaults \ {"overlap"}
=============================================================================
