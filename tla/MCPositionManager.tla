------------------------- MODULE MCPositionManager -------------------------
(* Instances of PositionManager for TLC.                                   *)
EXTENDS PositionManager, TLC

\* Accounts are interchangeable: no action names one.
AccountSymmetry == Permutations(Accounts)

\* Bound: the last id is only issued to bins of one unit, and nobody trades
\* any more once it is.
LastIsPlain ==
  nextPositionId > LastId =>
    \A id \in PositionIds, i \in Slots :
      bins[id][i] <= 1 /\ pool[id][i] <= 1 /\ unreported[id] = 0
=============================================================================
