----------------------------- MODULE MCPortfolio -----------------------------
(* An instance of Portfolio for TLC.                                       *)
EXTENDS Portfolio, TLC

MCDeposits == {[quote |-> 1, base |-> 0], [quote |-> 1, base |-> 1]}

MCFee == [quote |-> 2, base |-> 2]

Symmetry == Permutations(Positions)

OpeningsMarked == {m \in marks : MarkedAtOpening(m)}

(* Bounds.  Nothing that an answer says changes after it, and none of its  *)
(* reads looks at another position.  Behaviours in which an opening is     *)
(* posted are shorter, and passes do not overlap with requests in them.    *)
Bounded ==
  /\ clock <= 5
  /\ OpeningsMarked # {} =>
       /\ clock <= 4 /\ passes <= 1 /\ Cardinality(OpeningsMarked) = 1
       /\ request.pc # "row" => pass = None
  /\ Len(log) - indexed <= 1
  /\ request.pc # "answered"
  /\ request.pc # "row" => \A p \in Positions \ {request.position} : MinedOf(p) = {}
=============================================================================
