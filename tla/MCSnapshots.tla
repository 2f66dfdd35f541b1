----------------------------- MODULE MCSnapshots -----------------------------
(* An instance of Snapshots for TLC: two positions of two bins.            *)
EXTENDS Snapshots

MCPositions == {"p1", "p2"}

MCOwnerOf == [p \in MCPositions |-> "o1"]

MCOwnerOfOne == [p \in {"p1"} |-> "o1"]
=============================================================================
