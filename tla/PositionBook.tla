---------------------------- MODULE PositionBook ----------------------------
(***************************************************************************)
(* What FriarPositionManager promises its users, with callbacks, reverts   *)
(* and array bookkeeping abstracted away: a book of positions.  Each id is *)
(* issued once, in increasing order; a position has one holder and a fixed *)
(* list of bins; its liquidity changes only by a whole verb of its holder; *)
(* and a position with no liquidity left is gone from the book for good.   *)
(*                                                                         *)
(* PositionManager.tla is the detailed specification; it is shown to       *)
(* implement this one by the property Book!Spec there.                     *)
(***************************************************************************)
EXTENDS Integers, Sequences

CONSTANTS
  Accounts,     \* the addresses that may hold positions
  Nobody,       \* holder of an id that is not (or no longer) in the book
  MaxBins,      \* most bins a position may have
  FirstId,      \* first id ever issued
  LastId        \* last id the instance may issue

PositionIds == FirstId .. LastId

Slots == 1 .. MaxBins

VARIABLES
  holder,       \* holder[id]: who may act on position id
  liquidity,    \* liquidity[id][i]: liquidity held for bin i of position id
  size,         \* size[id]: the number of bins of position id, 0 if not in the book
  next          \* the next id to issue

vars == <<holder, liquidity, size, next>>

NoLiquidity == [i \in Slots |-> 0]

Init ==
  /\ holder = [id \in PositionIds |-> Nobody]
  /\ liquidity = [id \in PositionIds |-> NoLiquidity]
  /\ size = [id \in PositionIds |-> 0]
  /\ next = FirstId

(* Only position id's liquidity may change, and to anything.               *)
OnlyLiquidityOf(id) ==
  /\ liquidity'[id] \in [Slots -> Nat]
  /\ liquidity' = [liquidity EXCEPT ![id] = liquidity'[id]]

(* A new position: every one of its n bins is funded.                      *)
Open(a, id) ==
  /\ id = next
  /\ next' = next + 1
  /\ holder' = [holder EXCEPT ![id] = a]
  /\ OnlyLiquidityOf(id)
  /\ \E n \in Slots :
       /\ size' = [size EXCEPT ![id] = n]
       /\ \A i \in Slots : liquidity'[id][i] > 0 <=> i <= n

(* The holder grows or shrinks bins of a position, and something is left.  *)
Adjust(id) ==
  /\ holder[id] # Nobody
  /\ OnlyLiquidityOf(id)
  /\ \E i \in Slots : liquidity'[id][i] > 0
  /\ \A i \in Slots : i > size[id] => liquidity'[id][i] = 0
  /\ \/ \A i \in Slots : liquidity'[id][i] >= liquidity[id][i]
     \/ \A i \in Slots : liquidity'[id][i] <= liquidity[id][i]
  /\ UNCHANGED <<holder, size, next>>

(* The holder takes everything out: the position leaves the book.          *)
Exit(id) ==
  /\ holder[id] # Nobody
  /\ holder' = [holder EXCEPT ![id] = Nobody]
  /\ size' = [size EXCEPT ![id] = 0]
  /\ liquidity' = [liquidity EXCEPT ![id] = NoLiquidity]
  /\ UNCHANGED next

Next ==
  \E id \in PositionIds :
    \/ \E a \in Accounts : Open(a, id)
    \/ Adjust(id)
    \/ Exit(id)

Spec == Init /\ [][Next]_vars
=============================================================================
