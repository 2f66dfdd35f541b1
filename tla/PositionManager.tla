-------------------------- MODULE PositionManager --------------------------
(***************************************************************************)
(* The record keeping of contracts/src/FriarPositionManager.sol: which     *)
(* positions exist, who owns them, the enumerable list of ids per owner,   *)
(* the liquidity recorded per bin, and the liquidity Uniswap v4 actually   *)
(* holds for each (position, bin) salt.                                    *)
(*                                                                         *)
(* A verb is a transaction in three stages.  Its entry checks, runs the    *)
(* effects on the manager's own storage and calls PoolManager.unlock; the  *)
(* callback then modifies the v4 position of one bin after another, with   *)
(* foreign code (pool hooks, tokens) running in between; the exit checks   *)
(* the bounds, reports the fees and removes an emptied record.  At any     *)
(* point after the entry the whole transaction may revert, which undoes    *)
(* everything since the entry.  The money that moves is the subject of     *)
(* Settlement.tla, with the treasury and its handover.                     *)
(***************************************************************************)
EXTENDS Integers, Sequences, Functions

CONSTANTS
  Accounts,      \* addresses that call the manager
  Nobody,        \* address(0), the owner of a deleted record
  NoTx,          \* no transaction is inside the manager
  MaxBins,       \* MAX_BINS
  MaxLiquidity,  \* bound: type(uint128).max, the cap of a bin's liquidity
  MaxFees,       \* bound: most fees that one bin may owe at a time
  FirstId,       \* _startingPositionId, not 0
  LastId         \* bound: the last id the instance may issue

PositionIds == FirstId .. LastId

Slots == 1 .. MaxBins

Amounts == 0 .. MaxLiquidity

(* The transaction inside unlock: the Op and the BinDeltas still to do.     *)
Transactions ==
  [verb : {"open", "increase", "decrease", "collect"}, id : PositionIds,
   delta : [Slots -> Int], todo : SUBSET Slots, fees : Nat, closes : BOOLEAN]

ASSUME ConstantsAssumption ==
  /\ Nobody \notin Accounts
  /\ NoTx \notin Transactions
  /\ MaxBins \in Nat \ {0}
  /\ MaxLiquidity \in Nat \ {0}
  /\ MaxFees \in Nat
  /\ FirstId \in Nat \ {0}
  /\ LastId \in Nat

VARIABLES
  owner,           \* _positions[id].owner
  ownerIndex,      \* _positions[id].ownerIndex, counted from 1
  size,            \* _positions[id].bins.length
  bins,            \* _positions[id].bins[i].liquidity, 0 past the end
  ownerIds,        \* _ownerIds[account]
  nextPositionId,
  pool,            \* v4: liquidity of the position with salt binSalt(id, i)
  owed,            \* v4: fees that position earned since it was last modified
  unreported,      \* history: fees earned and not yet reported by an event
  tx,              \* the transaction inside the manager, or NoTx
  saved            \* what a revert of tx restores

storage == <<owner, ownerIndex, size, bins, ownerIds, nextPositionId>>

v4 == <<pool, owed>>

vars == <<storage, v4, unreported, tx, saved>>

NoAmounts == [i \in Slots |-> 0]

(* calldata uint128[]: one amount per bin, of any length.                  *)
Requests == UNION {[1 .. n -> Amounts] : n \in 0 .. MaxBins + 1}

(* The requested amount of slot i, 0 past the end.                         *)
At(request, i) == IF i \in DOMAIN request THEN request[i] ELSE 0

Live == {id \in PositionIds : owner[id] # Nobody}

Init ==
  /\ owner = [id \in PositionIds |-> Nobody]
  /\ ownerIndex = [id \in PositionIds |-> 0]
  /\ size = [id \in PositionIds |-> 0]
  /\ bins = [id \in PositionIds |-> NoAmounts]
  /\ ownerIds = [a \in Accounts |-> <<>>]
  /\ nextPositionId = FirstId
  /\ pool = [id \in PositionIds |-> NoAmounts]
  /\ owed = [id \in PositionIds |-> NoAmounts]
  /\ unreported = [id \in PositionIds |-> 0]
  /\ tx = NoTx
  /\ saved = NoTx

-----------------------------------------------------------------------------
(* The entry of a verb.  PoolManager.unlock reverts when it is already     *)
(* unlocked, so a verb called from inside another one undoes itself: only  *)
(* an entry with no transaction inside has an effect.                      *)

(* The manager's storage and the v4 side of it, as one record.             *)
Storages ==
  [owner : [PositionIds -> Accounts \cup {Nobody}],
   ownerIndex : [PositionIds -> Nat],
   size : [PositionIds -> 0 .. MaxBins],
   bins : [PositionIds -> [Slots -> Nat]],
   ownerIds : [Accounts -> Seq(PositionIds)],
   nextPositionId : Nat,
   pool : [PositionIds -> [Slots -> Nat]],
   owed : [PositionIds -> [Slots -> Nat]],
   unreported : [PositionIds -> Int]]

(* What a revert brings back: the state the transaction found.             *)
Snapshot ==
  [owner |-> owner, ownerIndex |-> ownerIndex, size |-> size, bins |-> bins,
   ownerIds |-> ownerIds, nextPositionId |-> nextPositionId,
   pool |-> pool, owed |-> owed, unreported |-> unreported]

(* _run: hand the bin deltas to PoolManager.unlock.  todo are the bins the *)
(* verb put into its list of BinDelta, delta their liquidityDelta; closes  *)
(* is _decrease's local of that name.                                      *)
Unlock(verb, id, delta, todo, closes) ==
  /\ tx = NoTx
  /\ tx' = [verb |-> verb, id |-> id, delta |-> delta, todo |-> todo,
            fees |-> 0, closes |-> closes]
  /\ saved' = Snapshot
  /\ UNCHANGED <<v4, unreported>>

(* _open: mint a new position with the liquidity ls of its bins.           *)
Open(a, ls) ==
  LET id == nextPositionId IN
  /\ id <= LastId
  /\ \E n \in 1 .. MaxBins :
       /\ DOMAIN ls = 1 .. n
       /\ size' = [size EXCEPT ![id] = n]
  /\ \A i \in DOMAIN ls : ls[i] # 0
  /\ nextPositionId' = id + 1
  /\ owner' = [owner EXCEPT ![id] = a]
  /\ bins' = [bins EXCEPT ![id] = [i \in Slots |-> At(ls, i)]]
  /\ ownerIds' = [ownerIds EXCEPT ![a] = Append(@, id)]
  /\ ownerIndex' = [ownerIndex EXCEPT ![id] = Len(ownerIds[a]) + 1]
  /\ Unlock("open", id, [i \in Slots |-> At(ls, i)], DOMAIN ls, FALSE)

(* Faulty: an increase that v4 carries out but the record never learns of.  *)
IncreaseUnrecorded(a, id, ds) ==
  /\ owner[id] = a
  /\ DOMAIN ds = 1 .. size[id]
  /\ Unlock("increase", id, [i \in Slots |-> At(ds, i)],
            {i \in 1 .. size[id] : bins[id][i] > 0 \/ ds[i] > 0}, FALSE)
  /\ UNCHANGED storage

(* increase: the bins that get liquidity, and a poke of those that hold    *)
(* some; v4 refuses a poke of an empty bin, which is left out.             *)
Increase(a, id, ds) ==
  /\ owner[id] = a
  /\ DOMAIN ds = 1 .. size[id]
  /\ \A i \in Slots : bins[id][i] + At(ds, i) <= MaxLiquidity
  /\ bins' = [bins EXCEPT ![id] = [i \in Slots |-> @[i] + At(ds, i)]]
  /\ Unlock("increase", id, [i \in Slots |-> At(ds, i)],
            {i \in 1 .. size[id] : bins[id][i] > 0 \/ ds[i] > 0}, FALSE)
  /\ UNCHANGED <<owner, ownerIndex, size, ownerIds, nextPositionId>>

(* Faulty: without the check of the amounts against the record.             *)
ShrinkUnchecked(id, ds) ==
  /\ bins' = [bins EXCEPT ![id] = [i \in Slots |-> @[i] - At(ds, i)]]
  /\ Unlock("decrease", id, [i \in Slots |-> -At(ds, i)],
            {i \in 1 .. size[id] : bins[id][i] > 0},
            \A i \in 1 .. size[id] : bins[id][i] = At(ds, i))
  /\ UNCHANGED <<owner, ownerIndex, size, ownerIds, nextPositionId>>

(* Faulty: anyLeft looks at a bin before the amount is taken out of it.     *)
ShrinkLooksEarly(id, ds) ==
  /\ \A i \in Slots : At(ds, i) <= bins[id][i]
  /\ bins' = [bins EXCEPT ![id] = [i \in Slots |-> @[i] - At(ds, i)]]
  /\ Unlock("decrease", id, [i \in Slots |-> -At(ds, i)],
            {i \in 1 .. size[id] : bins[id][i] > 0},
            \A i \in 1 .. size[id] : bins[id][i] = 0)
  /\ UNCHANGED <<owner, ownerIndex, size, ownerIds, nextPositionId>>

(* Faulty: anyLeft is overwritten by each bin, so the last one decides.     *)
ShrinkLastDecides(id, ds) ==
  /\ \A i \in Slots : At(ds, i) <= bins[id][i]
  /\ bins' = [bins EXCEPT ![id] = [i \in Slots |-> @[i] - At(ds, i)]]
  /\ Unlock("decrease", id, [i \in Slots |-> -At(ds, i)],
            {i \in 1 .. size[id] : bins[id][i] > 0},
            bins[id][size[id]] = At(ds, size[id]))
  /\ UNCHANGED <<owner, ownerIndex, size, ownerIds, nextPositionId>>

(* _decrease: take ds out of the bins and poke the others that hold some.  *)
Shrink(id, ds) ==
  /\ \A i \in Slots : At(ds, i) <= bins[id][i]
  /\ bins' = [bins EXCEPT ![id] = [i \in Slots |-> @[i] - At(ds, i)]]
  /\ Unlock("decrease", id, [i \in Slots |-> -At(ds, i)],
            {i \in 1 .. size[id] : bins[id][i] > 0},
            \A i \in 1 .. size[id] : bins[id][i] = At(ds, i))
  /\ UNCHANGED <<owner, ownerIndex, size, ownerIds, nextPositionId>>

Decrease(a, id, ds) ==
  /\ owner[id] = a
  /\ DOMAIN ds = 1 .. size[id]
  /\ Shrink(id, ds)

(* close: the recorded liquidity of every bin.                             *)
Close(a, id) ==
  /\ owner[id] = a
  /\ Shrink(id, [i \in 1 .. size[id] |-> bins[id][i]])

(* Faulty: also pokes the bins that are empty.                              *)
CollectAll(a, id) ==
  /\ owner[id] = a
  /\ Unlock("collect", id, NoAmounts, 1 .. size[id], FALSE)
  /\ UNCHANGED storage

(* collect: a poke of every bin that holds liquidity.                      *)
Collect(a, id) ==
  /\ owner[id] = a
  /\ Unlock("collect", id, NoAmounts,
            {i \in 1 .. size[id] : bins[id][i] > 0}, FALSE)
  /\ UNCHANGED storage

-----------------------------------------------------------------------------
(* The callback.                                                           *)

(* What v4's modifyLiquidity accepts: no poke of an empty position, no     *)
(* removal beyond what the position holds.                                 *)
V4Accepts(id, i, d) ==
  /\ pool[id][i] > 0 \/ d # 0
  /\ pool[id][i] + d >= 0

(* One round of unlockCallback's loop: modify the next bin, in order, and  *)
(* count the fees v4 hands over with it.                                   *)
ModifyBin ==
  /\ tx # NoTx
  /\ \E i \in tx.todo :
       /\ \A j \in tx.todo : i <= j
       /\ V4Accepts(tx.id, i, tx.delta[i])
       /\ pool' = [pool EXCEPT ![tx.id][i] = @ + tx.delta[i]]
       /\ owed' = [owed EXCEPT ![tx.id][i] = 0]
       /\ tx' = [tx EXCEPT !.todo = @ \ {i},
                           !.fees = @ + owed[tx.id][i]]
  /\ UNCHANGED <<storage, unreported, saved>>

(* Faulty: the moved id's record keeps its old place.                       *)
RemoveForgetsMoved(id) ==
  LET ids  == ownerIds[owner[id]]
      last == ids[Len(ids)]
      idx  == ownerIndex[id]
  IN
  /\ ownerIds' = [ownerIds EXCEPT ![owner[id]] =
                    SubSeq([ids EXCEPT ![idx] = last], 1, Len(ids) - 1)]
  /\ ownerIndex' = [ownerIndex EXCEPT ![id] = 0]
  /\ owner' = [owner EXCEPT ![id] = Nobody]
  /\ size' = [size EXCEPT ![id] = 0]
  /\ bins' = [bins EXCEPT ![id] = NoAmounts]
  /\ UNCHANGED nextPositionId

(* Faulty: gives the id back when it was the last one issued.               *)
RemoveReissues(id) ==
  LET ids  == ownerIds[owner[id]]
      last == ids[Len(ids)]
      idx  == ownerIndex[id]
  IN
  /\ ownerIds' = [ownerIds EXCEPT ![owner[id]] =
                    SubSeq([ids EXCEPT ![idx] = last], 1, Len(ids) - 1)]
  /\ ownerIndex' = [ownerIndex EXCEPT ![last] = idx, ![id] = 0]
  /\ owner' = [owner EXCEPT ![id] = Nobody]
  /\ size' = [size EXCEPT ![id] = 0]
  /\ bins' = [bins EXCEPT ![id] = NoAmounts]
  /\ nextPositionId' = IF id + 1 = nextPositionId THEN id ELSE nextPositionId

(* _remove: the last id of the owner's list takes the place of the closed  *)
(* one, and the record is deleted.                                         *)
Remove(id) ==
  LET ids  == ownerIds[owner[id]]
      last == ids[Len(ids)]
      idx  == ownerIndex[id]
  IN
  /\ ownerIds' = [ownerIds EXCEPT ![owner[id]] =
                    SubSeq([ids EXCEPT ![idx] = last], 1, Len(ids) - 1)]
  /\ ownerIndex' = [ownerIndex EXCEPT ![last] = idx, ![id] = 0]
  /\ owner' = [owner EXCEPT ![id] = Nobody]
  /\ size' = [size EXCEPT ![id] = 0]
  /\ bins' = [bins EXCEPT ![id] = NoAmounts]
  /\ UNCHANGED nextPositionId

(* Faulty: increase reports no fees either, as open does.                   *)
FinishReportsExitsOnly ==
  /\ tx # NoTx
  /\ tx.todo = {}
  /\ unreported' = [unreported EXCEPT ![tx.id] =
                      @ - (IF tx.verb \in {"open", "increase"} THEN 0 ELSE tx.fees)]
  /\ IF tx.closes THEN Remove(tx.id) ELSE UNCHANGED storage
  /\ tx' = NoTx
  /\ saved' = NoTx
  /\ UNCHANGED v4

(* The rest of the verb once unlock returned: the bounds held, the event   *)
(* is emitted (PositionOpened carries no fees) and a closed record goes.   *)
Finish ==
  /\ tx # NoTx
  /\ tx.todo = {}
  /\ unreported' = [unreported EXCEPT ![tx.id] =
                      @ - (IF tx.verb = "open" THEN 0 ELSE tx.fees)]
  /\ IF tx.closes THEN Remove(tx.id) ELSE UNCHANGED storage
  /\ tx' = NoTx
  /\ saved' = NoTx
  /\ UNCHANGED v4

(* The transaction reverts: a bound is broken, a token or hook reverts,    *)
(* v4 refuses, or the caller of the verb gives up.                         *)
Revert ==
  /\ tx # NoTx
  /\ owner' = saved.owner
  /\ ownerIndex' = saved.ownerIndex
  /\ size' = saved.size
  /\ bins' = saved.bins
  /\ ownerIds' = saved.ownerIds
  /\ nextPositionId' = saved.nextPositionId
  /\ pool' = saved.pool
  /\ owed' = saved.owed
  /\ unreported' = saved.unreported
  /\ tx' = NoTx
  /\ saved' = NoTx

(* Somebody trades through a bin, in a transaction of its own or from a    *)
(* hook or token called inside this one.                                   *)
Trade(id, i) ==
  /\ pool[id][i] > 0
  /\ owed[id][i] < MaxFees
  /\ owed' = [owed EXCEPT ![id][i] = @ + 1]
  /\ unreported' = [unreported EXCEPT ![id] = @ + 1]
  /\ UNCHANGED <<storage, pool, tx, saved>>

Next ==
  \/ \E a \in Accounts, ls \in Requests : Open(a, ls)
  \/ \E a \in Accounts, id \in PositionIds, ds \in Requests :
       \/ Increase(a, id, ds)
       \/ Decrease(a, id, ds)
  \/ \E a \in Accounts, id \in PositionIds : Close(a, id) \/ Collect(a, id)
  \/ ModifyBin
  \/ Finish
  \/ Revert
  \/ \E id \in PositionIds, i \in Slots : Trade(id, i)

Spec == Init /\ [][Next]_vars

-----------------------------------------------------------------------------
(* Properties.                                                             *)

(* Type correctness of the manager's storage, the v4 side and the          *)
(* transaction inside.                                                     *)
TypeOK ==
  /\ owner \in [PositionIds -> Accounts \cup {Nobody}]
  /\ ownerIndex \in [PositionIds -> Nat]
  /\ size \in [PositionIds -> 0 .. MaxBins]
  /\ bins \in [PositionIds -> [Slots -> Nat]]
  /\ ownerIds \in [Accounts -> Seq(PositionIds)]
  /\ nextPositionId \in Nat
  /\ pool \in [PositionIds -> [Slots -> Nat]]
  /\ owed \in [PositionIds -> [Slots -> Nat]]
  /\ unreported \in [PositionIds -> Int]
  /\ \/ tx = NoTx /\ saved = NoTx
     \/ tx \in Transactions /\ saved \in Storages

(* A position sits in its owner's list at the place its record names, and  *)
(* every entry of a list is a position of that account that names the      *)
(* entry back: positionsOf lists each position once and _remove, which     *)
(* trusts ownerIndex, can never drop or overwrite somebody else's entry.   *)
OwnerListsConsistent ==
  /\ \A id \in Live :
       /\ ownerIndex[id] \in 1 .. Len(ownerIds[owner[id]])
       /\ ownerIds[owner[id]][ownerIndex[id]] = id
  /\ \A a \in Accounts : \A k \in 1 .. Len(ownerIds[a]) :
       /\ owner[ownerIds[a][k]] = a
       /\ ownerIndex[ownerIds[a][k]] = k

(* Outside a transaction v4 holds, per bin, exactly the liquidity the      *)
(* record says: close knows everything from the id alone, and nothing is   *)
(* left in v4 for a position that is gone.                                 *)
RecordMatchesPool == tx = NoTx => bins = pool

(* Outside a transaction a record exists only while some bin of it holds   *)
(* liquidity, and a bin without liquidity owes no fees: v4 would refuse    *)
(* the poke that could collect them.                                       *)
NothingStranded ==
  tx = NoTx =>
    /\ \A id \in PositionIds :
         id \in Live <=> \E i \in Slots : bins[id][i] > 0
    /\ \A id \in PositionIds, i \in Slots :
         bins[id][i] = 0 => owed[id][i] = 0

(* v4 never refuses a bin the callback still has to modify, so no bin of a *)
(* position can block the exit from the others.                            *)
CallbackNeverRejected ==
  tx # NoTx => \A i \in tx.todo : V4Accepts(tx.id, i, tx.delta[i])

(* Every fee a position ever earned is either still owed by one of its     *)
(* bins or was reported by one of its events, from which the indexer       *)
(* derives the profit of the position.                                     *)
FeesAllReported ==
  tx = NoTx =>
    \A id \in PositionIds : unreported[id] = SumFunctionOnSet(owed[id], Slots)

-----------------------------------------------------------------------------
(* The book of PositionBook.tla, read off the state the last committed     *)
(* transaction left: holders from the owner lists, liquidity from v4.      *)

Committed == IF tx = NoTx THEN Snapshot ELSE saved

(* An id below nextPositionId that has no record never gets one again, and *)
(* no committed transaction gives ids back (the revert of an open does):   *)
(* history is indexed off-chain by id, and reuse would clobber it.         *)
IdsNeverReused ==
  [][/\ Committed'.nextPositionId >= Committed.nextPositionId
     /\ \A id \in PositionIds :
          id < nextPositionId /\ owner[id] = Nobody => owner'[id] = Nobody]_vars

Listing(ids, id) == {a \in Accounts : \E k \in 1 .. Len(ids[a]) : ids[a][k] = id}

Holder(ids, id) ==
  IF Listing(ids, id) = {} THEN Nobody ELSE CHOOSE a \in Accounts : a \in Listing(ids, id)

Book == INSTANCE PositionBook WITH
  holder <- [id \in PositionIds |-> Holder(Committed.ownerIds, id)],
  liquidity <- Committed.pool,
  size <- Committed.size,
  next <- Committed.nextPositionId

(* Whatever hooks and tokens do in between, and whatever reverts, each     *)
(* verb takes effect as one step of the book or not at all.                *)
ImplementsBook == Book!Spec
=============================================================================
