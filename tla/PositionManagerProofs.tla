----------------------- MODULE PositionManagerProofs -----------------------
(***************************************************************************)
(* Safety of PositionManager for any accounts, bounds and ids.             *)
(*                                                                         *)
(* None of the properties is inductive alone.  Revert replaces the whole   *)
(* state by the snapshot, so the invariant speaks of the snapshot as much  *)
(* as of the current state; and between two bins of a callback record and  *)
(* v4 disagree by exactly the deltas still to be applied.                  *)
(***************************************************************************)
EXTENDS PositionManager, Sums, SequenceTheorems

(* The owner lists and the records of a state s name each other.           *)
ListsOK(s) ==
  /\ \A id \in PositionIds : s.owner[id] # Nobody =>
       /\ s.ownerIndex[id] \in 1 .. Len(s.ownerIds[s.owner[id]])
       /\ s.ownerIds[s.owner[id]][s.ownerIndex[id]] = id
  /\ \A a \in Accounts : \A k \in 1 .. Len(s.ownerIds[a]) :
       /\ s.owner[s.ownerIds[a][k]] = a
       /\ s.ownerIndex[s.ownerIds[a][k]] = k

(* Ids not issued yet have no record, and no record has liquidity past its *)
(* last bin.                                                               *)
RecordsOK(s) ==
  /\ s.nextPositionId >= FirstId
  /\ \A id \in PositionIds : id >= s.nextPositionId => s.owner[id] = Nobody
  /\ \A id \in PositionIds, i \in Slots : i > s.size[id] => s.bins[id][i] = 0

(* Position id outside a transaction of its own: record and v4 agree.      *)
Settled(s, id) ==
  /\ \A i \in Slots : s.bins[id][i] = s.pool[id][i]
  /\ \A i \in Slots : s.bins[id][i] = 0 => s.owed[id][i] = 0
  /\ s.owner[id] # Nobody <=> \E i \in Slots : s.bins[id][i] > 0

AtRest(s) == ListsOK(s) /\ RecordsOK(s) /\ \A id \in PositionIds : Settled(s, id)

(* The position inside the callback: v4 lacks what is still to do, and     *)
(* will accept it.                                                         *)
MidCallback ==
  /\ owner[tx.id] # Nobody
  /\ tx.todo \subseteq 1 .. size[tx.id]
  /\ \A i \in Slots \ tx.todo :
       /\ bins[tx.id][i] = pool[tx.id][i]
       /\ bins[tx.id][i] = 0 => owed[tx.id][i] = 0
  /\ \A i \in tx.todo :
       /\ bins[tx.id][i] = pool[tx.id][i] + tx.delta[i]
       /\ V4Accepts(tx.id, i, tx.delta[i])
  /\ tx.closes <=> \A i \in Slots : bins[tx.id][i] = 0
  /\ \A id \in PositionIds \ {tx.id} : Settled(Snapshot, id)

IInv ==
  /\ TypeOK
  /\ ListsOK(Snapshot)
  /\ RecordsOK(Snapshot)
  /\ tx = NoTx => \A id \in PositionIds : Settled(Snapshot, id)
  /\ tx # NoTx => AtRest(saved) /\ MidCallback

-----------------------------------------------------------------------------
(* Initially there are no positions and no transaction.                    *)
LEMMA InitInv == Init => IInv
<1> SUFFICES ASSUME Init PROVE IInv
  OBVIOUS
<1> USE ConstantsAssumption DEF Init, Slots, Snapshot, NoAmounts
<1>1. TypeOK
  BY DEF TypeOK, PositionIds
<1>2. ListsOK(Snapshot)
  BY DEF ListsOK
<1>3. RecordsOK(Snapshot)
  BY DEF RecordsOK
<1>4. ASSUME NEW id \in PositionIds PROVE Settled(Snapshot, id)
  BY DEF Settled
<1>5. QED
  BY <1>1, <1>2, <1>3, <1>4 DEF IInv

(* A trade through a bin moves fees only, and only of a bin with liquidity *)
(* in v4.                                                                  *)
LEMMA TradeInv ==
  ASSUME IInv, NEW id \in PositionIds, NEW i \in Slots, Trade(id, i)
  PROVE  IInv'
<1> USE ConstantsAssumption DEF Trade, storage
<1>1. TypeOK'
  <2>1. owed' \in [PositionIds -> [Slots -> Nat]]
    BY DEF IInv, TypeOK
  <2>2. unreported' \in [PositionIds -> Int]
    BY DEF IInv, TypeOK
  <2>3. QED
    BY <2>1, <2>2 DEF IInv, TypeOK
<1>2. ListsOK(Snapshot)'
  BY DEF IInv, ListsOK, Snapshot
<1>3. RecordsOK(Snapshot)'
  BY DEF IInv, RecordsOK, Snapshot
<1>4. ASSUME NEW other \in PositionIds, Settled(Snapshot, other)
      PROVE  Settled(Snapshot, other)'
  BY <1>4 DEF IInv, TypeOK, Settled, Snapshot
<1>5. ASSUME tx # NoTx PROVE AtRest(saved)' /\ MidCallback'
  <2>1. AtRest(saved)'
    BY <1>5 DEF IInv, AtRest
  <2>2. MidCallback'
    <3>1. tx.id \in PositionIds /\ tx.todo \subseteq Slots
      BY <1>5 DEF IInv, TypeOK, Transactions
    <3>2. ASSUME NEW j \in Slots \ tx.todo, bins[tx.id][j] = 0
          PROVE  owed'[tx.id][j] = 0
      <4>1. pool[tx.id][j] = 0 /\ owed[tx.id][j] = 0
        BY <1>5, <3>2 DEF IInv, MidCallback
      <4>2. owed \in [PositionIds -> [Slots -> Nat]]
        BY DEF IInv, TypeOK
      <4>3. ~(tx.id = id /\ j = i)
        BY <4>1
      <4>4. QED
        BY <3>1, <4>1, <4>2, <4>3
    <3>3. \A other \in PositionIds \ {tx.id} : Settled(Snapshot, other)'
      BY <1>4, <1>5 DEF IInv, MidCallback
    <3>4. QED
      BY <1>5, <3>1, <3>2, <3>3 DEF IInv, MidCallback, V4Accepts
  <2>3. QED
    BY <2>1, <2>2
<1>6. QED
  BY <1>1, <1>2, <1>3, <1>4, <1>5 DEF IInv

-----------------------------------------------------------------------------
(* The entries of the verbs.  Each of them leaves the snapshot at rest and *)
(* a callback that v4 will accept.                                         *)
LEMMA UnlockInv ==
  ASSUME IInv, NEW verb \in {"open", "increase", "decrease", "collect"},
         NEW id \in PositionIds, NEW delta \in [Slots -> Int],
         NEW todo \in SUBSET Slots, NEW closes \in BOOLEAN,
         Unlock(verb, id, delta, todo, closes)
  PROVE  /\ tx = NoTx
         /\ tx' \in Transactions
         /\ tx' # NoTx
         /\ saved' \in Storages
         /\ AtRest(saved)'
         /\ AtRest(Snapshot)
         /\ UNCHANGED <<pool, owed, unreported>>
<1>1. tx' \in Transactions /\ tx' # NoTx
  BY ConstantsAssumption DEF Unlock, Transactions
<1>2. saved' \in Storages
  BY DEF Unlock, Snapshot, Storages, IInv, TypeOK
<1>3. AtRest(Snapshot)
  BY DEF Unlock, IInv, AtRest
<1>4. QED
  BY <1>1, <1>2, <1>3 DEF Unlock, v4

(* A request names an amount for every slot.                               *)
LEMMA RequestAmounts ==
  ASSUME NEW ds \in Requests, NEW i \in Slots
  PROVE  At(ds, i) \in Nat
BY ConstantsAssumption DEF Requests, At, Amounts

(* What a verb on the existing position id does: it rewrites the bins of   *)
(* id to what v4 holds plus the deltas, pokes nothing v4 would refuse, and *)
(* leaves out no bin that holds liquidity or gets some.                    *)
VerbEffect(id, delta, todo, closes) ==
  /\ owner[id] # Nobody
  /\ todo \subseteq 1 .. size[id]
  /\ \A i \in Slots : bins[id][i] + delta[i] \in Nat
  /\ \A i \in Slots : i \notin todo => bins[id][i] = 0 /\ delta[i] = 0
  /\ \A i \in todo : bins[id][i] > 0 \/ delta[i] # 0
  /\ bins' = [bins EXCEPT ![id] = [i \in Slots |-> bins[id][i] + delta[i]]]
  /\ closes <=> \A i \in Slots : bins[id][i] + delta[i] = 0
  /\ UNCHANGED <<owner, ownerIndex, size, ownerIds, nextPositionId>>

(* A verb with that effect keeps the invariant.                            *)
LEMMA VerbInv ==
  ASSUME IInv, NEW verb \in {"open", "increase", "decrease", "collect"},
         NEW id \in PositionIds, NEW delta \in [Slots -> Int],
         NEW todo \in SUBSET Slots, NEW closes \in BOOLEAN,
         Unlock(verb, id, delta, todo, closes),
         VerbEffect(id, delta, todo, closes)
  PROVE  IInv'
<1> USE DEF VerbEffect
<1>1. /\ tx = NoTx
      /\ tx' \in Transactions
      /\ tx' # NoTx
      /\ saved' \in Storages
      /\ AtRest(saved)'
      /\ AtRest(Snapshot)
      /\ UNCHANGED <<pool, owed, unreported>>
  BY UnlockInv
<1>2. bins' \in [PositionIds -> [Slots -> Nat]]
  BY DEF IInv, TypeOK
<1>3. TypeOK'
  BY <1>1, <1>2 DEF IInv, TypeOK
<1>4. ListsOK(Snapshot)'
  BY <1>1 DEF AtRest, ListsOK, Snapshot
<1>5. \A i \in Slots : bins'[id][i] = bins[id][i] + delta[i]
  BY DEF IInv, TypeOK
<1>6. \A other \in PositionIds \ {id} : bins'[other] = bins[other]
  BY DEF IInv, TypeOK
<1>7. RecordsOK(Snapshot)'
  <2>1. RecordsOK(Snapshot)
    BY <1>1 DEF AtRest
  <2>2. ASSUME NEW i \in Slots, i > size[id] PROVE bins'[id][i] = 0
    <3>1. i \notin todo
      BY <2>2, ConstantsAssumption DEF Slots, IInv, TypeOK
    <3>2. bins[id][i] = 0 /\ delta[i] = 0
      BY <3>1
    <3>3. QED
      BY <1>5, <3>2
  <2>3. QED
    BY <2>1, <2>2, <1>6 DEF RecordsOK, Snapshot
<1>8. MidCallback'
  <2>1. /\ tx'.id = id
        /\ tx'.delta = delta
        /\ tx'.todo = todo
        /\ tx'.closes = closes
    BY DEF Unlock
  <2>2. Settled(Snapshot, id)
    BY <1>1 DEF AtRest
  <2>3. ASSUME NEW other \in PositionIds \ {id} PROVE Settled(Snapshot, other)'
    <3>1. Settled(Snapshot, other)
      BY <1>1 DEF AtRest
    <3>2. QED
      BY <1>1, <1>6, <3>1 DEF Settled, Snapshot
  <2>4. \A i \in Slots : bins[id][i] = pool[id][i] /\ bins[id][i] \in Nat
    BY <2>2 DEF Settled, Snapshot, IInv, TypeOK
  <2>5. ASSUME NEW i \in Slots \ todo
        PROVE  bins'[id][i] = pool'[id][i] /\ owed'[id][i] = 0
    <3>1. bins[id][i] = 0 /\ delta[i] = 0 /\ pool[id][i] = 0
      BY <2>4
    <3>2. owed[id][i] = 0
      BY <2>2, <3>1 DEF Settled, Snapshot
    <3>3. QED
      BY <1>1, <1>5, <3>1, <3>2
  <2>6. ASSUME NEW i \in todo
        PROVE  bins'[id][i] = pool'[id][i] + delta[i] /\ V4Accepts(id, i, delta[i])'
    BY <1>1, <1>5, <2>4 DEF V4Accepts
  <2>7. closes <=> \A i \in Slots : bins'[id][i] = 0
    BY <1>5
  <2>8. QED
    BY <2>1, <2>3, <2>5, <2>6, <2>7 DEF MidCallback, V4Accepts
<1>9. QED
  BY <1>1, <1>3, <1>4, <1>7, <1>8 DEF IInv

(* The bins past the last one of a position are empty.                     *)
LEMMA PastTheEnd ==
  ASSUME IInv, NEW id \in PositionIds, NEW i \in Slots, i \notin 1 .. size[id]
  PROVE  bins[id][i] = 0
BY ConstantsAssumption DEF IInv, RecordsOK, Snapshot, TypeOK, Slots

(* collect pokes every bin that holds liquidity.                           *)
LEMMA CollectInv ==
  ASSUME IInv, NEW a \in Accounts, NEW id \in PositionIds, Collect(a, id)
  PROVE  IInv'
<1> DEFINE todo == {i \in 1 .. size[id] : bins[id][i] > 0}
<1>1. /\ todo \in SUBSET Slots /\ todo \subseteq 1 .. size[id]
      /\ \A i \in todo : bins[id][i] > 0
  BY ConstantsAssumption DEF IInv, TypeOK, Slots
<1>2. NoAmounts \in [Slots -> Int] /\ \A i \in Slots : NoAmounts[i] = 0
  BY DEF NoAmounts
<1>3. bins \in [PositionIds -> [Slots -> Nat]]
  BY DEF IInv, TypeOK
<1>4. Unlock("collect", id, NoAmounts, todo, FALSE)
  BY DEF Collect
<1>5. \A i \in Slots : i \notin todo => bins[id][i] = 0
  BY <1>3, PastTheEnd
<1>6. bins' = [bins EXCEPT ![id] = [i \in Slots |-> bins[id][i] + NoAmounts[i]]]
  BY <1>2, <1>3 DEF Collect, storage
<1>7. ~ \A i \in Slots : bins[id][i] + NoAmounts[i] = 0
  <2>1. Settled(Snapshot, id) /\ owner[id] # Nobody
    BY ConstantsAssumption DEF IInv, Collect, Unlock
  <2>2. QED
    BY <1>2, <1>3, <2>1 DEF Settled, Snapshot
<1>8. owner[id] # Nobody /\ UNCHANGED <<owner, ownerIndex, size, ownerIds, nextPositionId>>
  BY ConstantsAssumption DEF Collect, storage
<1> HIDE DEF todo
<1>9. VerbEffect(id, NoAmounts, todo, FALSE)
  <2>1. \A i \in Slots : bins[id][i] \in Nat
    BY <1>3
  <2>2. \A i \in Slots : bins[id][i] + NoAmounts[i] \in Nat
    BY <1>2, <2>1
  <2>3. \A i \in Slots : i \notin todo => bins[id][i] = 0 /\ NoAmounts[i] = 0
    BY <1>2, <1>5
  <2>4. QED
    BY <1>1, <1>6, <1>7, <1>8, <2>2, <2>3 DEF VerbEffect
<1>10. QED
  BY <1>1, <1>2, <1>4, <1>9, VerbInv

(* increase adds to some bins and pokes the others that hold liquidity.    *)
LEMMA IncreaseInv ==
  ASSUME IInv, NEW a \in Accounts, NEW id \in PositionIds, NEW ds \in Requests,
         Increase(a, id, ds)
  PROVE  IInv'
<1> DEFINE delta == [i \in Slots |-> At(ds, i)]
           todo == {i \in 1 .. size[id] : bins[id][i] > 0 \/ ds[i] > 0}
<1>1. todo \in SUBSET Slots /\ todo \subseteq 1 .. size[id]
  BY ConstantsAssumption DEF IInv, TypeOK, Slots
<1>2. \A i \in Slots : At(ds, i) \in Nat
  BY RequestAmounts
<1>3. bins \in [PositionIds -> [Slots -> Nat]]
  BY DEF IInv, TypeOK
<1>4. DOMAIN ds = 1 .. size[id]
  BY DEF Increase
<1>5. \A i \in Slots : i \notin todo => bins[id][i] = 0 /\ delta[i] = 0
  <2>1. SUFFICES ASSUME NEW i \in Slots, i \notin todo
                 PROVE  bins[id][i] = 0 /\ At(ds, i) = 0
    OBVIOUS
  <2>2. CASE i \in 1 .. size[id]
    BY <1>2, <1>3, <1>4, <2>1, <2>2 DEF At
  <2>3. CASE i \notin 1 .. size[id]
    BY <1>4, <2>1, <2>3, PastTheEnd DEF At
  <2>4. QED
    BY <2>2, <2>3
<1>6. \A i \in todo : bins[id][i] > 0 \/ delta[i] # 0
  BY <1>1, <1>4 DEF At
<1>7. bins' = [bins EXCEPT ![id] = [i \in Slots |-> bins[id][i] + delta[i]]]
  BY <1>3 DEF Increase
<1>8. owner[id] # Nobody /\ UNCHANGED <<owner, ownerIndex, size, ownerIds, nextPositionId>>
  BY ConstantsAssumption DEF Increase
<1>9. ~ \A i \in Slots : bins[id][i] + delta[i] = 0
  <2>1. Settled(Snapshot, id)
    BY DEF IInv, Increase, Unlock
  <2>2. PICK i \in Slots : bins[id][i] > 0
    BY <1>8, <2>1 DEF Settled, Snapshot
  <2>3. QED
    BY <1>2, <1>3, <2>2
<1>10. Unlock("increase", id, delta, todo, FALSE)
  BY DEF Increase
<1>11. delta \in [Slots -> Int] /\ \A i \in Slots : bins[id][i] + delta[i] \in Nat
  BY <1>2, <1>3
<1> HIDE DEF delta, todo
<1>12. VerbEffect(id, delta, todo, FALSE)
  BY <1>1, <1>5, <1>6, <1>7, <1>8, <1>9, <1>11 DEF VerbEffect
<1>13. QED
  BY <1>1, <1>10, <1>11, <1>12, VerbInv

(* _decrease takes the amounts out of the bins, pokes the others that hold *)
(* liquidity, and knows whether anything is left.                          *)
LEMMA ShrinkInv ==
  ASSUME IInv, NEW id \in PositionIds, owner[id] # Nobody, NEW ds,
         DOMAIN ds = 1 .. size[id], \A i \in Slots : At(ds, i) \in Nat,
         Shrink(id, ds)
  PROVE  IInv'
<1> DEFINE delta == [i \in Slots |-> -At(ds, i)]
           todo == {i \in 1 .. size[id] : bins[id][i] > 0}
           closes == \A i \in 1 .. size[id] : bins[id][i] = At(ds, i)
<1>1. /\ todo \in SUBSET Slots /\ todo \subseteq 1 .. size[id]
      /\ \A i \in todo : bins[id][i] > 0
  BY ConstantsAssumption DEF IInv, TypeOK, Slots
<1>2. bins \in [PositionIds -> [Slots -> Nat]]
  BY DEF IInv, TypeOK
<1>3. \A i \in Slots : At(ds, i) <= bins[id][i]
  BY DEF Shrink
<1>4. \A i \in Slots : i \notin todo => bins[id][i] = 0 /\ delta[i] = 0
  <2>1. ASSUME NEW i \in Slots, i \notin todo PROVE bins[id][i] = 0
    BY <1>2, <2>1, PastTheEnd
  <2>2. QED
    BY <1>3, <2>1
<1>5. delta \in [Slots -> Int] /\ \A i \in Slots : bins[id][i] + delta[i] \in Nat
  BY <1>2, <1>3
<1>6. bins' = [bins EXCEPT ![id] = [i \in Slots |-> bins[id][i] + delta[i]]]
  <2>1. bins' = [bins EXCEPT ![id] = [i \in Slots |-> bins[id][i] - At(ds, i)]]
    BY <1>2 DEF Shrink
  <2>2. \A i \in Slots : bins[id][i] - At(ds, i) = bins[id][i] + delta[i]
    BY <1>2
  <2>3. QED
    BY <1>2, <2>1, <2>2
<1>7. closes <=> \A i \in Slots : bins[id][i] + delta[i] = 0
  <2>1. 1 .. size[id] \subseteq Slots
    BY ConstantsAssumption DEF IInv, TypeOK, Slots
  <2>2. \A i \in Slots : bins[id][i] + delta[i] = 0 <=> bins[id][i] = At(ds, i)
    BY <1>2
  <2>3. \A i \in Slots \ (1 .. size[id]) : bins[id][i] = At(ds, i)
    BY PastTheEnd DEF At
  <2>4. QED
    BY <2>1, <2>2, <2>3
<1>8. Unlock("decrease", id, delta, todo, closes) /\ closes \in BOOLEAN
  BY DEF Shrink
<1>9. UNCHANGED <<owner, ownerIndex, size, ownerIds, nextPositionId>>
  BY DEF Shrink
<1> HIDE DEF delta, todo, closes
<1>10. VerbEffect(id, delta, todo, closes)
  BY <1>1, <1>4, <1>5, <1>6, <1>7, <1>9 DEF VerbEffect
<1>11. QED
  BY <1>1, <1>5, <1>8, <1>10, VerbInv

(* decrease is _decrease for amounts its owner names.                      *)
LEMMA DecreaseInv ==
  ASSUME IInv, NEW a \in Accounts, NEW id \in PositionIds, NEW ds \in Requests,
         Decrease(a, id, ds)
  PROVE  IInv'
BY ConstantsAssumption, RequestAmounts, ShrinkInv DEF Decrease

(* close is _decrease for everything the record holds.                     *)
LEMMA CloseInv ==
  ASSUME IInv, NEW a \in Accounts, NEW id \in PositionIds, Close(a, id)
  PROVE  IInv'
<1> DEFINE ds == [i \in 1 .. size[id] |-> bins[id][i]]
<1>1. \A i \in Slots : At(ds, i) \in Nat
  BY DEF IInv, TypeOK, At
<1>2. Shrink(id, ds) /\ DOMAIN ds = 1 .. size[id] /\ owner[id] # Nobody
  BY ConstantsAssumption DEF Close
<1> HIDE DEF ds
<1>3. QED
  BY <1>1, <1>2, ShrinkInv

(* _open issues the next id, which v4 and the lists know nothing of yet.   *)
LEMMA OpenInv ==
  ASSUME IInv, NEW a \in Accounts, NEW ls \in Requests, Open(a, ls)
  PROVE  IInv'
<1> DEFINE delta == [i \in Slots |-> At(ls, i)]
           todo == DOMAIN ls
<1>1. PICK id \in PositionIds : id = nextPositionId /\ owner[id] = Nobody
  BY ConstantsAssumption DEF Open, IInv, RecordsOK, Snapshot, TypeOK, PositionIds
<1>2. \A i \in Slots : At(ls, i) \in Nat
  BY RequestAmounts
<1>3. PICK n \in 1 .. MaxBins : todo = 1 .. n /\ size' = [size EXCEPT ![id] = n]
  BY <1>1 DEF Open
<1>4. todo \in SUBSET Slots
  BY <1>3, ConstantsAssumption DEF Slots
<1>5. delta \in [Slots -> Int]
  BY <1>2
<1>6. Unlock("open", id, delta, todo, FALSE)
  BY <1>1 DEF Open
<1>7. /\ nextPositionId' = id + 1
      /\ owner' = [owner EXCEPT ![id] = a]
      /\ bins' = [bins EXCEPT ![id] = delta]
      /\ ownerIds' = [ownerIds EXCEPT ![a] = Append(ownerIds[a], id)]
      /\ ownerIndex' = [ownerIndex EXCEPT ![id] = Len(ownerIds[a]) + 1]
      /\ \A i \in todo : delta[i] # 0
  BY <1>1, <1>4 DEF Open, At
<1>8. \A i \in Slots : delta[i] \in Nat /\ (i \notin todo => delta[i] = 0)
  BY <1>2 DEF At
<1> HIDE DEF delta, todo
<1>9. /\ tx = NoTx
      /\ tx' \in Transactions
      /\ tx' # NoTx
      /\ saved' \in Storages
      /\ AtRest(saved)'
      /\ AtRest(Snapshot)
      /\ UNCHANGED <<pool, owed, unreported>>
  BY <1>1, <1>4, <1>5, <1>6, UnlockInv
<1>10. TypeOK'
  BY <1>1, <1>3, <1>5, <1>7, <1>8, <1>9 DEF IInv, TypeOK
<1> DEFINE ids == ownerIds[a]
<1>11. /\ ids \in Seq(PositionIds)
       /\ Append(ids, id) \in Seq(PositionIds)
       /\ Len(Append(ids, id)) = Len(ids) + 1
       /\ \A k \in 1 .. Len(ids) : Append(ids, id)[k] = ids[k]
       /\ Append(ids, id)[Len(ids) + 1] = id
       /\ Len(ids) \in Nat
  <2>1. ids \in Seq(PositionIds)
    BY DEF IInv, TypeOK
  <2>2. QED
    BY <1>1, <2>1, AppendProperties
<1>12. ListsOK(Snapshot)'
  <2>1. ListsOK(Snapshot)
    BY <1>9 DEF AtRest
  <2>2. ASSUME NEW other \in PositionIds, owner'[other] # Nobody
        PROVE  /\ ownerIndex'[other] \in 1 .. Len(ownerIds'[owner'[other]])
               /\ ownerIds'[owner'[other]][ownerIndex'[other]] = other
    <3>1. CASE other = id
      BY <1>1, <1>7, <1>11, <3>1 DEF IInv, TypeOK
    <3>2. CASE other # id
      <4>1. owner'[other] = owner[other] /\ ownerIndex'[other] = ownerIndex[other]
        BY <1>7, <3>2 DEF IInv, TypeOK
      <4>2. /\ owner[other] \in Accounts
            /\ ownerIndex[other] \in 1 .. Len(ownerIds[owner[other]])
            /\ ownerIds[owner[other]][ownerIndex[other]] = other
        BY <2>1, <2>2, <4>1 DEF ListsOK, Snapshot, IInv, TypeOK
      <4>3. CASE owner[other] = a
        BY <1>7, <1>11, <4>1, <4>2, <4>3 DEF IInv, TypeOK
      <4>4. CASE owner[other] # a
        BY <1>7, <4>1, <4>2, <4>4 DEF IInv, TypeOK
      <4>5. QED
        BY <4>3, <4>4
    <3>3. QED
      BY <3>1, <3>2
  <2>3. ASSUME NEW b \in Accounts, NEW k \in 1 .. Len(ownerIds'[b])
        PROVE  /\ owner'[ownerIds'[b][k]] = b
               /\ ownerIndex'[ownerIds'[b][k]] = k
    <3>1. CASE b = a /\ k = Len(ids) + 1
      BY <1>1, <1>7, <1>11, <3>1 DEF IInv, TypeOK
    <3>2. CASE ~(b = a /\ k = Len(ids) + 1)
      <4>1. k \in 1 .. Len(ownerIds[b]) /\ ownerIds'[b][k] = ownerIds[b][k]
        BY <1>7, <1>11, <3>2 DEF IInv, TypeOK
      <4>2. ownerIds[b][k] \in PositionIds
        BY <4>1, ElementOfSeq DEF IInv, TypeOK
      <4>3. owner[ownerIds[b][k]] = b /\ ownerIndex[ownerIds[b][k]] = k
        BY <2>1, <4>1 DEF ListsOK, Snapshot
      <4>4. ownerIds[b][k] # id
        BY <1>1, <4>3, ConstantsAssumption
      <4>5. QED
        BY <1>7, <4>1, <4>2, <4>3, <4>4 DEF IInv, TypeOK
    <3>3. QED
      BY <3>1, <3>2
  <2>4. QED
    BY <2>2, <2>3 DEF ListsOK, Snapshot
<1>13. \A i \in Slots : bins[id][i] = 0 /\ pool[id][i] = 0 /\ owed[id][i] = 0
  BY <1>1, <1>9 DEF AtRest, Settled, Snapshot, IInv, TypeOK
<1>14. \A other \in PositionIds \ {id} :
         bins'[other] = bins[other] /\ owner'[other] = owner[other] /\ size'[other] = size[other]
  BY <1>3, <1>7 DEF IInv, TypeOK
<1>15. bins'[id] = delta /\ owner'[id] = a /\ size'[id] = n
  BY <1>1, <1>3, <1>7 DEF IInv, TypeOK
<1>16. RecordsOK(Snapshot)'
  <2>1. RecordsOK(Snapshot)
    BY <1>9 DEF AtRest
  <2>2. nextPositionId' >= FirstId
    BY <1>1, <1>7, <2>1, ConstantsAssumption DEF RecordsOK, Snapshot, IInv, TypeOK
  <2>3. ASSUME NEW other \in PositionIds, other >= nextPositionId' PROVE owner'[other] = Nobody
    <3>1. other # id /\ other >= nextPositionId
      BY <1>1, <1>7, <2>3, ConstantsAssumption DEF IInv, TypeOK, PositionIds
    <3>2. QED
      BY <1>14, <2>1, <3>1 DEF RecordsOK, Snapshot
  <2>4. ASSUME NEW other \in PositionIds, NEW i \in Slots, i > size'[other]
        PROVE  bins'[other][i] = 0
    <3>1. CASE other = id
      BY <1>3, <1>8, <1>15, <2>4, <3>1, ConstantsAssumption DEF Slots
    <3>2. CASE other # id
      BY <1>14, <2>1, <2>4, <3>2 DEF RecordsOK, Snapshot
    <3>3. QED
      BY <3>1, <3>2
  <2>5. QED
    BY <2>2, <2>3, <2>4 DEF RecordsOK, Snapshot
<1>17. MidCallback'
  <2>1. /\ tx'.id = id
        /\ tx'.delta = delta
        /\ tx'.todo = todo
        /\ tx'.closes = FALSE
    BY <1>6 DEF Unlock
  <2>2. owner'[id] # Nobody
    BY <1>15, ConstantsAssumption
  <2>3. ASSUME NEW i \in Slots \ todo
        PROVE  bins'[id][i] = pool'[id][i] /\ owed'[id][i] = 0
    BY <1>8, <1>9, <1>13, <1>15
  <2>4. ASSUME NEW i \in todo
        PROVE  bins'[id][i] = pool'[id][i] + delta[i] /\ V4Accepts(id, i, delta[i])'
    <3>1. i \in Slots /\ delta[i] \in Nat /\ delta[i] # 0
      BY <1>4, <1>7, <1>8
    <3>2. QED
      BY <1>9, <1>13, <1>15, <3>1 DEF V4Accepts
  <2>5. ~ \A i \in Slots : bins'[id][i] = 0
    <3>1. 1 \in todo /\ 1 \in Slots
      BY <1>3, ConstantsAssumption DEF Slots
    <3>2. QED
      BY <1>7, <1>15, <3>1
  <2>6. ASSUME NEW other \in PositionIds \ {id} PROVE Settled(Snapshot, other)'
    <3>1. Settled(Snapshot, other)
      BY <1>9 DEF AtRest
    <3>2. QED
      BY <1>9, <1>14, <3>1 DEF Settled, Snapshot
  <2>7. todo \subseteq 1 .. size'[id]
    BY <1>3, <1>15
  <2>8. QED
    BY <2>1, <2>2, <2>3, <2>4, <2>5, <2>6, <2>7 DEF MidCallback, V4Accepts
<1>18. QED
  BY <1>9, <1>10, <1>12, <1>16, <1>17 DEF IInv

-----------------------------------------------------------------------------
(* The rounds of the callback and the end of the transaction.              *)

(* The transaction that has one bin less to do, and some fees more.        *)
LEMMA BinDone ==
  ASSUME NEW t \in Transactions, NEW i, NEW f \in Nat,
         NEW u, u = [t EXCEPT !.todo = t.todo \ {i}, !.fees = t.fees + f]
  PROVE  u \in Transactions /\ u # NoTx
<1>1. /\ t.fees \in Nat /\ t.closes \in BOOLEAN /\ t.id \in PositionIds
      /\ t.verb \in {"open", "increase", "decrease", "collect"}
      /\ t.delta \in [Slots -> Int] /\ t.todo \in SUBSET Slots
      /\ t = [verb |-> t.verb, id |-> t.id, delta |-> t.delta, todo |-> t.todo,
              fees |-> t.fees, closes |-> t.closes]
  BY DEF Transactions
<1>2. t.fees + f \in Nat
  BY <1>1
<1>3. u = [verb |-> t.verb, id |-> t.id, delta |-> t.delta, todo |-> t.todo \ {i},
           fees |-> t.fees + f, closes |-> t.closes]
  BY <1>1
<1>4. QED
  BY <1>1, <1>2, <1>3, ConstantsAssumption DEF Transactions

(* One bin is modified: v4 catches up with the record for that bin.        *)
LEMMA ModifyBinInv ==
  ASSUME IInv, ModifyBin
  PROVE  IInv'
<1>1. tx # NoTx /\ tx \in Transactions /\ saved \in Storages
  BY DEF ModifyBin, IInv, TypeOK
<1>2. PICK i \in tx.todo :
        /\ V4Accepts(tx.id, i, tx.delta[i])
        /\ pool' = [pool EXCEPT ![tx.id][i] = pool[tx.id][i] + tx.delta[i]]
        /\ owed' = [owed EXCEPT ![tx.id][i] = 0]
        /\ tx' = [tx EXCEPT !.todo = tx.todo \ {i}, !.fees = tx.fees + owed[tx.id][i]]
  BY DEF ModifyBin
<1>3. UNCHANGED <<owner, ownerIndex, size, bins, ownerIds, nextPositionId, unreported, saved>>
  BY DEF ModifyBin, storage
<1>4. PICK id \in PositionIds : id = tx.id
  BY <1>1 DEF Transactions
<1>5. i \in Slots /\ tx.delta \in [Slots -> Int] /\ tx.todo \subseteq Slots
  BY <1>1 DEF Transactions
<1>6. /\ pool \in [PositionIds -> [Slots -> Nat]]
      /\ owed \in [PositionIds -> [Slots -> Nat]]
  BY DEF IInv, TypeOK
<1>7. pool[id][i] + tx.delta[i] \in Nat
  BY <1>2, <1>4, <1>5, <1>6 DEF V4Accepts
<1>8. /\ tx' \in Transactions
      /\ tx'.id = id
      /\ tx'.delta = tx.delta
      /\ tx'.todo = tx.todo \ {i}
      /\ tx'.closes = tx.closes
  <2>1. owed[id][i] \in Nat
    BY <1>5, <1>6
  <2>2. QED
    BY <1>1, <1>2, <1>4, <2>1, BinDone DEF Transactions
<1>9. tx' # NoTx
  BY <1>8, ConstantsAssumption
<1>10. /\ pool' \in [PositionIds -> [Slots -> Nat]]
       /\ owed' \in [PositionIds -> [Slots -> Nat]]
       /\ pool'[id][i] = pool[id][i] + tx.delta[i]
       /\ owed'[id][i] = 0
       /\ \A j \in Slots \ {i} : pool'[id][j] = pool[id][j] /\ owed'[id][j] = owed[id][j]
       /\ \A other \in PositionIds \ {id} : pool'[other] = pool[other] /\ owed'[other] = owed[other]
  BY <1>2, <1>4, <1>5, <1>6, <1>7
<1>11. TypeOK'
  BY <1>1, <1>3, <1>8, <1>10 DEF IInv, TypeOK
<1>12. ListsOK(Snapshot)' /\ RecordsOK(Snapshot)'
  BY <1>3 DEF IInv, ListsOK, RecordsOK, Snapshot
<1>13. AtRest(saved)'
  BY <1>1, <1>3 DEF IInv
<1>14. MidCallback'
  <2>1. MidCallback
    BY <1>1 DEF IInv
  <2>2. owner'[id] # Nobody /\ tx'.todo \subseteq 1 .. size'[id]
    BY <1>3, <1>4, <1>8, <2>1 DEF MidCallback
  <2>3. ASSUME NEW j \in Slots \ (tx.todo \ {i})
        PROVE  bins'[id][j] = pool'[id][j] /\ (bins'[id][j] = 0 => owed'[id][j] = 0)
    <3>1. CASE j = i
      BY <1>3, <1>4, <1>10, <2>1, <3>1 DEF MidCallback
    <3>2. CASE j # i
      BY <1>3, <1>4, <1>10, <2>1, <3>2 DEF MidCallback
    <3>3. QED
      BY <3>1, <3>2
  <2>4. ASSUME NEW j \in tx.todo \ {i}
        PROVE  bins'[id][j] = pool'[id][j] + tx.delta[j] /\ V4Accepts(id, j, tx.delta[j])'
    BY <1>3, <1>4, <1>5, <1>8, <1>10, <2>1 DEF MidCallback, V4Accepts
  <2>5. tx'.closes <=> \A j \in Slots : bins'[id][j] = 0
    BY <1>3, <1>4, <1>8, <2>1 DEF MidCallback
  <2>6. ASSUME NEW other \in PositionIds \ {id} PROVE Settled(Snapshot, other)'
    <3>1. Settled(Snapshot, other)
      BY <1>4, <2>1 DEF MidCallback
    <3>2. QED
      BY <1>3, <1>10, <3>1 DEF Settled, Snapshot
  <2>7. QED
    BY <1>8, <2>2, <2>3, <2>4, <2>5, <2>6 DEF MidCallback, V4Accepts
<1>15. QED
  BY <1>9, <1>11, <1>12, <1>13, <1>14 DEF IInv

(* A revert brings the snapshot back, which is at rest.                    *)
LEMMA RevertInv ==
  ASSUME IInv, Revert
  PROVE  IInv'
<1>1. tx # NoTx /\ saved \in Storages /\ AtRest(saved)
  BY DEF Revert, IInv, TypeOK
<1>2. TypeOK'
  BY <1>1 DEF Revert, TypeOK, Storages
<1>3. ListsOK(Snapshot)' /\ RecordsOK(Snapshot)'
  BY <1>1 DEF Revert, AtRest, ListsOK, RecordsOK, Snapshot
<1>4. ASSUME NEW id \in PositionIds PROVE Settled(Snapshot, id)'
  BY <1>1 DEF Revert, AtRest, Settled, Snapshot
<1>5. tx' = NoTx
  BY DEF Revert
<1>6. QED
  BY <1>2, <1>3, <1>4, <1>5 DEF IInv

(* _remove: the last id moves into the place of the removed one, and both  *)
(* directions of the lists stay consistent.                                *)
LEMMA RemoveLists ==
  ASSUME IInv, NEW id \in PositionIds, owner[id] # Nobody, Remove(id)
  PROVE  /\ ownerIds' \in [Accounts -> Seq(PositionIds)]
         /\ ownerIndex' \in [PositionIds -> Nat]
         /\ ListsOK(Snapshot)'
<1> DEFINE a    == owner[id]
           ids  == ownerIds[a]
           n    == Len(ids)
           last == ids[n]
           idx  == ownerIndex[id]
           new  == SubSeq([ids EXCEPT ![idx] = last], 1, n - 1)
<1>1. /\ owner \in [PositionIds -> Accounts \cup {Nobody}]
      /\ ownerIndex \in [PositionIds -> Nat]
      /\ ownerIds \in [Accounts -> Seq(PositionIds)]
      /\ ListsOK(Snapshot)
  BY DEF IInv, TypeOK
<1>2. a \in Accounts /\ ids \in Seq(PositionIds) /\ n \in Nat
  BY <1>1
<1>3. idx \in 1 .. n /\ ids[idx] = id
  BY <1>1 DEF ListsOK, Snapshot
<1>4. last \in PositionIds /\ owner[last] = a /\ ownerIndex[last] = n
  BY <1>1, <1>2, <1>3, ElementOfSeq DEF ListsOK, Snapshot
<1>5. /\ new \in Seq(PositionIds)
      /\ Len(new) = n - 1
      /\ \A k \in 1 .. n - 1 : new[k] = IF k = idx THEN last ELSE ids[k]
  <2>1. /\ [ids EXCEPT ![idx] = last] \in Seq(PositionIds)
        /\ Len([ids EXCEPT ![idx] = last]) = n
        /\ \A k \in 1 .. n : [ids EXCEPT ![idx] = last][k] = IF k = idx THEN last ELSE ids[k]
    BY <1>2, <1>3, <1>4, ExceptSeq
  <2>2. QED
    BY <1>2, <1>3, <2>1, SubSeqProperties
<1>6. /\ ownerIds' = [ownerIds EXCEPT ![a] = new]
      /\ ownerIndex' = [ownerIndex EXCEPT ![last] = idx, ![id] = 0]
      /\ owner' = [owner EXCEPT ![id] = Nobody]
  BY DEF Remove
<1>7. ownerIds' \in [Accounts -> Seq(PositionIds)] /\ ownerIndex' \in [PositionIds -> Nat]
  BY <1>1, <1>2, <1>3, <1>4, <1>5, <1>6
<1>8. /\ ownerIds'[a] = new
      /\ \A b \in Accounts \ {a} : ownerIds'[b] = ownerIds[b]
      /\ owner'[id] = Nobody
      /\ \A other \in PositionIds \ {id} : owner'[other] = owner[other]
      /\ last # id => ownerIndex'[last] = idx
      /\ \A other \in PositionIds \ {id, last} : ownerIndex'[other] = ownerIndex[other]
  BY <1>1, <1>2, <1>3, <1>4, <1>6
<1> HIDE DEF a, ids, n, last, idx, new
<1>9. /\ \A b \in Accounts : \A k \in 1 .. Len(ownerIds[b]) :
           /\ ownerIds[b][k] \in PositionIds
           /\ owner[ownerIds[b][k]] = b
           /\ ownerIndex[ownerIds[b][k]] = k
      /\ ids = ownerIds[a] /\ n = Len(ids) /\ last = ids[n] /\ idx = ownerIndex[id]
  BY <1>1, ElementOfSeq DEF ListsOK, Snapshot, a, ids, n, last, idx
<1>10. last # id <=> idx # n
  BY <1>3, <1>4, <1>9
<1>11. ASSUME NEW other \in PositionIds, owner'[other] # Nobody
       PROVE  /\ ownerIndex'[other] \in 1 .. Len(ownerIds'[owner'[other]])
              /\ ownerIds'[owner'[other]][ownerIndex'[other]] = other
  <2>1. other # id /\ owner'[other] = owner[other] /\ owner[other] \in Accounts
    BY <1>1, <1>8, <1>11
  <2>2. CASE other = last
    <3>1. owner'[other] = a /\ ownerIndex'[other] = idx /\ ownerIds'[a] = new
      BY <1>4, <1>8, <2>1, <2>2
    <3>2. idx \in 1 .. n - 1
      BY <1>2, <1>3, <1>10, <2>1, <2>2
    <3>3. QED
      BY <1>5, <2>2, <3>1, <3>2
  <2>3. CASE other # last
    <3>1. /\ ownerIndex[other] \in 1 .. Len(ownerIds[owner[other]])
          /\ ownerIds[owner[other]][ownerIndex[other]] = other
          /\ ownerIndex'[other] = ownerIndex[other]
      BY <1>1, <1>8, <1>11, <2>1, <2>3 DEF ListsOK, Snapshot
    <3>2. CASE owner[other] = a
      <4>1. ownerIndex[other] # n /\ ownerIndex[other] # idx
        BY <1>3, <1>9, <2>1, <2>3, <3>1, <3>2
      <4>2. ownerIndex[other] \in 1 .. n - 1
        BY <1>2, <1>9, <3>1, <3>2, <4>1
      <4>3. QED
        BY <1>5, <1>8, <1>9, <2>1, <3>1, <3>2, <4>1, <4>2
    <3>3. CASE owner[other] # a
      BY <1>8, <2>1, <3>1, <3>3
    <3>4. QED
      BY <3>2, <3>3
  <2>4. QED
    BY <2>2, <2>3
<1>12. ASSUME NEW b \in Accounts, NEW k \in 1 .. Len(ownerIds'[b])
       PROVE  owner'[ownerIds'[b][k]] = b /\ ownerIndex'[ownerIds'[b][k]] = k
  <2>1. CASE b # a
    <3>1. ownerIds'[b] = ownerIds[b]
      BY <1>8, <2>1
    <3>2. /\ ownerIds[b][k] \in PositionIds
          /\ owner[ownerIds[b][k]] = b
          /\ ownerIndex[ownerIds[b][k]] = k
      BY <1>9, <3>1
    <3>3. ownerIds[b][k] # id /\ ownerIds[b][k] # last
      BY <1>4, <1>9, <2>1, <3>2 DEF a
    <3>4. QED
      BY <1>8, <3>1, <3>2, <3>3
  <2>2. CASE b = a
    <3>1. k \in 1 .. n - 1 /\ ownerIds'[b] = new
      BY <1>5, <1>8, <2>2
    <3>2. /\ ids[k] \in PositionIds
          /\ owner[ids[k]] = a
          /\ ownerIndex[ids[k]] = k
      BY <1>2, <1>9, <3>1
    <3>3. CASE k = idx
      BY <1>4, <1>5, <1>8, <1>10, <2>2, <3>1, <3>3
    <3>4. CASE k # idx
      <4>1. ids[k] # id /\ ids[k] # last
        BY <1>2, <1>4, <1>9, <3>1, <3>2, <3>4
      <4>2. QED
        BY <1>5, <1>8, <2>2, <3>1, <3>2, <3>4, <4>1
    <3>5. QED
      BY <3>3, <3>4
  <2>3. QED
    BY <2>1, <2>2
<1>13. QED
  BY <1>7, <1>11, <1>12 DEF ListsOK, Snapshot

(* The end of the verb: v4 has caught up with the record of the position,  *)
(* and the record goes if nothing is left in it.                           *)
LEMMA FinishInv ==
  ASSUME IInv, Finish
  PROVE  IInv'
<1>1. tx # NoTx /\ tx \in Transactions /\ tx.todo = {} /\ MidCallback
  BY DEF Finish, IInv, TypeOK
<1>2. PICK id \in PositionIds : id = tx.id
  BY <1>1 DEF Transactions
<1>3. tx' = NoTx /\ saved' = NoTx /\ UNCHANGED <<pool, owed>>
  BY DEF Finish, v4
<1>4. unreported' \in [PositionIds -> Int]
  BY <1>1 DEF Finish, IInv, TypeOK, Transactions
<1>5. /\ owner[id] # Nobody
      /\ \A i \in Slots : bins[id][i] = pool[id][i]
      /\ \A i \in Slots : bins[id][i] = 0 => owed[id][i] = 0
      /\ tx.closes <=> \A i \in Slots : bins[id][i] = 0
      /\ \A other \in PositionIds \ {id} : Settled(Snapshot, other)
  BY <1>1, <1>2 DEF MidCallback
<1>6. bins \in [PositionIds -> [Slots -> Nat]] /\ NoAmounts \in [Slots -> Nat]
  BY DEF IInv, TypeOK, NoAmounts
<1>7. CASE ~tx.closes
  <2>1. UNCHANGED <<owner, ownerIndex, size, bins, ownerIds, nextPositionId>>
    BY <1>7 DEF Finish, storage
  <2>2. TypeOK'
    BY <1>3, <1>4, <2>1 DEF IInv, TypeOK
  <2>3. Settled(Snapshot, id)
    BY <1>5, <1>6, <1>7 DEF Settled, Snapshot
  <2>4. Snapshot'.bins = Snapshot.bins /\ Snapshot'.pool = Snapshot.pool
        /\ Snapshot'.owed = Snapshot.owed /\ Snapshot'.owner = Snapshot.owner
    BY <1>3, <2>1 DEF Snapshot
  <2>5. ASSUME NEW other \in PositionIds PROVE Settled(Snapshot, other)'
    BY <1>5, <2>3, <2>4 DEF Settled
  <2>6. ListsOK(Snapshot)' /\ RecordsOK(Snapshot)'
    BY <2>1 DEF IInv, ListsOK, RecordsOK, Snapshot
  <2>7. QED
    BY <1>3, <2>2, <2>5, <2>6 DEF IInv
<1>8. CASE tx.closes
  <2>1. Remove(id)
    BY <1>2, <1>8 DEF Finish
  <2>2. /\ ownerIds' \in [Accounts -> Seq(PositionIds)]
        /\ ownerIndex' \in [PositionIds -> Nat]
        /\ ListsOK(Snapshot)'
    BY <1>5, <2>1, RemoveLists
  <2>3. /\ owner' = [owner EXCEPT ![id] = Nobody]
        /\ size' = [size EXCEPT ![id] = 0]
        /\ bins' = [bins EXCEPT ![id] = NoAmounts]
        /\ nextPositionId' = nextPositionId
    BY <2>1 DEF Remove
  <2>4. TypeOK'
    BY <1>3, <1>4, <1>6, <2>2, <2>3, ConstantsAssumption DEF IInv, TypeOK
  <2>5. /\ owner'[id] = Nobody /\ bins'[id] = NoAmounts
        /\ \A other \in PositionIds \ {id} :
             /\ owner'[other] = owner[other]
             /\ bins'[other] = bins[other]
             /\ size'[other] = size[other]
    BY <2>3 DEF IInv, TypeOK
  <2>6. \A i \in Slots : bins'[id][i] = 0 /\ bins[id][i] = 0
    BY <1>5, <1>8, <2>5 DEF NoAmounts
  <2>7. RecordsOK(Snapshot)'
    BY <2>3, <2>5, <2>6 DEF IInv, RecordsOK, Snapshot
  <2>8. ASSUME NEW other \in PositionIds PROVE Settled(Snapshot, other)'
    <3>1. CASE other = id
      BY <1>3, <1>5, <2>5, <2>6, <3>1 DEF Settled, Snapshot
    <3>2. CASE other # id
      BY <1>3, <1>5, <2>5, <3>2 DEF Settled, Snapshot
    <3>3. QED
      BY <3>1, <3>2
  <2>9. QED
    BY <1>3, <2>2, <2>4, <2>7, <2>8 DEF IInv
<1>9. QED
  BY <1>1, <1>7, <1>8 DEF Transactions

-----------------------------------------------------------------------------
(* No step breaks the inductive invariant.                                 *)
LEMMA StepInv == IInv /\ [Next]_vars => IInv'
<1> SUFFICES ASSUME IInv, [Next]_vars PROVE IInv'
  OBVIOUS
<1>1. ASSUME NEW a \in Accounts, NEW ls \in Requests, Open(a, ls) PROVE IInv'
  BY <1>1, OpenInv
<1>2. ASSUME NEW a \in Accounts, NEW id \in PositionIds, NEW ds \in Requests,
             Increase(a, id, ds) \/ Decrease(a, id, ds)
      PROVE  IInv'
  BY <1>2, IncreaseInv, DecreaseInv
<1>3. ASSUME NEW a \in Accounts, NEW id \in PositionIds, Close(a, id) \/ Collect(a, id)
      PROVE  IInv'
  BY <1>3, CloseInv, CollectInv
<1>4. CASE ModifyBin
  BY <1>4, ModifyBinInv
<1>5. CASE Finish
  BY <1>5, FinishInv
<1>6. CASE Revert
  BY <1>6, RevertInv
<1>7. ASSUME NEW id \in PositionIds, NEW i \in Slots, Trade(id, i) PROVE IInv'
  BY <1>7, TradeInv
<1>8. CASE UNCHANGED vars
  BY <1>8 DEF vars, storage, v4, IInv, TypeOK, MidCallback, V4Accepts, Snapshot
<1>9. QED
  BY <1>1, <1>2, <1>3, <1>4, <1>5, <1>6, <1>7, <1>8 DEF Next

(* The inductive invariant holds in every reachable state.                 *)
THEOREM Invariance == Spec => []IInv
BY InitInv, StepInv, PTL DEF Spec

(* In every state the storage, the v4 side and the transaction have their  *)
(* types.                                                                  *)
THEOREM TypeCorrect == Spec => []TypeOK
<1>1. IInv => TypeOK
  BY DEF IInv
<1>2. QED
  BY <1>1, Invariance, PTL

(* _remove's swap-and-pop and _open's push keep ownerIndex and the lists   *)
(* inverse to each other, also while a callback runs and after a revert.   *)
THEOREM OwnerListsSafe == Spec => []OwnerListsConsistent
<1>1. IInv => OwnerListsConsistent
  BY DEF IInv, ListsOK, Snapshot, OwnerListsConsistent, Live
<1>2. QED
  BY <1>1, Invariance, PTL

(* The record alone tells what v4 holds: close needs no off-chain data.    *)
THEOREM RecordSafe == Spec => []RecordMatchesPool
<1>1. IInv => RecordMatchesPool
  <2>1. SUFFICES ASSUME IInv, tx = NoTx PROVE bins = pool
    BY DEF RecordMatchesPool
  <2>2. /\ bins \in [PositionIds -> [Slots -> Nat]]
        /\ pool \in [PositionIds -> [Slots -> Nat]]
    BY <2>1 DEF IInv, TypeOK
  <2>3. \A id \in PositionIds : \A i \in Slots : bins[id][i] = pool[id][i]
    BY <2>1 DEF IInv, Settled, Snapshot
  <2>4. \A id \in PositionIds : bins[id] = pool[id]
    BY <2>2, <2>3
  <2>5. QED
    BY <2>2, <2>4
<1>2. QED
  BY <1>1, Invariance, PTL

(* No verb leaves liquidity in v4 without a record, a record without       *)
(* liquidity, or fees on a bin that can no longer be poked.                *)
THEOREM NothingStrandedSafe == Spec => []NothingStranded
<1>1. IInv => NothingStranded
  BY DEF IInv, Settled, Snapshot, NothingStranded, Live
<1>2. QED
  BY <1>1, Invariance, PTL

(* v4 accepts every bin of every callback, so no emptied bin can block the *)
(* exit from the others.                                                   *)
THEOREM CallbackSafe == Spec => []CallbackNeverRejected
<1>1. IInv => CallbackNeverRejected
  BY DEF IInv, MidCallback, CallbackNeverRejected
<1>2. QED
  BY <1>1, Invariance, PTL

-----------------------------------------------------------------------------
(* The fees.  What a position earned and no event has reported is owed by  *)
(* its bins or, while a transaction is inside, was handed to it.           *)

Owing(s, id) == SumFunctionOnSet(s.owed[id], Slots)

Handed(id) == IF tx # NoTx /\ tx.id = id THEN tx.fees ELSE 0

(* An open, whose event carries no fees, is handed none: the bins it still *)
(* has to fund are empty in v4, and nobody trades through those.           *)
OpenEarnsNothing ==
  tx # NoTx /\ tx.verb = "open" =>
    /\ tx.fees = 0
    /\ \A i \in tx.todo : pool[tx.id][i] = 0 /\ owed[tx.id][i] = 0

FeesAccounted ==
  /\ \A id \in PositionIds : unreported[id] = Owing(Snapshot, id) + Handed(id)
  /\ tx # NoTx => \A id \in PositionIds : saved.unreported[id] = Owing(saved, id)
  /\ OpenEarnsNothing

FInv == IInv /\ FeesAccounted

(* The slots are finitely many, and what the bins owe is a number.         *)
LEMMA OwedIntegral ==
  ASSUME NEW f, f \in [Slots -> Nat]
  PROVE  Integral(f, Slots) /\ SumFunctionOnSet(f, Slots) \in Int
<1>1. IsFiniteSet(Slots)
  BY FS_Interval, ConstantsAssumption DEF Slots
<1>2. Integral(f, Slots)
  BY <1>1 DEF Integral
<1>3. QED
  BY <1>2, SumType

(* When one bin of a position owes otherwise, the position does by as much. *)
LEMMA OwedMoves ==
  ASSUME IInv, NEW id \in PositionIds, NEW i \in Slots, NEW n \in Nat,
         owed' = [owed EXCEPT ![id][i] = n]
  PROVE  /\ SumFunctionOnSet(owed'[id], Slots) =
              SumFunctionOnSet(owed[id], Slots) + (n - owed[id][i])
         /\ \A other \in PositionIds \ {id} : owed'[other] = owed[other]
<1>1. owed \in [PositionIds -> [Slots -> Nat]]
  BY DEF IInv, TypeOK
<1>2. /\ owed[id] \in [Slots -> Nat] /\ owed'[id] \in [Slots -> Nat]
      /\ owed'[id][i] = n
      /\ \A j \in Slots \ {i} : owed[id][j] = owed'[id][j]
      /\ \A other \in PositionIds \ {id} : owed'[other] = owed[other]
  BY <1>1
<1>3. Integral(owed[id], Slots) /\ Integral(owed'[id], Slots)
  BY <1>2, OwedIntegral
<1>4. SumFunctionOnSet(owed'[id], Slots) =
        SumFunctionOnSet(owed[id], Slots) + (owed'[id][i] - owed[id][i])
  BY <1>2, <1>3, SumMoves
<1>5. QED
  BY <1>2, <1>4

LEMMA InitFees == Init => FInv
<1> SUFFICES ASSUME Init PROVE FInv
  OBVIOUS
<1>1. IInv
  BY InitInv
<1>2. ASSUME NEW id \in PositionIds PROVE unreported[id] = Owing(Snapshot, id) + Handed(id)
  <2>1. owed[id] = NoAmounts /\ unreported[id] = 0 /\ tx = NoTx
    BY DEF Init
  <2>2. NoAmounts \in [Slots -> Nat] /\ \A i \in Slots : NoAmounts[i] = 0
    BY DEF NoAmounts
  <2>3. Integral(NoAmounts, Slots)
    BY <2>2, OwedIntegral
  <2>4. SumFunctionOnSet(NoAmounts, Slots) = 0
    BY <2>2, <2>3, SumZero
  <2>5. QED
    BY <2>1, <2>4 DEF Owing, Snapshot, Handed
<1>3. tx = NoTx
  BY DEF Init
<1>4. QED
  BY <1>1, <1>2, <1>3 DEF FInv, FeesAccounted, OpenEarnsNothing

(* The entry of a verb: nothing is handed over yet, and the snapshot is of *)
(* a state outside a transaction.                                          *)
LEMMA EntryFees ==
  ASSUME FInv, NEW verb, NEW id \in PositionIds, NEW delta, NEW todo, NEW closes,
         Unlock(verb, id, delta, todo, closes),
         verb = "open" => \A i \in todo : pool[id][i] = 0 /\ owed[id][i] = 0
  PROVE  FeesAccounted'
<1>1. /\ tx = NoTx /\ saved' = Snapshot
      /\ tx'.fees = 0 /\ tx'.verb = verb /\ tx'.id = id /\ tx'.todo = todo
      /\ UNCHANGED <<pool, owed, unreported>>
  BY DEF Unlock, v4
<1>2. \A other \in PositionIds : unreported[other] = SumFunctionOnSet(owed[other], Slots) + 0
  BY <1>1 DEF FInv, FeesAccounted, Owing, Handed, Snapshot
<1>3. \A other \in PositionIds : unreported[other] = SumFunctionOnSet(owed[other], Slots)
  <2>1. ASSUME NEW other \in PositionIds PROVE SumFunctionOnSet(owed[other], Slots) \in Int
    BY OwedIntegral DEF FInv, IInv, TypeOK
  <2>2. QED
    BY <1>2, <2>1
<1>4. \A other \in PositionIds : Handed(other)' = 0
  BY <1>1 DEF Handed
<1>5. \A other \in PositionIds : Owing(Snapshot, other)' = SumFunctionOnSet(owed[other], Slots)
  BY <1>1 DEF Owing, Snapshot
<1>6. \A other \in PositionIds : Owing(saved, other)' = SumFunctionOnSet(owed[other], Slots)
                                 /\ saved'.unreported[other] = unreported[other]
  BY <1>1 DEF Owing, Snapshot
<1>7. OpenEarnsNothing'
  BY <1>1 DEF OpenEarnsNothing
<1>8. QED
  BY <1>1, <1>2, <1>3, <1>4, <1>5, <1>6, <1>7 DEF FeesAccounted

(* The id that an open issues has no bins in v4 and is owed nothing.       *)
LEMMA OpenFees ==
  ASSUME FInv, NEW a \in Accounts, NEW ls \in Requests, Open(a, ls)
  PROVE  FeesAccounted'
<1>1. PICK id \in PositionIds : id = nextPositionId /\ owner[id] = Nobody
  BY ConstantsAssumption DEF Open, FInv, IInv, RecordsOK, Snapshot, TypeOK, PositionIds
<1>2. Unlock("open", id, [i \in Slots |-> At(ls, i)], DOMAIN ls, FALSE)
  BY <1>1 DEF Open
<1>3. tx = NoTx
  BY <1>2 DEF Unlock
<1>4. \A i \in DOMAIN ls : i \in Slots
  BY ConstantsAssumption DEF Open, Slots
<1>5. ASSUME NEW i \in Slots PROVE pool[id][i] = 0 /\ owed[id][i] = 0
  <2>1. bins[id][i] = 0
    BY <1>1, <1>3 DEF FInv, IInv, Settled, Snapshot, TypeOK
  <2>2. QED
    BY <1>3, <2>1 DEF FInv, IInv, Settled, Snapshot
<1>6. QED
  BY <1>2, <1>4, <1>5, EntryFees

(* A bin is modified: what it owed is handed to the transaction.           *)
LEMMA ModifyBinFees ==
  ASSUME FInv, ModifyBin
  PROVE  FeesAccounted'
<1>1. tx # NoTx /\ tx \in Transactions
  BY DEF ModifyBin, FInv, IInv, TypeOK
<1>2. PICK i \in tx.todo :
        /\ pool' = [pool EXCEPT ![tx.id][i] = pool[tx.id][i] + tx.delta[i]]
        /\ owed' = [owed EXCEPT ![tx.id][i] = 0]
        /\ tx' = [tx EXCEPT !.todo = tx.todo \ {i}, !.fees = tx.fees + owed[tx.id][i]]
  BY DEF ModifyBin
<1>3. PICK id \in PositionIds : id = tx.id
  BY <1>1 DEF Transactions
<1>4. i \in Slots /\ tx.todo \subseteq Slots /\ tx.fees \in Nat
  BY <1>1 DEF Transactions
<1>5. tx'.id = id /\ tx'.fees = tx.fees + owed[id][i] /\ tx'.verb = tx.verb
      /\ tx'.todo = tx.todo \ {i}
  BY <1>1, <1>2, <1>3 DEF Transactions
<1>6. IInv /\ IInv' /\ tx' # NoTx
  <2>1. IInv /\ IInv'
    BY ModifyBinInv DEF FInv
  <2>2. tx' # NoTx
    <3>1. owed[id][i] \in Nat
      BY <1>3, <1>4, <2>1 DEF IInv, TypeOK
    <3>2. QED
      BY <1>1, <1>2, <1>3, <3>1, BinDone
  <2>3. QED
    BY <2>1, <2>2
<1>7. /\ SumFunctionOnSet(owed'[id], Slots) = SumFunctionOnSet(owed[id], Slots) + (0 - owed[id][i])
      /\ \A other \in PositionIds \ {id} : owed'[other] = owed[other]
  BY <1>2, <1>3, <1>4, <1>6, OwedMoves
<1>8. saved' = saved /\ unreported' = unreported
  BY DEF ModifyBin
<1>9. ASSUME NEW other \in PositionIds
      PROVE  unreported'[other] = (Owing(Snapshot, other) + Handed(other))'
  <2>1. unreported[other] = SumFunctionOnSet(owed[other], Slots) + Handed(other)
    BY DEF FInv, FeesAccounted, Owing, Snapshot
  <2>2. Owing(Snapshot, other)' = SumFunctionOnSet(owed'[other], Slots)
    BY DEF Owing, Snapshot
  <2>3. CASE other = id
    <3>1. Handed(other) = tx.fees /\ Handed(other)' = tx.fees + owed[id][i]
      BY <1>1, <1>3, <1>5, <1>6, <2>3 DEF Handed
    <3>2. SumFunctionOnSet(owed[id], Slots) \in Int /\ owed[id][i] \in Int
      BY <1>4, <1>6, OwedIntegral DEF IInv, TypeOK
    <3>3. QED
      BY <1>4, <1>7, <1>8, <2>1, <2>2, <2>3, <3>1, <3>2
  <2>4. CASE other # id
    <3>1. Handed(other) = 0 /\ Handed(other)' = 0
      BY <1>3, <1>5, <2>4 DEF Handed
    <3>2. QED
      BY <1>7, <1>8, <2>1, <2>2, <2>4, <3>1
  <2>5. QED
    BY <2>3, <2>4
<1>10. \A other \in PositionIds : saved'.unreported[other] = Owing(saved, other)'
  BY <1>1, <1>8 DEF FInv, FeesAccounted, Owing
<1>11. OpenEarnsNothing'
  <2>1. SUFFICES ASSUME tx.verb = "open" PROVE OpenEarnsNothing'
    BY <1>5 DEF OpenEarnsNothing
  <2>2. /\ tx.fees = 0
        /\ \A j \in tx.todo : pool[id][j] = 0 /\ owed[id][j] = 0
    BY <1>1, <1>3, <2>1 DEF FInv, FeesAccounted, OpenEarnsNothing
  <2>3. tx'.fees = 0
    BY <1>5, <2>2
  <2>4. ASSUME NEW j \in tx.todo \ {i} PROVE pool'[id][j] = 0 /\ owed'[id][j] = 0
    BY <1>2, <1>3, <1>4, <1>6, <2>2 DEF IInv, TypeOK
  <2>5. QED
    BY <1>5, <2>3, <2>4 DEF OpenEarnsNothing
<1>12. QED
  BY <1>9, <1>10, <1>11 DEF FeesAccounted, Snapshot

(* A trade: the bin owes one more, and one more is unreported.             *)
LEMMA TradeFees ==
  ASSUME FInv, NEW id \in PositionIds, NEW i \in Slots, Trade(id, i)
  PROVE  FeesAccounted'
<1>1. /\ pool[id][i] > 0
      /\ owed' = [owed EXCEPT ![id][i] = owed[id][i] + 1]
      /\ unreported' = [unreported EXCEPT ![id] = unreported[id] + 1]
      /\ UNCHANGED <<pool, tx, saved>>
  BY DEF Trade
<1>2. /\ owed \in [PositionIds -> [Slots -> Nat]] /\ owed[id][i] \in Nat
      /\ unreported \in [PositionIds -> Int]
  BY DEF FInv, IInv, TypeOK
<1>3. /\ SumFunctionOnSet(owed'[id], Slots) =
           SumFunctionOnSet(owed[id], Slots) + ((owed[id][i] + 1) - owed[id][i])
      /\ \A other \in PositionIds \ {id} : owed'[other] = owed[other]
  <2>1. owed[id][i] + 1 \in Nat /\ IInv
    BY <1>2 DEF FInv
  <2>2. QED
    BY <1>1, <2>1, OwedMoves
<1>4. ASSUME NEW other \in PositionIds
      PROVE  unreported'[other] = (Owing(Snapshot, other) + Handed(other))'
  <2>1. unreported[other] = SumFunctionOnSet(owed[other], Slots) + Handed(other)
    BY DEF FInv, FeesAccounted, Owing, Snapshot
  <2>2. Owing(Snapshot, other)' = SumFunctionOnSet(owed'[other], Slots)
    BY DEF Owing, Snapshot
  <2>3. Handed(other)' = Handed(other) /\ Handed(other) \in Int
    BY <1>1 DEF Handed, FInv, IInv, TypeOK, Transactions
  <2>4. SumFunctionOnSet(owed[other], Slots) \in Int
    BY <1>2, OwedIntegral
  <2>5. CASE other = id
    BY <1>1, <1>2, <1>3, <2>1, <2>2, <2>3, <2>4, <2>5
  <2>6. CASE other # id
    BY <1>1, <1>2, <1>3, <2>1, <2>2, <2>3, <2>6
  <2>7. QED
    BY <2>5, <2>6
<1>5. tx # NoTx => \A other \in PositionIds : saved'.unreported[other] = Owing(saved, other)'
  BY <1>1 DEF FInv, FeesAccounted, Owing
<1>6. OpenEarnsNothing'
  <2>1. SUFFICES ASSUME tx # NoTx, tx.verb = "open" PROVE OpenEarnsNothing'
    BY <1>1 DEF OpenEarnsNothing
  <2>2. tx.todo \subseteq Slots /\ tx.id \in PositionIds
    BY <2>1 DEF FInv, IInv, TypeOK, Transactions
  <2>3. /\ tx.fees = 0
        /\ \A j \in tx.todo : pool[tx.id][j] = 0 /\ owed[tx.id][j] = 0
    BY <2>1 DEF FInv, FeesAccounted, OpenEarnsNothing
  <2>4. ASSUME NEW j \in tx.todo PROVE owed'[tx.id][j] = 0
    <3>1. ~(tx.id = id /\ j = i)
      BY <1>1, <2>3
    <3>2. QED
      BY <1>1, <1>2, <2>2, <2>3, <3>1
  <2>5. QED
    BY <1>1, <2>3, <2>4 DEF OpenEarnsNothing
<1>7. QED
  BY <1>1, <1>4, <1>5, <1>6 DEF FeesAccounted, Snapshot

(* The event of a verb reports what was handed over.                       *)
LEMMA FinishFees ==
  ASSUME FInv, Finish
  PROVE  FeesAccounted'
<1>1. tx # NoTx /\ tx \in Transactions /\ tx' = NoTx /\ owed' = owed
  BY DEF Finish, FInv, IInv, TypeOK, v4
<1>2. PICK id \in PositionIds : id = tx.id
  BY <1>1 DEF Transactions
<1>3. unreported' = [unreported EXCEPT ![id] =
                       unreported[id] - (IF tx.verb = "open" THEN 0 ELSE tx.fees)]
  BY <1>2 DEF Finish
<1>4. tx.verb = "open" => tx.fees = 0
  BY <1>1 DEF FInv, FeesAccounted, OpenEarnsNothing
<1>5. tx.fees \in Nat
  BY <1>1 DEF Transactions
<1>6. unreported \in [PositionIds -> Int]
  BY DEF FInv, IInv, TypeOK
<1>7. ASSUME NEW other \in PositionIds
      PROVE  unreported'[other] = (Owing(Snapshot, other) + Handed(other))'
  <2>1. unreported[other] = SumFunctionOnSet(owed[other], Slots) + Handed(other)
    BY DEF FInv, FeesAccounted, Owing, Snapshot
  <2>2. Owing(Snapshot, other)' = SumFunctionOnSet(owed[other], Slots) /\ Handed(other)' = 0
    BY <1>1 DEF Owing, Snapshot, Handed
  <2>3. SumFunctionOnSet(owed[other], Slots) \in Int
    BY OwedIntegral DEF FInv, IInv, TypeOK
  <2>4. Handed(other) = IF other = id THEN tx.fees ELSE 0
    BY <1>1, <1>2 DEF Handed
  <2>5. unreported'[other] =
          IF other = id THEN unreported[other] - tx.fees ELSE unreported[other]
    BY <1>3, <1>4, <1>5, <1>6
  <2>6. QED
    BY <1>5, <1>6, <2>1, <2>2, <2>3, <2>4, <2>5
<1>8. QED
  BY <1>1, <1>7 DEF FeesAccounted, OpenEarnsNothing, Snapshot

(* A revert takes back what was earned and handed over inside.             *)
LEMMA RevertFees ==
  ASSUME FInv, Revert
  PROVE  FeesAccounted'
<1>1. /\ tx # NoTx /\ saved \in Storages /\ tx' = NoTx
      /\ owed' = saved.owed /\ unreported' = saved.unreported
  BY DEF Revert, FInv, IInv, TypeOK
<1>2. ASSUME NEW id \in PositionIds
      PROVE  unreported'[id] = (Owing(Snapshot, id) + Handed(id))'
  <2>1. saved.unreported[id] = SumFunctionOnSet(saved.owed[id], Slots)
    BY <1>1 DEF FInv, FeesAccounted, Owing
  <2>2. Owing(Snapshot, id)' = SumFunctionOnSet(saved.owed[id], Slots) /\ Handed(id)' = 0
    BY <1>1 DEF Owing, Snapshot, Handed
  <2>3. SumFunctionOnSet(saved.owed[id], Slots) \in Int
    <3>1. saved.owed[id] \in [Slots -> Nat]
      BY <1>1 DEF Storages
    <3>2. QED
      BY <3>1, OwedIntegral
  <2>4. QED
    BY <1>1, <2>1, <2>2, <2>3
<1>3. QED
  BY <1>1, <1>2 DEF FeesAccounted, OpenEarnsNothing, Snapshot

(* No step loses sight of a fee.                                           *)
LEMMA StepFees == FInv /\ [Next]_vars => FInv'
<1> SUFFICES ASSUME FInv, [Next]_vars PROVE FInv'
  OBVIOUS
<1>1. IInv'
  BY StepInv DEF FInv
<1>2. ASSUME NEW a \in Accounts, NEW ls \in Requests, Open(a, ls) PROVE FeesAccounted'
  BY <1>2, OpenFees
<1>3. ASSUME NEW a \in Accounts, NEW id \in PositionIds, NEW ds \in Requests,
             Increase(a, id, ds)
      PROVE  FeesAccounted'
  <2>1. "increase" # "open"
    OBVIOUS
  <2>2. QED
    BY <1>3, <2>1, EntryFees DEF Increase
<1>4. ASSUME NEW id \in PositionIds, NEW ds, Shrink(id, ds) PROVE FeesAccounted'
  <2>1. "decrease" # "open"
    OBVIOUS
  <2>2. QED
    BY <1>4, <2>1, EntryFees DEF Shrink
<1>5. ASSUME NEW a \in Accounts, NEW id \in PositionIds, NEW ds \in Requests,
             Decrease(a, id, ds)
      PROVE  FeesAccounted'
  BY <1>4, <1>5 DEF Decrease
<1>6. ASSUME NEW a \in Accounts, NEW id \in PositionIds, Close(a, id) PROVE FeesAccounted'
  BY <1>4, <1>6 DEF Close
<1>7. ASSUME NEW a \in Accounts, NEW id \in PositionIds, Collect(a, id) PROVE FeesAccounted'
  <2>1. "collect" # "open"
    OBVIOUS
  <2>2. QED
    BY <1>7, <2>1, EntryFees DEF Collect
<1>8. ASSUME ModifyBin PROVE FeesAccounted'
  BY <1>8, ModifyBinFees
<1>9. ASSUME Finish PROVE FeesAccounted'
  BY <1>9, FinishFees
<1>10. ASSUME Revert PROVE FeesAccounted'
  BY <1>10, RevertFees
<1>11. ASSUME NEW id \in PositionIds, NEW i \in Slots, Trade(id, i) PROVE FeesAccounted'
  BY <1>11, TradeFees
<1>12. ASSUME UNCHANGED vars PROVE FeesAccounted'
  BY <1>12 DEF vars, v4, FInv, FeesAccounted, OpenEarnsNothing, Owing, Handed, Snapshot
<1>13. QED
  BY <1>1, <1>2, <1>3, <1>5, <1>6, <1>7, <1>8, <1>9, <1>10, <1>11, <1>12 DEF Next, FInv

(* However trades, hooks and reverts interleave with the callbacks, every  *)
(* fee a position earned is owed by one of its bins or was reported.       *)
THEOREM FeesReported == Spec => []FeesAllReported
<1>1. FInv => FeesAllReported
  <2>1. SUFFICES ASSUME FInv, tx = NoTx, NEW id \in PositionIds
                 PROVE  unreported[id] = SumFunctionOnSet(owed[id], Slots)
    BY DEF FeesAllReported
  <2>2. unreported[id] = SumFunctionOnSet(owed[id], Slots) + 0
    BY <2>1 DEF FInv, FeesAccounted, Owing, Handed, Snapshot
  <2>3. SumFunctionOnSet(owed[id], Slots) \in Int
    BY <2>1, OwedIntegral DEF FInv, IInv, TypeOK
  <2>4. QED
    BY <2>2, <2>3
<1>2. QED
  BY <1>1, InitFees, StepFees, PTL DEF Spec

-----------------------------------------------------------------------------
(* PositionManager implements PositionBook, for any accounts, bounds and   *)
(* ids.  The inductive invariant above says what each state is like; here  *)
(* it is joined by what the transaction inside has changed since its       *)
(* snapshot, so that its commit can be compared with the book of the       *)
(* snapshot.                                                               *)


(* What the transaction inside has changed so far.                         *)
Pending ==
  /\ \A other \in PositionIds \ {tx.id} :
       /\ owner[other] = saved.owner[other]
       /\ size[other] = saved.size[other]
       /\ pool[other] = saved.pool[other]
  /\ \/ /\ tx.verb = "open"
        /\ ~tx.closes
        /\ tx.id = saved.nextPositionId
        /\ nextPositionId = tx.id + 1
        /\ saved.owner[tx.id] = Nobody
        /\ size[tx.id] \in Slots
        /\ \A i \in Slots : bins[tx.id][i] > 0 <=> i <= size[tx.id]
     \/ /\ saved.owner[tx.id] = owner[tx.id]
        /\ size[tx.id] = saved.size[tx.id]
        /\ nextPositionId = saved.nextPositionId
        /\ \/ \A i \in Slots : bins[tx.id][i] >= saved.pool[tx.id][i]
           \/ \A i \in Slots : bins[tx.id][i] <= saved.pool[tx.id][i]

PInv == IInv /\ (tx # NoTx => Pending)

-----------------------------------------------------------------------------
(* An open begins with a new id and every one of its bins funded.          *)
LEMMA OpenPending ==
  ASSUME IInv, NEW a \in Accounts, NEW ls \in Requests, Open(a, ls)
  PROVE  Pending'
<1>1. PICK id \in PositionIds : id = nextPositionId /\ owner[id] = Nobody
  BY ConstantsAssumption DEF Open, IInv, RecordsOK, Snapshot, TypeOK, PositionIds
<1>2. PICK n \in Slots : DOMAIN ls = 1 .. n /\ size' = [size EXCEPT ![id] = n]
  BY <1>1, ConstantsAssumption DEF Open, Slots
<1>3. tx'.verb = "open" /\ tx'.id = id /\ tx'.closes = FALSE /\ saved' = Snapshot /\ pool' = pool
  BY <1>1 DEF Open, Unlock, v4
<1>4. /\ owner' = [owner EXCEPT ![id] = a]
      /\ nextPositionId' = id + 1
      /\ bins' = [bins EXCEPT ![id] = [i \in Slots |-> At(ls, i)]]
      /\ \A i \in DOMAIN ls : ls[i] # 0
  BY <1>1 DEF Open
<1>5. ASSUME NEW i \in Slots PROVE bins'[id][i] > 0 <=> i <= n
  <2>1. bins'[id][i] = At(ls, i) /\ At(ls, i) \in Nat
    BY <1>4, RequestAmounts DEF IInv, TypeOK
  <2>2. CASE i \in 1 .. n
    BY <1>2, <1>4, <2>1, <2>2 DEF At
  <2>3. CASE i \notin 1 .. n
    BY <1>2, <2>1, <2>3, ConstantsAssumption DEF At, Slots
  <2>4. QED
    BY <2>2, <2>3
<1>6. size'[id] = n
  BY <1>2 DEF IInv, TypeOK
<1>7. \A other \in PositionIds \ {id} :
        owner'[other] = owner[other] /\ size'[other] = size[other]
  BY <1>2, <1>4 DEF IInv, TypeOK
<1>8. QED
  BY <1>1, <1>3, <1>4, <1>5, <1>6, <1>7 DEF Pending, Snapshot

(* The other verbs: the bins of one position grow, shrink or stay.         *)
LEMMA VerbPending ==
  ASSUME IInv, NEW id \in PositionIds, tx = NoTx, tx'.id = id, saved' = Snapshot,
         UNCHANGED <<owner, size, nextPositionId, pool>>,
         \/ \A i \in Slots : bins'[id][i] >= bins[id][i]
         \/ \A i \in Slots : bins'[id][i] <= bins[id][i]
  PROVE  Pending'
<1>1. \A i \in Slots : bins[id][i] = pool[id][i]
  BY DEF IInv, Settled, Snapshot
<1>2. /\ saved'.owner = owner /\ saved'.size = size
      /\ saved'.nextPositionId = nextPositionId /\ saved'.pool = pool
  BY DEF Snapshot
<1>3. QED
  BY <1>1, <1>2 DEF Pending

(* Whatever runs inside the callback, the transaction has changed nothing  *)
(* but its own position since the snapshot.                                *)
LEMMA StepPending == PInv /\ [Next]_vars => PInv'
<1> SUFFICES ASSUME PInv, [Next]_vars PROVE PInv'
  OBVIOUS
<1>1. IInv /\ IInv'
  BY StepInv DEF PInv
<1>2. bins \in [PositionIds -> [Slots -> Nat]]
  BY <1>1 DEF IInv, TypeOK
<1>3. ASSUME NEW a \in Accounts, NEW ls \in Requests, Open(a, ls) PROVE Pending'
  BY <1>1, <1>3, OpenPending
<1>4. ASSUME NEW a \in Accounts, NEW id \in PositionIds, NEW ds \in Requests,
             Increase(a, id, ds)
      PROVE  Pending'
  <2>1. ASSUME NEW i \in Slots PROVE bins'[id][i] >= bins[id][i]
    BY <1>2, <1>4, RequestAmounts DEF Increase
  <2>2. QED
    BY <1>1, <1>4, <2>1, VerbPending DEF Increase, Unlock, v4
<1>5. ASSUME NEW a \in Accounts, NEW id \in PositionIds, NEW ds \in Requests,
             Decrease(a, id, ds)
      PROVE  Pending'
  <2>1. ASSUME NEW i \in Slots PROVE bins'[id][i] <= bins[id][i]
    BY <1>2, <1>5, RequestAmounts DEF Decrease, Shrink
  <2>2. QED
    BY <1>1, <1>5, <2>1, VerbPending DEF Decrease, Shrink, Unlock, v4
<1>6. ASSUME NEW a \in Accounts, NEW id \in PositionIds, Close(a, id) PROVE Pending'
  <2>1. ASSUME NEW i \in Slots PROVE bins'[id][i] <= bins[id][i]
    BY <1>2, <1>6 DEF Close, Shrink, At
  <2>2. QED
    BY <1>1, <1>6, <2>1, VerbPending DEF Close, Shrink, Unlock, v4
<1>7. ASSUME NEW a \in Accounts, NEW id \in PositionIds, Collect(a, id) PROVE Pending'
  BY <1>1, <1>2, <1>7, VerbPending DEF Collect, Unlock, v4, storage
<1>8. ASSUME ModifyBin PROVE Pending'
  <2>1. tx # NoTx /\ tx \in Transactions /\ Pending
    BY <1>1, <1>8 DEF ModifyBin, PInv, IInv, TypeOK
  <2>2. PICK i \in Slots :
          /\ pool' = [pool EXCEPT ![tx.id][i] = pool[tx.id][i] + tx.delta[i]]
          /\ tx' = [tx EXCEPT !.todo = tx.todo \ {i}, !.fees = tx.fees + owed[tx.id][i]]
    BY <1>8, <2>1 DEF ModifyBin, Transactions
  <2>3. tx'.id = tx.id /\ tx'.verb = tx.verb /\ tx'.closes = tx.closes
    BY <2>1, <2>2 DEF Transactions
  <2>4. \A other \in PositionIds \ {tx.id} : pool'[other] = pool[other]
    BY <1>1, <2>2 DEF IInv, TypeOK
  <2>5. UNCHANGED <<owner, size, bins, nextPositionId, saved>>
    BY <1>8 DEF ModifyBin, storage
  <2>6. QED
    BY <2>1, <2>3, <2>4, <2>5 DEF Pending
<1>9. ASSUME Finish \/ Revert PROVE tx' = NoTx
  BY <1>9 DEF Finish, Revert
<1>10. ASSUME NEW id \in PositionIds, NEW i \in Slots, Trade(id, i), tx' # NoTx PROVE Pending'
  BY <1>10 DEF Trade, storage, Pending, PInv
<1>11. ASSUME UNCHANGED vars, tx' # NoTx PROVE Pending'
  BY <1>11 DEF vars, storage, v4, Pending, PInv
<1>12. QED
  BY <1>1, <1>3, <1>4, <1>5, <1>6, <1>7, <1>8, <1>9, <1>10, <1>11 DEF Next, PInv

(* So it is in every reachable state.                                      *)
LEMMA PendingInvariance == Spec => []PInv
<1>1. Init => PInv
  BY InitInv DEF PInv, Init
<1>2. QED
  BY <1>1, StepPending, PTL DEF Spec

-----------------------------------------------------------------------------
(* Refinement.                                                             *)

(* The account whose list holds an id is the owner in the id's record.     *)
LEMMA HolderIsOwner ==
  ASSUME NEW s \in Storages, ListsOK(s), NEW id \in PositionIds
  PROVE  Holder(s.ownerIds, id) = s.owner[id]
<1>1. /\ s.owner \in [PositionIds -> Accounts \cup {Nobody}]
      /\ s.ownerIds \in [Accounts -> Seq(PositionIds)]
  BY DEF Storages
<1>2. \A a \in Accounts : a \in Listing(s.ownerIds, id) => s.owner[id] = a
  BY DEF ListsOK, Listing
<1>3. s.owner[id] # Nobody => s.owner[id] \in Accounts /\ s.owner[id] \in Listing(s.ownerIds, id)
  BY <1>1 DEF ListsOK, Listing
<1>4. CASE Listing(s.ownerIds, id) = {}
  BY <1>3, <1>4 DEF Holder
<1>5. CASE Listing(s.ownerIds, id) # {}
  <2>1. PICK a \in Accounts : a \in Listing(s.ownerIds, id)
    BY <1>5 DEF Listing
  <2>2. (CHOOSE b \in Accounts : b \in Listing(s.ownerIds, id)) = a
    BY <1>2, <2>1
  <2>3. QED
    BY <1>2, <1>5, <2>1, <2>2 DEF Holder
<1>6. QED
  BY <1>4, <1>5

(* The book's holders.                                                     *)
Holders == [id \in PositionIds |-> Holder(Committed.ownerIds, id)]

(* The committed state is typed and its holders are its owners.            *)
LEMMA CommittedOK == PInv => Committed \in Storages /\ Holders = Committed.owner
<1> SUFFICES ASSUME PInv PROVE Committed \in Storages /\ Holders = Committed.owner
  OBVIOUS
<1>1. Committed \in Storages /\ ListsOK(Committed)
  <2>1. CASE tx = NoTx
    BY <2>1 DEF Committed, PInv, IInv, TypeOK, Snapshot, Storages
  <2>2. CASE tx # NoTx
    BY <2>2 DEF Committed, PInv, IInv, TypeOK, AtRest
  <2>3. QED
    BY <2>1, <2>2
<1>2. \A id \in PositionIds : Holder(Committed.ownerIds, id) = Committed.owner[id]
  BY <1>1, HolderIsOwner
<1>3. Committed.owner \in [PositionIds -> Accounts \cup {Nobody}]
  BY <1>1 DEF Storages
<1>4. QED
  BY <1>1, <1>2, <1>3 DEF Holders

(* The same of the next state.                                             *)
LEMMA CommittedOKNext == (PInv => Committed \in Storages /\ Holders = Committed.owner)'
BY CommittedOK, PTL

(* The empty manager is the empty book.                                    *)
LEMMA InitBook == Init => Book!Init
<1> SUFFICES ASSUME Init PROVE Book!Init
  OBVIOUS
<1>1. PInv /\ Committed = Snapshot
  BY InitInv DEF PInv, Init, Committed
<1>2. [id \in PositionIds |-> Holder(Committed.ownerIds, id)] = owner
  BY <1>1, CommittedOK DEF Snapshot, Holders
<1>3. QED
  BY <1>1, <1>2
  DEF Init, Snapshot, Book!Init, Book!PositionIds, Book!NoLiquidity, Book!Slots,
      PositionIds, Slots, NoAmounts

(* What a commit leaves in the book, and what it found there.              *)
LEMMA Commit ==
  ASSUME PInv, PInv', Finish
  PROVE  \E id \in PositionIds :
           /\ id = tx.id
           /\ tx # NoTx /\ Pending /\ MidCallback /\ saved \in Storages
           /\ ListsOK(saved)
           /\ Committed = saved
           /\ Committed' = Snapshot'
           /\ Holders = saved.owner
           /\ Holders' = owner'
           /\ \A i \in Slots : bins[id][i] = pool[id][i]
           /\ pool' = pool
           /\ pool' = [saved.pool EXCEPT ![id] = pool[id]]
           /\ pool[id] \in [Slots -> Nat]
<1>1. /\ tx # NoTx /\ tx \in Transactions /\ tx.todo = {}
      /\ MidCallback /\ AtRest(saved) /\ saved \in Storages /\ Pending
  BY DEF Finish, PInv, IInv, TypeOK
<1>2. PICK id \in PositionIds : id = tx.id
  BY <1>1 DEF Transactions
<1>3. Committed = saved /\ Committed' = Snapshot'
  BY <1>1 DEF Committed, Finish
<1>4. Holders = saved.owner /\ Holders' = owner'
  BY <1>3, CommittedOK, CommittedOKNext DEF Snapshot
<1>5. \A i \in Slots : bins[id][i] = pool[id][i]
  BY <1>1, <1>2 DEF MidCallback
<1>6. pool' = pool
  BY DEF Finish, v4
<1>7. pool \in [PositionIds -> [Slots -> Nat]] /\ saved.pool \in [PositionIds -> [Slots -> Nat]]
  BY <1>1 DEF PInv, IInv, TypeOK, Storages
<1>8. pool = [saved.pool EXCEPT ![id] = pool[id]]
  BY <1>1, <1>2, <1>7 DEF Pending
<1>9. QED
  BY <1>1, <1>2, <1>3, <1>4, <1>5, <1>6, <1>7, <1>8 DEF AtRest

(* Each commit is a step of the book: an open is its Open, the removal of  *)
(* an emptied record its Exit, anything else its Adjust.                   *)
LEMMA FinishInBook ==
  ASSUME PInv, PInv', Finish
  PROVE  Book!Next
<1>1. PICK id \in PositionIds :
           /\ id = tx.id
           /\ tx # NoTx /\ Pending /\ MidCallback /\ saved \in Storages
           /\ ListsOK(saved)
           /\ Committed = saved
           /\ Committed' = Snapshot'
           /\ Holders = saved.owner
           /\ Holders' = owner'
           /\ \A i \in Slots : bins[id][i] = pool[id][i]
           /\ pool' = pool
           /\ pool' = [saved.pool EXCEPT ![id] = pool[id]]
           /\ pool[id] \in [Slots -> Nat]
  BY Commit
<1>2. /\ owner \in [PositionIds -> Accounts \cup {Nobody}]
      /\ size \in [PositionIds -> 0 .. MaxBins]
      /\ saved.owner \in [PositionIds -> Accounts \cup {Nobody}]
      /\ saved.size \in [PositionIds -> 0 .. MaxBins]
      /\ saved.pool \in [PositionIds -> [Slots -> Nat]]
      /\ pool \in [PositionIds -> [Slots -> Nat]]
  BY <1>1 DEF PInv, IInv, TypeOK, Storages
<1>3. /\ Committed.pool = saved.pool /\ Committed'.pool = pool
      /\ Committed.size = saved.size /\ Committed'.size = size'
      /\ Committed.nextPositionId = saved.nextPositionId
      /\ Committed'.nextPositionId = nextPositionId'
  BY <1>1 DEF Snapshot
<1>4. /\ owner[id] \in Accounts
      /\ tx.closes <=> \A i \in Slots : pool[id][i] = 0
      /\ pool'[id] = pool[id]
  BY <1>1, <1>2 DEF MidCallback
<1>5. Book!PositionIds = PositionIds /\ Book!Slots = Slots
  BY DEF Book!PositionIds, Book!Slots, PositionIds, Slots
<1>6. Book!OnlyLiquidityOf(id)
  BY <1>1, <1>2, <1>3, <1>4, <1>5 DEF Book!OnlyLiquidityOf
<1>7. CASE /\ ~tx.closes
           /\ id = saved.nextPositionId
           /\ nextPositionId = id + 1
           /\ saved.owner[id] = Nobody
           /\ size[id] \in Slots
           /\ \A i \in Slots : bins[id][i] > 0 <=> i <= size[id]
  <2>1. owner' = owner /\ size' = size /\ nextPositionId' = nextPositionId
    BY <1>7 DEF Finish, storage
  <2>2. owner = [saved.owner EXCEPT ![id] = owner[id]]
    BY <1>1, <1>2 DEF Pending
  <2>3. size = [saved.size EXCEPT ![id] = size[id]]
    BY <1>1, <1>2 DEF Pending
  <2>4. \A i \in Slots : pool[id][i] > 0 <=> i <= size[id]
    BY <1>1, <1>7
  <2>5. Book!Open(owner[id], id)
    BY <1>1, <1>3, <1>4, <1>5, <1>6, <1>7, <2>1, <2>2, <2>3, <2>4 DEF Book!Open, Holders
  <2>6. QED
    BY <1>4, <1>5, <2>5 DEF Book!Next
<1>8. CASE /\ saved.owner[id] = owner[id]
           /\ size[id] = saved.size[id]
           /\ nextPositionId = saved.nextPositionId
           /\ \/ \A i \in Slots : bins[id][i] >= saved.pool[id][i]
              \/ \A i \in Slots : bins[id][i] <= saved.pool[id][i]
  <2>1. owner = saved.owner /\ size = saved.size
    BY <1>1, <1>2, <1>8 DEF Pending
  <2>2. CASE tx.closes
    <3>1. /\ owner' = [owner EXCEPT ![id] = Nobody]
          /\ size' = [size EXCEPT ![id] = 0]
          /\ nextPositionId' = nextPositionId
      BY <1>1, <2>2 DEF Finish, Remove
    <3>2. pool[id] = Book!NoLiquidity
      BY <1>1, <1>4, <1>5, <2>2 DEF Book!NoLiquidity
    <3>3. /\ Holders[id] # Nobody
          /\ Holders' = [Holders EXCEPT ![id] = Nobody]
          /\ Committed'.size = [Committed.size EXCEPT ![id] = 0]
          /\ Committed'.pool = [Committed.pool EXCEPT ![id] = Book!NoLiquidity]
          /\ Committed'.nextPositionId = Committed.nextPositionId
      BY <1>1, <1>3, <1>4, <1>8, <2>1, <3>1, <3>2, ConstantsAssumption
    <3>4. Book!Exit(id)
      BY <3>3 DEF Book!Exit, Holders
    <3>5. QED
      BY <1>5, <3>4 DEF Book!Next
  <2>3. CASE ~tx.closes
    <3>1. owner' = owner /\ size' = size /\ nextPositionId' = nextPositionId
      BY <2>3 DEF Finish, storage
    <3>2. \E i \in Slots : pool[id][i] > 0
      BY <1>1, <1>4, <2>3
    <3>3. \A i \in Slots : i > size[id] => pool[id][i] = 0
      BY <1>1 DEF PInv, IInv, RecordsOK, Snapshot
    <3>4. \/ \A i \in Slots : pool[id][i] >= saved.pool[id][i]
          \/ \A i \in Slots : pool[id][i] <= saved.pool[id][i]
      BY <1>1, <1>8
    <3>5. /\ Holders[id] # Nobody
          /\ Holders' = Holders
          /\ Committed'.size = Committed.size
          /\ Committed'.nextPositionId = Committed.nextPositionId
      BY <1>1, <1>3, <1>4, <1>8, <2>1, <3>1, ConstantsAssumption
    <3>6. /\ \E i \in Slots : Committed'.pool[id][i] > 0
          /\ \A i \in Slots : i > Committed.size[id] => Committed'.pool[id][i] = 0
          /\ \/ \A i \in Slots : Committed'.pool[id][i] >= Committed.pool[id][i]
             \/ \A i \in Slots : Committed'.pool[id][i] <= Committed.pool[id][i]
      BY <1>3, <2>1, <3>2, <3>3, <3>4
    <3>7. Book!Adjust(id)
      BY <1>5, <1>6, <3>5, <3>6 DEF Book!Adjust, Holders
    <3>8. QED
      BY <1>5, <3>7 DEF Book!Next
  <2>4. QED
    BY <2>2, <2>3
<1>9. QED
  BY <1>1, <1>7, <1>8 DEF Pending

(* Only the fields the book shows matter.                                  *)
LEMMA StutterInBook ==
  ASSUME /\ Committed'.ownerIds = Committed.ownerIds
         /\ Committed'.pool = Committed.pool
         /\ Committed'.size = Committed.size
         /\ Committed'.nextPositionId = Committed.nextPositionId
  PROVE  UNCHANGED Book!vars
BY DEF Book!vars

(* A verb's entry leaves the committed state as it was: its effects wait   *)
(* for the commit.                                                         *)
LEMMA EntryInBook ==
  ASSUME PInv, NEW verb \in {"open", "increase", "decrease", "collect"},
         NEW id \in PositionIds, NEW delta \in [Slots -> Int],
         NEW todo \in SUBSET Slots, NEW closes \in BOOLEAN,
         Unlock(verb, id, delta, todo, closes)
  PROVE  UNCHANGED Book!vars
<1>1. tx = NoTx /\ tx' # NoTx /\ saved' = Snapshot
  BY UnlockInv DEF PInv, Unlock
<1>2. Committed' = Committed
  BY <1>1 DEF Committed
<1>3. QED
  BY <1>2, StutterInBook

(* So no entry of a verb shows in the book.                                *)
LEMMA VerbsInBook ==
  ASSUME PInv,
         \/ \E a \in Accounts, ls \in Requests : Open(a, ls)
         \/ \E a \in Accounts, id \in PositionIds, ds \in Requests :
              Increase(a, id, ds) \/ Decrease(a, id, ds)
         \/ \E a \in Accounts, id \in PositionIds : Close(a, id) \/ Collect(a, id)
  PROVE  UNCHANGED Book!vars
<1>1. IInv
  BY DEF PInv
<1>3. ASSUME NEW a \in Accounts, NEW ls \in Requests, Open(a, ls) PROVE UNCHANGED Book!vars
  <2>1. PICK id \in PositionIds : id = nextPositionId
    BY <1>1, <1>3, ConstantsAssumption DEF Open, IInv, RecordsOK, Snapshot, TypeOK, PositionIds
  <2>2. DOMAIN ls \in SUBSET Slots
    BY <1>3, ConstantsAssumption DEF Open, Slots
  <2>3. [i \in Slots |-> At(ls, i)] \in [Slots -> Int]
    BY RequestAmounts
  <2>4. Unlock("open", id, [i \in Slots |-> At(ls, i)], DOMAIN ls, FALSE)
    BY <1>3, <2>1 DEF Open
  <2>5. QED
    BY <2>2, <2>3, <2>4, EntryInBook
<1>4. ASSUME NEW a \in Accounts, NEW id \in PositionIds, NEW ds \in Requests, Increase(a, id, ds)
      PROVE  UNCHANGED Book!vars
  <2>1. [i \in Slots |-> At(ds, i)] \in [Slots -> Int]
    BY RequestAmounts
  <2>2. {i \in 1 .. size[id] : bins[id][i] > 0 \/ ds[i] > 0} \in SUBSET Slots
    BY <1>1, ConstantsAssumption DEF IInv, TypeOK, Slots
  <2>3. QED
    BY <1>4, <2>1, <2>2, EntryInBook DEF Increase
<1>5. ASSUME NEW a \in Accounts, NEW id \in PositionIds, NEW ds,
             \A i \in Slots : At(ds, i) \in Nat, Shrink(id, ds)
      PROVE  UNCHANGED Book!vars
  <2>1. [i \in Slots |-> -At(ds, i)] \in [Slots -> Int]
    BY <1>5
  <2>2. {i \in 1 .. size[id] : bins[id][i] > 0} \in SUBSET Slots
    BY <1>1, ConstantsAssumption DEF IInv, TypeOK, Slots
  <2>3. QED
    BY <1>5, <2>1, <2>2, EntryInBook DEF Shrink
<1>6. ASSUME NEW a \in Accounts, NEW id \in PositionIds, NEW ds \in Requests, Decrease(a, id, ds)
      PROVE  UNCHANGED Book!vars
  BY <1>5, <1>6, RequestAmounts DEF Decrease
<1>7. ASSUME NEW a \in Accounts, NEW id \in PositionIds, Close(a, id)
      PROVE  UNCHANGED Book!vars
  <2>1. \A i \in Slots : At([j \in 1 .. size[id] |-> bins[id][j]], i) \in Nat
    BY <1>1 DEF IInv, TypeOK, At
  <2>2. QED
    BY <1>5, <1>7, <2>1 DEF Close
<1>8. ASSUME NEW a \in Accounts, NEW id \in PositionIds, Collect(a, id)
      PROVE  UNCHANGED Book!vars
  <2>1. NoAmounts \in [Slots -> Int]
    BY DEF NoAmounts
  <2>2. {i \in 1 .. size[id] : bins[id][i] > 0} \in SUBSET Slots
    BY <1>1, ConstantsAssumption DEF IInv, TypeOK, Slots
  <2>3. QED
    BY <1>8, <2>1, <2>2, EntryInBook DEF Collect
<1>9. QED
  BY <1>3, <1>4, <1>6, <1>7, <1>8

(* Every step of the manager is a step of the book or leaves it alone.     *)
LEMMA StepInBook == PInv /\ PInv' /\ [Next]_vars => [Book!Next]_Book!vars
<1> SUFFICES ASSUME PInv, PInv', [Next]_vars PROVE [Book!Next]_Book!vars
  OBVIOUS
<1>1. CASE ModifyBin
  <2>1. Committed' = Committed
    <3>1. tx # NoTx /\ saved' = saved
      BY <1>1 DEF ModifyBin
    <3>2. tx \in Transactions /\ owed \in [PositionIds -> [Slots -> Nat]]
      BY <3>1 DEF PInv, IInv, TypeOK
    <3>3. PICK i \in Slots :
            tx' = [tx EXCEPT !.todo = tx.todo \ {i}, !.fees = tx.fees + owed[tx.id][i]]
      BY <1>1, <3>2 DEF ModifyBin, Transactions
    <3>4. tx' # NoTx
      <4>1. owed[tx.id][i] \in Nat
        BY <3>2 DEF Transactions
      <4>2. QED
        BY <3>2, <3>3, <4>1, BinDone
    <3>5. QED
      BY <3>1, <3>4 DEF Committed
  <2>2. QED
    BY <2>1, StutterInBook
<1>2. CASE Finish
  BY <1>2, FinishInBook
<1>3. CASE Revert
  <2>1. tx # NoTx /\ tx' = NoTx
    BY <1>3 DEF Revert
  <2>2. Committed = saved /\ Committed' = Snapshot'
    BY <2>1 DEF Committed
  <2>3. QED
    BY <1>3, <2>2, StutterInBook DEF Revert, Snapshot
<1>4. ASSUME NEW id \in PositionIds, NEW i \in Slots, Trade(id, i)
      PROVE  UNCHANGED Book!vars
  BY <1>4, StutterInBook DEF Trade, storage, Committed, Snapshot
<1>5. CASE UNCHANGED vars
  BY <1>5, StutterInBook DEF vars, storage, v4, Committed, Snapshot
<1>6. QED
  BY <1>1, <1>2, <1>3, <1>4, <1>5, VerbsInBook DEF Next

(* An id that was issued and is not in use any more stays unused: no       *)
(* sequence of verbs, callbacks and reverts revives it, and what committed *)
(* transactions issued is never issued again.                              *)
THEOREM IdsSafe == Spec => IdsNeverReused
<1> DEFINE Unrevived == \A id \in PositionIds :
             id < nextPositionId /\ owner[id] = Nobody => owner'[id] = Nobody
       Issued == Committed'.nextPositionId >= Committed.nextPositionId
<1>1. PInv /\ [Next]_vars => [Unrevived]_vars
  <2> SUFFICES ASSUME PInv, Next, NEW id \in PositionIds,
                      id < nextPositionId, owner[id] = Nobody
               PROVE  owner'[id] = Nobody
    OBVIOUS
  <2>1. owner \in [PositionIds -> Accounts \cup {Nobody}] /\ nextPositionId \in Nat
    BY DEF PInv, IInv, TypeOK
  <2>2. ASSUME NEW a \in Accounts, NEW ls \in Requests, Open(a, ls) PROVE owner'[id] = Nobody
    <3>1. id # nextPositionId
      BY <2>1 DEF PositionIds
    <3>2. QED
      BY <2>1, <2>2, <3>1 DEF Open
  <2>3. ASSUME NEW a \in Accounts, NEW other \in PositionIds, NEW ds \in Requests,
               Increase(a, other, ds) \/ Decrease(a, other, ds)
        PROVE  owner'[id] = Nobody
    BY <2>3 DEF Increase, Decrease, Shrink
  <2>4. ASSUME NEW a \in Accounts, NEW other \in PositionIds,
               Close(a, other) \/ Collect(a, other)
        PROVE  owner'[id] = Nobody
    BY <2>4 DEF Close, Shrink, Collect, storage
  <2>5. CASE ModifyBin
    BY <2>5 DEF ModifyBin, storage
  <2>6. CASE Finish
    <3>1. owner' = owner \/ owner' = [owner EXCEPT ![tx.id] = Nobody]
      BY <2>6 DEF Finish, Remove, storage
    <3>2. QED
      BY <2>1, <3>1
  <2>7. CASE Revert
    <3>1. tx # NoTx /\ tx \in Transactions /\ Pending /\ MidCallback
      BY <2>7 DEF Revert, PInv, IInv, TypeOK
    <3>2. tx.id # id
      BY <3>1 DEF MidCallback
    <3>3. QED
      BY <2>7, <3>1, <3>2 DEF Revert, Pending
  <2>8. ASSUME NEW other \in PositionIds, NEW i \in Slots, Trade(other, i)
        PROVE  owner'[id] = Nobody
    BY <2>8 DEF Trade, storage
  <2>9. QED
    BY <2>2, <2>3, <2>4, <2>5, <2>6, <2>7, <2>8 DEF Next
<1>2. PInv /\ PInv' /\ [Next]_vars => [Issued]_vars
  <2> SUFFICES ASSUME PInv, PInv', [Next]_vars PROVE Issued
    OBVIOUS
  <2>1. Committed.nextPositionId \in Nat
    BY CommittedOK DEF Storages
  <2>2. CASE Book!Next
    <3>1. \/ Committed'.nextPositionId = Committed.nextPositionId + 1
          \/ Committed'.nextPositionId = Committed.nextPositionId
      <4>1. PICK id \in Book!PositionIds :
              (\E a \in Accounts : Book!Open(a, id)) \/ Book!Adjust(id) \/ Book!Exit(id)
        BY <2>2 DEF Book!Next
      <4>2. ASSUME NEW a \in Accounts, Book!Open(a, id)
            PROVE  Committed'.nextPositionId = Committed.nextPositionId + 1
        BY <4>2 DEF Book!Open
      <4>3. ASSUME Book!Adjust(id) \/ Book!Exit(id)
            PROVE  Committed'.nextPositionId = Committed.nextPositionId
        BY <4>3 DEF Book!Adjust, Book!Exit
      <4>4. QED
        BY <4>1, <4>2, <4>3
    <3>2. QED
      BY <2>1, <3>1
  <2>3. CASE UNCHANGED Book!vars
    BY <2>1, <2>3 DEF Book!vars
  <2>4. QED
    BY <2>2, <2>3, StepInBook
<1>3. PInv /\ PInv' /\ [Next]_vars
        => [/\ Committed'.nextPositionId >= Committed.nextPositionId
            /\ \A id \in PositionIds :
                 id < nextPositionId /\ owner[id] = Nobody => owner'[id] = Nobody]_vars
  BY <1>1, <1>2
<1>4. QED
  BY <1>3, PendingInvariance, PTL DEF Spec, IdsNeverReused

(* Whatever hooks and tokens do in between, and whatever reverts, each     *)
(* verb takes effect as one step of the book or not at all.                *)
THEOREM Refinement == Spec => ImplementsBook
<1>1. PInv /\ PInv' /\ [Next]_vars => [Book!Next]_Book!vars
  BY StepInBook
<1>2. QED
  BY <1>1, InitBook, PendingInvariance, PTL DEF Spec, ImplementsBook, Book!Spec
=============================================================================
